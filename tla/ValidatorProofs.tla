---------------------------- MODULE ValidatorProofs ----------------------------
(***************************************************************************)
(* Proofs about PunchValidator, for every limit, every length of the       *)
(* window, any number of punches and employees, and any outages of the     *)
(* cloud: its types, and the bound on what is let through.                 *)
(***************************************************************************)
EXTENDS PunchValidator, TLAPS

(***************************************************************************)
(* Windows                                                                 *)
(***************************************************************************)

Window == [Ages -> Nat]

\* The ages are those of one whole window.
LEMMA AgesOfWindow ==
  /\ WindowTicks \in Nat /\ 0 \in Ages /\ WindowTicks - 1 \in Ages
  /\ \A a \in Ages : a \in Nat /\ a <= WindowTicks - 1
  /\ \A a \in Ages : a # 0 => a - 1 \in Ages
  BY ValidatorAssumption DEF Ages

\* Recording and ageing keep a window, and what they make of each count.
LEMMA WindowSteps ==
  ASSUME NEW w \in Window
  PROVE  /\ Pushed(w) \in Window
         /\ \A a \in Ages : Pushed(w)[a] = w[a] + 1
         /\ Aged(w) \in Window
         /\ \A a \in Ages : Aged(w)[a] = IF a = 0 THEN 0 ELSE w[a - 1]
         /\ \A a \in Ages : w[a] \in Nat
<1>1. \A a \in Ages : w[a] \in Nat
  BY DEF Window
<1>2. \A a \in Ages : Pushed(w)[a] = w[a] + 1 /\ Pushed(w)[a] \in Nat
  BY <1>1 DEF Pushed
<1>3. Pushed(w) \in Window
  BY <1>1 DEF Pushed, Window
<1>4. \A a \in Ages : (IF a = 0 THEN 0 ELSE w[a - 1]) \in Nat
  BY <1>1, AgesOfWindow
<1>5. Aged(w) \in Window /\ \A a \in Ages : Aged(w)[a] = IF a = 0 THEN 0 ELSE w[a - 1]
  BY <1>4 DEF Aged, Window
<1> QED
  BY <1>1, <1>2, <1>3, <1>5

\* What was admitted within an age was checked within it, and within any
\* longer one.
Admits(adm, w) ==
  /\ adm \in Window
  /\ w \in Window
  /\ \A a \in Ages : adm[a] <= w[a]
  /\ \A a, b \in Ages : a <= b => adm[a] <= adm[b]

\* An admission is a check.
LEMMA AdmissionCounted ==
  ASSUME NEW adm, NEW w, Admits(adm, w)
  PROVE  /\ Admits(adm, Pushed(w))
         /\ Admits(Pushed(adm), Pushed(w))
         /\ Total(Pushed(adm)) <= Total(Pushed(w))
<1>1. adm \in Window /\ w \in Window
  BY DEF Admits
<1>2. /\ Pushed(adm) \in Window /\ Pushed(w) \in Window
      /\ \A a \in Ages : /\ Pushed(adm)[a] = adm[a] + 1 /\ Pushed(w)[a] = w[a] + 1
                         /\ adm[a] \in Nat /\ w[a] \in Nat /\ adm[a] <= w[a]
  BY <1>1, WindowSteps DEF Admits
<1>3. \A a, b \in Ages : a <= b => adm[a] <= adm[b]
  BY DEF Admits
<1>4. \A a \in Ages : adm[a] <= Pushed(w)[a] /\ Pushed(adm)[a] <= Pushed(w)[a]
  BY <1>2
<1>5. \A a, b \in Ages : a <= b => Pushed(adm)[a] <= Pushed(adm)[b]
  BY <1>2, <1>3
<1> QED
  BY <1>1, <1>2, <1>3, <1>4, <1>5, AgesOfWindow DEF Admits, Total

\* A tick later no more was admitted.
LEMMA AdmissionAged ==
  ASSUME NEW adm, NEW w, Admits(adm, w)
  PROVE  /\ Admits(Aged(adm), Aged(w))
         /\ Total(Aged(adm)) <= Total(adm)
<1>1. adm \in Window /\ w \in Window
  BY DEF Admits
<1>2. /\ Aged(adm) \in Window /\ Aged(w) \in Window
      /\ \A a \in Ages : /\ Aged(adm)[a] = IF a = 0 THEN 0 ELSE adm[a - 1]
                         /\ Aged(w)[a] = IF a = 0 THEN 0 ELSE w[a - 1]
                         /\ adm[a] \in Nat /\ w[a] \in Nat
  BY <1>1, WindowSteps
<1>3. \A a \in Ages : Aged(adm)[a] <= Aged(w)[a]
  BY <1>2, AgesOfWindow DEF Admits
<1>4. ASSUME NEW a \in Ages, NEW b \in Ages, a <= b
      PROVE  Aged(adm)[a] <= Aged(adm)[b]
  <2>1. CASE a = 0
    BY <1>2, <2>1, AgesOfWindow
  <2>2. CASE a # 0
    <3>1. b # 0 /\ a - 1 \in Ages /\ b - 1 \in Ages /\ a - 1 <= b - 1
      BY <1>4, <2>2, AgesOfWindow
    <3>2. adm[a - 1] <= adm[b - 1]
      BY <3>1 DEF Admits
    <3> QED
      BY <1>2, <2>2, <3>1, <3>2
  <2> QED BY <2>1, <2>2
<1>5. Total(Aged(adm)) <= Total(adm)
  <2> DEFINE l == WindowTicks - 1
  <2>1. l \in Ages /\ (l # 0 => l - 1 \in Ages /\ l - 1 <= l)
    BY AgesOfWindow
  <2>2. l # 0 => adm[l - 1] <= adm[l]
    BY <2>1 DEF Admits
  <2> QED
    BY <1>2, <2>1, <2>2 DEF Total
<1> QED
  BY <1>2, <1>3, <1>4, <1>5 DEF Admits

\* Totals are numbers, and an admission that passes a limit with its check
\* stays within it.
LEMMA Bounded ==
  ASSUME NEW adm, NEW w, Admits(adm, w), NEW limit \in Nat
  PROVE  /\ Total(adm) \in Nat /\ Total(Aged(adm)) \in Nat
         /\ ~(Total(Pushed(w)) > limit) =>
              Admits(Pushed(adm), Pushed(w)) /\ Total(Pushed(adm)) <= limit
<1>1. adm \in Window /\ w \in Window
  BY DEF Admits
<1>2. /\ Total(adm) \in Nat /\ Total(Aged(adm)) \in Nat
      /\ Total(Pushed(adm)) \in Nat /\ Total(Pushed(w)) \in Nat
  <2>1. \A v \in Window : Total(v) \in Nat
    BY AgesOfWindow, WindowSteps DEF Total
  <2> QED BY <1>1, <2>1, WindowSteps
<1> QED
  BY <1>2, AdmissionCounted

\* A process starts with empty windows.
LEMMA EmptyAdmits == Admits(Empty, Empty) /\ Total(Empty) = 0
<1>1. Empty \in Window /\ \A a \in Ages : Empty[a] = 0
  BY DEF Empty, Window
<1> QED
  BY <1>1, AgesOfWindow DEF Admits, Total

(***************************************************************************)
(* Types                                                                   *)
(***************************************************************************)

\* The validator's variables stay well formed: the punches a tick read or a
\* live job carries are still waiting for the cloud, which is what keeps a
\* punch from being sent again once it is marked synced.
THEOREM ValidatorTypes == Spec => []TypeOK
<1> USE DEF Window
<1>1. Init => TypeOK
  BY EmptyAdmits DEF Init, TypeOK, Admits, Unsynced
<1>2. TypeOK /\ [Next]_vars => TypeOK'
  <2> SUFFICES ASSUME TypeOK, [Next]_vars
               PROVE  TypeOK'
    OBVIOUS
  <2>0. /\ punch \in [Punches -> {"absent", "unsynced", "synced"}]
        /\ queued \subseteq Unsynced /\ batch \subseteq Unsynced
        /\ tripped \in BOOLEAN
        /\ deviceWindow \in Window /\ admitted \in Window
        /\ employeeWindow \in [Employees -> Window]
        /\ admittedOf \in [Employees -> Window]
    BY DEF TypeOK
  <2>1. ASSUME NEW p \in Punches, Collect(p) PROVE TypeOK'
    BY <2>0, <2>1 DEF Collect, history, TypeOK, Unsynced
  <2>2. CASE Tick
    <3>1. batch' \subseteq Unsynced'
      BY <2>2 DEF Tick, Oldest, Unsynced
    <3>2. queued' \subseteq Unsynced' /\ UNCHANGED <<punch, tripped>>
      BY <2>0, <2>2 DEF Tick, Unsynced
    <3>3. deviceWindow' \in Window /\ admitted' \in Window
      BY <2>0, <2>2, WindowSteps DEF Tick
    <3>4. employeeWindow' \in [Employees -> Window] /\ admittedOf' \in [Employees -> Window]
      BY <2>0, <2>2, WindowSteps DEF Tick
    <3> QED
      BY <2>0, <3>1, <3>2, <3>3, <3>4 DEF TypeOK
  <2>3. CASE Validate
    <3>1. PICK p \in batch : RejectInvalid(p) \/ RejectRate(p) \/ RejectFlood(p) \/ Accept(p)
      BY <2>3 DEF Validate
    <3>2. p \in Unsynced /\ p \in Punches /\ Employee[p] \in Employees
      BY <2>0, ValidatorAssumption DEF Unsynced
    <3>3. /\ batch' \subseteq Unsynced' /\ queued' \subseteq Unsynced'
          /\ UNCHANGED <<punch, tripped>>
      BY <2>0, <3>1, <3>2 DEF RejectInvalid, RejectRate, RejectFlood, Rejected, Accept, Unsynced
    <3>4. /\ deviceWindow' \in {deviceWindow, Pushed(deviceWindow)}
          /\ admitted' \in {admitted, Pushed(admitted)}
      BY <3>1 DEF RejectInvalid, RejectRate, RejectFlood, Rejected, Accept, history
    <3>5. \/ employeeWindow' = employeeWindow
          \/ employeeWindow' = [employeeWindow EXCEPT ![Employee[p]] = Pushed(@)]
      BY <3>1 DEF RejectInvalid, RejectRate, RejectFlood, Rejected, Accept
    <3>6. \/ admittedOf' = admittedOf
          \/ admittedOf' = [admittedOf EXCEPT ![Employee[p]] = Pushed(@)]
      BY <3>1 DEF RejectInvalid, RejectRate, RejectFlood, Rejected, Accept, history
    <3>7. \A f \in [Employees -> Window] :
            [f EXCEPT ![Employee[p]] = Pushed(@)] \in [Employees -> Window]
      BY <3>2, WindowSteps
    <3>8. deviceWindow' \in Window /\ admitted' \in Window
      BY <2>0, <3>4, WindowSteps
    <3> HIDE DEF Window
    <3>9. employeeWindow' \in [Employees -> Window]
      <4>1. employeeWindow \in [Employees -> Window]
        BY <2>0
      <4> QED BY <3>5, <3>7, <4>1, Zenon
    <3>10. admittedOf' \in [Employees -> Window]
      <4>1. admittedOf \in [Employees -> Window]
        BY <2>0
      <4> QED BY <3>6, <3>7, <4>1, Zenon
    <3> QED
      BY <2>0, <3>3, <3>8, <3>9, <3>10 DEF TypeOK, Window
  <2>4. CASE Deliver
    <3>1. punch' \in [Punches -> {"absent", "unsynced", "synced"}]
      BY <2>0, <2>4 DEF Deliver, Confirmed
    <3>2. queued' = {} /\ batch' = {}
      BY <2>4 DEF Deliver, Sending
    <3> QED
      BY <2>0, <2>4, <3>1, <3>2 DEF Deliver, history, TypeOK
  <2>5. CASE SendFails
    <3>1. queued' \subseteq queued /\ tripped' \in BOOLEAN
      BY <2>5 DEF SendFails
    <3>2. UNCHANGED <<punch, batch, deviceWindow, employeeWindow, admitted, admittedOf>>
      BY <2>5 DEF SendFails, history
    <3> QED
      BY <2>0, <3>1, <3>2 DEF TypeOK, Unsynced
  <2>6. CASE UNCHANGED vars
    BY <2>0, <2>6 DEF vars, history, TypeOK, Unsynced
  <2> QED BY <2>1, <2>2, <2>3, <2>4, <2>5, <2>6 DEF Next
<1> QED BY <1>1, <1>2, PTL DEF Spec

(***************************************************************************)
(* The limits                                                              *)
(***************************************************************************)

\* The windows hold at least what was admitted, and it is within the limits.
AdmissionInv ==
  /\ Admits(admitted, deviceWindow)
  /\ \A e \in Employees : Admits(admittedOf[e], employeeWindow[e])
  /\ AdmissionsBounded

\* Validating a punch admits it only while the windows have room, and counts
\* it in both whether or not it is admitted.
LEMMA ValidationStep ==
  ASSUME TypeOK, AdmissionInv, NEW p \in batch,
         RejectInvalid(p) \/ RejectRate(p) \/ RejectFlood(p) \/ Accept(p)
  PROVE  AdmissionInv'
<1> DEFINE e == Employee[p]
<1>1. p \in Punches /\ e \in Employees
  BY ValidatorAssumption DEF TypeOK, Unsynced
<1> HIDE DEF e
<1>2. /\ Admits(admitted, deviceWindow)
      /\ \A f \in Employees : Admits(admittedOf[f], employeeWindow[f])
      /\ Total(admitted) <= DeviceMax
      /\ \A f \in Employees : Total(admittedOf[f]) <= FloodMax
  BY DEF AdmissionInv, AdmissionsBounded
<1>3. /\ employeeWindow \in [Employees -> Window]
      /\ admittedOf \in [Employees -> Window]
  BY DEF TypeOK, Window
<1>4. CASE RejectInvalid(p)
  BY <1>4 DEF RejectInvalid, Rejected, history, AdmissionInv, AdmissionsBounded
<1>5. CASE RejectRate(p)
  <2>1. /\ deviceWindow' = Pushed(deviceWindow)
        /\ UNCHANGED <<employeeWindow, admitted, admittedOf>>
    BY <1>5 DEF RejectRate, Rejected, history
  <2> QED
    BY <1>2, <2>1, AdmissionCounted DEF AdmissionInv, AdmissionsBounded
<1>6. CASE RejectFlood(p)
  <2>1. /\ deviceWindow' = Pushed(deviceWindow)
        /\ employeeWindow' = [employeeWindow EXCEPT ![e] = Pushed(@)]
        /\ UNCHANGED <<admitted, admittedOf>>
    BY <1>6 DEF RejectFlood, Rejected, history, e
  <2>2. \A f \in Employees : employeeWindow'[f] \in {employeeWindow[f], Pushed(employeeWindow[f])}
    BY <1>3, <2>1
  <2>3. \A f \in Employees : Admits(admittedOf'[f], employeeWindow'[f])
    BY <1>2, <2>1, <2>2, AdmissionCounted
  <2> QED
    BY <1>2, <2>1, <2>3, AdmissionCounted DEF AdmissionInv, AdmissionsBounded
<1>7. CASE Accept(p)
  <2>1. /\ deviceWindow' = Pushed(deviceWindow)
        /\ admitted' = Pushed(admitted)
        /\ employeeWindow' = [employeeWindow EXCEPT ![e] = Pushed(@)]
        /\ admittedOf' = [admittedOf EXCEPT ![e] = Pushed(@)]
        /\ ~(Total(Pushed(deviceWindow)) > DeviceMax)
        /\ ~(Total(Pushed(employeeWindow[e])) > FloodMax)
    BY <1>7 DEF Accept, OverRate, OverFlood, e
  <2>2. /\ \A f \in Employees \ {e} : /\ employeeWindow'[f] = employeeWindow[f]
                                      /\ admittedOf'[f] = admittedOf[f]
        /\ employeeWindow'[e] = Pushed(employeeWindow[e])
        /\ admittedOf'[e] = Pushed(admittedOf[e])
    BY <1>1, <1>3, <2>1
  <2>3. Admits(admitted', deviceWindow') /\ Total(admitted') <= DeviceMax
    BY <1>2, <2>1, Bounded, ValidatorAssumption
  <2>4. Admits(admittedOf'[e], employeeWindow'[e]) /\ Total(admittedOf'[e]) <= FloodMax
    BY <1>1, <1>2, <2>1, <2>2, Bounded, ValidatorAssumption
  <2> QED
    BY <1>2, <2>2, <2>3, <2>4 DEF AdmissionInv, AdmissionsBounded
<1> QED BY <1>4, <1>5, <1>6, <1>7

\* The limits hold over any sliding window, not only over one that starts with
\* a minute: checkDeviceRateLimit and checkFlood count a check before they
\* compare, so that what they let through in a window never exceeds the limit.
THEOREM AdmissionsStayBounded == Spec => []AdmissionsBounded
<1>1. Init => AdmissionInv
  <2> SUFFICES ASSUME Init PROVE AdmissionInv
    OBVIOUS
  <2>1. /\ deviceWindow = Empty /\ admitted = Empty
        /\ \A e \in Employees : employeeWindow[e] = Empty /\ admittedOf[e] = Empty
    BY DEF Init
  <2> QED
    BY <2>1, EmptyAdmits, ValidatorAssumption DEF AdmissionInv, AdmissionsBounded
<1>2. TypeOK /\ AdmissionInv /\ [Next]_vars => AdmissionInv'
  <2> SUFFICES ASSUME TypeOK, AdmissionInv, [Next]_vars
               PROVE  AdmissionInv'
    OBVIOUS
  <2>1. UNCHANGED <<deviceWindow, employeeWindow, admitted, admittedOf>> => AdmissionInv'
    BY DEF AdmissionInv, AdmissionsBounded
  <2>2. ASSUME NEW p \in Punches, Collect(p) PROVE AdmissionInv'
    BY <2>1, <2>2 DEF Collect, history
  <2>3. CASE Tick
    <3>1. /\ deviceWindow' = Aged(deviceWindow) /\ admitted' = Aged(admitted)
          /\ \A e \in Employees : /\ employeeWindow'[e] = Aged(employeeWindow[e])
                                  /\ admittedOf'[e] = Aged(admittedOf[e])
      BY <2>3 DEF Tick
    <3>2. /\ Admits(admitted', deviceWindow')
          /\ Total(admitted') <= Total(admitted)
          /\ Total(admitted) \in Nat /\ Total(admitted') \in Nat
      BY <3>1, AdmissionAged, Bounded, ValidatorAssumption DEF AdmissionInv
    <3>3. \A e \in Employees : /\ Admits(admittedOf'[e], employeeWindow'[e])
                               /\ Total(admittedOf'[e]) <= Total(admittedOf[e])
                               /\ Total(admittedOf[e]) \in Nat
                               /\ Total(admittedOf'[e]) \in Nat
      BY <3>1, AdmissionAged, Bounded, ValidatorAssumption DEF AdmissionInv
    <3>4. DeviceMax \in Nat /\ FloodMax \in Nat
      BY ValidatorAssumption
    <3> QED
      BY <3>2, <3>3, <3>4 DEF AdmissionInv, AdmissionsBounded
  <2>4. CASE Validate
    BY <2>4, ValidationStep DEF Validate
  <2>5. CASE Deliver
    BY <2>1, <2>5 DEF Deliver, history
  <2>6. CASE SendFails
    BY <2>1, <2>6 DEF SendFails, history
  <2>7. CASE UNCHANGED vars
    BY <2>1, <2>7 DEF vars, history
  <2> QED BY <2>2, <2>3, <2>4, <2>5, <2>6, <2>7 DEF Next
<1>3. AdmissionInv => AdmissionsBounded
  BY DEF AdmissionInv
<1> QED BY <1>1, <1>2, <1>3, ValidatorTypes, PTL DEF Spec
===============================================================================
