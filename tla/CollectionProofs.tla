--------------------------- MODULE CollectionProofs ---------------------------
(***************************************************************************)
(* Proofs about ClockCollection, for any clock, number of overlapping      *)
(* ticks, length of a behaviour and number of faults.                      *)
(***************************************************************************)
EXTENDS ClockCollection, TLAPS

(***************************************************************************)
(* Types                                                                   *)
(***************************************************************************)

\* A stamp once set stays: punches made remain made.
LEMMA MadeGrows ==
  ASSUME TypeOK, NEW p \in Punches, Punch(p)
  PROVE  /\ stamp' \in [Punches -> Time]
         /\ Made \subseteq Made'
  BY DEF TypeOK, Punch, Made, Time

\* A tick that returns leaves well-formed locals.
LEMMA ReturnsType ==
  ASSUME TypeOK, CollectionAssumption, NEW t \in Ticks, Returns(t)
  PROVE  /\ pc' \in [Ticks -> {"idle", "fetch", "stage", "stamp", "patch"}]
         /\ since' \in [Ticks -> Time]
         /\ fetched' \in [Ticks -> SUBSET Made]
         /\ fetchedAt' \in [Ticks -> Time]
         /\ next' \in [Ticks -> Time]
<1>1. 0 \in Time
  BY CollectionAssumption DEF Time
<1> QED
  BY <1>1 DEF TypeOK, Returns, Goto

\* The cursor is set to a moment, and the gap before it is made of moments.
LEMMA CursorSetType ==
  ASSUME TypeOK, NEW t \in Ticks, CursorSet(t)
  PROVE  lastSync' \in Time /\ gaps' \subseteq Time
<1>1. fetchedAt[t] \in Time /\ next[t] \in Time
  BY DEF TypeOK
<1>2. fetchedAt[t]..next[t] \subseteq Time
  BY <1>1, CollectionAssumption DEF Time
<1> QED
  BY <1>1, <1>2 DEF TypeOK, CursorSet

\* Every step keeps the variables in their types.
LEMMA TypeStep == TypeOK /\ [Next]_vars => TypeOK'
<1> SUFFICES ASSUME TypeOK, [Next]_vars PROVE TypeOK'
  OBVIOUS
<1> USE CollectionAssumption
<1>0. UNCHANGED stamp => UNCHANGED Made
  BY DEF Made
<1>1. CASE TimePasses
  BY <1>0, <1>1 DEF TimePasses, TypeOK, Time, tickVars
<1>2. ASSUME NEW p \in Punches, Punch(p) PROVE TypeOK'
  BY <1>2, MadeGrows DEF Punch, TypeOK, tickVars
<1>3. ASSUME NEW t \in Ticks, SyncOneDevice(t) PROVE TypeOK'
  <2>1. CASE ReadDevice(t)
    BY <1>0, <2>1 DEF ReadDevice, TypeOK, Goto
  <2>2. CASE Fetch(t)
    <3>1. Since(t) \in SUBSET Made
      BY DEF Since
    <3>2. fetched' \in [Ticks -> SUBSET Made]
      BY <2>2, <3>1 DEF Fetch, TypeOK
    <3> QED
      BY <1>0, <2>2, <3>2 DEF Fetch, TypeOK, Goto
  <2>3. CASE FetchNothing(t)
    BY <1>0, <2>3, ReturnsType DEF FetchNothing, TypeOK
  <2>4. CASE Stage(t)
    <3>1. timeRecords' \subseteq Made
      BY <2>4 DEF Stage, TypeOK
    <3> QED
      BY <1>0, <2>4, <3>1 DEF Stage, TypeOK, Goto
  <2>5. CASE Stamp(t)
    BY <1>0, <2>5 DEF Stamp, TypeOK, Goto
  <2>6. CASE Patch(t)
    BY <1>0, <2>6, ReturnsType, CursorSetType DEF Patch, TypeOK
  <2> QED
    BY <1>3, <2>1, <2>2, <2>3, <2>4, <2>5, <2>6 DEF SyncOneDevice
<1>4. ASSUME NEW t \in Ticks, TickFails(t) PROVE TypeOK'
  BY <1>0, <1>4, ReturnsType DEF TickFails, Fault, TypeOK
<1>5. ASSUME NEW t \in Ticks, PatchUnanswered(t) PROVE TypeOK'
  BY <1>0, <1>5, CursorSetType DEF PatchUnanswered, Fault, TypeOK, tickVars
<1>6. CASE Crash
  BY <1>0, <1>6 DEF Crash, Fault, TypeOK, Time
<1>7. CASE UNCHANGED vars
  BY <1>0, <1>7 DEF vars, tickVars, TypeOK
<1> QED
  BY <1>1, <1>2, <1>3, <1>4, <1>5, <1>6, <1>7 DEF Next

\* The collection's variables stay well formed.
THEOREM CollectionTypes == Spec => []TypeOK
<1>1. Init => TypeOK
  BY CollectionAssumption DEF Init, TypeOK, Time, Made
<1> QED
  BY <1>1, TypeStep, PTL DEF Spec

(***************************************************************************)
(* What the cursor may pass                                                *)
(***************************************************************************)

\* Nothing leaves time_records, the gaps or the past, and no stamp changes:
\* what was passed rightly stays so.
LEMMA PassedStays ==
  ASSUME TypeOK, NEW cursor \in Time, PassedRightly(cursor),
         UNCHANGED stamp, now <= now', now' \in Time,
         timeRecords \subseteq timeRecords', gaps \subseteq gaps'
  PROVE  PassedRightly(cursor)'
<1>1. Made' = Made
  BY DEF Made
<1>2. \A p \in Made : Taken(p) => Taken(p)'
  BY DEF Taken
<1> QED
  BY <1>1, <1>2, CollectionAssumption DEF PassedRightly, TypeOK, Time, Made

\* The null cursor passes no punch.
LEMMA PassedByNull ==
  ASSUME TypeOK
  PROVE  PassedRightly(0)
  BY DEF TypeOK, PassedRightly, Made, Time

\* A new punch is behind a cursor only when it shares its moment, which is
\* then the end of a gap.
LEMMA PassedByNewPunch ==
  ASSUME TypeOK, NEW cursor \in Time, PassedRightly(cursor),
         NEW p \in Punches, Punch(p)
  PROVE  PassedRightly(cursor)'
<1>1. /\ now \in Nat \ {0}
      /\ UNCHANGED <<now, gaps, timeRecords>>
      /\ stamp'[p] = now
      /\ \A q \in Punches : q # p => stamp'[q] = stamp[q]
  BY DEF TypeOK, Punch, Time
<1>2. \A q \in Punches : Taken(q)' = Taken(q)
  BY <1>1 DEF Taken
<1>3. ASSUME NEW q \in Made', stamp'[q] <= cursor
      PROVE  Taken(q) \/ stamp'[q] \in gaps
  <2>1. CASE q = p
    BY <1>1, <1>3, <2>1 DEF PassedRightly, Time
  <2>2. CASE q # p
    BY <1>1, <1>3, <2>2 DEF PassedRightly, Made
  <2> QED
    BY <2>1, <2>2
<1> QED
  BY <1>1, <1>2, <1>3 DEF PassedRightly, Made

\* Setting the cursor to a tick's nextLastSync: what it passes newly was in
\* that tick's hand, and is stored, or falls in the gap it leaves.
LEMMA PassedByPatch ==
  ASSUME TypeOK, CollectionInv, NEW t \in Ticks, CursorSet(t),
         UNCHANGED <<now, stamp, timeRecords>>
  PROVE  PassedRightly(lastSync)'
<1>1. /\ since[t] \in Nat /\ fetchedAt[t] \in Nat /\ next[t] \in Nat
      /\ \A p \in Made : stamp[p] \in Nat
  BY DEF TypeOK, Time, Made
<1>2. /\ fetchedAt[t] <= next[t] /\ next[t] <= now
      /\ PassedRightly(since[t]) /\ InHand(t) /\ AllTaken(t)
  BY DEF CursorSet, CollectionInv, TickInv
<1>3. next[t] \in gaps' /\ gaps \subseteq gaps'
  BY <1>1, <1>2 DEF CursorSet
<1>4. Made' = Made /\ \A p \in Punches : Taken(p)' = Taken(p)
  BY DEF Made, Taken
<1>5. ASSUME NEW p \in Made, stamp[p] <= next[t]
      PROVE  Taken(p) \/ stamp[p] \in gaps'
  <2>1. CASE stamp[p] <= since[t]
    BY <1>2, <1>3, <2>1 DEF PassedRightly
  <2>2. CASE since[t] < stamp[p] /\ stamp[p] < fetchedAt[t]
    BY <1>2, <2>2 DEF InHand, AllTaken
  <2>3. CASE fetchedAt[t] <= stamp[p]
    BY <1>1, <1>5, <2>3 DEF CursorSet
  <2> QED
    BY <1>1, <2>1, <2>2, <2>3
<1> QED
  BY <1>2, <1>3, <1>4, <1>5 DEF PassedRightly, CursorSet, Made

\* INSERT OR IGNORE leaves every punch of its batch in time_records.
LEMMA StoredTakes ==
  ASSUME NEW t \in Ticks, Stage(t)
  PROVE  /\ \A p \in fetched[t] : Taken(p)'
         /\ timeRecords \subseteq timeRecords'
<1>1. PICK rows \in SUBSET fetched[t] :
        Stored(fetched[t], rows) /\ timeRecords' = timeRecords \cup rows
  BY DEF Stage
<1> QED
  BY <1>1 DEF Stored, Taken

\* Steps that leave the clock's punches, the site and the gaps as they are
\* keep what is known of a tick that they do not touch.
LEMMA TickStays ==
  ASSUME TypeOK, CollectionInv, NEW t \in Ticks,
         UNCHANGED stamp, now <= now', now' \in Time,
         timeRecords \subseteq timeRecords', gaps \subseteq gaps',
         since'[t] = since[t], fetched'[t] = fetched[t],
         fetchedAt'[t] = fetchedAt[t], next'[t] = next[t], pc'[t] = pc[t]
  PROVE  TickInv(t)'
<1>1. TickInv(t)
  BY DEF CollectionInv
<1>2. Made' = Made /\ \A p \in Made : Taken(p) => Taken(p)'
  BY DEF Made, Taken
<1>3. since[t] \in Time /\ fetchedAt[t] \in Nat /\ next[t] \in Nat /\ now \in Nat
      /\ now' \in Nat /\ fetched[t] \subseteq Made
  BY CollectionAssumption DEF TypeOK, Time
<1>4. PassedRightly(since[t])'
  <2>1. PassedRightly(since[t]) /\ since'[t] = since[t]
    BY <1>1 DEF TickInv
  <2> QED
    BY <1>3, <2>1, PassedStays
<1>5. InHand(t) => InHand(t)'
  BY <1>2, <1>3 DEF InHand
<1>6. AllTaken(t) => AllTaken(t)'
  BY <1>2, <1>3 DEF AllTaken
<1> QED
  BY <1>1, <1>3, <1>4, <1>5, <1>6 DEF TickInv

\* A tick that ends knows nothing, and so nothing wrong.
LEMMA ReturnedTick ==
  ASSUME TypeOK', NEW t \in Ticks, pc'[t] = "idle", since'[t] = 0
  PROVE  TickInv(t)'
<1>1. PassedRightly(0)'
  BY CollectionAssumption DEF TypeOK, PassedRightly, Made, Time
<1> QED
  BY <1>1 DEF TickInv

\* The cursor a tick has read stays passed rightly while the tick runs.
LEMMA SinceStays ==
  ASSUME TypeOK, CollectionInv, NEW t \in Ticks,
         UNCHANGED <<now, stamp, gaps>>, timeRecords \subseteq timeRecords',
         since'[t] = since[t]
  PROVE  PassedRightly(since[t])'
<1>1. since[t] \in Time /\ now \in Nat /\ now \in Time
  BY CollectionAssumption DEF TypeOK, Time
<1>2. now <= now' /\ now' \in Time /\ PassedRightly(since[t])
  BY <1>1 DEF CollectionInv, TickInv
<1> QED
  BY <1>1, <1>2, PassedStays

\* A step of one tick that moves no cursor keeps the invariant as soon as it
\* keeps that tick's part of it.
LEMMA OneTickMoves ==
  ASSUME TypeOK, TypeOK', CollectionInv, NEW t \in Ticks,
         UNCHANGED <<now, stamp, lastSync, gaps>>,
         timeRecords \subseteq timeRecords',
         \A u \in Ticks \ {t} : /\ since'[u] = since[u] /\ fetched'[u] = fetched[u]
                                /\ fetchedAt'[u] = fetchedAt[u]
                                /\ next'[u] = next[u] /\ pc'[u] = pc[u],
         TickInv(t)'
  PROVE  CollectionInv'
<1>1. now <= now' /\ now' \in Time /\ lastSync \in Time
  BY CollectionAssumption DEF TypeOK, Time
<1>2. PassedRightly(lastSync)'
  <2>1. PassedRightly(lastSync) /\ lastSync' = lastSync
    BY DEF CollectionInv
  <2> QED
    BY <1>1, <2>1, PassedStays
<1>3. \A u \in Ticks : TickInv(u)'
  <2> TAKE u \in Ticks
  <2>1. CASE u # t
    BY <1>1, <2>1, TickStays
  <2> QED
    BY <2>1
<1> QED
  BY <1>2, <1>3 DEF CollectionInv

\* No step lets a cursor pass a punch but through a gap.
LEMMA CollectionStep ==
  TypeOK /\ TypeOK' /\ CollectionInv /\ [Next]_vars => CollectionInv'
<1> SUFFICES ASSUME TypeOK, TypeOK', CollectionInv, [Next]_vars
             PROVE  CollectionInv'
  OBVIOUS
<1> USE DEF TypeOK
<1>0. /\ now \in Nat \ {0} /\ lastSync \in Time
      /\ \A t \in Ticks : since[t] \in Time
      /\ \A t \in Ticks : TickInv(t)
      /\ PassedRightly(lastSync)
  BY CollectionAssumption DEF CollectionInv, Time
<1>1. CASE TimePasses
  <2>1. UNCHANGED <<stamp, timeRecords, lastSync, tickVars, gaps>> /\ now' = now + 1
    BY <1>1 DEF TimePasses
  <2>2. now <= now' /\ now' \in Time
    BY <1>0, <2>1
  <2>3. PassedRightly(lastSync)'
    BY <1>0, <2>1, <2>2, PassedStays
  <2>4. \A t \in Ticks : TickInv(t)'
    BY <2>1, <2>2, TickStays DEF tickVars
  <2>5. \A p \in Punches : stamp'[p] <= now'
    BY <1>0, <2>1, CollectionAssumption DEF CollectionInv, Time
  <2> QED
    BY <2>3, <2>4, <2>5 DEF CollectionInv
<1>2. ASSUME NEW p \in Punches, Punch(p) PROVE CollectionInv'
  <2>1. /\ UNCHANGED <<now, timeRecords, lastSync, tickVars, gaps>>
        /\ stamp[p] = 0 /\ stamp'[p] = now
        /\ \A q \in Punches : q # p => stamp'[q] = stamp[q]
    BY <1>2 DEF Punch
  <2>2. PassedRightly(lastSync)'
    BY <1>0, <1>2, <2>1, PassedByNewPunch
  <2>3. ASSUME NEW t \in Ticks PROVE TickInv(t)'
    <3>1. PassedRightly(since[t])'
      BY <1>0, <1>2, <2>1, PassedByNewPunch DEF TickInv, tickVars
    <3>2. InHand(t) => InHand(t)'
      BY <1>0, <2>1, CollectionAssumption DEF InHand, Made, tickVars, Time
    <3>3. AllTaken(t) => AllTaken(t)'
      BY <2>1 DEF AllTaken, Taken, tickVars
    <3> QED
      BY <1>0, <2>1, <3>1, <3>2, <3>3 DEF TickInv, tickVars
  <2>4. \A q \in Punches : stamp'[q] <= now'
    BY <1>0, <2>1 DEF CollectionInv
  <2> QED
    BY <2>2, <2>3, <2>4 DEF CollectionInv
<1>3. ASSUME NEW t \in Ticks, SyncOneDevice(t) PROVE CollectionInv'
  <2>1. CASE ReadDevice(t)
    <3>1. PassedRightly(since[t])'
      <4>1. since'[t] = lastSync /\ now <= now' /\ now' \in Time
        BY <1>0, <2>1 DEF ReadDevice
      <4> QED
        BY <1>0, <2>1, <4>1, PassedStays DEF ReadDevice
    <3>2. TickInv(t)'
      BY <2>1, <3>1 DEF ReadDevice, Goto, TickInv
    <3> QED
      BY <2>1, <3>2, OneTickMoves DEF ReadDevice, Goto
  <2>2. CASE Fetch(t)
    <3>1. PassedRightly(since[t])'
      BY <2>2, SinceStays DEF Fetch
    <3>2. InHand(t)'
      BY <1>0, <2>2 DEF Fetch, InHand, Since, Made
    <3>3. TickInv(t)'
      BY <2>2, <3>1, <3>2 DEF Fetch, Goto, TickInv
    <3> QED
      BY <2>2, <3>3, OneTickMoves DEF Fetch, Goto
  <2>3. CASE FetchNothing(t)
    BY <2>3, ReturnedTick, OneTickMoves DEF FetchNothing, Returns, Goto
  <2>4. CASE Stage(t)
    <3>1. \A p \in fetched[t] : Taken(p)'
      BY <2>4, StoredTakes
    <3>2. timeRecords \subseteq timeRecords'
      BY <2>4, StoredTakes
    <3>3. PassedRightly(since[t])'
      BY <2>4, <3>2, SinceStays DEF Stage
    <3>4. InHand(t)'
      BY <1>0, <2>4 DEF Stage, TickInv, InHand, Made
    <3>5. AllTaken(t)'
      BY <2>4, <3>1 DEF Stage, AllTaken
    <3>6. TickInv(t)'
      BY <2>4, <3>3, <3>4, <3>5 DEF Stage, Goto, TickInv
    <3> QED
      BY <2>4, <3>2, <3>6, OneTickMoves DEF Stage, Goto
  <2>5. CASE Stamp(t)
    <3>1. PassedRightly(since[t])'
      BY <2>5, SinceStays DEF Stamp
    <3>2. InHand(t)' /\ AllTaken(t)'
      BY <1>0, <2>5 DEF Stamp, TickInv, InHand, AllTaken, Made, Taken
    <3>3. fetchedAt'[t] <= next'[t] /\ next'[t] <= now'
      BY <1>0, <2>5 DEF Stamp, TickInv, InHand
    <3>4. TickInv(t)'
      BY <2>5, <3>1, <3>2, <3>3 DEF Stamp, Goto, TickInv
    <3> QED
      BY <2>5, <3>4, OneTickMoves DEF Stamp, Goto
  <2>6. CASE Patch(t)
    <3>1. CursorSet(t) /\ Returns(t) /\ UNCHANGED <<now, stamp, timeRecords>>
      BY <2>6 DEF Patch
    <3>2. PassedRightly(lastSync)'
      BY <3>1, PassedByPatch
    <3>3. now <= now' /\ now' \in Time /\ gaps \subseteq gaps'
      BY <1>0, <3>1 DEF CursorSet
    <3>4. \A u \in Ticks \ {t} : TickInv(u)'
      BY <3>1, <3>3, TickStays DEF Returns, Goto
    <3>5. TickInv(t)'
      BY <3>1, ReturnedTick DEF Returns, Goto
    <3> QED
      BY <3>1, <3>2, <3>4, <3>5 DEF CollectionInv
  <2> QED
    BY <1>3, <2>1, <2>2, <2>3, <2>4, <2>5, <2>6 DEF SyncOneDevice
<1>4. ASSUME NEW t \in Ticks, TickFails(t) PROVE CollectionInv'
  BY <1>4, ReturnedTick, OneTickMoves DEF TickFails, Returns, Goto
<1>5. ASSUME NEW t \in Ticks, PatchUnanswered(t) PROVE CollectionInv'
  <2>1. CursorSet(t) /\ UNCHANGED <<now, stamp, timeRecords, tickVars>>
    BY <1>5 DEF PatchUnanswered
  <2>2. PassedRightly(lastSync)'
    BY <2>1, PassedByPatch
  <2>3. now <= now' /\ now' \in Time /\ gaps \subseteq gaps'
    BY <1>0, <2>1 DEF CursorSet
  <2>4. \A u \in Ticks : TickInv(u)'
    BY <2>1, <2>3, TickStays DEF tickVars
  <2> QED
    BY <2>1, <2>2, <2>4 DEF CollectionInv
<1>6. CASE Crash
  <2>1. now <= now' /\ now' \in Time /\ PassedRightly(lastSync)'
    BY <1>0, <1>6, PassedStays DEF Crash
  <2>2. \A t \in Ticks : TickInv(t)'
    BY <1>6, ReturnedTick DEF Crash
  <2> QED
    BY <1>6, <2>1, <2>2 DEF CollectionInv, Crash
<1>7. CASE UNCHANGED vars
  BY <1>7 DEF vars, tickVars, CollectionInv, TickInv, PassedRightly, InHand,
              AllTaken, Taken, Made
<1> QED
  BY <1>1, <1>2, <1>3, <1>4, <1>5, <1>6, <1>7 DEF Next

\* The cursor passes an unstored punch only through the gap between a tick's
\* fetch and the time that tick takes for last_sync.
THEOREM OnlyGaps == Spec => []OnlyGapsSkip
<1>1. Init => CollectionInv
  BY CollectionAssumption
     DEF Init, CollectionInv, TickInv, PassedRightly, Made
<1>2. CollectionInv => OnlyGapsSkip
  BY DEF CollectionInv, PassedRightly, OnlyGapsSkip
<1> QED
  BY <1>1, <1>2, CollectionTypes, CollectionStep, PTL DEF Spec
===============================================================================
