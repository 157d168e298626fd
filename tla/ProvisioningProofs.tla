--------------------------- MODULE ProvisioningProofs ---------------------------
(***************************************************************************)
(* Proofs about Provisioning, for any requests, documents, faults, time-   *)
(* outs and crashes: what the chained promises of withProvisionLocks       *)
(* exclude, that no document gets two tenants as long as they do, what an  *)
(* answer of done leaves, whose company is deleted, and that tenants stay  *)
(* whole.                                                                  *)
(***************************************************************************)
EXTENDS Provisioning, FiniteSetTheorems, TLAPS

(***************************************************************************)
(* The inductive invariant                                                 *)
(***************************************************************************)

\* How far a request has come with its keys.
KeysFit ==
  \A c \in Creates :
    /\ creates[c].pc = "wait" => creates[c].entered < Len(LockKeys(creates[c]))
    /\ Live(c) /\ creates[c].pc # "wait" => creates[c].entered = Len(LockKeys(creates[c]))

\* The creates waiting for k, and those waiting for it or inside.
Waiting(k) ==
  {c \in Creates : creates[c].pc = "wait" /\ LockKeys(creates[c])[creates[c].entered + 1] = k}

Chained(k) == Inside(k) \cup Waiting(k)

\* The promise of a key is made of the gates of those chained to it: of all of
\* them unless the entry was dropped under a holder.
Gates(k) ==
  /\ entry[k].pending \subseteq Chained(k)
  /\ k \notin broken => Chained(k) \subseteq entry[k].pending

\* Who chained last waits for all the others, or has nobody left to wait for.
LastWaitsForAll(k) ==
  LET c == entry[k].tail
  IN  /\ c = Nobody => entry[k].pending = {}
      /\ c # Nobody => c \in entry[k].pending
      /\ c \in Inside(k) => entry[k].pending = {c}
      /\ c \in Waiting(k) => entry[k].pending \ {c} \subseteq ahead[c]

\* Of two chained to a key one waits for the other.
Ordered(k) ==
  k \notin broken =>
    \A c, d \in Chained(k) :
      c # d => \/ c \in Waiting(k) /\ d \in ahead[c]
               \/ d \in Waiting(k) /\ c \in ahead[d]

ChainInv == \A k \in Keys : Gates(k) /\ LastWaitsForAll(k) /\ Ordered(k)

\* While a create that found no tenant of its document is about to insert one,
\* there is none.
NoneYet ==
  \A c \in Creates :
    creates[c].pc = "tx" /\ creates[c].cnpj \notin broken \cup {NoCnpj} =>
      \A t \in DOMAIN tenants : tenants[t].cnpj # creates[c].cnpj

ProvInv == TypeOK /\ KeysFit /\ ChainInv /\ NoneYet /\ OneTenantPerCnpj

(***************************************************************************)
(* Keys                                                                    *)
(***************************************************************************)

\* The keys of a request: its document if it has one, then its company.
LEMMA KeysOf ==
  ASSUME NEW r, r.cnpj \in Cnpjs \cup {NoCnpj}, r.company \in Ids
  PROVE  /\ Len(LockKeys(r)) \in 1..2
         /\ \A i \in 1..Len(LockKeys(r)) : LockKeys(r)[i] \in Keys
         /\ \A i, j \in 1..Len(LockKeys(r)) :
              LockKeys(r)[i] = LockKeys(r)[j] => i = j
         /\ r.cnpj # NoCnpj => LockKeys(r)[1] = r.cnpj
<1>1. CASE r.cnpj = NoCnpj
  <2>1. LockKeys(r) = <<r.company>>
    BY <1>1 DEF LockKeys
  <2> QED
    BY <1>1, <2>1 DEF Keys
<1>2. CASE r.cnpj # NoCnpj
  <2>1. LockKeys(r) = <<r.cnpj, r.company>>
    BY <1>2 DEF LockKeys
  <2>2. r.cnpj # r.company
    BY <1>2, ProvisioningAssumption
  <2> QED
    BY <1>2, <2>1, <2>2 DEF Keys
<1> QED
  BY <1>1, <1>2

\* The row of a request.
LEMMA RequestRow ==
  ASSUME TypeOK, NEW c \in Creates
  PROVE  /\ creates[c] \in Create
         /\ creates[c].cnpj \in Cnpjs \cup {NoCnpj}
         /\ creates[c].company \in Ids
         /\ creates[c].entered \in 0..2
  BY DEF TypeOK, Create

\* Nobody is chained to a key before starting or after the answer, and nobody
\* is inside a key and waiting for it.
LEMMA ChainedAreLive ==
  ASSUME TypeOK, KeysFit, NEW k, NEW c \in Chained(k)
  PROVE  /\ c \in Creates /\ Live(c)
         /\ ~(c \in Inside(k) /\ c \in Waiting(k))
         /\ creates[c].pc # "wait" => c \in Inside(k)
<1>1. c \in Creates /\ Live(c)
  BY DEF Chained, Inside, Waiting, Live
<1>2. ~(c \in Inside(k) /\ c \in Waiting(k))
  <2> SUFFICES ASSUME c \in Inside(k), c \in Waiting(k) PROVE FALSE
    OBVIOUS
  <2>1. PICK i \in 1..creates[c].entered : LockKeys(creates[c])[i] = k
    BY DEF Inside
  <2>2. /\ creates[c].entered < Len(LockKeys(creates[c]))
        /\ LockKeys(creates[c])[creates[c].entered + 1] = k
    BY <1>1 DEF Waiting, KeysFit
  <2> QED
    BY <1>1, <2>1, <2>2, RequestRow, KeysOf
<1> QED
  BY <1>1, <1>2 DEF Chained, Waiting

(***************************************************************************)
(* What the actions do to the chains                                       *)
(***************************************************************************)

\* d has moved neither along its keys nor out of the function.
Stays(d) ==
  /\ creates'[d].cnpj = creates[d].cnpj
  /\ creates'[d].company = creates[d].company
  /\ creates'[d].entered = creates[d].entered
  /\ (creates'[d].pc = "wait") <=> (creates[d].pc = "wait")
  /\ Live(d)' <=> Live(d)

LEMMA StaysPut ==
  ASSUME NEW d \in Creates, Stays(d)
  PROVE  /\ LockKeys(creates[d])' = LockKeys(creates[d])
         /\ \A k : (d \in Inside(k))' <=> (d \in Inside(k))
         /\ \A k : (d \in Waiting(k))' <=> (d \in Waiting(k))
<1>1. LockKeys(creates[d])' = LockKeys(creates[d])
  BY DEF Stays, LockKeys
<1>2. \A k : (d \in Inside(k))' <=> (d \in Inside(k))
  BY <1>1 DEF Stays, Inside
<1>3. \A k : (d \in Waiting(k))' <=> (d \in Waiting(k))
  BY <1>1 DEF Stays, Waiting
<1> QED
  BY <1>1, <1>2, <1>3

\* Nobody moves.
LEMMA AllStay ==
  ASSUME KeysFit, ChainInv, UNCHANGED locks, broken' = broken,
         \A d \in Creates : Stays(d)
  PROVE  KeysFit' /\ ChainInv'
<1>1. KeysFit'
  BY StaysPut DEF KeysFit, Stays
<1>2. \A k : Inside(k)' = Inside(k) /\ Waiting(k)' = Waiting(k)
  <2>1. \A k : Inside(k) \subseteq Creates /\ Waiting(k) \subseteq Creates
    BY DEF Inside, Waiting
  <2>2. \A k : Inside(k)' \subseteq Creates /\ Waiting(k)' \subseteq Creates
    BY DEF Inside, Waiting
  <2> QED
    BY <2>1, <2>2, StaysPut
<1>3. \A k : Chained(k)' = Chained(k)
  BY <1>2 DEF Chained
<1>4. entry' = entry /\ ahead' = ahead
  BY DEF locks
<1> QED
  BY <1>1, <1>2, <1>3, <1>4 DEF ChainInv, Gates, LastWaitsForAll, Ordered

\* c leaves and resolves its gates; if that drops an entry somebody else is
\* still chained to, the key is broken.
LEMMA OneLeaves ==
  ASSUME TypeOK, KeysFit, ChainInv, NEW c \in Creates, Unlock(c), ~Live(c)',
         \A d \in Creates \ {c} : Stays(d),
         broken \subseteq broken',
         \A k \in Keys \ broken' : entry[k].tail = c => entry[k].pending = {c}
  PROVE  KeysFit' /\ ChainInv'
<1>1. creates'[c].pc # "wait"
  BY DEF Live
<1>2. KeysFit'
  BY <1>1, StaysPut DEF KeysFit, Stays
<1>3. \A k : Inside(k)' = Inside(k) \ {c} /\ Waiting(k)' = Waiting(k) \ {c}
  <2>1. \A k : Inside(k) \subseteq Creates /\ Waiting(k) \subseteq Creates
    BY DEF Inside, Waiting
  <2>2. \A k : Inside(k)' \subseteq Creates \ {c} /\ Waiting(k)' \subseteq Creates \ {c}
    BY <1>1 DEF Inside, Waiting
  <2> QED
    BY <2>1, <2>2, StaysPut
<1>4. \A k : Chained(k)' = Chained(k) \ {c}
  BY <1>3 DEF Chained
<1>5. \A k \in Keys : entry'[k] = IF entry[k].tail = c THEN NoEntry
                                  ELSE [entry[k] EXCEPT !.pending = @ \ {c}]
  BY DEF Unlock
<1>6. \A k \in Keys : entry[k].tail = c => entry'[k].tail = Nobody /\ entry'[k].pending = {}
  <2>1. NoEntry.tail = Nobody /\ NoEntry.pending = {}
    BY DEF NoEntry
  <2> QED
    BY <1>5, <2>1
<1>7. \A k \in Keys : entry[k].tail # c =>
        entry'[k].tail = entry[k].tail /\ entry'[k].pending = entry[k].pending \ {c}
  <2>1. \A k \in Keys : entry[k].tail # c => entry'[k] = [entry[k] EXCEPT !.pending = @ \ {c}]
    BY <1>5
  <2>2. \A k \in Keys : entry[k] \in [pending : SUBSET Creates, tail : Creates \cup {Nobody}]
    BY DEF TypeOK
  <2> QED
    BY <2>1, <2>2
<1>8. \A d \in Creates \ {c} : ahead'[d] = ahead[d] \ {c}
  BY DEF Unlock
<1>9. ASSUME NEW k \in Keys PROVE Gates(k)'
  <2>1. Gates(k)
    BY DEF ChainInv
  <2> QED
    BY <1>4, <1>6, <1>7, <2>1 DEF Gates
<1>10. ASSUME NEW k \in Keys PROVE LastWaitsForAll(k)'
  <2> DEFINE d == entry[k].tail
  <2>1. /\ d = Nobody => entry[k].pending = {}
        /\ d # Nobody => d \in entry[k].pending
        /\ d \in Inside(k) => entry[k].pending = {d}
        /\ d \in Waiting(k) => entry[k].pending \ {d} \subseteq ahead[d]
    BY DEF ChainInv, LastWaitsForAll
  <2>2. Nobody \notin Creates
    BY ProvisioningAssumption DEF Keys, Ids
  <2>3. Nobody \notin Inside(k)' /\ Nobody \notin Waiting(k)'
    BY <2>2 DEF Inside, Waiting
  <2>4. CASE d = c
    BY <1>6, <2>3, <2>4 DEF LastWaitsForAll
  <2>5. CASE d # c
    <3>1. entry'[k].tail = d /\ entry'[k].pending = entry[k].pending \ {c}
      BY <1>7, <2>5
    <3>2. CASE d = Nobody
      BY <2>1, <2>3, <3>1, <3>2 DEF LastWaitsForAll
    <3>3. CASE d \in Creates
      <4>1. ahead'[d] = ahead[d] \ {c}
        BY <1>8, <2>5, <3>3
      <4>2. d # Nobody
        BY <2>2, <3>3
      <4> HIDE DEF d
      <4> QED
        BY <1>3, <2>1, <2>5, <3>1, <4>1, <4>2 DEF LastWaitsForAll
    <3> QED
      BY <3>2, <3>3 DEF TypeOK
  <2> QED
    BY <2>4, <2>5
<1>11. ASSUME NEW k \in Keys PROVE Ordered(k)'
  <2> SUFFICES ASSUME k \notin broken', NEW a \in Chained(k)', NEW b \in Chained(k)', a # b
               PROVE  \/ a \in Waiting(k)' /\ b \in ahead'[a]
                      \/ b \in Waiting(k)' /\ a \in ahead'[b]
    BY DEF Ordered
  <2>1. a \in Chained(k) \ {c} /\ b \in Chained(k) \ {c} /\ k \notin broken
    BY <1>4
  <2>2. \/ a \in Waiting(k) /\ b \in ahead[a]
        \/ b \in Waiting(k) /\ a \in ahead[b]
    BY <2>1 DEF ChainInv, Ordered
  <2>3. a \in Creates /\ b \in Creates
    BY <2>1, ChainedAreLive
  <2> QED
    BY <1>3, <1>8, <2>1, <2>2, <2>3
<1> QED
  BY <1>2, <1>9, <1>10, <1>11 DEF ChainInv

\* At a key where c has got inside, or to which it was not chained and still is
\* not, nothing else happens.
LEMMA KeyKept ==
  ASSUME TypeOK, KeysFit, ChainInv, NEW c \in Creates, NEW k \in Keys,
         \A d \in Creates \ {c} : Stays(d) /\ ahead'[d] = ahead[d],
         entry'[k] = entry[k], broken' = broken,
         c \in Waiting(k) => ahead[c] = {},
         c \notin Waiting(k)', (c \in Inside(k))' <=> (c \in Chained(k))
  PROVE  Gates(k)' /\ LastWaitsForAll(k)' /\ Ordered(k)'
<1>1. /\ \A d \in Creates \ {c} : (d \in Inside(k))' <=> (d \in Inside(k))
      /\ \A d \in Creates \ {c} : (d \in Waiting(k))' <=> (d \in Waiting(k))
  BY StaysPut
<1>2. /\ Chained(k) \subseteq Creates /\ Chained(k)' \subseteq Creates
      /\ Inside(k)' \subseteq Creates /\ Waiting(k)' \subseteq Creates
  BY DEF Chained, Inside, Waiting
<1>3. Chained(k)' = Chained(k)
  BY <1>1, <1>2 DEF Chained
<1>4. Gates(k) /\ LastWaitsForAll(k) /\ Ordered(k)
  BY DEF ChainInv
<1>5. Gates(k)'
  BY <1>3, <1>4 DEF Gates
<1>6. LastWaitsForAll(k)'
  <2>1. CASE entry[k].tail = c
    <3>1. c \in Inside(k)' => entry[k].pending = {c}
      <4> SUFFICES ASSUME c \in Inside(k)' PROVE entry[k].pending = {c}
        OBVIOUS
      <4>1. CASE c \in Inside(k)
        BY <1>4, <2>1, <4>1 DEF LastWaitsForAll
      <4>2. CASE c \in Waiting(k)
        BY <1>4, <2>1, <4>2, ProvisioningAssumption DEF LastWaitsForAll, Keys, Ids
      <4> QED
        BY <4>1, <4>2 DEF Chained
    <3> QED
      BY <1>4, <2>1, <3>1 DEF LastWaitsForAll
  <2>2. CASE entry[k].tail # c
    BY <1>1, <1>2, <1>4, <2>2 DEF LastWaitsForAll
  <2> QED
    BY <2>1, <2>2
<1>7. Ordered(k)'
  <2> SUFFICES ASSUME k \notin broken, NEW a \in Chained(k), NEW b \in Chained(k), a # b
               PROVE  \/ a \in Waiting(k)' /\ b \in ahead'[a]
                      \/ b \in Waiting(k)' /\ a \in ahead'[b]
    BY <1>3 DEF Ordered
  <2>1. \/ a \in Waiting(k) /\ b \in ahead[a]
        \/ b \in Waiting(k) /\ a \in ahead[b]
    BY <1>4 DEF Ordered
  <2> QED
    BY <1>1, <1>2, <2>1
<1> QED
  BY <1>5, <1>6, <1>7

\* c chains itself to the next key.
LEMMA OneJoins ==
  ASSUME TypeOK, KeysFit, ChainInv, NEW c \in Creates, NEW k \in Keys, Chain(c, k),
         \A d \in Creates \ {c} : Stays(d), broken' = broken,
         c \notin Chained(k),
         creates'[c].pc = "wait",
         creates'[c].entered < Len(LockKeys(creates[c])'),
         c \in Waiting(k)', c \notin Inside(k)',
         \A j \in Keys \ {k} : /\ c \in Waiting(j) => ahead[c] = {}
                               /\ c \notin Waiting(j)'
                               /\ (c \in Inside(j))' <=> (c \in Chained(j))
  PROVE  KeysFit' /\ ChainInv'
<1>1. KeysFit'
  BY StaysPut DEF KeysFit, Stays
<1>2. \A d \in Creates \ {c} : ahead'[d] = ahead[d]
  BY DEF Chain, TypeOK
<1>3. ASSUME NEW j \in Keys \ {k} PROVE Gates(j)' /\ LastWaitsForAll(j)' /\ Ordered(j)'
  <2>1. entry'[j] = entry[j]
    BY DEF Chain, TypeOK
  <2> QED
    BY <1>2, <2>1, KeyKept
<1>4. /\ entry'[k].tail = c /\ entry'[k].pending = entry[k].pending \cup {c}
      /\ ahead'[c] = entry[k].pending
  BY DEF Chain, TypeOK, Current
<1>5. /\ \A d \in Creates \ {c} : (d \in Inside(k))' <=> (d \in Inside(k))
      /\ \A d \in Creates \ {c} : (d \in Waiting(k))' <=> (d \in Waiting(k))
  BY StaysPut
<1>6. Chained(k)' = Chained(k) \cup {c}
  <2>1. Chained(k) \subseteq Creates /\ Chained(k)' \subseteq Creates
    BY DEF Chained, Inside, Waiting
  <2> QED
    BY <1>5, <2>1 DEF Chained
<1>7. Gates(k) /\ Ordered(k)
  BY DEF ChainInv
<1>8. Gates(k)'
  BY <1>4, <1>6, <1>7 DEF Gates
<1>9. LastWaitsForAll(k)'
  BY <1>4, ProvisioningAssumption DEF LastWaitsForAll, Keys, Ids
<1>10. Ordered(k)'
  <2> SUFFICES ASSUME k \notin broken, NEW a \in Chained(k)', NEW b \in Chained(k)', a # b
               PROVE  \/ a \in Waiting(k)' /\ b \in ahead'[a]
                      \/ b \in Waiting(k)' /\ a \in ahead'[b]
    BY DEF Ordered
  <2>1. CASE a = c
    BY <1>4, <1>6, <1>7, <2>1 DEF Gates
  <2>2. CASE b = c
    BY <1>4, <1>6, <1>7, <2>2 DEF Gates
  <2>3. CASE a # c /\ b # c
    <3>1. a \in Chained(k) /\ b \in Chained(k)
      BY <1>6, <2>3
    <3>2. \/ a \in Waiting(k) /\ b \in ahead[a]
          \/ b \in Waiting(k) /\ a \in ahead[b]
      BY <1>7, <3>1 DEF Ordered
    <3> QED
      BY <1>2, <1>5, <2>3, <3>1, <3>2, ChainedAreLive
  <2> QED
    BY <2>1, <2>2, <2>3
<1> QED
  BY <1>1, <1>3, <1>8, <1>9, <1>10 DEF ChainInv

\* c, which holds its keys, answers and leaves.
LEMMA AnswerLeaves ==
  ASSUME TypeOK, KeysFit, ChainInv, NEW c \in Creates, NEW pc \in {"ok", "lost", "failed"},
         creates[c].pc # "wait", Answer(c, pc), broken' = broken
  PROVE  KeysFit' /\ ChainInv'
<1>1. creates'[c].pc = pc /\ \A d \in Creates \ {c} : creates'[d] = creates[d]
  BY DEF Answer, TypeOK, Idle
<1>2. ~Live(c)' /\ \A d \in Creates \ {c} : Stays(d)
  BY <1>1 DEF Live, Stays
<1>3. ASSUME NEW k \in Keys, entry[k].tail = c PROVE entry[k].pending = {c}
  <2>1. c \in entry[k].pending
    BY <1>3, ProvisioningAssumption DEF ChainInv, LastWaitsForAll, Keys, Ids
  <2>2. c \in Inside(k)
    BY <2>1, ChainedAreLive DEF ChainInv, Gates
  <2> QED
    BY <1>3, <2>2 DEF ChainInv, LastWaitsForAll
<1> QED
  BY <1>2, <1>3, OneLeaves DEF Answer

LEMMA TimeOutLeaves ==
  ASSUME TypeOK, KeysFit, ChainInv, NEW c \in Creates, TimeOut(c)
  PROVE  KeysFit' /\ ChainInv'
<1>1. creates'[c].pc = "failed" /\ \A d \in Creates \ {c} : creates'[d] = creates[d]
  BY DEF TimeOut, Answer, TypeOK, Idle
<1>2. ~Live(c)' /\ \A d \in Creates \ {c} : Stays(d)
  BY <1>1 DEF Live, Stays
<1>3. Unlock(c) /\ broken \subseteq broken'
  BY DEF TimeOut, Answer
<1>4. \A k \in Keys \ broken' : entry[k].tail = c => entry[k].pending = {c}
  BY DEF TimeOut
<1> QED
  BY <1>2, <1>3, <1>4, OneLeaves

\* A request that comes in.
LEMMA StartsWith ==
  ASSUME NEW c \in Creates, Start(c)
  PROVE  \E cnpj \in Documents, email \in Emails, company \in Ids, found \in BOOLEAN :
           LET r == [Idle EXCEPT !.pc = "wait", !.cnpj = cnpj, !.email = email,
                                 !.company = company, !.found = found]
           IN  creates' = [creates EXCEPT ![c] = r] /\ Chain(c, LockKeys(r)[1])
<1>1. c \in Ids
  BY DEF Ids
<1> QED
  BY <1>1 DEF Start

\* A step of one create leaves the others' rows alone.
LEMMA OthersUntouched ==
  ASSUME TypeOK, NEW c \in Creates, Start(c) \/ TimeOut(c) \/ Handle(c)
  PROVE  \A d \in Creates \ {c} : creates'[d] = creates[d]
<1>1. ASSUME NEW r, creates' = [creates EXCEPT ![c] = r]
      PROVE  \A d \in Creates \ {c} : creates'[d] = creates[d]
  BY <1>1 DEF TypeOK
<1>2. CASE Start(c)
  BY <1>1, <1>2, StartsWith
<1>3. ASSUME NEW pc, Answer(c, pc) PROVE \A d \in Creates \ {c} : creates'[d] = creates[d]
  BY <1>1, <1>3 DEF Answer
<1>4. CASE TimeOut(c) \/ Refuse(c) \/ Reuse(c) \/ Commit(c) \/ Abort(c) \/ UndoEnds(c)
  BY <1>3, <1>4 DEF TimeOut, Refuse, Reuse, Commit, Abort, UndoEnds
<1>5. CASE Enter(c) \/ Find(c) \/ CommitInDoubt(c) \/ Fail(c) \/ Undo(c)
  BY <1>5 DEF Enter, Find, CommitInDoubt, Fail, Undo, TypeOK
<1> QED
  BY <1>2, <1>4, <1>5 DEF Handle

LEMMA StartJoins ==
  ASSUME TypeOK, KeysFit, ChainInv, NEW c \in Creates, Start(c)
  PROVE  KeysFit' /\ ChainInv'
<1>1. PICK cnpj \in Documents, email \in Emails, company \in Ids, found \in BOOLEAN :
        LET r == [Idle EXCEPT !.pc = "wait", !.cnpj = cnpj, !.email = email,
                              !.company = company, !.found = found]
        IN  creates' = [creates EXCEPT ![c] = r] /\ Chain(c, LockKeys(r)[1])
  BY StartsWith
<1>2. PICK r : /\ r = [Idle EXCEPT !.pc = "wait", !.cnpj = cnpj, !.email = email,
                                   !.company = company, !.found = found]
               /\ creates' = [creates EXCEPT ![c] = r] /\ Chain(c, LockKeys(r)[1])
  BY <1>1
<1>3. r.pc = "wait" /\ r.entered = 0 /\ r.cnpj = cnpj /\ r.company = company
  BY <1>2 DEF Idle
<1>4. creates'[c] = r /\ \A d \in Creates \ {c} : creates'[d] = creates[d]
  BY <1>2 DEF TypeOK
<1>5. r.cnpj \in Cnpjs \cup {NoCnpj} /\ r.company \in Ids
  BY <1>3, ProvisioningAssumption
<1>6. /\ Len(LockKeys(r)) \in 1..2
      /\ \A i \in 1..Len(LockKeys(r)) : LockKeys(r)[i] \in Keys
  BY <1>5, KeysOf
<1> DEFINE k == LockKeys(r)[1]
<1>7. k \in Keys
  BY <1>6
<1>8. \A d \in Creates \ {c} : Stays(d)
  BY <1>4 DEF Stays, Live
<1>9. \A j : c \notin Inside(j) /\ c \notin Waiting(j)
  BY DEF Start, Inside, Waiting, Live
<1>10. LockKeys(creates[c])' = LockKeys(r)
  BY <1>4
<1>11. \A j : c \notin Inside(j)'
  BY <1>3, <1>4 DEF Inside
<1>12. \A j : (c \in Waiting(j))' <=> j = k
  BY <1>3, <1>4, <1>10 DEF Waiting
<1>13. creates'[c].pc = "wait" /\ creates'[c].entered < Len(LockKeys(creates[c])')
  BY <1>3, <1>4, <1>6, <1>10
<1>14. Chain(c, k) /\ broken' = broken
  BY <1>2 DEF Start, history
<1> HIDE DEF k
<1> QED
  BY <1>7, <1>8, <1>9, <1>11, <1>12, <1>13, <1>14, OneJoins DEF Chained

LEMMA EnterGoesOn ==
  ASSUME TypeOK, KeysFit, ChainInv, NEW c \in Creates, Enter(c)
  PROVE  KeysFit' /\ ChainInv'
<1> DEFINE r == creates[c]
           ks == LockKeys(r)
           n == r.entered + 1
<1>1. r \in Create /\ r.cnpj \in Cnpjs \cup {NoCnpj} /\ r.company \in Ids
  BY RequestRow
<1>2. /\ Len(ks) \in 1..2 /\ \A i \in 1..Len(ks) : ks[i] \in Keys
      /\ \A i, j \in 1..Len(ks) : ks[i] = ks[j] => i = j
  BY <1>1, KeysOf
<1>3. r.pc = "wait" /\ r.entered < Len(ks) /\ n \in 1..Len(ks) /\ ahead[c] = {}
  BY <1>1, <1>2 DEF Enter, KeysFit, Create
<1>4. broken' = broken
  BY DEF Enter, history
<1>5. /\ \A d \in Creates \ {c} : creates'[d] = creates[d]
      /\ creates'[c].entered = n
      /\ creates'[c].cnpj = r.cnpj /\ creates'[c].company = r.company
      /\ creates'[c].pc \in {"wait", "find"}
  BY <1>1, <1>3 DEF Enter, TypeOK, Create
<1>6. \A d \in Creates \ {c} : Stays(d)
  BY <1>5 DEF Stays, Live
<1>7. LockKeys(creates[c])' = ks
  BY <1>5 DEF LockKeys
<1>8. \A j : (c \in Inside(j)) <=> \E i \in 1..r.entered : ks[i] = j
  BY <1>1, <1>3 DEF Inside, Live, Create
<1>9. \A j : (c \in Waiting(j)) <=> j = ks[n]
  BY <1>3 DEF Waiting
<1>10. \A j : (c \in Inside(j))' <=> \E i \in 1..n : ks[i] = j
  BY <1>5, <1>7 DEF Inside, Live
<1>11. \A j : (c \in Inside(j))' <=> c \in Chained(j)
  BY <1>1, <1>3, <1>8, <1>9, <1>10 DEF Chained, Create
<1>12. CASE n < Len(ks)
  <2> PICK k : k = ks[n + 1]
    OBVIOUS
  <2>1. Chain(c, k) /\ creates'[c].pc = "wait"
    BY <1>1, <1>3, <1>12 DEF Enter, TypeOK, Create
  <2>2. k \in Keys /\ n + 1 \in 1..Len(ks)
    BY <1>1, <1>2, <1>12 DEF Create
  <2>3. \A j : (c \in Waiting(j))' <=> j = k
    BY <1>5, <1>7, <2>1 DEF Waiting
  <2>4. c \notin Inside(k)' /\ c \notin Chained(k)
    <3>1. \A i \in 1..n : ks[i] # k
      BY <1>1, <1>2, <1>3, <2>2 DEF Create
    <3> QED
      BY <1>10, <1>11, <3>1
  <2>5. creates'[c].entered < Len(LockKeys(creates[c])')
    BY <1>5, <1>7, <1>12
  <2> QED
    BY <1>3, <1>4, <1>6, <1>11, <2>1, <2>2, <2>3, <2>4, <2>5, OneJoins
<1>13. CASE ~(n < Len(ks))
  <2>1. UNCHANGED locks /\ creates'[c].pc = "find" /\ n = Len(ks)
    BY <1>1, <1>2, <1>3, <1>13 DEF Enter, TypeOK, Create
  <2>2. \A j : c \notin Waiting(j)'
    BY <2>1 DEF Waiting
  <2>3. KeysFit'
    BY <1>5, <1>6, <1>7, <2>1, StaysPut DEF KeysFit, Stays, Live
  <2> QED
    BY <1>3, <1>4, <1>6, <1>11, <2>1, <2>2, <2>3, KeyKept DEF ChainInv, locks
<1> QED
  BY <1>12, <1>13

LEMMA RestartEmpties ==
  ASSUME TypeOK, Restart
  PROVE  KeysFit' /\ ChainInv'
<1>1. \A c \in Creates : ~Live(c)'
  BY DEF Restart, Live, TypeOK, Idle
<1>2. \A k : Inside(k)' = {} /\ Waiting(k)' = {} /\ Chained(k)' = {}
  BY <1>1 DEF Inside, Waiting, Chained, Live
<1>3. \A k \in Keys : entry'[k].tail = Nobody /\ entry'[k].pending = {}
  BY DEF Restart, NoEntry
<1> QED
  BY <1>1, <1>2, <1>3 DEF KeysFit, ChainInv, Gates, LastWaitsForAll, Ordered, Live

\* Every step keeps the chains in order.
LEMMA ChainsKept ==
  ASSUME TypeOK, KeysFit, ChainInv, [Next]_vars
  PROVE  KeysFit' /\ ChainInv'
<1> USE DEF history
<1>1. ASSUME NEW c \in Creates, Find(c) PROVE KeysFit' /\ ChainInv'
  <2>1. \A d \in Creates \ {c} : creates'[d] = creates[d]
    BY <1>1 DEF Find, TypeOK
  <2>2. /\ creates[c].pc = "find" /\ creates'[c].pc \in {"reuse", "tx"}
        /\ creates'[c].cnpj = creates[c].cnpj /\ creates'[c].company = creates[c].company
        /\ creates'[c].entered = creates[c].entered
    BY <1>1, RequestRow DEF Find, TypeOK, Create
  <2>3. \A d \in Creates : Stays(d)
    BY <2>1, <2>2 DEF Stays, Live
  <2> QED
    BY <1>1, <2>3, AllStay DEF Find
<1>2. ASSUME NEW c \in Creates, CommitInDoubt(c) \/ Fail(c) \/ Undo(c)
      PROVE  KeysFit' /\ ChainInv'
  <2>1. \A d \in Creates \ {c} : creates'[d] = creates[d]
    BY <1>2 DEF CommitInDoubt, Fail, Undo, TypeOK
  <2>2. /\ creates[c].pc \in {"tx", "undo"} /\ creates'[c].pc = "undo"
        /\ creates'[c].cnpj = creates[c].cnpj /\ creates'[c].company = creates[c].company
        /\ creates'[c].entered = creates[c].entered
    BY <1>2, RequestRow DEF CommitInDoubt, Fail, Undo, TypeOK, Create
  <2>3. \A d \in Creates : Stays(d)
    BY <2>1, <2>2 DEF Stays, Live
  <2> QED
    BY <1>2, <2>3, AllStay DEF CommitInDoubt, Fail, Undo
<1>3. ASSUME UNCHANGED <<locks, creates, broken>> PROVE KeysFit' /\ ChainInv'
  <2>1. \A d \in Creates : Stays(d)
    BY <1>3 DEF Stays, Live
  <2> QED
    BY <1>3, <2>1, AllStay
<1>4. ASSUME NEW c \in Creates, Start(c) \/ TimeOut(c) \/ Enter(c) PROVE KeysFit' /\ ChainInv'
  BY <1>4, StartJoins, TimeOutLeaves, EnterGoesOn
<1>5. ASSUME NEW c \in Creates, Refuse(c) \/ Reuse(c) \/ Commit(c) \/ Abort(c) \/ UndoEnds(c)
      PROVE  KeysFit' /\ ChainInv'
  <2>1. /\ creates[c].pc # "wait" /\ broken' = broken
        /\ Answer(c, "ok") \/ Answer(c, "lost") \/ Answer(c, "failed")
    BY <1>5 DEF Refuse, Reuse, Commit, Abort, UndoEnds
  <2> QED
    BY <2>1, AnswerLeaves
<1>6. ASSUME NEW p \in Purges, PurgeRead(p) \/ PurgeEnds(p) PROVE KeysFit' /\ ChainInv'
  BY <1>3, <1>6 DEF PurgeRead, ReadTenant, ReadOnboarding, PurgeEnds, PurgeCommits, PurgeFails
<1>7. CASE RepairRead \/ RepairInsert \/ Quiet \/ UNCHANGED vars
  BY <1>3, <1>7 DEF RepairRead, RepairInsert, Quiet, vars
<1>8. CASE Restart
  BY <1>8, RestartEmpties
<1> QED
  BY <1>1, <1>2, <1>4, <1>5, <1>6, <1>7, <1>8 DEF Next, Handle

(***************************************************************************)
(* Types                                                                   *)
(***************************************************************************)

\* The tables, the lock map and the requests, as TypeOK has them.
TablesOK ==
  /\ companies \in [Ids -> Cnpjs \cup {NoCnpj, Nobody}]
  /\ users \subseteq Ids \X Emails
  /\ \A t \in DOMAIN tenants : t \in Creates /\ tenants[t] \in Tenant

LocksOK ==
  /\ entry \in [Keys -> [tail : Creates \cup {Nobody}, pending : SUBSET Creates]]
  /\ ahead \in [Creates -> SUBSET Creates]

CreatesOK == creates \in [Creates -> Create]

RestOK ==
  /\ purges \in [Purges -> Purge]
  /\ \/ repairing = Nobody
     \/ repairing \in [company : Ids, cnpj : Cnpjs \cup {NoCnpj}]
  /\ budget \in [faults : 0..MaxFaults, timeouts : 0..MaxTimeouts, crashes : 0..MaxCrashes]
  /\ broken \subseteq Keys /\ doubtful \subseteq Creates

LEMMA TypeParts ==
  /\ TypeOK <=> TablesOK /\ LocksOK /\ CreatesOK /\ RestOK
  /\ TypeOK' <=> TablesOK' /\ LocksOK' /\ CreatesOK' /\ RestOK'
  BY DEF TypeOK, TablesOK, LocksOK, CreatesOK, RestOK

LEMMA IdleFits ==
  \A pc \in {"idle", "ok", "lost", "failed", "dead"} : [Idle EXCEPT !.pc = pc] \in Create
<1> DEFINE e == CHOOSE x \in Emails : TRUE
<1>1. e \in Emails
  BY ProvisioningAssumption
<1>2. Len(UndoSteps) = 8
  BY DEF UndoSteps
<1>3. Idle = [pc |-> "idle", cnpj |-> NoCnpj, email |-> e, company |-> Legacy,
              found |-> FALSE, entered |-> 0, reused |-> Nobody, undone |-> 0]
  BY DEF Idle
<1> HIDE DEF e
<1>4. Idle \in Create
  BY <1>1, <1>2, <1>3 DEF Create, Ids
<1> QED
  BY <1>4 DEF Create

LEMMA SpendFits ==
  ASSUME RestOK, NEW what \in {"faults", "timeouts", "crashes"}, Spend(what)
  PROVE  budget' \in [faults : 0..MaxFaults, timeouts : 0..MaxTimeouts, crashes : 0..MaxCrashes]
  BY ProvisioningAssumption DEF RestOK, Spend

LEMMA AnswerFits ==
  ASSUME LocksOK, CreatesOK, NEW c \in Creates, NEW pc \in {"ok", "lost", "failed"}, Answer(c, pc)
  PROVE  LocksOK' /\ CreatesOK'
<1>1. CreatesOK'
  BY IdleFits DEF CreatesOK, Answer
<1>2. NoEntry \in [tail : Creates \cup {Nobody}, pending : SUBSET Creates]
  BY DEF NoEntry
<1>3. LocksOK'
  BY <1>2 DEF LocksOK, Answer, Unlock
<1> QED
  BY <1>1, <1>3

LEMMA ChainFits ==
  ASSUME LocksOK, NEW c \in Creates, NEW k \in Keys, Chain(c, k)
  PROVE  LocksOK'
  BY DEF LocksOK, Chain, Current

LEMMA JourneyFits ==
  ASSUME TablesOK, NEW t \in Creates, NEW row \in Tenant, Journey(t, row)
  PROVE  TablesOK'
<1>1. row.company \in Ids /\ row.cnpj \in Cnpjs \cup {NoCnpj} /\ row.email \in Emails
  BY DEF Tenant
<1>2. [row EXCEPT !.onboarding = TRUE, !.subscription = TRUE, !.licence = TRUE,
                  !.tombstone = FALSE] \in Tenant
  BY DEF Tenant
<1>3. companies' \in [Ids -> Cnpjs \cup {NoCnpj, Nobody}]
  BY <1>1 DEF Journey, Upsert, TablesOK
<1>4. users' \subseteq Ids \X Emails
  BY <1>1 DEF Journey, TablesOK
<1>5. \A s \in DOMAIN tenants' : s \in Creates /\ tenants'[s] \in Tenant
  BY <1>2 DEF Journey, TablesOK
<1> QED
  BY <1>3, <1>4, <1>5 DEF TablesOK

LEMMA DeleteFits ==
  ASSUME TablesOK, CreatesOK, NEW c \in Creates, NEW i \in 1..Len(UndoSteps),
         Delete(c, UndoSteps[i])
  PROVE  TablesOK'
<1> DEFINE step == UndoSteps[i]
<1>1. step \in {"licence", "tombstone", "subscription", "admin", "onboarding", "tenant", "users", "company"}
  BY DEF UndoSteps
<1> HIDE DEF step
<1>2. CASE step \in {"licence", "subscription", "onboarding"}
  <2>1. tenants' = Lacking(c, step) /\ UNCHANGED <<companies, users>>
    BY <1>2 DEF Delete, step
  <2>2. \A row \in Tenant : [row EXCEPT ![step] = FALSE] \in Tenant
    BY <1>2 DEF Tenant
  <2> QED
    BY <2>1, <2>2 DEF Lacking, TablesOK
<1>3. CASE step = "admin"
  BY <1>3 DEF Delete, step, TablesOK
<1>4. CASE step = "tenant"
  BY <1>4 DEF Delete, step, TablesOK, Without
<1>5. CASE step = "users"
  BY <1>5 DEF Delete, step, TablesOK
<1>6. CASE step = "company"
  BY <1>6 DEF Delete, step, TablesOK
<1>7. CASE step = "tombstone"
  <2>1. tenants' = Marked(c) /\ UNCHANGED <<companies, users>>
    BY <1>7 DEF Delete, step
  <2>2. \A row \in Tenant : [row EXCEPT !.tombstone = ~row.licence] \in Tenant
    BY DEF Tenant
  <2> QED
    BY <2>1, <2>2 DEF Marked, TablesOK
<1> QED
  BY <1>1, <1>2, <1>3, <1>4, <1>5, <1>6, <1>7

LEMMA RequestTypes ==
  ASSUME TypeOK, KeysFit, NEW c \in Creates,
         Start(c) \/ TimeOut(c) \/ Enter(c) \/ Find(c) \/ Refuse(c)
  PROVE  TypeOK'
<1> USE TypeParts DEF tables, history
<1>1. CASE Start(c)
  <2>1. PICK cnpj \in Documents, email \in Emails, company \in Ids, found \in BOOLEAN :
          LET r == [Idle EXCEPT !.pc = "wait", !.cnpj = cnpj, !.email = email,
                                !.company = company, !.found = found]
          IN  creates' = [creates EXCEPT ![c] = r] /\ Chain(c, LockKeys(r)[1])
    BY <1>1, StartsWith
  <2>2. PICK r : /\ r = [Idle EXCEPT !.pc = "wait", !.cnpj = cnpj, !.email = email,
                                     !.company = company, !.found = found]
                 /\ creates' = [creates EXCEPT ![c] = r] /\ Chain(c, LockKeys(r)[1])
    BY <2>1
  <2>3. [Idle EXCEPT !.pc = "idle"] \in Create
    BY IdleFits
  <2>4. r.cnpj \in Cnpjs \cup {NoCnpj} /\ r.company \in Ids /\ r \in Create
    BY <2>2, <2>3, ProvisioningAssumption DEF Create, Idle
  <2>5. LockKeys(r)[1] \in Keys
    BY <2>4, KeysOf
  <2>6. LocksOK' /\ CreatesOK'
    BY <2>2, <2>4, <2>5, ChainFits DEF CreatesOK
  <2>7. budget' \in [faults : 0..MaxFaults, timeouts : 0..MaxTimeouts, crashes : 0..MaxCrashes]
    BY <1>1, SpendFits DEF Start, RestOK
  <2>8. TablesOK' /\ RestOK'
    BY <1>1, <2>7 DEF Start, TablesOK, RestOK
  <2> QED
    BY <2>6, <2>8
<1>2. CASE TimeOut(c)
  <2>1. LocksOK' /\ CreatesOK'
    BY <1>2, AnswerFits DEF TimeOut
  <2>2. budget' \in [faults : 0..MaxFaults, timeouts : 0..MaxTimeouts, crashes : 0..MaxCrashes]
    BY <1>2, SpendFits DEF TimeOut
  <2>3. TablesOK' /\ RestOK'
    BY <1>2, <2>2 DEF TimeOut, TablesOK, RestOK
  <2> QED
    BY <2>1, <2>3
<1>3. CASE Enter(c)
  <2> DEFINE ks == LockKeys(creates[c])
             n == creates[c].entered + 1
  <2>1. creates[c] \in Create /\ creates[c].entered \in 0..2 /\ creates[c].pc = "wait"
    BY <1>3, RequestRow DEF Enter
  <2>2. Len(ks) \in 1..2 /\ \A i \in 1..Len(ks) : ks[i] \in Keys
    BY RequestRow, KeysOf
  <2>3. n \in 1..2
    <3>1. creates[c].entered < Len(ks)
      BY <2>1 DEF KeysFit
    <3>2. ASSUME NEW e \in 0..2, NEW l \in 1..2, e < l PROVE e + 1 \in 1..2
      BY <3>2
    <3> HIDE DEF ks
    <3> QED
      BY <2>1, <2>2, <3>1, <3>2
  <2>4. CreatesOK'
    BY <1>3, <2>1, <2>3 DEF Enter, CreatesOK, Create
  <2>5. CASE n < Len(ks)
    <3>1. ks[n + 1] \in Keys /\ Chain(c, ks[n + 1])
      BY <1>3, <2>2, <2>3, <2>5 DEF Enter
    <3> QED
      BY <1>3, <2>4, <3>1, ChainFits DEF Enter, TablesOK, RestOK
  <2>6. CASE ~(n < Len(ks))
    BY <1>3, <2>4, <2>6 DEF Enter, TablesOK, RestOK, LocksOK, locks
  <2> QED
    BY <2>5, <2>6
<1>4. CASE Find(c)
  <2>1. creates[c] \in Create /\ DOMAIN tenants \subseteq Creates
    BY RequestRow DEF TablesOK
  <2>2. CreatesOK'
    BY <1>4, <2>1 DEF Find, CreatesOK, Create
  <2> QED
    BY <1>4, <2>2 DEF Find, TablesOK, RestOK, LocksOK, locks
<1>5. CASE Refuse(c)
  <2>1. LocksOK' /\ CreatesOK'
    BY <1>5, AnswerFits DEF Refuse
  <2>2. budget' \in [faults : 0..MaxFaults, timeouts : 0..MaxTimeouts, crashes : 0..MaxCrashes]
    BY <1>5, SpendFits DEF Refuse
  <2> QED
    BY <1>5, <2>1, <2>2 DEF Refuse, TablesOK, RestOK
<1> QED
  BY <1>1, <1>2, <1>3, <1>4, <1>5

\* The tenant a create inserts.
LEMMA NewTenantFits ==
  ASSUME TypeOK, NEW c \in Creates
  PROVE  NewTenant(c) \in Tenant /\ NewTenant(c).cnpj = creates[c].cnpj
  BY DEF TypeOK, Create, NewTenant, Tenant

LEMMA WritingTypes ==
  ASSUME TypeOK, KeysFit, NEW c \in Creates,
         \/ Reuse(c) \/ Commit(c) \/ CommitInDoubt(c) \/ Abort(c)
         \/ Fail(c) \/ Undo(c) \/ UndoEnds(c)
  PROVE  TypeOK'
<1> USE TypeParts DEF tables, history
<1>1. CASE Reuse(c)
  <2> DEFINE t == creates[c].reused
  <2>1. LocksOK' /\ CreatesOK'
    BY <1>1, AnswerFits DEF Reuse
  <2>2. TablesOK'
    <3>1. CASE Provisionable(t) /\ Journey(t, tenants[t])
      <4>1. t \in Creates /\ tenants[t] \in Tenant
        BY <3>1 DEF Provisionable, TablesOK
      <4> HIDE DEF t
      <4> QED
        BY <3>1, <4>1, JourneyFits
    <3>2. CASE UNCHANGED tables
      BY <3>2 DEF TablesOK
    <3> QED
      BY <1>1, <3>1, <3>2 DEF Reuse
  <2>3. budget' \in [faults : 0..MaxFaults, timeouts : 0..MaxTimeouts, crashes : 0..MaxCrashes]
    BY <1>1, SpendFits DEF Reuse, RestOK
  <2> QED
    BY <1>1, <2>1, <2>2, <2>3 DEF Reuse, RestOK
<1>2. CASE Commit(c)
  BY <1>2, AnswerFits, JourneyFits, NewTenantFits DEF Commit, RestOK
<1>3. CASE CommitInDoubt(c)
  <2>1. CreatesOK'
    BY <1>3 DEF CommitInDoubt, CreatesOK, Create
  <2>2. budget' \in [faults : 0..MaxFaults, timeouts : 0..MaxTimeouts, crashes : 0..MaxCrashes]
    BY <1>3, SpendFits DEF CommitInDoubt
  <2>3. TablesOK'
    BY <1>3, JourneyFits, NewTenantFits DEF CommitInDoubt
  <2> QED
    BY <1>3, <2>1, <2>2, <2>3 DEF CommitInDoubt, RestOK, LocksOK, locks
<1>4. CASE Abort(c)
  <2>1. LocksOK' /\ CreatesOK'
    BY <1>4, AnswerFits DEF Abort
  <2>2. budget' \in [faults : 0..MaxFaults, timeouts : 0..MaxTimeouts, crashes : 0..MaxCrashes]
    BY <1>4, SpendFits DEF Abort
  <2> QED
    BY <1>4, <2>1, <2>2 DEF Abort, TablesOK, RestOK
<1>5. CASE Fail(c)
  <2>1. CreatesOK'
    BY <1>5 DEF Fail, CreatesOK, Create
  <2>2. budget' \in [faults : 0..MaxFaults, timeouts : 0..MaxTimeouts, crashes : 0..MaxCrashes]
    BY <1>5, SpendFits DEF Fail, RestOK
  <2> QED
    BY <1>5, <2>1, <2>2 DEF Fail, TablesOK, RestOK, LocksOK, locks
<1>6. CASE Undo(c)
  <2> DEFINE i == creates[c].undone + 1
  <2>1. i \in 1..Len(UndoSteps)
    <3>1. Len(UndoSteps) = 8
      BY DEF UndoSteps
    <3>2. creates[c].undone \in 0..8
      BY <3>1, RequestRow DEF Create
    <3> QED
      BY <1>6, <3>1, <3>2 DEF Undo, LastUndo
  <2>2. CreatesOK'
    BY <1>6, <2>1 DEF Undo, CreatesOK, Create
  <2>3. budget' \in [faults : 0..MaxFaults, timeouts : 0..MaxTimeouts, crashes : 0..MaxCrashes]
    BY <1>6, SpendFits DEF Undo, RestOK
  <2>4. Delete(c, UndoSteps[i]) \/ UNCHANGED tables
    BY <1>6 DEF Undo
  <2>5. TablesOK'
    BY <2>1, <2>4, DeleteFits DEF TablesOK
  <2> QED
    BY <1>6, <2>2, <2>3, <2>5 DEF Undo, RestOK, LocksOK, locks
<1>7. CASE UndoEnds(c)
  BY <1>7, AnswerFits DEF UndoEnds, TablesOK, RestOK
<1> QED
  BY <1>1, <1>2, <1>3, <1>4, <1>5, <1>6, <1>7

LEMMA OtherTypes ==
  ASSUME TypeOK,
         \/ \E p \in Purges : PurgeRead(p) \/ PurgeEnds(p)
         \/ RepairRead \/ RepairInsert \/ Restart \/ Quiet \/ UNCHANGED vars
  PROVE  TypeOK'
<1> USE TypeParts DEF tables, history
<1>1. ASSUME NEW p \in Purges, PurgeRead(p) PROVE TypeOK'
  <2>1. CASE ReadTenant(p)
    <3>1. PICK t \in DOMAIN tenants :
            purges' = [purges EXCEPT ![p] =
              [NoPurge EXCEPT !.pc = "read", !.tenant = t, !.company = tenants[t].company]]
      BY <2>1 DEF ReadTenant
    <3>2. t \in Creates /\ tenants[t].company \in Ids
      BY DEF TablesOK, Tenant
    <3>3. purges' \in [Purges -> Purge]
      BY <3>1, <3>2 DEF RestOK, Purge, NoPurge
    <3> QED
      BY <2>1, <3>3 DEF ReadTenant, TablesOK, RestOK, LocksOK, CreatesOK, locks
  <2>2. CASE ReadOnboarding(p)
    <3>1. purges' \in [Purges -> Purge]
      <4>1. ASSUME NEW q \in Purge, NEW a \in BOOLEAN, NEW b \in BOOLEAN
            PROVE  [q EXCEPT !.pc = "tx", !.onboarding = a, !.licence = b] \in Purge
        BY DEF Purge
      <4>2. [purges[p] EXCEPT !.pc = "tx"] \in Purge
        BY DEF RestOK, Purge
      <4> DEFINE onboarding == purges[p].tenant \in DOMAIN tenants
                                 /\ tenants[purges[p].tenant].onboarding
                 licence == onboarding /\ ~tenants[purges[p].tenant].tombstone
      <4>3. \/ purges' = [purges EXCEPT ![p].pc = "tx", ![p].onboarding = onboarding,
                                        ![p].licence = licence]
            \/ purges' = [purges EXCEPT ![p].pc = "tx"]
        BY <2>2 DEF ReadOnboarding
      <4>4. onboarding \in BOOLEAN /\ licence \in BOOLEAN
        BY DEF TablesOK, Tenant
      <4> HIDE DEF onboarding, licence
      <4>5. purges[p] \in Purge
        BY DEF RestOK
      <4> DEFINE q == [purges[p] EXCEPT !.pc = "tx", !.onboarding = onboarding,
                                        !.licence = licence]
      <4>6. q \in Purge
        BY <4>1, <4>4, <4>5, Zenon
      <4>7. \/ purges' = [purges EXCEPT ![p] = q]
            \/ purges' = [purges EXCEPT ![p] = [purges[p] EXCEPT !.pc = "tx"]]
        BY <4>3
      <4> HIDE DEF q
      <4> QED
        BY <4>2, <4>6, <4>7 DEF RestOK
    <3>2. budget' \in [faults : 0..MaxFaults, timeouts : 0..MaxTimeouts, crashes : 0..MaxCrashes]
      BY <2>2, SpendFits DEF ReadOnboarding, RestOK
    <3> QED
      BY <2>2, <3>1, <3>2 DEF ReadOnboarding, TablesOK, RestOK, LocksOK, CreatesOK, locks
  <2> QED
    BY <1>1, <2>1, <2>2 DEF PurgeRead
<1>2. ASSUME NEW p \in Purges, PurgeCommits(p) PROVE TypeOK'
  <2>1. purges' \in [Purges -> Purge]
    BY <1>2 DEF PurgeCommits, RestOK, Purge
  <2>2. TablesOK'
    BY <1>2 DEF PurgeCommits, Without, TablesOK
  <2> QED
    BY <1>2, <2>1, <2>2 DEF PurgeCommits, RestOK, LocksOK, CreatesOK, locks
<1>3. ASSUME NEW p \in Purges, PurgeFails(p) PROVE TypeOK'
  <2>1. purges' \in [Purges -> Purge]
    BY <1>3 DEF PurgeFails, RestOK, Purge, NoPurge
  <2>2. budget' \in [faults : 0..MaxFaults, timeouts : 0..MaxTimeouts, crashes : 0..MaxCrashes]
    BY <1>3, SpendFits DEF PurgeFails, RestOK
  <2> QED
    BY <1>3, <2>1, <2>2 DEF PurgeFails, TablesOK, RestOK, LocksOK, CreatesOK, locks
<1>4. CASE RepairRead
  BY <1>4 DEF RepairRead, TablesOK, Tenant, RestOK, LocksOK, CreatesOK, locks
<1>5. CASE RepairInsert
  <2>1. repairing \in [company : Ids, cnpj : Cnpjs \cup {NoCnpj}]
    BY <1>5 DEF RepairInsert, RestOK
  <2>2. TablesOK'
    BY <1>5, <2>1 DEF RepairInsert, Upsert, TablesOK
  <2> QED
    BY <1>5, <2>2 DEF RepairInsert, RestOK, LocksOK, CreatesOK, locks
<1>6. CASE Restart
  <2>1. NoEntry \in [tail : Creates \cup {Nobody}, pending : SUBSET Creates]
    BY DEF NoEntry
  <2>2. LocksOK'
    BY <1>6, <2>1 DEF Restart, LocksOK
  <2>3. CreatesOK'
    BY <1>6, IdleFits DEF Restart, CreatesOK
  <2>4. purges' \in [Purges -> Purge]
    BY <1>6 DEF Restart, RestOK, Purge, NoPurge
  <2>5. budget' \in [faults : 0..MaxFaults, timeouts : 0..MaxTimeouts, crashes : 0..MaxCrashes]
    BY <1>6, SpendFits DEF Restart
  <2> QED
    BY <1>6, <2>2, <2>3, <2>4, <2>5 DEF Restart, TablesOK, RestOK
<1>7. CASE Quiet \/ UNCHANGED vars
  BY <1>7 DEF Quiet, vars, TablesOK, RestOK, LocksOK, CreatesOK, locks
<1> QED
  BY <1>1, <1>2, <1>3, <1>4, <1>5, <1>6, <1>7 DEF PurgeEnds

LEMMA TypesKept ==
  ASSUME TypeOK, KeysFit, [Next]_vars
  PROVE  TypeOK'
  BY RequestTypes, WritingTypes, OtherTypes DEF Next, Handle

(***************************************************************************)
(* What the locks exclude                                                  *)
(***************************************************************************)

\* Two creates are inside a key only if it is broken.
LEMMA InsideAlone ==
  ASSUME TypeOK, KeysFit, ChainInv, NEW k \in Keys \ broken,
         NEW c \in Inside(k), NEW d \in Inside(k)
  PROVE  c = d
<1>1. c \in Chained(k) /\ d \in Chained(k)
  BY DEF Chained
<1>2. c \notin Waiting(k) /\ d \notin Waiting(k)
  BY <1>1, ChainedAreLive
<1> QED
  BY <1>1, <1>2 DEF ChainInv, Ordered

\* A create past its waits holds the key of its document.
LEMMA InsideOwnCnpj ==
  ASSUME TypeOK, KeysFit, NEW c \in Creates, creates[c].pc \in {"find", "tx", "undo"},
         creates[c].cnpj # NoCnpj
  PROVE  creates[c].cnpj \in Keys /\ c \in Inside(creates[c].cnpj)
<1>1. creates[c].cnpj \in Keys
  BY RequestRow DEF Keys
<1>2. /\ Len(LockKeys(creates[c])) \in 1..2
      /\ LockKeys(creates[c])[1] = creates[c].cnpj
  BY RequestRow, KeysOf
<1>3. Live(c) /\ creates[c].entered = Len(LockKeys(creates[c]))
  BY DEF Live, KeysFit
<1>4. 1 \in 1..creates[c].entered
  BY <1>2, <1>3
<1> QED
  BY <1>1, <1>2, <1>3, <1>4 DEF Inside

\* What a step that inserts no tenant keeps.
LEMMA NoInsert ==
  ASSUME NoneYet, OneTenantPerCnpj, broken \subseteq broken',
         \A t \in DOMAIN tenants' : t \in DOMAIN tenants /\ tenants'[t].cnpj = tenants[t].cnpj
  PROVE  /\ OneTenantPerCnpj'
         /\ (\A c \in Creates : creates'[c].pc = "tx" =>
               creates[c].pc = "tx" /\ creates'[c].cnpj = creates[c].cnpj) => NoneYet'
<1>1. OneTenantPerCnpj'
  BY DEF OneTenantPerCnpj
<1>2. ASSUME \A c \in Creates : creates'[c].pc = "tx" =>
               creates[c].pc = "tx" /\ creates'[c].cnpj = creates[c].cnpj
      PROVE  NoneYet'
  BY <1>2 DEF NoneYet
<1> QED
  BY <1>1, <1>2

\* The tenant c inserts is the only one of its document.
LEMMA InsertsFirst ==
  ASSUME ProvInv, NEW c \in Creates, creates[c].pc = "tx", Journey(c, NewTenant(c)),
         creates'[c].pc # "tx", \A d \in Creates \ {c} : creates'[d] = creates[d],
         broken' = broken
  PROVE  NoneYet' /\ OneTenantPerCnpj'
<1> USE DEF ProvInv
<1>1. /\ DOMAIN tenants' = DOMAIN tenants \cup {c}
      /\ tenants'[c].cnpj = creates[c].cnpj
      /\ \A t \in DOMAIN tenants \ {c} : tenants'[t] = tenants[t]
  <2>1. NewTenant(c) \in Tenant /\ NewTenant(c).cnpj = creates[c].cnpj
    BY NewTenantFits
  <2> QED
    BY <2>1 DEF Journey, Tenant
<1>2. creates[c].cnpj \notin broken \cup {NoCnpj} =>
        \A t \in DOMAIN tenants : tenants[t].cnpj # creates[c].cnpj
  BY DEF NoneYet
<1>3. OneTenantPerCnpj'
  BY <1>1, <1>2 DEF OneTenantPerCnpj
<1>4. ASSUME NEW d \in Creates, creates'[d].pc = "tx", creates'[d].cnpj \notin broken \cup {NoCnpj},
             NEW t \in DOMAIN tenants'
      PROVE  tenants'[t].cnpj # creates'[d].cnpj
  <2>1. d # c /\ creates'[d] = creates[d]
    BY <1>4
  <2>2. CASE t = c
    <3> SUFFICES ASSUME creates[c].cnpj = creates[d].cnpj PROVE FALSE
      BY <1>1, <2>1, <2>2
    <3>1. creates[d].cnpj # NoCnpj /\ creates[d].cnpj \notin broken /\ creates[d].pc = "tx"
      BY <1>4, <2>1
    <3>2. /\ creates[d].cnpj \in Keys \ broken
          /\ c \in Inside(creates[d].cnpj) /\ d \in Inside(creates[d].cnpj)
      BY <3>1, InsideOwnCnpj
    <3> QED
      BY <2>1, <3>2, InsideAlone
  <2>3. CASE t # c
    BY <1>1, <1>4, <2>1, <2>3 DEF NoneYet
  <2> QED
    BY <2>2, <2>3
<1>5. NoneYet'
  BY <1>4 DEF NoneYet
<1> QED
  BY <1>3, <1>5

\* The statement a compensation is about to send.
LEMMA UndoStepNamed ==
  ASSUME TypeOK, NEW c \in Creates, Undo(c)
  PROVE  /\ creates[c].undone + 1 \in 1..8
         /\ UndoSteps[creates[c].undone + 1] \in
              {"licence", "tombstone", "subscription", "admin", "onboarding", "tenant", "users", "company"}
         /\ UndoSteps[creates[c].undone + 1] \in {"users", "company"} => ~creates[c].found
<1>1. Len(UndoSteps) = 8 /\ \A j \in 1..8 : UndoSteps[j] \in
        {"licence", "tombstone", "subscription", "admin", "onboarding", "tenant", "users", "company"}
  BY DEF UndoSteps
<1>2. \A j \in 1..8 : UndoSteps[j] \in {"users", "company"} => j > 6
  BY DEF UndoSteps
<1>3. creates[c].undone \in 0..8
  BY <1>1, RequestRow DEF Create
<1>4. creates[c].undone + 1 \in 1..8 /\ (creates[c].found => creates[c].undone + 1 <= 6)
  BY <1>1, <1>3 DEF Undo, LastUndo
<1> QED
  BY <1>1, <1>2, <1>4

\* A statement of the compensation, or none, changes nobody's document.
LEMMA UndoInsertsNone ==
  ASSUME TypeOK, NEW c \in Creates, Undo(c)
  PROVE  \A t \in DOMAIN tenants' : /\ t \in DOMAIN tenants
                                    /\ tenants'[t].cnpj = tenants[t].cnpj
                                    /\ tenants'[t].company = tenants[t].company
<1> DEFINE step == UndoSteps[creates[c].undone + 1]
<1>1. step \in {"licence", "tombstone", "subscription", "admin", "onboarding", "tenant", "users", "company"}
  BY UndoStepNamed
<1>2. Delete(c, step) \/ UNCHANGED tables
  BY DEF Undo
<1> HIDE DEF step
<1>3. CASE Delete(c, step) /\ step \in {"licence", "subscription", "onboarding"}
  <2>1. tenants' = Lacking(c, step)
    BY <1>3 DEF Delete
  <2>2. \A row \in Tenant : /\ [row EXCEPT ![step] = FALSE].cnpj = row.cnpj
                            /\ [row EXCEPT ![step] = FALSE].company = row.company
    BY <1>3 DEF Tenant
  <2> QED
    BY <2>1, <2>2 DEF Lacking, TypeOK
<1>4. CASE Delete(c, step) /\ step = "tenant"
  BY <1>4 DEF Delete, Without
<1>5. CASE Delete(c, step) /\ step \in {"admin", "users", "company"}
  BY <1>5 DEF Delete
<1>6. CASE UNCHANGED tables
  BY <1>6 DEF tables
<1>7. CASE Delete(c, step) /\ step = "tombstone"
  <2>1. tenants' = Marked(c)
    BY <1>7 DEF Delete
  <2>2. \A row \in Tenant : /\ [row EXCEPT !.tombstone = ~row.licence].cnpj = row.cnpj
                            /\ [row EXCEPT !.tombstone = ~row.licence].company = row.company
    BY DEF Tenant
  <2> QED
    BY <2>1, <2>2 DEF Marked, TypeOK
<1> QED
  BY <1>1, <1>2, <1>3, <1>4, <1>5, <1>6, <1>7

\* Every step keeps documents apart.
LEMMA DocumentsKept ==
  ASSUME ProvInv, [Next]_vars
  PROVE  NoneYet' /\ OneTenantPerCnpj'
<1> USE DEF ProvInv, history
<1>1. ASSUME NEW c \in Creates, Start(c) \/ TimeOut(c) \/ Enter(c) \/ Refuse(c)
                                \/ Abort(c) \/ Fail(c) \/ UndoEnds(c)
      PROVE  NoneYet' /\ OneTenantPerCnpj'
  <2>1. tenants' = tenants /\ broken \subseteq broken'
    BY <1>1 DEF Start, TimeOut, Enter, Refuse, Abort, Fail, UndoEnds, tables
  <2>2. \A d \in Creates \ {c} : creates'[d] = creates[d]
    BY <1>1, OthersUntouched DEF Handle
  <2>3. creates'[c].pc # "tx"
    <3>1. CASE Start(c)
      <4>1. PICK cnpj \in Documents, email \in Emails, company \in Ids, found \in BOOLEAN :
              LET r == [Idle EXCEPT !.pc = "wait", !.cnpj = cnpj, !.email = email,
                                    !.company = company, !.found = found]
              IN  creates' = [creates EXCEPT ![c] = r] /\ Chain(c, LockKeys(r)[1])
        BY <3>1, StartsWith
      <4>2. creates'[c] = [Idle EXCEPT !.pc = "wait", !.cnpj = cnpj, !.email = email,
                                       !.company = company, !.found = found]
        BY <4>1 DEF TypeOK
      <4> QED
        BY <4>2 DEF Idle
    <3>2. CASE Enter(c)
      BY <3>2, RequestRow DEF Enter, TypeOK, Create
    <3>3. CASE Fail(c)
      BY <3>3, RequestRow DEF Fail, TypeOK, Create
    <3>4. CASE TimeOut(c) \/ Refuse(c) \/ Abort(c) \/ UndoEnds(c)
      BY <3>4 DEF TimeOut, Refuse, Abort, UndoEnds, Answer, TypeOK, Idle
    <3> QED
      BY <1>1, <3>1, <3>2, <3>3, <3>4
  <2> QED
    BY <2>1, <2>2, <2>3, NoInsert
<1>2. ASSUME NEW c \in Creates, Find(c) PROVE NoneYet' /\ OneTenantPerCnpj'
  <2>1. tenants' = tenants /\ broken' = broken
    BY <1>2 DEF Find, tables
  <2>2. /\ \A d \in Creates \ {c} : creates'[d] = creates[d]
        /\ creates'[c].cnpj = creates[c].cnpj
    BY <1>2, RequestRow DEF Find, TypeOK, Create
  <2>3. creates'[c].pc = "tx" /\ creates[c].cnpj # NoCnpj =>
          \A t \in DOMAIN tenants : tenants[t].cnpj # creates[c].cnpj
    BY <1>2, RequestRow DEF Find, TypeOK, Create
  <2>4. NoneYet'
    BY <2>1, <2>2, <2>3 DEF NoneYet
  <2> QED
    BY <2>1, <2>4, NoInsert
<1>3. ASSUME NEW c \in Creates, Reuse(c) PROVE NoneYet' /\ OneTenantPerCnpj'
  <2>1. broken' = broken /\ creates'[c].pc # "tx"
        /\ \A d \in Creates \ {c} : creates'[d] = creates[d]
    BY <1>3 DEF Reuse, Answer, TypeOK, Idle
  <2>2. \A t \in DOMAIN tenants' : t \in DOMAIN tenants /\ tenants'[t].cnpj = tenants[t].cnpj
    <3> DEFINE t == creates[c].reused
    <3>1. CASE Provisionable(t) /\ Journey(t, tenants[t])
      <4>1. t \in DOMAIN tenants /\ tenants[t] \in Tenant
        BY <3>1 DEF Provisionable, TypeOK
      <4>2. tenants'[t].cnpj = tenants[t].cnpj
        BY <3>1, <4>1 DEF Journey, Tenant
      <4> QED
        BY <3>1, <4>1, <4>2 DEF Journey
    <3>2. CASE UNCHANGED tables
      BY <3>2 DEF tables
    <3> QED
      BY <1>3, <3>1, <3>2 DEF Reuse
  <2> QED
    BY <2>1, <2>2, NoInsert
<1>4. ASSUME NEW c \in Creates, Commit(c) \/ CommitInDoubt(c)
      PROVE  NoneYet' /\ OneTenantPerCnpj'
  <2>1. creates[c].pc = "tx" /\ Journey(c, NewTenant(c)) /\ broken' = broken
    BY <1>4 DEF Commit, CommitInDoubt
  <2>2. creates'[c].pc # "tx" /\ \A d \in Creates \ {c} : creates'[d] = creates[d]
    BY <1>4, RequestRow DEF Commit, CommitInDoubt, Answer, TypeOK, Idle, Create
  <2> QED
    BY <2>1, <2>2, InsertsFirst
<1>5. ASSUME NEW c \in Creates, Undo(c) PROVE NoneYet' /\ OneTenantPerCnpj'
  <2>1. broken' = broken /\ creates[c].pc = "undo" /\ creates'[c].pc = "undo"
        /\ \A d \in Creates \ {c} : creates'[d] = creates[d]
    BY <1>5, RequestRow DEF Undo, TypeOK, Create
  <2> QED
    BY <1>5, <2>1, UndoInsertsNone, NoInsert
<1>6. ASSUME NEW p \in Purges, PurgeRead(p) \/ PurgeEnds(p) PROVE NoneYet' /\ OneTenantPerCnpj'
  <2>1. creates' = creates /\ broken' = broken
    BY <1>6 DEF PurgeRead, ReadTenant, ReadOnboarding, PurgeEnds, PurgeCommits, PurgeFails
  <2>2. \A t \in DOMAIN tenants' : t \in DOMAIN tenants /\ tenants'[t].cnpj = tenants[t].cnpj
    BY <1>6 DEF PurgeRead, ReadTenant, ReadOnboarding, PurgeEnds, PurgeCommits, PurgeFails, Without, tables
  <2> QED
    BY <2>1, <2>2, NoInsert
<1>7. CASE RepairRead \/ RepairInsert \/ Quiet \/ UNCHANGED vars
  <2>1. creates' = creates /\ broken' = broken /\ tenants' = tenants
    BY <1>7 DEF RepairRead, RepairInsert, Quiet, vars, tables
  <2> QED
    BY <2>1, NoInsert
<1>8. CASE Restart
  <2>1. broken' = broken /\ tenants' = tenants /\ \A c \in Creates : creates'[c].pc # "tx"
    BY <1>8 DEF Restart, tables, Live, TypeOK, Idle
  <2> QED
    BY <2>1, NoInsert
<1> QED
  BY <1>1, <1>2, <1>3, <1>4, <1>5, <1>6, <1>7, <1>8 DEF Next, Handle

(***************************************************************************)
(* The theorems                                                            *)
(***************************************************************************)

LEMMA ProvisioningInvariant == Spec => []ProvInv
<1>1. Init => ProvInv
  <2> SUFFICES ASSUME Init PROVE ProvInv
    OBVIOUS
  <2>1. [Idle EXCEPT !.pc = "idle"] = Idle /\ \A c \in Creates : creates[c] = Idle
    BY DEF Init, Idle
  <2>2. CreatesOK
    BY <2>1, IdleFits DEF Init, CreatesOK
  <2>3. NoEntry \in [tail : Creates \cup {Nobody}, pending : SUBSET Creates]
    BY DEF NoEntry
  <2>4. TypeOK
    <3>1. TablesOK
      BY ProvisioningAssumption DEF Init, TablesOK, Ids
    <3>2. LocksOK
      BY <2>3 DEF Init, LocksOK
    <3>3. RestOK
      BY ProvisioningAssumption DEF Init, RestOK, Purge, NoPurge
    <3> QED
      BY <2>2, <3>1, <3>2, <3>3, TypeParts
  <2>5. \A c \in Creates : creates[c].pc = "idle"
    BY <2>1 DEF Idle
  <2>6. \A k : Inside(k) = {} /\ Waiting(k) = {} /\ Chained(k) = {}
    BY <2>5 DEF Inside, Waiting, Chained, Live
  <2>7. \A k \in Keys : entry[k].tail = Nobody /\ entry[k].pending = {}
    BY DEF Init, NoEntry
  <2>8. KeysFit /\ ChainInv
    BY <2>5, <2>6, <2>7 DEF KeysFit, ChainInv, Gates, LastWaitsForAll, Ordered, Live
  <2>9. NoneYet /\ OneTenantPerCnpj
    BY <2>5 DEF Init, NoneYet, OneTenantPerCnpj
  <2> QED
    BY <2>4, <2>8, <2>9 DEF ProvInv
<1>2. ProvInv /\ [Next]_vars => ProvInv'
  BY TypesKept, ChainsKept, DocumentsKept DEF ProvInv
<1> QED
  BY <1>1, <1>2, PTL DEF Spec

\* Every variable of the provisioning handlers stays well formed.
THEOREM ProvisioningTypes == Spec => []TypeOK
<1>1. ProvInv => TypeOK
  BY DEF ProvInv
<1> QED
  BY <1>1, ProvisioningInvariant, PTL

\* withProvisionLocks lets one create at a time inside a key, however requests
\* interleave, fail or restart, until a wait for that key times out under a
\* holder.
THEOREM OneCreateInside == Spec => []OneInside
<1>1. ProvInv => OneInside
  <2> SUFFICES ASSUME ProvInv, NEW k \in Keys \ broken PROVE Cardinality(Inside(k)) <= 1
    BY DEF OneInside
  <2>1. CASE Inside(k) = {}
    BY <2>1, FS_EmptySet
  <2>2. CASE Inside(k) # {}
    <3>1. PICK c \in Inside(k) : TRUE
      BY <2>2
    <3>2. Inside(k) = {c}
      BY <3>1, InsideAlone DEF ProvInv
    <3> QED
      BY <3>2, FS_Singleton
  <2> QED
    BY <2>1, <2>2
<1> QED
  BY <1>1, ProvisioningInvariant, PTL

\* createFullyProvisioned never inserts a second tenant of a document, although
\* it chooses the company before it holds any lock, as long as no wait for the
\* document's key timed out under a holder.
THEOREM DocumentsStayApart == Spec => []OneTenantPerCnpj
<1>1. ProvInv => OneTenantPerCnpj
  BY DEF ProvInv
<1> QED
  BY <1>1, ProvisioningInvariant, PTL

(***************************************************************************)
(* Whose company is deleted, and what an answer of done leaves             *)
(***************************************************************************)

\* Where a create is once its transaction is over.
Past == {"undo", "ok", "failed", "dead"}

\* A create that discovered no company makes its own.
OwnCompany == \A c \in Creates : Live(c) /\ ~creates[c].found => creates[c].company = c

\* A tenant's creator is past its transaction: nobody inserts it again.
CreatorPast == \A t \in DOMAIN tenants : creates[t].pc \in Past

\* The tenant a create is about to reuse is still the one it found, if it is
\* still there.
ReusedMatches ==
  \A c \in Creates :
    creates[c].pc = "reuse" =>
      LET t == creates[c].reused
      IN  /\ t \in Creates /\ creates[t].pc \in Past
          /\ t \in DOMAIN tenants =>
               \/ tenants[t].company = creates[c].company
               \/ tenants[t].cnpj = creates[c].cnpj

PathInv == OwnCompany /\ CreatorPast /\ ReusedMatches

\* What a step may do to the tenants: keep whose they are, or insert that of a
\* create that is in its transaction.
TenantsStep ==
  \A t \in DOMAIN tenants' :
    \/ /\ t \in DOMAIN tenants
       /\ tenants'[t].cnpj = tenants[t].cnpj
       /\ tenants'[t].company = tenants[t].company
    \/ creates[t].pc = "tx" /\ creates'[t].pc \in Past

\* And to a create, except that it finds a tenant to reuse.
CreateStep(d) ==
  /\ creates[d].pc \in Past => creates'[d].pc \in Past
  /\ Live(d)' /\ ~creates'[d].found => creates'[d].company = d
  /\ creates'[d].pc = "reuse" => creates'[d] = creates[d]

LEMMA TenantsStepOf ==
  ASSUME ProvInv, [Next]_vars
  PROVE  TenantsStep
<1> USE DEF ProvInv
<1>1. ASSUME tenants' = tenants PROVE TenantsStep
  BY <1>1 DEF TenantsStep
<1>2. ASSUME NEW c \in Creates, Start(c) \/ TimeOut(c) \/ Enter(c) \/ Find(c) \/ Refuse(c)
                                \/ Abort(c) \/ Fail(c) \/ UndoEnds(c)
      PROVE  TenantsStep
  BY <1>1, <1>2 DEF Start, TimeOut, Enter, Find, Refuse, Abort, Fail, UndoEnds, tables
<1>3. ASSUME NEW c \in Creates, Reuse(c) PROVE TenantsStep
  <2> DEFINE t == creates[c].reused
  <2>1. CASE Provisionable(t) /\ Journey(t, tenants[t])
    <3>1. t \in DOMAIN tenants /\ tenants[t] \in Tenant
      BY <2>1 DEF Provisionable, TypeOK
    <3>2. tenants'[t].cnpj = tenants[t].cnpj /\ tenants'[t].company = tenants[t].company
      BY <2>1, <3>1 DEF Journey, Tenant
    <3> QED
      BY <2>1, <3>1, <3>2 DEF Journey, TenantsStep
  <2>2. CASE UNCHANGED tables
    BY <1>1, <2>2 DEF tables
  <2> QED
    BY <1>3, <2>1, <2>2 DEF Reuse
<1>4. ASSUME NEW c \in Creates, Commit(c) \/ CommitInDoubt(c) PROVE TenantsStep
  <2>1. creates[c].pc = "tx" /\ Journey(c, NewTenant(c))
    BY <1>4 DEF Commit, CommitInDoubt
  <2>2. creates'[c].pc \in Past
    BY <1>4, RequestRow DEF Commit, CommitInDoubt, Answer, TypeOK, Idle, Create, Past
  <2>3. \A t \in DOMAIN tenants' : t = c \/ (t \in DOMAIN tenants /\ tenants'[t] = tenants[t])
    BY <2>1 DEF Journey
  <2> QED
    BY <2>1, <2>2, <2>3 DEF TenantsStep
<1>5. ASSUME NEW c \in Creates, Undo(c) PROVE TenantsStep
  BY <1>5, UndoInsertsNone DEF TenantsStep
<1>6. ASSUME NEW p \in Purges, PurgeRead(p) \/ PurgeFails(p) PROVE TenantsStep
  BY <1>1, <1>6 DEF PurgeRead, ReadTenant, ReadOnboarding, PurgeFails, tables
<1>7. ASSUME NEW p \in Purges, PurgeCommits(p) PROVE TenantsStep
  BY <1>7 DEF PurgeCommits, Without, TenantsStep
<1>8. CASE RepairRead \/ RepairInsert \/ Restart \/ Quiet \/ UNCHANGED vars
  BY <1>1, <1>8 DEF RepairRead, RepairInsert, Restart, Quiet, vars, tables
<1> QED
  BY <1>2, <1>3, <1>4, <1>5, <1>6, <1>7, <1>8 DEF Next, Handle, PurgeEnds

LEMMA StartsOwn ==
  ASSUME NEW c \in Creates, Start(c)
  PROVE  \E cnpj \in Documents, email \in Emails, company \in Ids, found \in BOOLEAN :
           LET r == [Idle EXCEPT !.pc = "wait", !.cnpj = cnpj, !.email = email,
                                 !.company = company, !.found = found]
           IN  /\ creates' = [creates EXCEPT ![c] = r] /\ Chain(c, LockKeys(r)[1])
               /\ ~found => company = c
<1>1. c \in Ids
  BY DEF Ids
<1> QED
  BY <1>1 DEF Start

LEMMA CreateStepOf ==
  ASSUME ProvInv, OwnCompany, [Next]_vars, NEW d \in Creates
  PROVE  CreateStep(d) \/ Find(d)
<1> USE DEF ProvInv
<1>1. ASSUME creates'[d] = creates[d] PROVE CreateStep(d)
  BY <1>1 DEF OwnCompany, CreateStep, Live
<1>2. ASSUME Start(d) PROVE CreateStep(d)
  <2>1. PICK cnpj \in Documents, email \in Emails, company \in Ids, found \in BOOLEAN :
          LET r == [Idle EXCEPT !.pc = "wait", !.cnpj = cnpj, !.email = email,
                                !.company = company, !.found = found]
          IN  /\ creates' = [creates EXCEPT ![d] = r] /\ Chain(d, LockKeys(r)[1])
              /\ ~found => company = d
    BY <1>2, StartsOwn
  <2>2. creates'[d] = [Idle EXCEPT !.pc = "wait", !.cnpj = cnpj, !.email = email,
                                   !.company = company, !.found = found]
    BY <2>1 DEF TypeOK
  <2>3. creates'[d].pc = "wait" /\ creates'[d].company = company /\ creates'[d].found = found
    BY <2>2 DEF Idle
  <2> QED
    BY <1>2, <2>1, <2>3 DEF Start, CreateStep, Past
<1>3. ASSUME NEW pc \in {"ok", "lost", "failed"}, Answer(d, pc), pc # "lost" \/ creates[d].pc = "tx"
      PROVE  CreateStep(d)
  <2>1. creates'[d].pc = pc
    BY <1>3 DEF Answer, TypeOK, Idle
  <2> QED
    BY <1>3, <2>1 DEF CreateStep, Past, Live
<1>4. ASSUME TimeOut(d) \/ Refuse(d) \/ Reuse(d) \/ Commit(d) \/ Abort(d) \/ UndoEnds(d)
      PROVE  CreateStep(d)
  BY <1>3, <1>4 DEF TimeOut, Refuse, Reuse, Commit, Abort, UndoEnds
<1>5. ASSUME Enter(d) \/ CommitInDoubt(d) \/ Fail(d) \/ Undo(d) PROVE CreateStep(d)
  <2>1. /\ creates'[d].company = creates[d].company /\ creates'[d].found = creates[d].found
        /\ creates[d].pc \in {"wait", "tx", "undo"}
        /\ creates'[d].pc \in {"wait", "find", "undo"}
        /\ creates[d].pc = "undo" => creates'[d].pc = "undo"
    BY <1>5, RequestRow DEF Enter, CommitInDoubt, Fail, Undo, TypeOK, Create
  <2> QED
    BY <2>1 DEF OwnCompany, CreateStep, Live, Past
<1>6. ASSUME NEW c \in Creates, Start(c) \/ TimeOut(c) \/ Handle(c), c # d PROVE CreateStep(d)
  <2>1. creates'[d] = creates[d]
    BY <1>6, OthersUntouched
  <2> QED
    BY <1>1, <2>1
<1>7. CASE Restart
  <2>1. creates'[d].pc \in Past \/ (creates'[d] = creates[d] /\ ~Live(d))
    BY <1>7 DEF Restart, TypeOK, Idle, Past
  <2>2. CASE creates'[d].pc \in Past
    <3>1. creates'[d].pc # "undo"
      BY <1>7 DEF Restart, TypeOK, Idle, Live
    <3> QED
      BY <2>2, <3>1 DEF CreateStep, Live, Past
  <2> QED
    BY <1>1, <2>1, <2>2
<1>8. ASSUME NEW p \in Purges, PurgeRead(p) \/ PurgeEnds(p) PROVE CreateStep(d)
  BY <1>1, <1>8 DEF PurgeRead, ReadTenant, ReadOnboarding, PurgeEnds, PurgeCommits, PurgeFails
<1>9. CASE RepairRead \/ RepairInsert \/ Quiet \/ UNCHANGED vars
  BY <1>1, <1>9 DEF RepairRead, RepairInsert, Quiet, vars
<1> QED
  BY <1>2, <1>4, <1>5, <1>6, <1>7, <1>8, <1>9 DEF Next, Handle

\* Past the transaction is past for ever.
LEMMA PastStays ==
  ASSUME ProvInv, OwnCompany, [Next]_vars, NEW d \in Creates, creates[d].pc \in Past
  PROVE  creates'[d].pc \in Past
<1>1. ~Find(d)
  BY DEF Find, Past
<1> QED
  BY <1>1, CreateStepOf DEF CreateStep

LEMMA PathKept ==
  ASSUME ProvInv, PathInv, [Next]_vars
  PROVE  PathInv'
<1> USE DEF ProvInv, PathInv
<1>1. TenantsStep
  BY TenantsStepOf
<1>2. ASSUME NEW d \in Creates, Find(d)
      PROVE  /\ creates[d].pc = "find" /\ UNCHANGED tenants
             /\ creates'[d].company = creates[d].company
             /\ creates'[d].cnpj = creates[d].cnpj
             /\ creates'[d].found = creates[d].found
             /\ creates'[d].pc = "reuse" =>
                  LET t == creates'[d].reused
                  IN  /\ t \in DOMAIN tenants
                      /\ \/ tenants[t].company = creates[d].company
                         \/ tenants[t].cnpj = creates[d].cnpj
  BY <1>2, RequestRow DEF Find, TypeOK, Create, tables
<1>3. \A d \in Creates : creates[d].pc \in Past => creates'[d].pc \in Past
  BY PastStays
<1>4. OwnCompany'
  <2> SUFFICES ASSUME NEW d \in Creates, Live(d)', ~creates'[d].found
               PROVE  creates'[d].company = d
    BY DEF OwnCompany
  <2>1. CASE Find(d)
    BY <1>2, <2>1 DEF OwnCompany, Live
  <2>2. CASE CreateStep(d)
    BY <2>2 DEF CreateStep
  <2> QED
    BY <2>1, <2>2, CreateStepOf
<1>5. CreatorPast'
  <2> SUFFICES ASSUME NEW t \in DOMAIN tenants' PROVE creates'[t].pc \in Past
    BY DEF CreatorPast
  <2>1. t \in DOMAIN tenants => t \in Creates /\ creates[t].pc \in Past
    BY DEF CreatorPast, TypeOK
  <2> QED
    BY <1>1, <1>3, <2>1 DEF TenantsStep
<1>6. ReusedMatches'
  <2> SUFFICES ASSUME NEW d \in Creates, creates'[d].pc = "reuse"
               PROVE  LET t == creates'[d].reused
                      IN  /\ t \in Creates /\ creates'[t].pc \in Past
                          /\ t \in DOMAIN tenants' =>
                               \/ tenants'[t].company = creates'[d].company
                               \/ tenants'[t].cnpj = creates'[d].cnpj
    BY DEF ReusedMatches
  <2> DEFINE t == creates'[d].reused
  <2>1. CASE Find(d)
    <3>1. t \in DOMAIN tenants
      BY <1>2, <2>1
    <3>2. t \in Creates /\ creates[t].pc \in Past
      BY <3>1 DEF CreatorPast, TypeOK
    <3> QED
      BY <1>2, <1>3, <2>1, <3>2
  <2>2. CASE CreateStep(d)
    <3>1. creates'[d] = creates[d]
      BY <2>2 DEF CreateStep
    <3>2. /\ t \in Creates /\ creates[t].pc \in Past
          /\ t \in DOMAIN tenants =>
               \/ tenants[t].company = creates[d].company
               \/ tenants[t].cnpj = creates[d].cnpj
      BY <3>1 DEF ReusedMatches
    <3> QED
      BY <1>1, <1>3, <3>1, <3>2 DEF TenantsStep, Past
  <2> QED
    BY <2>1, <2>2, CreateStepOf
<1> QED
  BY <1>4, <1>5, <1>6

LEMMA AlwaysPath == Spec => []PathInv
<1>1. Init => PathInv
  <2> SUFFICES ASSUME Init PROVE PathInv
    OBVIOUS
  <2>1. \A c \in Creates : creates[c].pc = "idle"
    BY DEF Init, Idle
  <2> QED
    BY <2>1 DEF Init, PathInv, OwnCompany, CreatorPast, ReusedMatches, Live
<1>2. ProvInv /\ PathInv /\ [Next]_vars => PathInv'
  BY PathKept
<1> QED
  BY <1>1, <1>2, ProvisioningInvariant, PTL DEF Spec

\* The upsert of a company's row only ever puts a row there.
LEMMA UpsertAdds ==
  ASSUME TypeOK, NEW company \in Ids, NEW cnpj \in Cnpjs \cup {NoCnpj}, Upsert(company, cnpj)
  PROVE  /\ companies'[company] # Nobody
         /\ \A i \in Ids : companies'[i] = Nobody => companies[i] = Nobody
<1>1. cnpj # Nobody
  BY ProvisioningAssumption DEF Keys
<1> QED
  BY <1>1, ProvisioningAssumption DEF Upsert, TypeOK

\* So does the journey, which leaves the tenant complete.
LEMMA JourneyCompletes ==
  ASSUME TypeOK, NEW t, NEW row \in Tenant, Journey(t, row)
  PROVE  /\ t \in DOMAIN tenants'
         /\ tenants'[t].company = row.company /\ tenants'[t].cnpj = row.cnpj
         /\ tenants'[t].subscription /\ tenants'[t].licence
         /\ companies'[row.company] # Nobody
         /\ \A i \in Ids : companies'[i] = Nobody => companies[i] = Nobody
<1>1. row.company \in Ids /\ row.cnpj \in Cnpjs \cup {NoCnpj}
  BY DEF Tenant
<1>2. /\ t \in DOMAIN tenants'
      /\ tenants'[t] = [row EXCEPT !.onboarding = TRUE, !.subscription = TRUE, !.licence = TRUE,
                                     !.tombstone = FALSE]
  BY DEF Journey
<1>3. Upsert(row.company, row.cnpj)
  BY DEF Journey
<1> QED
  BY <1>1, <1>2, <1>3, UpsertAdds DEF Tenant

\* What a create that is done has done.
LEMMA DoneBy ==
  ASSUME ProvInv, [Next]_vars, NEW c \in Creates, creates[c].pc # "ok", creates'[c].pc = "ok"
  PROVE  \/ Commit(c)
         \/ /\ creates[c].pc = "reuse"
            /\ Provisionable(creates[c].reused)
            /\ Journey(creates[c].reused, tenants[creates[c].reused])
<1> USE DEF ProvInv
<1>1. ASSUME creates'[c] = creates[c] PROVE FALSE
  BY <1>1
<1>2. ASSUME Start(c) PROVE FALSE
  <2>1. PICK cnpj \in Documents, email \in Emails, company \in Ids, found \in BOOLEAN :
          LET r == [Idle EXCEPT !.pc = "wait", !.cnpj = cnpj, !.email = email,
                                !.company = company, !.found = found]
          IN  creates' = [creates EXCEPT ![c] = r] /\ Chain(c, LockKeys(r)[1])
    BY <1>2, StartsWith
  <2>2. creates'[c] = [Idle EXCEPT !.pc = "wait", !.cnpj = cnpj, !.email = email,
                                   !.company = company, !.found = found]
    BY <2>1 DEF TypeOK
  <2> QED
    BY <2>2 DEF Idle
<1>3. ASSUME Answer(c, "lost") \/ Answer(c, "failed") PROVE FALSE
  BY <1>3 DEF Answer, TypeOK, Idle
<1>4. ASSUME TimeOut(c) \/ Refuse(c) \/ Abort(c) \/ UndoEnds(c) PROVE FALSE
  BY <1>3, <1>4 DEF TimeOut, Refuse, Abort, UndoEnds
<1>5. ASSUME Enter(c) \/ Find(c) \/ CommitInDoubt(c) \/ Fail(c) \/ Undo(c) PROVE FALSE
  BY <1>5, RequestRow DEF Enter, Find, CommitInDoubt, Fail, Undo, TypeOK, Create
<1>6. ASSUME Reuse(c)
      PROVE  /\ creates[c].pc = "reuse"
             /\ Provisionable(creates[c].reused)
             /\ Journey(creates[c].reused, tenants[creates[c].reused])
  BY <1>3, <1>6 DEF Reuse
<1>7. ASSUME NEW d \in Creates, Start(d) \/ TimeOut(d) \/ Handle(d), d # c PROVE FALSE
  <2>1. creates'[c] = creates[c]
    BY <1>7, OthersUntouched
  <2> QED
    BY <1>1, <2>1
<1>8. CASE Restart
  BY <1>8 DEF Restart, TypeOK, Idle
<1>9. ASSUME NEW p \in Purges, PurgeRead(p) \/ PurgeEnds(p) PROVE FALSE
  BY <1>1, <1>9 DEF PurgeRead, ReadTenant, ReadOnboarding, PurgeEnds, PurgeCommits, PurgeFails
<1>10. CASE RepairRead \/ RepairInsert \/ Quiet \/ UNCHANGED vars
  BY <1>1, <1>10 DEF RepairRead, RepairInsert, Quiet, vars
<1> QED
  BY <1>2, <1>4, <1>5, <1>6, <1>7, <1>8, <1>9, <1>10 DEF Next, Handle

\* A create answered as done leaves a whole tenant of its company or document,
\* also when it reused one that was purged or completed meanwhile.
THEOREM DoneIsThere == Spec => DoneMeansThere
<1> DEFINE Done ==
      \A c \in Creates :
        creates[c].pc # "ok" /\ creates'[c].pc = "ok" =>
          \E t \in DOMAIN tenants' :
            /\ tenants'[t].company = creates[c].company \/ tenants'[t].cnpj = creates[c].cnpj
            /\ tenants'[t].subscription /\ tenants'[t].licence
            /\ companies'[tenants'[t].company] # Nobody
<1>1. ASSUME ProvInv, PathInv, [Next]_vars PROVE Done
  <2> SUFFICES ASSUME NEW c \in Creates, creates[c].pc # "ok", creates'[c].pc = "ok"
               PROVE  \E t \in DOMAIN tenants' :
                        /\ \/ tenants'[t].company = creates[c].company
                           \/ tenants'[t].cnpj = creates[c].cnpj
                        /\ tenants'[t].subscription /\ tenants'[t].licence
                        /\ companies'[tenants'[t].company] # Nobody
    OBVIOUS
  <2>1. CASE Commit(c)
    <3>1. NewTenant(c) \in Tenant /\ NewTenant(c).cnpj = creates[c].cnpj
      BY <1>1, NewTenantFits DEF ProvInv
    <3> QED
      BY <1>1, <2>1, <3>1, JourneyCompletes DEF Commit, ProvInv
  <2>2. CASE /\ creates[c].pc = "reuse"
             /\ Provisionable(creates[c].reused)
             /\ Journey(creates[c].reused, tenants[creates[c].reused])
    <3> DEFINE t == creates[c].reused
    <3>1. t \in DOMAIN tenants /\ tenants[t] \in Tenant
      BY <1>1, <2>2 DEF Provisionable, ProvInv, TypeOK
    <3>2. tenants[t].company = creates[c].company \/ tenants[t].cnpj = creates[c].cnpj
      BY <1>1, <2>2, <3>1 DEF PathInv, ReusedMatches
    <3> QED
      BY <1>1, <2>2, <3>1, <3>2, JourneyCompletes DEF ProvInv
  <2> QED
    BY <1>1, <2>1, <2>2, DoneBy
<1>2. ProvInv /\ PathInv /\ [Next]_vars => [Done]_vars
  BY <1>1
<1> QED
  BY <1>2, ProvisioningInvariant, AlwaysPath, PTL DEF Spec, DoneMeansThere

\* A step of the compensation deletes no company but the one its create made.
LEMMA UndoDeletesOwn ==
  ASSUME ProvInv, OwnCompany, NEW c \in Creates, Undo(c), NEW i \in Ids,
         companies[i] # Nobody, companies'[i] = Nobody
  PROVE  i = c /\ creates[c].pc = "undo"
<1> DEFINE n == creates[c].undone + 1
           step == UndoSteps[n]
<1> USE DEF ProvInv
<1>1. Len(UndoSteps) = 8 /\ \A j \in 1..8 : UndoSteps[j] = "company" => j = 8
  BY DEF UndoSteps
<1>2. \A j \in 1..8 : UndoSteps[j] \in
        {"licence", "tombstone", "subscription", "admin", "onboarding", "tenant", "users", "company"}
  BY DEF UndoSteps
<1>3. creates[c].undone \in 0..8
  BY <1>1, RequestRow DEF Create
<1>4. n \in 1..8 /\ (n = 8 => ~creates[c].found)
  BY <1>1, <1>3 DEF Undo, LastUndo
<1>5. creates[c].pc = "undo" /\ (Delete(c, step) \/ UNCHANGED tables)
  BY DEF Undo
<1>6. step \in {"licence", "tombstone", "subscription", "admin", "onboarding", "tenant", "users", "company"}
      /\ (step = "company" => n = 8)
  BY <1>1, <1>2, <1>4
<1> HIDE DEF step, n
<1>7. step = "company"
  BY <1>5, <1>6 DEF Delete, tables
<1>8. companies' = [companies EXCEPT ![creates[c].company] = Nobody]
  BY <1>5, <1>7 DEF Delete, tables
<1>9. i = creates[c].company
  BY <1>8 DEF TypeOK
<1>10. creates[c].company = c
  BY <1>4, <1>5, <1>6, <1>7 DEF OwnCompany, Live
<1> QED
  BY <1>5, <1>9, <1>10

\* The compensation of a failed create never deletes a company row it did not
\* insert: a row goes only with a purge of that company or in the compensation
\* of the create that made it.
THEOREM CompaniesStay == Spec => CompaniesLostOnlyToTheirOwn
<1> DEFINE Own(i) ==
      \/ \E p \in Purges : purges[p].company = i /\ purges'[p].pc # purges[p].pc
      \/ i \in Creates /\ creates[i].pc = "undo"
<1>1. ASSUME ProvInv, PathInv, [Next]_vars, NEW i \in Ids,
             companies[i] # Nobody, companies'[i] = Nobody
      PROVE  Own(i)
  <2> USE <1>1 DEF ProvInv
  <2>1. companies' # companies
    OBVIOUS
  <2>2. ASSUME NEW c \in Creates, NEW t, NEW row \in Tenant, Journey(t, row) PROVE FALSE
    BY <2>2, JourneyCompletes
  <2>3. ASSUME NEW c \in Creates, Reuse(c) PROVE FALSE
    <3> DEFINE t == creates[c].reused
    <3>1. CASE Provisionable(t) /\ Journey(t, tenants[t])
      <4>1. tenants[t] \in Tenant
        BY <3>1 DEF Provisionable, TypeOK
      <4> QED
        BY <2>2, <3>1, <4>1
    <3> QED
      BY <2>1, <2>3, <3>1 DEF Reuse, tables
  <2>4. ASSUME NEW c \in Creates, Commit(c) \/ CommitInDoubt(c) PROVE FALSE
    BY <2>2, <2>4, NewTenantFits DEF Commit, CommitInDoubt
  <2>5. ASSUME NEW c \in Creates, Undo(c) PROVE Own(i)
    BY <2>5, UndoDeletesOwn DEF PathInv
  <2>6. ASSUME NEW c \in Creates,
               \/ Start(c) \/ TimeOut(c) \/ Enter(c) \/ Find(c) \/ Refuse(c)
               \/ Abort(c) \/ Fail(c) \/ UndoEnds(c)
        PROVE  FALSE
    BY <2>1, <2>6 DEF Start, TimeOut, Enter, Find, Refuse, Abort, Fail, UndoEnds, tables
  <2>7. ASSUME NEW p \in Purges, PurgeCommits(p) PROVE Own(i)
    <3>1. purges[p].company = i
      BY <2>7 DEF PurgeCommits, TypeOK
    <3>2. purges[p].pc = "tx" /\ purges'[p].pc \in {"done", "stray"}
      BY <2>7 DEF PurgeCommits, TypeOK, Purge
    <3> QED
      BY <3>1, <3>2
  <2>8. ASSUME NEW p \in Purges, PurgeRead(p) \/ PurgeFails(p) PROVE FALSE
    BY <2>1, <2>8 DEF PurgeRead, ReadTenant, ReadOnboarding, PurgeFails, tables
  <2>9. CASE RepairInsert
    <3>1. repairing \in [company : Ids, cnpj : Cnpjs \cup {NoCnpj}]
      BY <2>9 DEF RepairInsert, TypeOK
    <3>2. repairing.company \in Ids /\ repairing.cnpj \in Cnpjs \cup {NoCnpj}
      BY <3>1
    <3> QED
      BY <2>9, <3>2, UpsertAdds DEF RepairInsert
  <2>10. CASE RepairRead \/ Restart \/ Quiet \/ UNCHANGED vars
    BY <2>1, <2>10 DEF RepairRead, Restart, Quiet, vars, tables
  <2> QED
    BY <2>3, <2>4, <2>5, <2>6, <2>7, <2>8, <2>9, <2>10 DEF Next, Handle, PurgeEnds
<1>2. ProvInv /\ PathInv /\ [Next]_vars =>
        [\A i \in Ids : companies[i] # Nobody /\ companies'[i] = Nobody => Own(i)]_vars
  BY <1>1
<1> QED
  BY <1>2, ProvisioningInvariant, AlwaysPath, PTL DEF Spec, CompaniesLostOnlyToTheirOwn

(***************************************************************************)
(* What keeps a tenant whole                                               *)
(***************************************************************************)

Docs == Cnpjs \cup {NoCnpj}

\* Company i stands for the document k somewhere: in its row, in a request
\* under way, in a tenant, or in the row a repair is about to insert.
Refers(i, k) ==
  \/ companies[i] = k
  \/ \E c \in Creates : Live(c) /\ creates[c].company = i /\ creates[c].cnpj = k
  \/ \E t \in DOMAIN tenants : tenants[t].company = i /\ tenants[t].cnpj = k
  \/ repairing # Nobody /\ repairing.company = i /\ repairing.cnpj = k

\* A company has one document, wherever it is named.
OneDocument == \A i \in Ids : \A j, k \in Docs : Refers(i, j) /\ Refers(i, k) => j = k

\* The UUID of a request not yet made is nowhere.
UnusedIds ==
  \A c \in Creates : creates[c].pc = "idle" => \A k \in Docs : ~Refers(c, k)

\* A company is discovered by its document, and one without is the creator's.
FoundByDocument ==
  /\ \A c \in Creates : Live(c) /\ creates[c].found => creates[c].cnpj # NoCnpj
  /\ \A t \in DOMAIN tenants : tenants[t].cnpj = NoCnpj => tenants[t].company = t

\* While a failed create compensates, nobody else's tenant has its document.
UndoneAlone ==
  \A c \in Creates :
    creates[c].pc = "undo" /\ creates[c].cnpj \notin broken \cup {NoCnpj} =>
      \A t \in DOMAIN tenants \ {c} : tenants[t].cnpj # creates[c].cnpj

OneTenantPerCompany ==
  \A s, t \in DOMAIN tenants : s # t => tenants[s].company # tenants[t].company

\* A create compensates for a tenant that is there only when its COMMIT went
\* through unheard.
UndoneInDoubt == \A t \in DOMAIN tenants : creates[t].pc = "undo" => t \in doubtful

\* The tenant a purge has read still has the company it has read, if it is
\* still there, and is not made again.
PurgesFit ==
  \A p \in Purges :
    purges[p].pc \in {"read", "tx"} =>
      LET t == purges[p].tenant
      IN  /\ t \in Creates /\ creates[t].pc \in Past
          /\ t \in DOMAIN tenants => tenants[t].company = purges[p].company

WholeInv ==
  /\ OneDocument /\ UnusedIds /\ FoundByDocument
  /\ UndoneAlone /\ OneTenantPerCompany /\ UndoneInDoubt /\ PurgesFit

\* The row a create comes in with: of the company that has its document, or
\* of its own.
LEMMA StartsOf ==
  ASSUME TypeOK, NEW c \in Creates, Start(c)
  PROVE  /\ creates[c].pc = "idle" /\ creates'[c].pc = "wait"
         /\ creates'[c].cnpj \in Docs /\ creates'[c].company \in Ids
         /\ \/ /\ creates'[c].found /\ creates'[c].cnpj # NoCnpj
               /\ companies[creates'[c].company] = creates'[c].cnpj
            \/ ~creates'[c].found /\ creates'[c].company = c
<1>1. creates[c].pc = "idle" /\ c \in Ids
  BY DEF Start, Ids
<1>2. PICK cnpj \in Documents, email \in Emails, company \in Ids, found \in BOOLEAN :
        LET r == [Idle EXCEPT !.pc = "wait", !.cnpj = cnpj, !.email = email,
                              !.company = company, !.found = found]
        IN  /\ creates' = [creates EXCEPT ![c] = r]
            /\ \/ found /\ cnpj # NoCnpj /\ companies[company] = cnpj
               \/ ~found /\ company = c
  BY <1>1 DEF Start
<1>3. creates'[c] = [Idle EXCEPT !.pc = "wait", !.cnpj = cnpj, !.email = email,
                                 !.company = company, !.found = found]
  BY <1>2 DEF TypeOK
<1>4. /\ creates'[c].pc = "wait" /\ creates'[c].cnpj = cnpj
      /\ creates'[c].company = company /\ creates'[c].found = found
  BY <1>3 DEF Idle
<1>5. cnpj \in Docs
  BY ProvisioningAssumption DEF Docs
<1> QED
  BY <1>1, <1>2, <1>4, <1>5

\* What a step makes of a request that was under way.
RowStep(d) ==
  /\ Live(d)' => /\ Live(d)
                 /\ creates'[d].company = creates[d].company
                 /\ creates'[d].cnpj = creates[d].cnpj
                 /\ creates'[d].found = creates[d].found
  /\ creates'[d].pc = "undo" => creates[d].pc \in {"tx", "undo"}
  /\ creates'[d].pc = "idle" => creates[d].pc = "idle"

LEMMA RowStepOf ==
  ASSUME ProvInv, [Next]_vars, NEW d \in Creates
  PROVE  RowStep(d) \/ Start(d)
<1> USE DEF ProvInv
<1>1. ASSUME creates'[d] = creates[d] PROVE RowStep(d)
  BY <1>1 DEF RowStep, Live
<1>2. ASSUME NEW pc \in {"ok", "lost", "failed"}, Answer(d, pc) PROVE RowStep(d)
  <2>1. creates'[d].pc = pc
    BY <1>2 DEF Answer, TypeOK, Idle
  <2> QED
    BY <2>1 DEF RowStep, Live
<1>3. ASSUME TimeOut(d) \/ Refuse(d) \/ Reuse(d) \/ Commit(d) \/ Abort(d) \/ UndoEnds(d)
      PROVE  RowStep(d)
  BY <1>2, <1>3 DEF TimeOut, Refuse, Reuse, Commit, Abort, UndoEnds
<1>4. ASSUME Enter(d) \/ Find(d) \/ CommitInDoubt(d) \/ Fail(d) \/ Undo(d) PROVE RowStep(d)
  <2>1. /\ creates'[d].company = creates[d].company /\ creates'[d].found = creates[d].found
        /\ creates'[d].cnpj = creates[d].cnpj
        /\ creates[d].pc \in {"wait", "find", "tx", "undo"}
        /\ creates'[d].pc \in {"wait", "find", "reuse", "tx", "undo"}
        /\ creates'[d].pc = "undo" => creates[d].pc \in {"tx", "undo"}
    BY <1>4, RequestRow DEF Enter, Find, CommitInDoubt, Fail, Undo, TypeOK, Create
  <2> QED
    BY <2>1 DEF RowStep, Live
<1>5. ASSUME NEW c \in Creates, Start(c) \/ TimeOut(c) \/ Handle(c), c # d PROVE RowStep(d)
  <2>1. creates'[d] = creates[d]
    BY <1>5, OthersUntouched
  <2> QED
    BY <1>1, <2>1
<1>6. CASE Restart
  <2>1. creates'[d].pc = "dead" \/ creates'[d] = creates[d]
    BY <1>6 DEF Restart, TypeOK, Idle
  <2>2. creates'[d].pc = "dead" => RowStep(d)
    BY DEF RowStep, Live
  <2> QED
    BY <1>1, <2>1, <2>2
<1>7. ASSUME NEW p \in Purges, PurgeRead(p) \/ PurgeEnds(p) PROVE RowStep(d)
  BY <1>1, <1>7 DEF PurgeRead, ReadTenant, ReadOnboarding, PurgeEnds, PurgeCommits, PurgeFails
<1>8. CASE RepairRead \/ RepairInsert \/ Quiet \/ UNCHANGED vars
  BY <1>1, <1>8 DEF RepairRead, RepairInsert, Quiet, vars
<1> QED
  BY <1>3, <1>4, <1>5, <1>6, <1>7, <1>8 DEF Next, Handle

\* A tenant that was not there is the one its create's transaction inserts.
LEMMA InsertedBy ==
  ASSUME ProvInv, [Next]_vars, NEW t \in DOMAIN tenants', t \notin DOMAIN tenants
  PROVE  /\ t \in Creates /\ creates[t].pc = "tx" /\ Committable(t)
         /\ Journey(t, NewTenant(t))
         /\ creates'[t].pc = "undo" => t \in doubtful'
<1> USE DEF ProvInv
<1>1. ASSUME tenants' = tenants PROVE FALSE
  BY <1>1
<1>2. ASSUME NEW c \in Creates, Start(c) \/ TimeOut(c) \/ Enter(c) \/ Find(c) \/ Refuse(c)
                                \/ Abort(c) \/ Fail(c) \/ UndoEnds(c)
      PROVE  FALSE
  BY <1>1, <1>2 DEF Start, TimeOut, Enter, Find, Refuse, Abort, Fail, UndoEnds, tables
<1>3. ASSUME NEW c \in Creates, Reuse(c) PROVE FALSE
  BY <1>1, <1>3 DEF Reuse, Provisionable, Journey, tables
<1>4. ASSUME NEW c \in Creates, Undo(c) PROVE FALSE
  BY <1>4, UndoInsertsNone
<1>5. ASSUME NEW c \in Creates, Commit(c) \/ CommitInDoubt(c)
      PROVE  /\ t \in Creates /\ creates[t].pc = "tx" /\ Committable(t)
             /\ Journey(t, NewTenant(t))
             /\ creates'[t].pc = "undo" => t \in doubtful'
  <2>1. creates[c].pc = "tx" /\ Committable(c) /\ Journey(c, NewTenant(c))
    BY <1>5 DEF Commit, CommitInDoubt
  <2>2. t = c
    BY <2>1 DEF Journey
  <2>3. creates'[c].pc = "undo" => c \in doubtful'
    BY <1>5 DEF Commit, CommitInDoubt, Answer, TypeOK, Idle
  <2> QED
    BY <2>1, <2>2, <2>3
<1>6. ASSUME NEW p \in Purges, PurgeRead(p) \/ PurgeEnds(p) PROVE FALSE
  BY <1>1, <1>6 DEF PurgeRead, ReadTenant, ReadOnboarding, PurgeEnds, PurgeFails, PurgeCommits, Without, tables
<1>7. CASE RepairRead \/ RepairInsert \/ Restart \/ Quiet \/ UNCHANGED vars
  BY <1>1, <1>7 DEF RepairRead, RepairInsert, Restart, Quiet, vars, tables
<1> QED
  BY <1>2, <1>3, <1>4, <1>5, <1>6, <1>7 DEF Next, Handle

\* A tenant that was there keeps whose it is.
LEMMA TenantKept ==
  ASSUME ProvInv, PathInv, [Next]_vars, NEW t \in DOMAIN tenants', t \in DOMAIN tenants
  PROVE  /\ t \in Creates
         /\ tenants'[t].cnpj = tenants[t].cnpj /\ tenants'[t].company = tenants[t].company
<1>1. t \in Creates /\ creates[t].pc # "tx"
  BY DEF ProvInv, TypeOK, PathInv, CreatorPast, Past
<1> QED
  BY <1>1, TenantsStepOf DEF TenantsStep

\* The new tenant's fields.
LEMMA NewTenantFields ==
  ASSUME TypeOK, NEW t \in Creates, Journey(t, NewTenant(t))
  PROVE  /\ t \in DOMAIN tenants'
         /\ tenants'[t].company = creates[t].company /\ tenants'[t].cnpj = creates[t].cnpj
<1>1. NewTenant(t) \in Tenant
  BY NewTenantFits
<1>2. NewTenant(t).company = creates[t].company /\ NewTenant(t).cnpj = creates[t].cnpj
  BY DEF NewTenant
<1> QED
  BY <1>1, <1>2, JourneyCompletes

\* A company's row goes, stays, or is written with a document that is already
\* its own.
LEMMA UpsertRefers ==
  ASSUME TypeOK, NEW company \in Ids, NEW cnpj \in Docs, Upsert(company, cnpj),
         Refers(company, cnpj), NEW i \in Ids
  PROVE  companies'[i] \in Docs => Refers(i, companies'[i])
<1>1. companies'[i] \in {companies[i], cnpj} /\ (i # company => companies'[i] = companies[i])
  BY DEF Upsert, TypeOK
<1>2. companies'[i] = companies[i] => Refers(i, companies'[i])
  BY DEF Refers
<1> QED
  BY <1>1, <1>2

LEMMA CompaniesStep ==
  ASSUME ProvInv, [Next]_vars, NEW i \in Ids
  PROVE  companies'[i] \in Docs => Refers(i, companies'[i])
<1> USE DEF ProvInv
<1>1. ASSUME companies'[i] = companies[i]
      PROVE  companies'[i] \in Docs => Refers(i, companies'[i])
  BY <1>1 DEF Refers
<1>2. ASSUME NEW c \in Creates, Start(c) \/ TimeOut(c) \/ Enter(c) \/ Find(c) \/ Refuse(c)
                                \/ Abort(c) \/ Fail(c) \/ UndoEnds(c)
      PROVE  companies' = companies
  BY <1>2 DEF Start, TimeOut, Enter, Find, Refuse, Abort, Fail, UndoEnds, tables
<1>3. ASSUME NEW c \in Creates, Reuse(c)
      PROVE  companies'[i] \in Docs => Refers(i, companies'[i])
  <2> DEFINE t == creates[c].reused
  <2>1. CASE Provisionable(t) /\ Journey(t, tenants[t])
    <3>1. t \in DOMAIN tenants /\ tenants[t] \in Tenant
      BY <2>1 DEF Provisionable, TypeOK
    <3>2. tenants[t].company \in Ids /\ tenants[t].cnpj \in Docs
      BY <3>1 DEF Tenant, Docs
    <3>3. Refers(tenants[t].company, tenants[t].cnpj)
      BY <3>1 DEF Refers
    <3>4. Upsert(tenants[t].company, tenants[t].cnpj)
      BY <2>1 DEF Journey
    <3> HIDE DEF t
    <3> QED
      BY <3>2, <3>3, <3>4, UpsertRefers
  <2>2. CASE UNCHANGED tables
    BY <1>1, <2>2 DEF tables
  <2> QED
    BY <1>3, <2>1, <2>2 DEF Reuse
<1>4. ASSUME NEW c \in Creates, Commit(c) \/ CommitInDoubt(c)
      PROVE  companies'[i] \in Docs => Refers(i, companies'[i])
  <2>1. creates[c].pc = "tx" /\ Journey(c, NewTenant(c))
    BY <1>4 DEF Commit, CommitInDoubt
  <2>2. Upsert(creates[c].company, creates[c].cnpj)
    BY <2>1 DEF Journey, NewTenant
  <2>3. creates[c].company \in Ids /\ creates[c].cnpj \in Docs
    BY RequestRow DEF Docs
  <2>4. Refers(creates[c].company, creates[c].cnpj)
    BY <2>1 DEF Refers, Live
  <2> QED
    BY <2>2, <2>3, <2>4, UpsertRefers
<1>5. ASSUME NEW c \in Creates, Undo(c), companies' # companies
      PROVE  companies' = [companies EXCEPT ![creates[c].company] = Nobody]
  <2> DEFINE step == UndoSteps[creates[c].undone + 1]
  <2>1. Delete(c, step)
    BY <1>5 DEF Undo, tables
  <2> HIDE DEF step
  <2>2. step \in {"licence", "tombstone", "subscription", "admin", "onboarding", "tenant", "users", "company"}
    BY <1>5, UndoStepNamed DEF step
  <2> QED
    BY <1>5, <2>1, <2>2 DEF Delete
<1>6. ASSUME NEW company, companies' = [companies EXCEPT ![company] = Nobody]
      PROVE  companies'[i] \in Docs => Refers(i, companies'[i])
  <2>1. Nobody \notin Docs
    BY ProvisioningAssumption DEF Docs, Keys
  <2>2. companies'[i] \in {companies[i], Nobody}
    BY <1>6 DEF TypeOK
  <2> QED
    BY <1>1, <2>1, <2>2
<1>7. ASSUME NEW p \in Purges, PurgeRead(p) \/ PurgeFails(p) PROVE companies' = companies
  BY <1>7 DEF PurgeRead, ReadTenant, ReadOnboarding, PurgeFails, tables
<1>8. ASSUME NEW p \in Purges, PurgeCommits(p)
      PROVE  companies'[i] \in Docs => Refers(i, companies'[i])
  BY <1>6, <1>8 DEF PurgeCommits
<1>9. CASE RepairInsert
  <2>1. repairing \in [company : Ids, cnpj : Docs] /\ Upsert(repairing.company, repairing.cnpj)
        /\ repairing # Nobody
    BY <1>9 DEF RepairInsert, TypeOK, Docs
  <2>2. Refers(repairing.company, repairing.cnpj)
    BY <2>1 DEF Refers
  <2> QED
    BY <2>1, <2>2, UpsertRefers
<1>10. CASE RepairRead \/ Restart \/ Quiet \/ UNCHANGED vars
  BY <1>1, <1>10 DEF RepairRead, Restart, Quiet, vars, tables
<1> QED
  BY <1>1, <1>2, <1>3, <1>4, <1>5, <1>6, <1>7, <1>8, <1>9, <1>10 DEF Next, Handle, PurgeEnds

\* A repair inserts what it has read of a tenant.
LEMMA RepairingStep ==
  ASSUME [Next]_vars
  PROVE  \/ repairing' = Nobody \/ repairing' = repairing
         \/ \E t \in DOMAIN tenants :
              repairing' = [company |-> tenants[t].company, cnpj |-> tenants[t].cnpj]
<1>1. ASSUME NEW c \in Creates, Start(c) \/ TimeOut(c) \/ Handle(c) PROVE repairing' = repairing
  BY <1>1 DEF Handle, Start, TimeOut, Enter, Find, Refuse, Reuse, Commit, CommitInDoubt,
              Abort, Fail, Undo, UndoEnds
<1>2. ASSUME NEW p \in Purges, PurgeRead(p) \/ PurgeEnds(p) PROVE repairing' = repairing
  BY <1>2 DEF PurgeRead, ReadTenant, ReadOnboarding, PurgeEnds, PurgeCommits, PurgeFails
<1>3. CASE RepairRead
  BY <1>3 DEF RepairRead
<1>4. CASE RepairInsert \/ Restart \/ Quiet \/ UNCHANGED vars
  BY <1>4 DEF RepairInsert, Restart, Quiet, vars
<1> QED
  BY <1>1, <1>2, <1>3, <1>4 DEF Next

\* Only a request that comes in names a company anew, and then its own.
LEMMA ReferencesStep ==
  ASSUME ProvInv, PathInv, [Next]_vars, NEW i \in Ids, NEW k \in Docs, Refers(i, k)'
  PROVE  \/ Refers(i, k)
         \/ i \in Creates /\ Start(i) /\ creates'[i].cnpj = k
<1> USE DEF ProvInv
<1>1. CASE companies'[i] = k
  BY <1>1, CompaniesStep
<1>2. ASSUME NEW c \in Creates, Live(c)', creates'[c].company = i, creates'[c].cnpj = k
      PROVE  Refers(i, k) \/ (i \in Creates /\ Start(i) /\ creates'[i].cnpj = k)
  <2>1. CASE Start(c)
    BY <1>2, <2>1, StartsOf DEF Refers
  <2>2. CASE RowStep(c)
    BY <1>2, <2>2 DEF RowStep, Refers
  <2> QED
    BY <2>1, <2>2, RowStepOf
<1>3. ASSUME NEW t \in DOMAIN tenants', tenants'[t].company = i, tenants'[t].cnpj = k
      PROVE  Refers(i, k)
  <2>1. CASE t \in DOMAIN tenants
    BY <1>3, <2>1, TenantKept DEF Refers
  <2>2. CASE t \notin DOMAIN tenants
    <3>1. t \in Creates /\ creates[t].pc = "tx" /\ Journey(t, NewTenant(t))
      BY <2>2, InsertedBy
    <3>2. creates[t].company = i /\ creates[t].cnpj = k /\ Live(t)
      BY <1>3, <3>1, NewTenantFields DEF Live
    <3> QED
      BY <3>1, <3>2 DEF Refers
  <2> QED
    BY <2>1, <2>2
<1>4. ASSUME repairing' # Nobody, repairing'.company = i, repairing'.cnpj = k
      PROVE  Refers(i, k)
  BY <1>4, RepairingStep DEF Refers
<1> QED
  BY <1>1, <1>2, <1>3, <1>4 DEF Refers

\* A company keeps its one document.
LEMMA OneDocumentKept ==
  ASSUME ProvInv, PathInv, OneDocument, UnusedIds, [Next]_vars
  PROVE  OneDocument' /\ UnusedIds'
<1>1. ASSUME NEW i \in Ids, NEW j \in Docs, NEW k \in Docs, Refers(i, j)', Refers(i, k)'
      PROVE  j = k
  <2>1. \/ Refers(i, j)
        \/ i \in Creates /\ Start(i) /\ creates'[i].cnpj = j
    BY <1>1, ReferencesStep
  <2>2. \/ Refers(i, k)
        \/ i \in Creates /\ Start(i) /\ creates'[i].cnpj = k
    BY <1>1, ReferencesStep
  <2>3. i \in Creates /\ Start(i) => ~Refers(i, j) /\ ~Refers(i, k)
    BY DEF UnusedIds, Start
  <2> QED
    BY <2>1, <2>2, <2>3 DEF OneDocument
<1>2. ASSUME NEW c \in Creates, creates'[c].pc = "idle", NEW k \in Docs, Refers(c, k)'
      PROVE  FALSE
  <2>1. c \in Ids
    BY DEF Ids
  <2>2. ~Start(c)
    BY <1>2, StartsOf DEF ProvInv
  <2>3. creates[c].pc = "idle"
    BY <1>2, <2>2, RowStepOf DEF RowStep
  <2>4. Refers(c, k)
    BY <1>2, <2>1, <2>2, ReferencesStep
  <2> QED
    BY <2>3, <2>4 DEF UnusedIds
<1>3. OneDocument'
  BY <1>1 DEF OneDocument
<1>4. UnusedIds'
  BY <1>2 DEF UnusedIds
<1> QED
  BY <1>3, <1>4

\* What has happened stays in the histories.
LEMMA HistoryGrows ==
  ASSUME [Next]_vars
  PROVE  broken \subseteq broken' /\ doubtful \subseteq doubtful'
<1> USE DEF history
<1>1. ASSUME NEW c \in Creates, Start(c) \/ TimeOut(c) \/ Handle(c)
      PROVE  broken \subseteq broken' /\ doubtful \subseteq doubtful'
  BY <1>1 DEF Handle, Start, TimeOut, Enter, Find, Refuse, Reuse, Commit, CommitInDoubt,
              Abort, Fail, Undo, UndoEnds
<1>2. ASSUME NEW p \in Purges, PurgeRead(p) \/ PurgeEnds(p)
      PROVE  broken \subseteq broken' /\ doubtful \subseteq doubtful'
  BY <1>2 DEF PurgeRead, ReadTenant, ReadOnboarding, PurgeEnds, PurgeCommits, PurgeFails
<1>3. CASE RepairRead \/ RepairInsert \/ Restart \/ Quiet \/ UNCHANGED vars
  BY <1>3 DEF RepairRead, RepairInsert, Restart, Quiet, vars
<1> QED
  BY <1>1, <1>2, <1>3 DEF Next

\* A purge is in its transaction with what it has just read or read before,
\* and one that went astray stays on record.
PurgeStep(p) ==
  /\ purges[p].pc = "stray" => purges'[p] = purges[p]
  /\ purges'[p].pc \in {"read", "tx"} =>
       \/ /\ purges[p].pc \in {"read", "tx"}
          /\ purges'[p].tenant = purges[p].tenant /\ purges'[p].company = purges[p].company
       \/ /\ purges'[p].tenant \in DOMAIN tenants
          /\ purges'[p].company = tenants[purges'[p].tenant].company

LEMMA PurgeStepOf ==
  ASSUME TypeOK, [Next]_vars, NEW p \in Purges
  PROVE  PurgeStep(p)
<1>1. ASSUME purges'[p] = purges[p] PROVE PurgeStep(p)
  BY <1>1 DEF PurgeStep
<1>2. ASSUME NEW c \in Creates, Start(c) \/ TimeOut(c) \/ Handle(c) PROVE purges' = purges
  BY <1>2 DEF Handle, Start, TimeOut, Enter, Find, Refuse, Reuse, Commit, CommitInDoubt,
              Abort, Fail, Undo, UndoEnds
<1>3. ASSUME NEW q \in Purges, PurgeRead(q) \/ PurgeEnds(q), q # p PROVE purges'[p] = purges[p]
  BY <1>3 DEF PurgeRead, ReadTenant, ReadOnboarding, PurgeEnds, PurgeCommits, PurgeFails, TypeOK
<1>4. CASE PurgeRead(p)
  <2>1. CASE ReadTenant(p)
    BY <2>1 DEF ReadTenant, NoPurge, PurgeStep, TypeOK
  <2>2. CASE ReadOnboarding(p)
    <3>1. purges[p].pc = "read" /\ purges[p] \in Purge
      BY <2>2 DEF ReadOnboarding, TypeOK
    <3>2. purges'[p].tenant = purges[p].tenant /\ purges'[p].company = purges[p].company
      BY <2>2, <3>1 DEF ReadOnboarding, TypeOK, Purge
    <3> QED
      BY <3>1, <3>2 DEF PurgeStep
  <2> QED
    BY <1>4, <2>1, <2>2 DEF PurgeRead
<1>5. CASE PurgeCommits(p)
  <2>1. purges[p].pc = "tx" /\ purges'[p].pc \in {"done", "stray"}
    BY <1>5 DEF PurgeCommits, TypeOK, Purge
  <2> QED
    BY <2>1 DEF PurgeStep
<1>6. CASE PurgeFails(p)
  <2>1. purges[p].pc = "tx" /\ purges'[p].pc = "failed"
    BY <1>6 DEF PurgeFails, TypeOK, NoPurge
  <2> QED
    BY <2>1 DEF PurgeStep
<1>7. CASE Restart
  <2>1. \/ purges'[p] = purges[p]
        \/ purges[p].pc \in {"read", "tx"} /\ purges'[p].pc = "dead"
    BY <1>7 DEF Restart, TypeOK, NoPurge
  <2> QED
    BY <1>1, <2>1 DEF PurgeStep
<1>8. CASE RepairRead \/ RepairInsert \/ Quiet \/ UNCHANGED vars
  BY <1>1, <1>8 DEF RepairRead, RepairInsert, Quiet, vars
<1> QED
  BY <1>1, <1>2, <1>3, <1>4, <1>5, <1>6, <1>7, <1>8 DEF Next, PurgeEnds

\* What keeps a tenant whole is kept by every step.
LEMMA WholeInvKept ==
  ASSUME ProvInv, PathInv, WholeInv, [Next]_vars
  PROVE  WholeInv'
<1> USE DEF ProvInv, PathInv, WholeInv
<1>1. OneDocument' /\ UnusedIds'
  BY OneDocumentKept
<1>2. TypeOK' /\ NoneYet' /\ OneTenantPerCnpj' /\ PathInv'
  BY TypesKept, DocumentsKept, PathKept
<1>3. FoundByDocument'
  <2>1. ASSUME NEW c \in Creates, Live(c)', creates'[c].found PROVE creates'[c].cnpj # NoCnpj
    BY <2>1, RowStepOf, StartsOf DEF RowStep, FoundByDocument
  <2>2. ASSUME NEW t \in DOMAIN tenants', tenants'[t].cnpj = NoCnpj
        PROVE  tenants'[t].company = t
    <3>1. CASE t \in DOMAIN tenants
      BY <2>2, <3>1, TenantKept DEF FoundByDocument
    <3>2. CASE t \notin DOMAIN tenants
      <4>1. t \in Creates /\ creates[t].pc = "tx" /\ Journey(t, NewTenant(t))
        BY <3>2, InsertedBy
      <4>2. creates[t].cnpj = NoCnpj /\ tenants'[t].company = creates[t].company /\ Live(t)
        BY <2>2, <4>1, NewTenantFields DEF Live
      <4> QED
        BY <4>1, <4>2 DEF FoundByDocument, OwnCompany
    <3> QED
      BY <3>1, <3>2
  <2> QED
    BY <2>1, <2>2 DEF FoundByDocument
<1>4. UndoneAlone'
  <2> SUFFICES ASSUME NEW c \in Creates, creates'[c].pc = "undo",
                      creates'[c].cnpj \notin broken' \cup {NoCnpj},
                      NEW t \in DOMAIN tenants' \ {c}, tenants'[t].cnpj = creates'[c].cnpj
               PROVE  FALSE
    BY DEF UndoneAlone
  <2>1. /\ creates[c].pc \in {"tx", "undo"}
        /\ creates[c].cnpj = creates'[c].cnpj
    <3>1. ~Start(c)
      BY StartsOf
    <3> QED
      BY <3>1, RowStepOf DEF RowStep, Live
  <2>2. creates[c].cnpj \notin broken \cup {NoCnpj}
    BY <2>1, HistoryGrows
  <2>3. CASE t \in DOMAIN tenants
    <3>1. tenants[t].cnpj = creates[c].cnpj
      BY <2>1, <2>3, TenantKept
    <3> QED
      BY <2>1, <2>2, <2>3, <3>1 DEF NoneYet, UndoneAlone
  <2>4. CASE t \notin DOMAIN tenants
    <3>1. t \in Creates /\ creates[t].pc = "tx" /\ Journey(t, NewTenant(t))
      BY <2>4, InsertedBy
    <3>2. creates[t].cnpj = creates[c].cnpj
      BY <2>1, <3>1, NewTenantFields
    <3>3. /\ creates[c].cnpj \in Keys \ broken
          /\ c \in Inside(creates[c].cnpj) /\ t \in Inside(creates[c].cnpj)
      BY <2>1, <2>2, <3>1, <3>2, InsideOwnCnpj
    <3> QED
      BY <3>3, InsideAlone
  <2> QED
    BY <2>3, <2>4
<1>5. OneTenantPerCompany'
  <2>1. ASSUME NEW r \in DOMAIN tenants', NEW t \in DOMAIN tenants', r # t,
               t \notin DOMAIN tenants
        PROVE  tenants'[r].company # tenants'[t].company
    <3>1. /\ t \in Creates /\ Journey(t, NewTenant(t))
          /\ \A u \in DOMAIN tenants : tenants[u].company # creates[t].company
      BY <2>1, InsertedBy DEF Committable, CompanyFree
    <3>2. tenants'[t].company = creates[t].company
      BY <3>1, NewTenantFields
    <3>3. r \in DOMAIN tenants
      BY <2>1, <3>1 DEF Journey
    <3> QED
      BY <2>1, <3>1, <3>2, <3>3, TenantKept
  <2>2. ASSUME NEW r \in DOMAIN tenants', NEW t \in DOMAIN tenants', r # t,
               r \in DOMAIN tenants, t \in DOMAIN tenants
        PROVE  tenants'[r].company # tenants'[t].company
    BY <2>2, TenantKept DEF OneTenantPerCompany
  <2> QED
    BY <2>1, <2>2 DEF OneTenantPerCompany
<1>6. UndoneInDoubt'
  <2> SUFFICES ASSUME NEW t \in DOMAIN tenants', creates'[t].pc = "undo"
               PROVE  t \in doubtful'
    BY DEF UndoneInDoubt
  <2>1. CASE t \in DOMAIN tenants
    <3>1. t \in Creates /\ creates[t].pc \in Past
      BY <2>1 DEF CreatorPast, TypeOK
    <3>2. creates[t].pc = "undo"
      BY <3>1, RowStepOf, StartsOf DEF RowStep, Past
    <3> QED
      BY <2>1, <3>2, HistoryGrows DEF UndoneInDoubt
  <2>2. CASE t \notin DOMAIN tenants
    BY <2>2, InsertedBy
  <2> QED
    BY <2>1, <2>2
<1>7. PurgesFit'
  <2> SUFFICES ASSUME NEW p \in Purges, purges'[p].pc \in {"read", "tx"}
               PROVE  LET t == purges'[p].tenant
                      IN  /\ t \in Creates /\ creates'[t].pc \in Past
                          /\ t \in DOMAIN tenants' => tenants'[t].company = purges'[p].company
    BY DEF PurgesFit
  <2> DEFINE t == purges'[p].tenant
  <2>1. \/ /\ purges[p].pc \in {"read", "tx"}
           /\ t = purges[p].tenant /\ purges'[p].company = purges[p].company
        \/ t \in DOMAIN tenants /\ purges'[p].company = tenants[t].company
    BY PurgeStepOf DEF PurgeStep
  <2>2. /\ t \in Creates /\ creates[t].pc \in Past
        /\ t \in DOMAIN tenants => tenants[t].company = purges'[p].company
    <3>1. CASE /\ purges[p].pc \in {"read", "tx"}
               /\ t = purges[p].tenant /\ purges'[p].company = purges[p].company
      BY <3>1 DEF PurgesFit
    <3>2. CASE t \in DOMAIN tenants /\ purges'[p].company = tenants[t].company
      BY <3>2 DEF CreatorPast, TypeOK
    <3> QED
      BY <2>1, <3>1, <3>2
  <2> HIDE DEF t
  <2>3. creates'[t].pc \in Past
    BY <2>2, PastStays
  <2>4. t \in DOMAIN tenants' => t \in DOMAIN tenants
    BY <2>2, InsertedBy DEF Past
  <2> QED
    BY <2>2, <2>3, <2>4, TenantKept DEF t
<1> QED
  BY <1>1, <1>3, <1>4, <1>5, <1>6, <1>7

LEMMA AlwaysWholeInv == Spec => []WholeInv
<1>1. Init => WholeInv
  <2> SUFFICES ASSUME Init PROVE WholeInv
    OBVIOUS
  <2>1. /\ \A c \in Creates : creates[c].pc = "idle"
        /\ DOMAIN tenants = {} /\ repairing = Nobody
        /\ companies = [i \in Ids |-> IF i = Legacy THEN LegacyCnpj ELSE Nobody]
        /\ \A p \in Purges : purges[p].pc = "idle"
    BY DEF Init, Idle, NoPurge
  <2>2. \A i \in Ids, k \in Docs : Refers(i, k) => i = Legacy /\ k = LegacyCnpj
    <3>1. Nobody \notin Docs
      BY ProvisioningAssumption DEF Docs, Keys
    <3> QED
      BY <2>1, <3>1 DEF Refers, Live
  <2>3. OneDocument
    BY <2>2 DEF OneDocument
  <2>4. UnusedIds
    BY <2>2, ProvisioningAssumption DEF UnusedIds, Ids
  <2> QED
    BY <2>1, <2>3, <2>4
    DEF WholeInv, FoundByDocument, UndoneAlone, OneTenantPerCompany, UndoneInDoubt, PurgesFit, Live
<1>2. ProvInv /\ PathInv /\ WholeInv /\ [Next]_vars => WholeInv'
  BY WholeInvKept
<1> QED
  BY <1>1, <1>2, ProvisioningInvariant, AlwaysPath, PTL DEF Spec

\* What TenantsAreWhole asks of a tenant, and what excuses it.
Whole(t) ==
  LET r == tenants[t]
  IN  /\ companies[r.company] # Nobody
      /\ r.onboarding /\ r.subscription /\ r.licence
      /\ <<r.company, r.email>> \in users

Excused(t) ==
  \/ t \in doubtful \/ tenants[t].cnpj \in broken
  \/ \E p \in Purges : purges[p].pc = "stray" /\ purges[p].company = tenants[t].company

\* The step leaves t's own rows, and at least the rows t needs of others.
Spared(t) ==
  /\ t \in DOMAIN tenants' /\ tenants'[t] = tenants[t]
  /\ companies'[tenants[t].company] = Nobody => companies[tenants[t].company] = Nobody
  /\ <<tenants[t].company, tenants[t].email>> \in users =>
       <<tenants[t].company, tenants[t].email>> \in users'

LEMMA SparedStaysWhole ==
  ASSUME NEW t, Spared(t), Whole(t)
  PROVE  Whole(t)'
  BY DEF Spared, Whole

\* The journey leaves its tenant whole and spares the others.
LEMMA JourneyWhole ==
  ASSUME TypeOK, NEW t, NEW row \in Tenant, Journey(t, row)
  PROVE  Whole(t)' /\ \A s \in DOMAIN tenants \ {t} : Spared(s)
<1> DEFINE new == [row EXCEPT !.onboarding = TRUE, !.subscription = TRUE, !.licence = TRUE,
                              !.tombstone = FALSE]
<1>1. new.onboarding /\ new.company = row.company /\ new.email = row.email
  BY DEF Tenant
<1>2. tenants'[t] = new
  BY DEF Journey
<1>3. /\ tenants'[t].onboarding /\ tenants'[t].company = row.company
      /\ tenants'[t].email = row.email
  BY <1>1, <1>2
<1>4. /\ tenants'[t].subscription /\ tenants'[t].licence
      /\ companies'[row.company] # Nobody
      /\ \A i \in Ids : companies'[i] = Nobody => companies[i] = Nobody
  BY JourneyCompletes
<1>5. users' = users \cup {<<row.company, row.email>>}
  BY DEF Journey
<1>6. Whole(t)'
  BY <1>3, <1>4, <1>5 DEF Whole
<1>7. ASSUME NEW s \in DOMAIN tenants \ {t} PROVE Spared(s)
  <2>1. s \in DOMAIN tenants' /\ tenants'[s] = tenants[s]
    BY DEF Journey
  <2>2. tenants[s].company \in Ids
    BY DEF TypeOK, Tenant
  <2> QED
    BY <1>4, <1>5, <2>1, <2>2 DEF Spared
<1> QED
  BY <1>6, <1>7

\* A create that compensates has a company of its own, unless the lock of the
\* document it shares with t is broken.
LEMMA UndoneElsewhere ==
  ASSUME ProvInv, PathInv, WholeInv, NEW c \in Creates, creates[c].pc = "undo",
         NEW t \in DOMAIN tenants, t # c, tenants[t].cnpj \notin broken
  PROVE  creates[c].company # tenants[t].company
<1> SUFFICES ASSUME creates[c].company = tenants[t].company PROVE FALSE
  OBVIOUS
<1>1. Live(c)
  BY DEF Live
<1>2. /\ tenants[t].company \in Ids /\ tenants[t].cnpj \in Docs
      /\ creates[c].cnpj \in Docs
  BY RequestRow DEF ProvInv, TypeOK, Tenant, Docs
<1>3. creates[c].cnpj = tenants[t].cnpj
  <2>1. Refers(tenants[t].company, creates[c].cnpj)
    BY <1>1 DEF Refers
  <2>2. Refers(tenants[t].company, tenants[t].cnpj)
    BY DEF Refers
  <2> QED
    BY <1>2, <2>1, <2>2 DEF WholeInv, OneDocument
<1>4. CASE tenants[t].cnpj = NoCnpj
  <2>1. tenants[t].company = t
    BY <1>4 DEF WholeInv, FoundByDocument
  <2>2. ~creates[c].found
    BY <1>1, <1>3, <1>4 DEF WholeInv, FoundByDocument
  <2>3. creates[c].company = c
    BY <1>1, <2>2 DEF PathInv, OwnCompany
  <2> QED
    BY <2>1, <2>3
<1>5. CASE tenants[t].cnpj # NoCnpj
  BY <1>3, <1>5 DEF WholeInv, UndoneAlone
<1> QED
  BY <1>4, <1>5

\* A compensation spares every other tenant.
LEMMA UndoSpares ==
  ASSUME ProvInv, PathInv, WholeInv, NEW c \in Creates, Undo(c),
         NEW t \in DOMAIN tenants, t # c, tenants[t].cnpj \notin broken
  PROVE  Spared(t)
<1> DEFINE step == UndoSteps[creates[c].undone + 1]
<1>1. step \in {"licence", "tombstone", "subscription", "admin", "onboarding", "tenant", "users", "company"}
  BY UndoStepNamed DEF ProvInv
<1>2. creates[c].pc = "undo" /\ (Delete(c, step) \/ UNCHANGED tables)
  BY DEF Undo
<1> HIDE DEF step
<1>3. creates[c].company # tenants[t].company
  BY <1>2, UndoneElsewhere
<1>4. tenants[t].company \in Ids
  BY DEF ProvInv, TypeOK, Tenant
<1>5. CASE Delete(c, step) /\ step \in {"licence", "subscription", "onboarding"}
  <2>1. tenants' = Lacking(c, step) /\ UNCHANGED <<companies, users>>
    BY <1>5 DEF Delete
  <2>2. t \in DOMAIN tenants' /\ tenants'[t] = tenants[t]
    BY <2>1 DEF Lacking
  <2> QED
    BY <2>1, <2>2 DEF Spared
<1>6. CASE Delete(c, step) /\ step = "tenant"
  <2>1. tenants' = Without(c) /\ UNCHANGED <<companies, users>>
    BY <1>6 DEF Delete
  <2>2. t \in DOMAIN tenants' /\ tenants'[t] = tenants[t]
    BY <2>1 DEF Without
  <2> QED
    BY <2>1, <2>2 DEF Spared
<1>7. CASE Delete(c, step) /\ step \in {"admin", "users"}
  <2>1. UNCHANGED <<companies, tenants>>
    BY <1>7 DEF Delete
  <2>2. \/ users' = users \ {<<creates[c].company, creates[c].email>>}
        \/ users' = {u \in users : u[1] # creates[c].company}
    BY <1>7 DEF Delete
  <2> QED
    BY <1>3, <2>1, <2>2 DEF Spared
<1>8. CASE Delete(c, step) /\ step = "company"
  <2>1. /\ companies' = [companies EXCEPT ![creates[c].company] = Nobody]
        /\ UNCHANGED <<users, tenants>>
    BY <1>8 DEF Delete
  <2>2. companies'[tenants[t].company] = companies[tenants[t].company]
    BY <1>3, <1>4, <2>1 DEF ProvInv, TypeOK
  <2> QED
    BY <2>1, <2>2 DEF Spared
<1>9. CASE UNCHANGED tables
  BY <1>9 DEF tables, Spared
<1>10. CASE Delete(c, step) /\ step = "tombstone"
  <2>1. tenants' = Marked(c) /\ UNCHANGED <<companies, users>>
    BY <1>10 DEF Delete
  <2>2. t \in DOMAIN tenants' /\ tenants'[t] = tenants[t]
    BY <2>1 DEF Marked
  <2> QED
    BY <2>1, <2>2 DEF Spared
<1> QED
  BY <1>1, <1>2, <1>5, <1>6, <1>7, <1>8, <1>9, <1>10

\* A purge takes the company of another tenant only if its own had gone: then
\* it is on record as one that went astray.
LEMMA PurgeSpares ==
  ASSUME ProvInv, PathInv, WholeInv, NEW p \in Purges, PurgeCommits(p),
         NEW t \in DOMAIN tenants, t \in DOMAIN tenants'
  PROVE  \/ Spared(t)
         \/ purges'[p].pc = "stray" /\ purges'[p].company = tenants[t].company
<1> DEFINE q == purges[p]
<1>1. /\ q.pc = "tx" /\ tenants' = Without(q.tenant)
      /\ users' = {u \in users : u[1] # q.company}
      /\ companies' = [companies EXCEPT ![q.company] = Nobody]
  BY DEF PurgeCommits
<1>2. purges'[p].company = q.company /\ (q.tenant \notin DOMAIN tenants => purges'[p].pc = "stray")
  BY DEF PurgeCommits, ProvInv, TypeOK, Purge
<1>3. t # q.tenant /\ tenants'[t] = tenants[t]
  BY <1>1 DEF Without
<1>4. tenants[t].company \in Ids
  BY DEF ProvInv, TypeOK, Tenant
<1>5. CASE q.company # tenants[t].company
  <2>1. companies'[tenants[t].company] = companies[tenants[t].company]
    BY <1>1, <1>4, <1>5 DEF ProvInv, TypeOK
  <2> QED
    BY <1>1, <1>3, <1>5, <2>1 DEF Spared
<1>6. CASE q.company = tenants[t].company
  <2>1. q.tenant \notin DOMAIN tenants
    BY <1>1, <1>3, <1>6 DEF WholeInv, PurgesFit, OneTenantPerCompany
  <2> QED
    BY <1>2, <1>6, <2>1
<1> QED
  BY <1>5, <1>6

\* Excuses do not lapse.
LEMMA ExcuseStays ==
  ASSUME ProvInv, PathInv, [Next]_vars, NEW t \in DOMAIN tenants, t \in DOMAIN tenants',
         Excused(t)
  PROVE  Excused(t)'
<1>1. tenants'[t].cnpj = tenants[t].cnpj /\ tenants'[t].company = tenants[t].company
  BY TenantKept
<1>2. broken \subseteq broken' /\ doubtful \subseteq doubtful'
  BY HistoryGrows
<1>3. \A p \in Purges : purges[p].pc = "stray" => purges'[p] = purges[p]
  BY PurgeStepOf DEF PurgeStep, ProvInv
<1> QED
  BY <1>1, <1>2, <1>3 DEF Excused

\* A whole tenant stays whole or has an excuse.
LEMMA WholeStays ==
  ASSUME ProvInv, PathInv, WholeInv, [Next]_vars, NEW t \in DOMAIN tenants,
         t \in DOMAIN tenants', Whole(t), ~Excused(t)
  PROVE  Whole(t)' \/ Excused(t)'
<1> USE SparedStaysWhole DEF ProvInv
<1>1. ASSUME UNCHANGED tables PROVE Whole(t)'
  BY <1>1 DEF tables, Spared
<1>2. ASSUME NEW c \in Creates, Start(c) \/ TimeOut(c) \/ Enter(c) \/ Find(c) \/ Refuse(c)
                                \/ Abort(c) \/ Fail(c) \/ UndoEnds(c)
      PROVE  Whole(t)'
  BY <1>1, <1>2 DEF Start, TimeOut, Enter, Find, Refuse, Abort, Fail, UndoEnds
<1>3. ASSUME NEW s, NEW row \in Tenant, Journey(s, row) PROVE Whole(t)'
  BY <1>3, JourneyWhole
<1>4. ASSUME NEW c \in Creates, Reuse(c) PROVE Whole(t)'
  <2> DEFINE s == creates[c].reused
  <2>1. CASE Provisionable(s) /\ Journey(s, tenants[s])
    <3>1. tenants[s] \in Tenant
      BY <2>1 DEF Provisionable, TypeOK
    <3> QED
      BY <1>3, <2>1, <3>1
  <2>2. CASE UNCHANGED tables
    BY <1>1, <2>2
  <2> QED
    BY <1>4, <2>1, <2>2 DEF Reuse
<1>5. ASSUME NEW c \in Creates, Commit(c) \/ CommitInDoubt(c) PROVE Whole(t)'
  BY <1>3, <1>5, NewTenantFits DEF Commit, CommitInDoubt
<1>6. ASSUME NEW c \in Creates, Undo(c) PROVE Whole(t)'
  <2>1. creates[c].pc = "undo"
    BY <1>6 DEF Undo
  <2>2. t # c /\ tenants[t].cnpj \notin broken
    BY <2>1 DEF WholeInv, UndoneInDoubt, Excused
  <2> QED
    BY <1>6, <2>2, UndoSpares
<1>7. ASSUME NEW p \in Purges, PurgeCommits(p) PROVE Whole(t)' \/ Excused(t)'
  <2>1. CASE Spared(t)
    BY <2>1
  <2>2. CASE purges'[p].pc = "stray" /\ purges'[p].company = tenants[t].company
    BY <2>2, TenantKept DEF Excused
  <2> QED
    BY <1>7, <2>1, <2>2, PurgeSpares
<1>8. ASSUME NEW p \in Purges, PurgeRead(p) \/ PurgeFails(p) PROVE Whole(t)'
  BY <1>1, <1>8 DEF PurgeRead, ReadTenant, ReadOnboarding, PurgeFails
<1>9. CASE RepairInsert
  <2>1. repairing \in [company : Ids, cnpj : Cnpjs \cup {NoCnpj}]
        /\ Upsert(repairing.company, repairing.cnpj) /\ UNCHANGED <<users, tenants>>
    BY <1>9 DEF RepairInsert, TypeOK
  <2>2. \A i \in Ids : companies'[i] = Nobody => companies[i] = Nobody
    BY <2>1, UpsertAdds
  <2>3. tenants[t].company \in Ids
    BY DEF TypeOK, Tenant
  <2> QED
    BY <2>1, <2>2, <2>3 DEF Spared
<1>10. CASE RepairRead \/ Restart \/ Quiet \/ UNCHANGED vars
  BY <1>1, <1>10 DEF RepairRead, Restart, Quiet, vars
<1> QED
  BY <1>2, <1>4, <1>5, <1>6, <1>7, <1>8, <1>9, <1>10 DEF Next, Handle, PurgeEnds

\* A customer in the Master panel keeps its company, subscription, licence and
\* administrator whatever creates, compensations, purges, repairs and restarts
\* do meanwhile, unless the answer to its COMMIT was lost, its document's lock
\* broke under a holder, or a purge went astray onto its company.
THEOREM TenantsStayWhole == Spec => []TenantsAreWhole
<1> DEFINE Inv == \A t \in DOMAIN tenants : Excused(t) \/ Whole(t)
<1>1. Inv => TenantsAreWhole
  BY DEF Excused, Whole, TenantsAreWhole
<1>2. Init => Inv
  BY DEF Init
<1>3. ASSUME ProvInv, PathInv, WholeInv, Inv, [Next]_vars PROVE Inv'
  <2> SUFFICES ASSUME NEW t \in DOMAIN tenants' PROVE (Excused(t) \/ Whole(t))'
    OBVIOUS
  <2>1. CASE t \in DOMAIN tenants
    BY <1>3, <2>1, ExcuseStays, WholeStays
  <2>2. CASE t \notin DOMAIN tenants
    <3>1. t \in Creates /\ Journey(t, NewTenant(t))
      BY <1>3, <2>2, InsertedBy
    <3> QED
      BY <1>3, <3>1, NewTenantFits, JourneyWhole DEF ProvInv
  <2> QED
    BY <2>1, <2>2
<1>4. ProvInv /\ PathInv /\ WholeInv /\ Inv /\ [Next]_vars => Inv'
  BY <1>3
<1> QED
  BY <1>1, <1>2, <1>4, ProvisioningInvariant, AlwaysPath, AlwaysWholeInv, PTL DEF Spec

=============================================================================
