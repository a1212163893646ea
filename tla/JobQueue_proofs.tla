--------------------------- MODULE JobQueue_proofs ---------------------------
(***************************************************************************)
(* The safety of the job queue for every number of jobs, attempts, batch   *)
(* size and disruptions.  IInv is the inductive invariant; what it adds to *)
(* the properties is how a coroutine and the row at its rowid agree.       *)
(***************************************************************************)
EXTENDS JobQueue, TLAPS

-----------------------------------------------------------------------------
(* What each operation on the jobs table does to every row. *)

(* The table of a new database is a table with no row in it. *)
LEMMA EmptyTableRows ==
  /\ EmptyTable \in Table
  /\ \A i \in JobId : EmptyTable[i] = Blank
BY DEF EmptyTable, Table, Row, Blank, Status

(* Deleting rows: those of S are gone, the others are as they were. *)
LEMMA ErasedRows ==
  ASSUME NEW t \in Table, NEW S
  PROVE  /\ Erased(t, S) \in Table
         /\ \A i \in S \cap JobId : Erased(t, S)[i] = Blank
         /\ \A i \in JobId \ S : Erased(t, S)[i] = t[i]
BY DEF Erased, Table, Row, Blank, Status

(* enqueue: one new pending row, the finished rows of its key gone, every   *)
(* other row as it was; the rowid taken was free.                           *)
LEMMA EnqueuedRows ==
  ASSUME NEW t \in Table, NEW w \in Work, NEW id \in JobId,
         CanEnqueue(t, w, id)
  PROVE  /\ Enqueued(t, w, id) \in Table
         /\ Enqueued(t, w, id)[id] = [work |-> w, status |-> "pending", attempts |-> 0]
         /\ t[id].status = "absent" \/ id \in Finished(t, w)
         /\ \A i \in Finished(t, w) \ {id} : Enqueued(t, w, id)[i] = Blank
         /\ \A i \in JobId \ (Finished(t, w) \cup {id}) : Enqueued(t, w, id)[i] = t[i]
<1> DEFINE F == Finished(t, w)
           u == Erased(t, F)
<1>1. F \subseteq JobId
  BY DEF Finished
<1>2. /\ u \in Table
      /\ \A i \in F : u[i] = Blank
      /\ \A i \in JobId \ F : u[i] = t[i]
  BY <1>1, ErasedRows
<1>3. t[id].status = "absent" \/ id \in F
  <2>1. id \notin Present(u)
    BY DEF CanEnqueue, IsNextRowid, JobId, Present
  <2>2. u[id].status = "absent"
    BY <2>1 DEF Present
  <2> QED BY <1>2, <2>2
<1>4. Enqueued(t, w, id) =
        [u EXCEPT ![id] = [work |-> w, status |-> "pending", attempts |-> 0]]
  BY DEF Enqueued
<1> HIDE DEF u, F
<1>5. Enqueued(t, w, id) \in Table
  BY <1>2, <1>4 DEF Table, Row, Status
<1> QED
  BY <1>1, <1>2, <1>3, <1>4, <1>5 DEF F, Table

(* _claim: the claimed rows run and have counted one more attempt. *)
LEMMA ClaimedRows ==
  ASSUME NEW t \in Table, NEW S \in SUBSET JobId
  PROVE  /\ Claimed(t, S) \in Table
         /\ \A i \in JobId : Claimed(t, S)[i].work = t[i].work
         /\ \A i \in S : /\ Claimed(t, S)[i].status = "running"
                         /\ Claimed(t, S)[i].attempts = t[i].attempts + 1
         /\ \A i \in JobId \ S : Claimed(t, S)[i] = t[i]
<1> DEFINE new(i) == [t[i] EXCEPT !.status = "running", !.attempts = @ + 1]
<1>1. \A i \in JobId : /\ new(i) \in Row
                       /\ new(i).work = t[i].work
                       /\ new(i).status = "running"
                       /\ new(i).attempts = t[i].attempts + 1
  <2> TAKE i \in JobId
  <2> DEFINE n == t[i].attempts + 1
  <2>1. t[i] \in Row /\ n \in Nat
    BY DEF Table, Row
  <2>2. new(i) = [t[i] EXCEPT !.status = "running", !.attempts = n]
    OBVIOUS
  <2> HIDE DEF n, new
  <2> QED BY <2>1, <2>2 DEF Row, Status, n
<1>2. Claimed(t, S) = [i \in JobId |-> IF i \in S THEN new(i) ELSE t[i]]
  BY DEF Claimed
<1> HIDE DEF new
<1> QED BY <1>1, <1>2 DEF Table

(* _finish: only the row at that rowid changes, and only if there is one. *)
LEMMA SettledRows ==
  ASSUME NEW t \in Table, NEW id \in JobId, NEW ok \in BOOLEAN
  PROVE  /\ Settled(t, id, ok) \in Table
         /\ \A i \in JobId : /\ Settled(t, id, ok)[i].work = t[i].work
                             /\ Settled(t, id, ok)[i].attempts = t[i].attempts
         /\ \A i \in JobId \ {id} : Settled(t, id, ok)[i] = t[i]
         /\ Settled(t, id, ok)[id].status =
              IF t[id].status = "absent" THEN "absent" ELSE StatusAfter(t[id], ok)
<1>1. StatusAfter(t[id], ok) \in Status
  BY DEF StatusAfter, Status
<1> QED BY <1>1 DEF Settled, Table, Row

(* reset_orphaned_jobs: no row is left running. *)
LEMMA ResetRows ==
  ASSUME NEW t \in Table
  PROVE  /\ Reset(t) \in Table
         /\ \A i \in JobId :
              /\ Reset(t)[i].work = t[i].work
              /\ Reset(t)[i].attempts = t[i].attempts
              /\ Reset(t)[i].status =
                   IF t[i].status = "running" THEN "pending" ELSE t[i].status
BY DEF Reset, Table, Row, Status

(* revive_dead: a dead row is pending with no attempt counted. *)
LEMMA RevivedRows ==
  ASSUME NEW t \in Table
  PROVE  /\ Revived(t) \in Table
         /\ \A i \in JobId :
              /\ Revived(t)[i].work = t[i].work
              /\ Revived(t)[i].attempts =
                   IF t[i].status = "dead" THEN 0 ELSE t[i].attempts
              /\ Revived(t)[i].status =
                   IF t[i].status = "dead" THEN "pending" ELSE t[i].status
BY DEF Revived, Table, Row, Status

-----------------------------------------------------------------------------
(* The inductive invariant. *)

(* A row that exists has work, and no two rows hold the same key.            *)
KeyUnique ==
  /\ \A i \in JobId : table[i].status # "absent" => table[i].work \in Work
  /\ \A i \in JobId : table[i].status = "absent" => table[i].work = NoWork
  /\ \A i, j \in JobId : table[i].status # "absent" /\ table[i].work = table[j].work
                           => i = j

(* A coroutine whose row was not deleted holds a running row of its work,    *)
(* and has discharged that work once it succeeded.                           *)
OwnRow ==
  \A i \in JobId : coroutine[i].at # "idle" /\ coroutine[i].row = "held" =>
    /\ table[i].status = "running"
    /\ table[i].work = coroutine[i].work
    /\ coroutine[i].at = "succeeded" => coroutine[i].work \notin owed

(* A row at the rowid of a coroutine that lost its own is a later insert.    *)
StaleRow ==
  \A i \in JobId :
    coroutine[i].at # "idle" /\ coroutine[i].row = "gone" /\ table[i].status # "absent" =>
      table[i].status = "pending" /\ i \in inherited

(* Where no coroutine is alive: before the worker's reset is over, after it   *)
(* raised, and while a session outlives the shutdown that cancelled its await.*)
AtRest ==
  /\ phase \in {"down", "started", "workless"} \/ unheard # "none" =>
       \A i \in JobId : coroutine[i].at = "idle"
  /\ unheard # "none" => phase = "stopping" /\ disruptions > 0

(* A stranded row is running, and no coroutine will finish it.               *)
StrandedRuns ==
  \A i \in stranded : table[i].status = "running" /\ coroutine[i].at = "idle"

(* How far a row may have used its attempts, by status: a running row that   *)
(* only a reset can free has paid for it with a disruption, and so has one   *)
(* that a claim may still take although the process stops.                   *)
Spent ==
  \A i \in JobId :
    /\ table[i].attempts <= MaxAttempts + disruptions
    /\ table[i].status = "pending" => table[i].attempts < MaxAttempts + disruptions
    /\ table[i].status = "running" /\ i \in stranded
         => table[i].attempts < MaxAttempts + disruptions
    /\ table[i].status = "pending" /\ unheard = "claim"
         => table[i].attempts + 1 < MaxAttempts + disruptions

IInv ==
  /\ TypeOK
  /\ KeyUnique
  /\ OwnRow
  /\ StaleRow
  /\ AtRest
  /\ StrandedRuns
  /\ Spent
  /\ OutboxKept
  /\ RunningIsHeld
  /\ NeverTwiceAtOnce

-----------------------------------------------------------------------------
(* The order of due rows only ever holds due rows.                           *)
LEMMA ReorderType ==
  ASSUME NEW gone, NEW come \in SUBSET JobId, due \subseteq JobId,
         ahead \in [JobId -> SUBSET due], Reorder(gone, come)
  PROVE  /\ due' = (due \ gone) \cup come
         /\ ahead' \in [JobId -> SUBSET due']
BY DEF Reorder

(* The empty queue of a first start satisfies the invariant.                 *)
LEMMA InitInv == Init => IInv
<1> SUFFICES ASSUME Init PROVE IInv
  OBVIOUS
<1>1. \A i \in JobId : table[i] = Blank /\ coroutine[i] = Idle
  BY EmptyTableRows DEF Init
<1>2. TypeOK
  BY EmptyTableRows, JobQueueAssumption DEF Init, TypeOK, Coroutine, Idle, Phase
<1>3. KeyUnique
  BY <1>1 DEF KeyUnique, Blank
<1>4. OwnRow /\ StaleRow /\ AtRest /\ StrandedRuns
  BY <1>1 DEF OwnRow, StaleRow, AtRest, Idle, StrandedRuns, Init
<1>5. Spent
  BY <1>1, JobTableAssumption DEF Spent, Blank, Init
<1>6. OutboxKept /\ RunningIsHeld /\ NeverTwiceAtOnce
  BY <1>1 DEF OutboxKept, RunningIsHeld, NeverTwiceAtOnce, Busy, Idle, Init, With, Blank
<1> QED BY <1>2, <1>3, <1>4, <1>5, <1>6 DEF IInv

(* enqueue keeps the invariant: a key already outstanding is refused, and a  *)
(* rowid under a live coroutine is remembered as inherited.                  *)
LEMMA EnqueueInv ==
  ASSUME IInv, NEW w \in Work, NEW id \in JobId, Enqueue(w, id)
  PROVE  IInv'
<1> DEFINE F == Finished(table, w)
<1> USE DEF IInv
<1>1. /\ table \in Table
      /\ CanEnqueue(table, w, id)
      /\ table' = Enqueued(table, w, id)
      /\ owed' = owed \cup {w}
      /\ inherited' = (inherited \ (F \cup {id})) \cup ({id} \cap Busy)
      /\ UNCHANGED <<batch, coroutine, phase, unheard, disruptions, stranded>>
      /\ phase # "down"
  BY DEF Enqueue, TypeOK
<1>2. /\ table' \in Table
      /\ table'[id] = [work |-> w, status |-> "pending", attempts |-> 0]
      /\ table[id].status = "absent" \/ id \in F
      /\ \A i \in F \ {id} : table'[i] = Blank
      /\ \A i \in JobId \ (F \cup {id}) : table'[i] = table[i]
  BY <1>1, EnqueuedRows
<1>3. \A i \in JobId : i \in F <=> /\ table[i].work = w
                                   /\ table[i].status \in {"done", "dead"}
  BY DEF Finished
<1>4. \A i \in JobId : table[i].work = w => table[i].status \notin {"pending", "running"}
  BY <1>1 DEF CanEnqueue, Outstanding
<1> HIDE DEF F
<1>5. TypeOK'
  <2> DEFINE come == IF w \in Deferred THEN {} ELSE {id}
  <2>1. /\ due' = (due \ {}) \cup come
        /\ ahead' \in [JobId -> SUBSET due']
    <3>1. Reorder({}, come)
      BY DEF Enqueue
    <3>2. come \in SUBSET JobId /\ due \subseteq JobId /\ ahead \in [JobId -> SUBSET due]
      BY DEF TypeOK, With
    <3> QED BY <3>1, <3>2, ReorderType
  <2>2. due' \subseteq With(table', "pending")
    BY <1>2, <1>3, <2>1 DEF TypeOK, With
  <2> QED BY <1>1, <1>2, <2>1, <2>2 DEF TypeOK, Busy
<1>6. \A i \in JobId : table[i].work = w => i \in F \cup {id}
  BY <1>3, <1>4, JobTableAssumption DEF KeyUnique, TypeOK, Table, Row, Status
<1>7. KeyUnique'
  BY <1>2, <1>6, JobTableAssumption DEF KeyUnique, Blank
<1>8. OwnRow'
  BY <1>1, <1>2, <1>3, <1>4 DEF OwnRow
<1>9. StaleRow'
  BY <1>1, <1>2, <1>3 DEF StaleRow, OwnRow, Busy, Blank, TypeOK, Coroutine
<1>10. AtRest' /\ StrandedRuns'
  BY <1>1, <1>2, <1>3 DEF AtRest, StrandedRuns, TypeOK
<1>11. Spent'
  <2>1. disruptions \in Nat /\ (unheard = "claim" => disruptions > 0)
    BY JobQueueAssumption DEF TypeOK, AtRest
  <2>2. \A i \in JobId : \/ table'[i] = table[i]
                         \/ table'[i].attempts = 0 /\ table'[i].status # "running"
    <3> TAKE i \in JobId
    <3>1. CASE i = id
      BY <1>2, <3>1
    <3>2. CASE i \in F \ {id}
      BY <1>2, <3>2 DEF Blank
    <3>3. CASE i \in JobId \ (F \cup {id})
      BY <1>2, <3>3
    <3>. QED
      BY <3>1, <3>2, <3>3
  <2>. QED
    BY <1>1, <2>1, <2>2, JobTableAssumption DEF Spent
<1>12. OutboxKept'
  BY <1>1, <1>2, <1>3 DEF OutboxKept
<1>13. RunningIsHeld'
  BY <1>1, <1>2 DEF RunningIsHeld, With, Busy, Blank
<1>14. NeverTwiceAtOnce'
  BY <1>1 DEF NeverTwiceAtOnce, Busy
<1> QED
  BY <1>5, <1>7, <1>8, <1>9, <1>10, <1>11, <1>12, <1>13, <1>14

(* discard_for_transaction keeps the invariant: what it deletes is no longer *)
(* owed, and a coroutine that ran one of the rows has lost it.               *)
LEMMA DiscardInv ==
  ASSUME IInv, NEW tx \in Tx, Discard(tx)
  PROVE  IInv'
<1> DEFINE D == OfTx(table, tx)
<1> USE DEF IInv
<1>1. D \subseteq JobId
  BY DEF OfTx, Present
<1>2. /\ table' \in Table
      /\ \A i \in D : table'[i] = Blank
      /\ \A i \in JobId \ D : table'[i] = table[i]
  BY <1>1, ErasedRows DEF Discard, Discarded, TypeOK
<1>3. /\ owed' = {w \in owed : tx \notin TxOf[w]}
      /\ inherited' = inherited \ D
      /\ stranded' = stranded \ D
      /\ UNCHANGED <<batch, phase, unheard, disruptions>>
      /\ phase # "down"
  BY DEF Discard
<1>4. /\ coroutine' \in [JobId -> Coroutine]
      /\ \A i \in JobId : /\ coroutine'[i].at = coroutine[i].at
                           /\ coroutine'[i].work = coroutine[i].work
                           /\ coroutine'[i].row =
                                IF i \in D THEN "gone" ELSE coroutine[i].row
  BY DEF Discard, Disowned, TypeOK, Coroutine
<1>5. \A i \in JobId : table[i].status # "absent" /\ tx \in TxOf[table[i].work] <=> i \in D
  BY DEF OfTx, Present
<1> HIDE DEF D
<1>6. TypeOK'
  <2>1. due' = due \ D /\ ahead' \in [JobId -> SUBSET due']
    <3>1. Reorder(D, {})
      BY DEF Discard, D
    <3>2. due \subseteq JobId /\ ahead \in [JobId -> SUBSET due]
      BY DEF TypeOK, With
    <3> QED BY <3>1, <3>2, ReorderType
  <2>2. due' \subseteq With(table', "pending")
    BY <1>2, <2>1 DEF TypeOK, With
  <2> QED BY <1>2, <1>3, <1>4, <2>1, <2>2 DEF TypeOK
<1>7. KeyUnique'
  BY <1>2, JobTableAssumption DEF KeyUnique, Blank
<1>8. OwnRow'
  BY <1>2, <1>3, <1>4 DEF OwnRow
<1>9. StaleRow'
  BY <1>2, <1>3, <1>4 DEF StaleRow, Blank
<1>10. AtRest' /\ StrandedRuns'
  BY <1>2, <1>3, <1>4 DEF AtRest, StrandedRuns, TypeOK
<1>11. Spent'
  BY <1>1, <1>2, <1>3, JobTableAssumption DEF Spent, Blank, TypeOK
<1>12. OutboxKept'
  BY <1>2, <1>3, <1>5 DEF OutboxKept
<1>13. RunningIsHeld'
  BY <1>2, <1>3, <1>4 DEF RunningIsHeld, With, Busy, Blank
<1>14. NeverTwiceAtOnce'
  BY <1>4 DEF NeverTwiceAtOnce, Busy
<1> QED
  BY <1>6, <1>7, <1>8, <1>9, <1>10, <1>11, <1>12, <1>13, <1>14

(* revive_dead keeps the invariant: no coroutine holds a dead row.           *)
LEMMA ReviveInv ==
  ASSUME IInv, ReviveDead
  PROVE  IInv'
<1> USE DEF IInv
<1>1. /\ table' \in Table
      /\ \A i \in JobId :
           /\ table'[i].work = table[i].work
           /\ table'[i].attempts = IF table[i].status = "dead" THEN 0 ELSE table[i].attempts
           /\ table'[i].status = IF table[i].status = "dead" THEN "pending" ELSE table[i].status
  BY RevivedRows DEF ReviveDead, TypeOK
<1>2. UNCHANGED <<batch, coroutine, phase, unheard, disruptions, owed, inherited, stranded>>
  BY DEF ReviveDead
<1>3. TypeOK'
  <2>1. due' = due \cup With(table, "dead") /\ ahead' \in [JobId -> SUBSET due']
    <3>1. Reorder({}, With(table, "dead"))
      BY DEF ReviveDead
    <3>2. /\ due \subseteq JobId /\ ahead \in [JobId -> SUBSET due]
          /\ With(table, "dead") \in SUBSET JobId
      BY DEF TypeOK, With
    <3> QED BY <3>1, <3>2, ReorderType
  <2>2. due' \subseteq With(table', "pending")
    BY <1>1, <2>1 DEF TypeOK, With
  <2> QED BY <1>1, <1>2, <2>1, <2>2 DEF TypeOK
<1>4. KeyUnique' /\ OwnRow' /\ StaleRow' /\ AtRest'
  BY <1>1, <1>2 DEF KeyUnique, OwnRow, StaleRow, AtRest
<1>5. Spent'
  <2>1. disruptions \in Nat /\ (unheard = "claim" => disruptions > 0)
    BY JobQueueAssumption DEF TypeOK, AtRest
  <2>2. \A i \in JobId :
          \/ table'[i].attempts = table[i].attempts /\ table'[i].status = table[i].status
          \/ table'[i].attempts = 0 /\ table'[i].status # "running"
    BY <1>1
  <2>. QED
    BY <1>2, <2>1, <2>2, JobTableAssumption DEF Spent
<1>6. OutboxKept' /\ StrandedRuns'
  BY <1>1, <1>2 DEF OutboxKept, StrandedRuns, TypeOK
<1>7. RunningIsHeld' /\ NeverTwiceAtOnce'
  BY <1>1, <1>2 DEF RunningIsHeld, With, Busy, NeverTwiceAtOnce
<1> QED BY <1>3, <1>4, <1>5, <1>6, <1>7

(* The passing of time keeps the invariant: only a row's place changes.      *)
LEMMA ElapseInv ==
  ASSUME IInv, NEW id \in JobId, Elapse(id)
  PROVE  IInv'
<1> USE DEF IInv
<1>1. /\ UNCHANGED <<batch, table, coroutine, phase, unheard, disruptions, owed, inherited, stranded>>
      /\ table[id].status = "pending"
      /\ Reorder({}, {id})
  BY DEF Elapse
<1>2. TypeOK'
  <2>1. due' = due \cup {id} /\ ahead' \in [JobId -> SUBSET due']
    <3>1. due \subseteq JobId /\ ahead \in [JobId -> SUBSET due] /\ {id} \in SUBSET JobId
      BY DEF TypeOK, With
    <3> QED BY <1>1, <3>1, ReorderType
  <2>2. due' \subseteq With(table', "pending")
    BY <1>1, <2>1 DEF TypeOK, With
  <2> QED BY <1>1, <2>1, <2>2 DEF TypeOK
<1>3. KeyUnique' /\ OwnRow' /\ StaleRow' /\ AtRest' /\ Spent' /\ StrandedRuns'
  BY <1>1 DEF KeyUnique, OwnRow, StaleRow, AtRest, Spent, StrandedRuns
<1>4. OutboxKept' /\ RunningIsHeld' /\ NeverTwiceAtOnce'
  BY <1>1 DEF OutboxKept, RunningIsHeld, With, Busy, NeverTwiceAtOnce
<1> QED BY <1>2, <1>3, <1>4

(* _claim keeps the invariant: one coroutine is to start for each claimed    *)
(* row and none is alive, so that two of them cannot share a key.            *)
LEMMA ClaimInv ==
  ASSUME IInv, NEW S \in SUBSET JobId, Claim(S)
  PROVE  IInv'
<1> USE DEF IInv
<1>1. /\ table' \in Table
      /\ \A i \in JobId : table'[i].work = table[i].work
      /\ \A i \in S : /\ table'[i].status = "running"
                      /\ table'[i].attempts = table[i].attempts + 1
      /\ \A i \in JobId \ S : table'[i] = table[i]
  BY ClaimedRows DEF Claim, TypeOK
<1>2. /\ phase = "up"
      /\ UNCHANGED <<batch, phase, unheard, disruptions, owed, inherited, stranded>>
      /\ \A i \in JobId : coroutine[i].at = "idle"
      /\ \A i \in S : table[i].status = "pending"
  BY DEF Claim, Busy, Claimable, TypeOK, With
<1>3. /\ coroutine' \in [JobId -> Coroutine]
      /\ \A i \in S : /\ coroutine'[i].at = "claimed"
                      /\ coroutine'[i].work = table[i].work
                      /\ coroutine'[i].row = "held"
      /\ \A i \in JobId \ S : coroutine'[i].at = "idle"
  BY <1>2 DEF Claim, Allotted, TypeOK, Coroutine, Table, Row
<1>4. TypeOK'
  <2>1. due' = due \ S /\ ahead' \in [JobId -> SUBSET due']
    <3>1. Reorder(S, {})
      BY DEF Claim
    <3>2. due \subseteq JobId /\ ahead \in [JobId -> SUBSET due]
      BY DEF TypeOK, With
    <3> QED BY <3>1, <3>2, ReorderType
  <2>2. due' \subseteq With(table', "pending")
    BY <1>1, <2>1 DEF TypeOK, With
  <2> QED BY <1>1, <1>2, <1>3, <2>1, <2>2 DEF TypeOK
<1>5. KeyUnique'
  BY <1>1, <1>2 DEF KeyUnique
<1>6. OwnRow' /\ StaleRow' /\ AtRest'
  BY <1>1, <1>2, <1>3 DEF OwnRow, StaleRow, AtRest
<1>7. StrandedRuns'
  BY <1>1, <1>2, <1>3 DEF StrandedRuns, TypeOK
<1>8. Spent'
  BY <1>1, <1>2, <1>7, JobTableAssumption DEF Spent, StrandedRuns, TypeOK, Table, Row
<1>9. OutboxKept'
  BY <1>1, <1>2 DEF OutboxKept
<1>10. RunningIsHeld'
  BY <1>1, <1>2, <1>3 DEF RunningIsHeld, With, Busy
<1>11. NeverTwiceAtOnce'
  BY <1>1, <1>2, <1>3 DEF NeverTwiceAtOnce, Busy, KeyUnique
<1> QED BY <1>4, <1>5, <1>6, <1>7, <1>8, <1>9, <1>10, <1>11

(* The handler's end keeps the invariant: success of a coroutine that still  *)
(* holds its row discharges the work.                                        *)
LEMMA HandlerInv ==
  ASSUME IInv, NEW id \in JobId, HandlerReturns(id) \/ HandlerRaises(id)
  PROVE  IInv'
<1> USE DEF IInv
<1>1. /\ UNCHANGED <<batch, table, due, ahead, phase, unheard, disruptions, inherited, stranded>>
      /\ phase = "up"
      /\ coroutine[id].at = "executing"
  BY DEF HandlerReturns, HandlerRaises
<1>2. /\ coroutine' \in [JobId -> Coroutine]
      /\ coroutine'[id].at \in {"succeeded", "failed"}
      /\ \A i \in JobId : /\ coroutine'[i].work = coroutine[i].work
                           /\ coroutine'[i].row = coroutine[i].row
      /\ \A i \in JobId \ {id} : coroutine'[i].at = coroutine[i].at
  BY DEF HandlerReturns, HandlerRaises, TypeOK, Coroutine
<1>3. /\ owed' \subseteq owed
      /\ coroutine'[id].at = "succeeded" /\ coroutine[id].row = "held"
           => coroutine[id].work \notin owed'
  BY DEF HandlerReturns, HandlerRaises, TypeOK, Coroutine
<1>4. TypeOK'
  BY <1>1, <1>2, <1>3 DEF TypeOK, With
<1>5. KeyUnique' /\ AtRest' /\ StrandedRuns' /\ Spent' /\ OutboxKept'
  BY <1>1, <1>2, <1>3 DEF KeyUnique, AtRest, StrandedRuns, Spent, OutboxKept, TypeOK
<1>6. OwnRow'
  BY <1>1, <1>2, <1>3 DEF OwnRow
<1>7. StaleRow'
  BY <1>1, <1>2 DEF StaleRow
<1>8. RunningIsHeld'
  BY <1>1, <1>2 DEF RunningIsHeld, With, Busy
<1>9. NeverTwiceAtOnce'
  BY <1>1, <1>2 DEF NeverTwiceAtOnce, Busy
<1> QED BY <1>4, <1>5, <1>6, <1>7, <1>8, <1>9

(* _finish keeps the invariant: it acts on the coroutine's own row, on no    *)
(* row, or on one inserted later at the same rowid.                          *)
LEMMA FinishInv ==
  ASSUME IInv, NEW id \in JobId, Finish(id)
  PROVE  IInv'
<1> DEFINE ok == coroutine[id].at = "succeeded"
<1> USE DEF IInv
<1>1. /\ table' = Settled(table, id, ok)
      /\ UNCHANGED <<batch, phase, unheard, disruptions, owed, inherited, stranded>>
      /\ coroutine[id].at \in {"succeeded", "failed", "cancelled"}
  BY DEF Finish, Over
<1>2. /\ table' \in Table
      /\ \A i \in JobId : /\ table'[i].work = table[i].work
                           /\ table'[i].attempts = table[i].attempts
      /\ \A i \in JobId \ {id} : table'[i] = table[i]
      /\ table'[id].status =
           IF table[id].status = "absent" THEN "absent" ELSE StatusAfter(table[id], ok)
  <2>1. ok \in BOOLEAN
    OBVIOUS
  <2> HIDE DEF ok
  <2> QED BY <1>1, <2>1, SettledRows DEF TypeOK
<1>3. /\ coroutine' \in [JobId -> Coroutine]
      /\ coroutine'[id].at = "idle"
      /\ \A i \in JobId \ {id} : coroutine'[i] = coroutine[i]
  BY DEF Finish, TypeOK, Coroutine, Idle
<1>4. /\ table[id].status # "absent"
           => table'[id].status \in {"pending", "done", "dead"}
      /\ table'[id].status = "absent" <=> table[id].status = "absent"
      /\ table'[id].status = "pending" => table[id].attempts < MaxAttempts
      /\ table'[id].status = "done" => ok
  BY <1>2, JobTableAssumption DEF StatusAfter, TypeOK, Table, Row
<1>5. coroutine[id].row = "gone" \/ coroutine[id].row = "held"
  BY DEF TypeOK, Coroutine
<1>6. id \notin stranded
  BY <1>1 DEF StrandedRuns
<1> HIDE DEF ok
<1>7. TypeOK'
  <2>1. due' = due \ {id} /\ ahead' \in [JobId -> SUBSET due']
    <3>1. Reorder({id}, {})
      BY DEF Finish
    <3>2. due \subseteq JobId /\ ahead \in [JobId -> SUBSET due]
      BY DEF TypeOK, With
    <3> QED BY <3>1, <3>2, ReorderType
  <2>2. due' \subseteq With(table', "pending")
    BY <1>2, <2>1 DEF TypeOK, With
  <2> QED BY <1>1, <1>2, <1>3, <2>1, <2>2 DEF TypeOK
<1>8. KeyUnique'
  BY <1>2, <1>4 DEF KeyUnique
<1>9. OwnRow' /\ StaleRow'
  BY <1>1, <1>2, <1>3 DEF OwnRow, StaleRow
<1>10. AtRest' /\ StrandedRuns'
  BY <1>1, <1>2, <1>3, <1>6 DEF AtRest, StrandedRuns, TypeOK
<1>11. Spent'
  BY <1>1, <1>2, <1>4, <1>6, JobTableAssumption
  DEF Spent, AtRest, TypeOK, Table, Row
<1>12. OutboxKept'
  <2>1. table'[id].status = "done" /\ table[id].work \in owed => id \in inherited
    <3> SUFFICES ASSUME ok, table[id].status # "absent", table[id].work \in owed
                 PROVE  id \in inherited
      BY <1>4
    <3>1. coroutine[id].at = "succeeded"
      BY DEF ok
    <3>2. CASE coroutine[id].row = "held"
      BY <3>1, <3>2 DEF OwnRow
    <3>3. CASE coroutine[id].row = "gone"
      BY <3>1, <3>3 DEF StaleRow
    <3> QED BY <1>5, <3>2, <3>3
  <2> SUFFICES ASSUME NEW w \in owed
               PROVE  \E i \in JobId :
                        /\ table'[i].work = w
                        /\ \/ table'[i].status \in {"pending", "running", "dead"}
                           \/ table'[i].status = "done" /\ i \in inherited
    BY <1>1 DEF OutboxKept
  <2>2. PICK i \in JobId : /\ table[i].work = w
                           /\ \/ table[i].status \in {"pending", "running", "dead"}
                              \/ table[i].status = "done" /\ i \in inherited
    BY DEF OutboxKept
  <2>3. CASE i = id
    BY <1>2, <1>4, <2>1, <2>2, <2>3
  <2>4. CASE i # id
    BY <1>2, <2>2, <2>4
  <2> QED BY <2>3, <2>4
<1>13. RunningIsHeld'
  BY <1>1, <1>2, <1>3, <1>4 DEF RunningIsHeld, With, Busy
<1>14. NeverTwiceAtOnce'
  BY <1>3 DEF NeverTwiceAtOnce, Busy
<1> QED
  BY <1>7, <1>8, <1>9, <1>10, <1>11, <1>12, <1>13, <1>14

(* A lost finishing write keeps the invariant: the row is stranded, and the  *)
(* disruption counted pays for the attempt it will take again.               *)
LEMMA FinishLostInv ==
  ASSUME IInv, NEW id \in JobId, FinishLost(id)
  PROVE  IInv'
<1> USE DEF IInv
<1>1. /\ UNCHANGED <<batch, table, due, ahead, phase, unheard, owed, inherited>>
      /\ disruptions' = disruptions + 1
      /\ disruptions < MaxDisruptions
      /\ stranded' = IF table[id].status = "running" THEN stranded \cup {id} ELSE stranded
      /\ coroutine[id].at # "idle"
  BY DEF FinishLost, Over
<1>2. /\ coroutine' \in [JobId -> Coroutine]
      /\ coroutine'[id].at = "idle"
      /\ \A i \in JobId \ {id} : coroutine'[i] = coroutine[i]
  BY DEF FinishLost, TypeOK, Coroutine, Idle
<1>3. TypeOK'
  BY <1>1, <1>2, JobQueueAssumption DEF TypeOK, With
<1>4. KeyUnique' /\ OutboxKept'
  BY <1>1 DEF KeyUnique, OutboxKept
<1>5. OwnRow' /\ StaleRow' /\ AtRest' /\ StrandedRuns'
  BY <1>1, <1>2 DEF OwnRow, StaleRow, AtRest, StrandedRuns, TypeOK
<1>6. Spent'
  BY <1>1, JobTableAssumption, JobQueueAssumption DEF Spent, TypeOK, Table, Row
<1>7. RunningIsHeld'
  BY <1>1, <1>2 DEF RunningIsHeld, With, Busy
<1>8. NeverTwiceAtOnce'
  BY <1>2 DEF NeverTwiceAtOnce, Busy
<1> QED BY <1>3, <1>4, <1>5, <1>6, <1>7, <1>8

(* The start of a batch keeps the invariant: no row changes.                 *)
LEMMA SpawnInv ==
  ASSUME IInv, Spawn
  PROVE  IInv'
<1> USE DEF IInv
<1>1. /\ UNCHANGED <<batch, table, due, ahead, phase, unheard, disruptions, owed, inherited, stranded>>
      /\ phase = "up"
  BY DEF Spawn
<1>2. /\ coroutine' \in [JobId -> Coroutine]
      /\ \A i \in JobId :
           /\ coroutine'[i].work = coroutine[i].work
           /\ coroutine'[i].row = coroutine[i].row
           /\ coroutine'[i].at =
                IF coroutine[i].at = "claimed" THEN "executing" ELSE coroutine[i].at
  BY DEF Spawn, TypeOK, Coroutine
<1>3. TypeOK'
  BY <1>1, <1>2 DEF TypeOK, With
<1>4. KeyUnique' /\ OutboxKept' /\ Spent'
  BY <1>1 DEF KeyUnique, OutboxKept, Spent
<1>5. OwnRow' /\ StaleRow'
  BY <1>1, <1>2 DEF OwnRow, StaleRow
<1>6. AtRest' /\ StrandedRuns'
  BY <1>1, <1>2 DEF AtRest, StrandedRuns, TypeOK
<1>7. RunningIsHeld' /\ NeverTwiceAtOnce'
  BY <1>1, <1>2 DEF RunningIsHeld, NeverTwiceAtOnce, With, Busy
<1> QED BY <1>3, <1>4, <1>5, <1>6, <1>7

(* A reset with no coroutine alive keeps the rest of the invariant, whatever *)
(* it does to phase and unheard.                                             *)
LEMMA ResetInv ==
  ASSUME IInv, \A i \in JobId : coroutine[i].at = "idle",
         table' = Reset(table), Reorder({}, With(table, "running")), stranded' = {},
         UNCHANGED <<batch, coroutine, disruptions, owed, inherited>>,
         phase' \in Phase, unheard' = "none"
  PROVE  IInv'
<1> USE DEF IInv
<1>1. /\ table' \in Table
      /\ \A i \in JobId :
           /\ table'[i].work = table[i].work
           /\ table'[i].attempts = table[i].attempts
           /\ table'[i].status =
                IF table[i].status = "running" THEN "pending" ELSE table[i].status
  BY ResetRows DEF TypeOK
<1>2. TypeOK'
  <2>1. due' = due \cup With(table, "running") /\ ahead' \in [JobId -> SUBSET due']
    <3>1. /\ due \subseteq JobId /\ ahead \in [JobId -> SUBSET due]
          /\ With(table, "running") \in SUBSET JobId
      BY DEF TypeOK, With
    <3> QED BY <3>1, ReorderType
  <2>2. due' \subseteq With(table', "pending")
    BY <1>1, <2>1 DEF TypeOK, With
  <2> QED BY <1>1, <2>1, <2>2 DEF TypeOK
<1>3. KeyUnique' /\ OwnRow' /\ StaleRow' /\ AtRest' /\ StrandedRuns'
  BY <1>1 DEF KeyUnique, OwnRow, StaleRow, AtRest, StrandedRuns
<1>4. \A i \in JobId : table[i].status = "running" => i \in stranded
  BY DEF RunningIsHeld, With, Busy
<1>5. Spent'
  BY <1>1, <1>4 DEF Spent
<1>6. OutboxKept'
  BY <1>1 DEF OutboxKept
<1>7. RunningIsHeld' /\ NeverTwiceAtOnce'
  BY <1>1 DEF RunningIsHeld, NeverTwiceAtOnce, With, Busy
<1> QED BY <1>2, <1>3, <1>5, <1>6, <1>7

(* What a shutdown does to each coroutine. *)
LEMMA StopCoroutines ==
  ASSUME TypeOK, Stop
  PROVE  /\ coroutine' \in [JobId -> Coroutine]
         /\ \A i \in JobId :
              IF coroutine[i].at = "claimed" THEN coroutine'[i].at = "idle"
              ELSE /\ coroutine'[i].work = coroutine[i].work
                   /\ coroutine'[i].row = coroutine[i].row
                   /\ coroutine'[i].at =
                        IF coroutine[i].at = "executing" THEN "cancelled" ELSE coroutine[i].at
<1>1. coroutine' = [i \in JobId |->
                     CASE coroutine[i].at = "executing" ->
                            [coroutine[i] EXCEPT !.at = "cancelled"]
                       [] coroutine[i].at = "claimed" -> Idle
                       [] OTHER -> coroutine[i]]
  BY DEF Stop
<1>2. \A i \in JobId : /\ coroutine[i] \in Coroutine
                       /\ [coroutine[i] EXCEPT !.at = "cancelled"] \in Coroutine
                       /\ [coroutine[i] EXCEPT !.at = "cancelled"].at = "cancelled"
                       /\ [coroutine[i] EXCEPT !.at = "cancelled"].work = coroutine[i].work
                       /\ [coroutine[i] EXCEPT !.at = "cancelled"].row = coroutine[i].row
  BY DEF TypeOK, Coroutine
<1>3. Idle \in Coroutine /\ Idle.at = "idle"
  BY DEF Coroutine, Idle
<1>. QED
  BY <1>1, <1>2, <1>3

(* A shutdown keeps the invariant: a batch that had not begun is stranded.   *)
LEMMA StopInv ==
  ASSUME IInv, Stop
  PROVE  IInv'
<1> DEFINE L == {i \in JobId : coroutine[i].at = "claimed" /\ coroutine[i].row = "held"}
<1> USE DEF IInv
<1>1. /\ UNCHANGED <<batch, table, due, ahead, owed, inherited>>
      /\ phase \in {"started", "up", "workless"}
      /\ phase' = "stopping"
      /\ disruptions' = disruptions + 1
      /\ disruptions < MaxDisruptions
      /\ stranded' = stranded \cup L
      /\ unheard' \in {"none", "claim", "reset"}
  BY DEF Stop
<1>2. /\ coroutine' \in [JobId -> Coroutine]
      /\ \A i \in JobId :
           IF coroutine[i].at = "claimed" THEN coroutine'[i].at = "idle"
           ELSE /\ coroutine'[i].work = coroutine[i].work
                /\ coroutine'[i].row = coroutine[i].row
                /\ coroutine'[i].at =
                     IF coroutine[i].at = "executing" THEN "cancelled" ELSE coroutine[i].at
  BY StopCoroutines
<1>3. \A i \in JobId : i \in L => /\ table[i].status = "running"
                                  /\ coroutine'[i].at = "idle"
  BY <1>2 DEF OwnRow
<1>4. unheard' # "none" => \A i \in JobId : coroutine'[i].at = "idle"
  <2>1. CASE phase = "up"
    BY <1>2, <2>1 DEF Stop, Busy
  <2>2. CASE phase # "up"
    BY <1>1, <1>2, <2>2 DEF AtRest
  <2>. QED
    BY <2>1, <2>2
<1>5. L \subseteq JobId
  OBVIOUS
<1>6. \A i \in JobId : coroutine[i].at = "claimed" /\ coroutine[i].row = "held" => i \in L
  OBVIOUS
<1> HIDE DEF L
<1>7. TypeOK'
  BY <1>1, <1>2, <1>5, JobQueueAssumption DEF TypeOK, Phase, With
<1>8. KeyUnique' /\ OutboxKept'
  BY <1>1 DEF KeyUnique, OutboxKept
<1>9. OwnRow' /\ StaleRow'
  BY <1>1, <1>2 DEF OwnRow, StaleRow
<1>10. AtRest'
  BY <1>1, <1>4 DEF AtRest, TypeOK
<1>11. StrandedRuns'
  <2>1. \A i \in stranded : /\ i \in JobId
                            /\ table[i].status = "running"
                            /\ coroutine'[i].at = "idle"
    BY <1>2 DEF StrandedRuns, TypeOK
  <2>2. \A i \in stranded \cup L : table[i].status = "running" /\ coroutine'[i].at = "idle"
    BY <1>3, <1>5, <2>1
  <2>. QED
    BY <1>1, <2>2 DEF StrandedRuns
<1>12. Spent'
  BY <1>1, JobTableAssumption, JobQueueAssumption DEF Spent, TypeOK, Table, Row
<1>13. RunningIsHeld'
  BY <1>1, <1>2, <1>6 DEF RunningIsHeld, With, Busy
<1>14. NeverTwiceAtOnce'
  BY <1>2 DEF NeverTwiceAtOnce, Busy
<1> QED
  BY <1>7, <1>8, <1>9, <1>10, <1>11, <1>12, <1>13, <1>14

(* A claim committed while the process stops keeps the invariant: its rows   *)
(* run without coroutines, and the shutdown has paid for their attempt.      *)
LEMMA ClaimUnheardInv ==
  ASSUME IInv, NEW S \in SUBSET JobId, ClaimUnheard(S)
  PROVE  IInv'
<1> USE DEF IInv
<1>1. /\ table' \in Table
      /\ \A i \in JobId : table'[i].work = table[i].work
      /\ \A i \in S : /\ table'[i].status = "running"
                      /\ table'[i].attempts = table[i].attempts + 1
      /\ \A i \in JobId \ S : table'[i] = table[i]
  BY ClaimedRows DEF ClaimUnheard, TypeOK
<1>2. /\ UNCHANGED <<batch, coroutine, phase, disruptions, owed, inherited>>
      /\ unheard = "claim" /\ unheard' = "none"
      /\ stranded' = stranded \cup S
      /\ \A i \in S : table[i].status = "pending"
  BY DEF ClaimUnheard, Claimable, TypeOK, With
<1>3. \A i \in JobId : coroutine[i].at = "idle"
  BY <1>2 DEF AtRest
<1>4. TypeOK'
  <2>1. due' = due \ S /\ ahead' \in [JobId -> SUBSET due']
    <3>1. Reorder(S, {})
      BY DEF ClaimUnheard
    <3>2. due \subseteq JobId /\ ahead \in [JobId -> SUBSET due]
      BY DEF TypeOK, With
    <3> QED BY <3>1, <3>2, ReorderType
  <2>2. due' \subseteq With(table', "pending")
    BY <1>1, <2>1 DEF TypeOK, With
  <2> QED BY <1>1, <1>2, <2>1, <2>2 DEF TypeOK
<1>5. KeyUnique'
  BY <1>1, <1>2 DEF KeyUnique
<1>6. OwnRow' /\ StaleRow' /\ AtRest'
  BY <1>2, <1>3 DEF OwnRow, StaleRow, AtRest
<1>7. StrandedRuns'
  <2>1. \A i \in stranded : i \in JobId /\ table[i].status = "running"
    BY DEF StrandedRuns, TypeOK
  <2>2. \A i \in stranded \cup S : table'[i].status = "running" /\ i \in JobId
    BY <1>1, <2>1
  <2>. QED
    BY <1>2, <1>3, <2>2 DEF StrandedRuns
<1>8. Spent'
  <2>1. \A i \in S : table[i].attempts + 1 < MaxAttempts + disruptions
    BY <1>2 DEF Spent
  <2>. QED
    BY <1>1, <1>2, <2>1, JobTableAssumption DEF Spent, TypeOK, Table, Row
<1>9. OutboxKept'
  BY <1>1, <1>2 DEF OutboxKept
<1>10. RunningIsHeld'
  BY <1>1, <1>2 DEF RunningIsHeld, With, Busy
<1>11. NeverTwiceAtOnce'
  BY <1>2 DEF NeverTwiceAtOnce, Busy
<1> QED BY <1>4, <1>5, <1>6, <1>7, <1>8, <1>9, <1>10, <1>11

(* The end of the process and a worker that fails to start keep the          *)
(* invariant: no coroutine is left, or none had begun.                       *)
LEMMA EndInv ==
  ASSUME IInv, Exit \/ Crash \/ Start \/ ResetFails
  PROVE  IInv'
<1> USE DEF IInv
<1>1. /\ UNCHANGED <<batch, table, due, ahead, owed, inherited>>
      /\ phase' \in Phase /\ unheard' \in {unheard, "none"}
      /\ disruptions' \in {disruptions, disruptions + 1}
      /\ disruptions' \in 0..MaxDisruptions
  BY JobQueueAssumption DEF Exit, Crash, Start, ResetFails, Phase, TypeOK
<1>2. CASE Exit \/ Start \/ ResetFails
  <2>1. UNCHANGED <<coroutine, stranded>>
    BY <1>2 DEF Exit, Start, ResetFails
  <2>2. \A i \in JobId : coroutine[i].at = "idle"
    BY <1>2 DEF Exit, Start, ResetFails, Busy, AtRest
  <2>3. unheard' = "none"
    BY <1>2 DEF Exit, Start, ResetFails, AtRest, TypeOK
  <2>4. TypeOK'
    BY <1>1, <2>1, <2>3 DEF TypeOK, With
  <2>5. KeyUnique' /\ OutboxKept' /\ OwnRow' /\ StaleRow' /\ StrandedRuns'
    BY <1>1, <2>1 DEF KeyUnique, OutboxKept, OwnRow, StaleRow, StrandedRuns
  <2>6. AtRest'
    BY <2>1, <2>2, <2>3 DEF AtRest
  <2>7. Spent'
    BY <1>1, <2>1, <2>3, JobTableAssumption DEF Spent, TypeOK, Table, Row
  <2>8. RunningIsHeld' /\ NeverTwiceAtOnce'
    BY <1>1, <2>1 DEF RunningIsHeld, NeverTwiceAtOnce, With, Busy
  <2> QED BY <2>4, <2>5, <2>6, <2>7, <2>8
<1>3. CASE Crash
  <2>1. /\ disruptions' = disruptions + 1
        /\ unheard' = "none"
        /\ stranded' = With(table, "running")
    BY <1>3 DEF Crash
  <2>2. /\ coroutine' \in [JobId -> Coroutine]
        /\ \A i \in JobId : coroutine'[i].at = "idle"
    BY <1>3 DEF Crash, Coroutine, Idle
  <2>3. TypeOK'
    BY <1>1, <2>1, <2>2 DEF TypeOK, With
  <2>4. KeyUnique' /\ OutboxKept' /\ OwnRow' /\ StaleRow' /\ AtRest' /\ StrandedRuns'
    BY <1>1, <2>1, <2>2
    DEF KeyUnique, OutboxKept, OwnRow, StaleRow, AtRest, StrandedRuns, With
  <2>5. Spent'
    BY <1>1, <2>1, JobTableAssumption, JobQueueAssumption DEF Spent, TypeOK, Table, Row
  <2>6. RunningIsHeld' /\ NeverTwiceAtOnce'
    BY <1>1, <2>1, <2>2 DEF RunningIsHeld, NeverTwiceAtOnce, Busy, With
  <2> QED BY <2>3, <2>4, <2>5, <2>6
<1> QED BY <1>2, <1>3

(* A start, a reset, a shutdown and a crash keep the invariant.              *)
LEMMA ProcessInv ==
  ASSUME IInv, Process
  PROVE  IInv'
<1>1. CASE ResetOrphans
  <2>1. (\A i \in JobId : coroutine[i].at = "idle") /\ unheard = "none"
    BY <1>1 DEF ResetOrphans, IInv, AtRest, TypeOK
  <2>. QED
    BY <1>1, <2>1, ResetInv DEF ResetOrphans, Phase
<1>2. CASE ResetUnheard
  <2>1. (\A i \in JobId : coroutine[i].at = "idle") /\ phase \in Phase
    BY <1>2 DEF ResetUnheard, IInv, AtRest, TypeOK
  <2>. QED
    BY <1>2, <2>1, ResetInv DEF ResetUnheard
<1> QED
  BY <1>1, <1>2, StopInv, ClaimUnheardInv, EndInv DEF Process

-----------------------------------------------------------------------------
(* Every reachable state of the queue satisfies the inductive invariant.     *)
THEOREM Safety == Spec => []IInv
<1>1. IInv /\ [Next]_vars => IInv'
  <2> SUFFICES ASSUME IInv, [Next]_vars PROVE IInv'
    OBVIOUS
  <2>1. CASE Environment
    BY <2>1, EnqueueInv, DiscardInv, ReviveInv DEF Environment
  <2>2. CASE \E id \in JobId : Elapse(id)
    BY <2>2, ElapseInv
  <2>3. CASE Worker
    BY <2>3, ClaimInv, SpawnInv, HandlerInv, FinishInv, FinishLostInv DEF Worker
  <2>4. CASE Process
    BY <2>4, ProcessInv
  <2>5. CASE UNCHANGED vars
    BY <2>5 DEF IInv, TypeOK, KeyUnique, OwnRow, StaleRow, AtRest, StrandedRuns,
                Spent, OutboxKept, RunningIsHeld, NeverTwiceAtOnce, With, Busy, vars
  <2> QED BY <2>1, <2>2, <2>3, <2>4, <2>5 DEF Next
<1> QED BY InitInv, <1>1, PTL DEF Spec

(* Every variable keeps its type.                                            *)
THEOREM TypeCorrect == Spec => []TypeOK
BY Safety, PTL DEF IInv

(* The outbox keeps its promise for any number of jobs, sessions, crashes    *)
(* and lost writes: owed work has a row that runs or can be revived, or one  *)
(* that took over the rowid of a discarded row whose coroutine lived on.     *)
THEOREM Outbox == Spec => []OutboxKept
BY Safety, PTL DEF IInv

(* A running row always has the coroutine that claimed it, begun or not, or  *)
(* is one of those left behind: a lost finishing write, a claim cut off by a *)
(* shutdown before or after its commit, a process killed. In particular the  *)
(* worker, once its reset is over, leaves no other row behind.               *)
THEOREM Held == Spec => []RunningIsHeld
BY Safety, PTL DEF IInv

(* The same work is never executed by two coroutines at once.                *)
THEOREM Exclusion == Spec => []NeverTwiceAtOnce
BY Safety, PTL DEF IInv

(* No job is tried more often than its budget and the disruptions allow.     *)
THEOREM Budget == Spec => []AttemptBudget
<1>1. IInv => AttemptBudget
  BY DEF IInv, Spent, AttemptBudget
<1> QED BY Safety, <1>1, PTL

-----------------------------------------------------------------------------
(* The refinement of Outbox. *)

(* A coroutine has work, and a row at the rowid of one that lost its own has *)
(* not been tried yet: it waits for the batch to end.                        *)
RunsWork ==
  \A i \in JobId : coroutine[i].at # "idle" =>
    /\ coroutine[i].work \in Work
    /\ coroutine[i].row = "gone" /\ table[i].status # "absent" => table[i].attempts = 0

LEMMA RunsWorkStep ==
  ASSUME IInv, RunsWork, [Next]_vars
  PROVE  RunsWork'
<1> USE DEF IInv
<1>1. table \in Table /\ coroutine \in [JobId -> Coroutine]
  BY DEF TypeOK
<1>2. ASSUME NEW w \in Work, NEW id \in JobId, Enqueue(w, id) PROVE RunsWork'
  <2>1. CanEnqueue(table, w, id) /\ table' = Enqueued(table, w, id)
    BY <1>2 DEF Enqueue
  <2>2. table \in Table
    BY <1>1
  <2>3. /\ table'[id] = [work |-> w, status |-> "pending", attempts |-> 0]
        /\ \A i \in Finished(table, w) \ {id} : table'[i] = Blank
        /\ \A i \in JobId \ (Finished(table, w) \cup {id}) : table'[i] = table[i]
    BY <1>2, <2>1, <2>2, EnqueuedRows
  <2>4. UNCHANGED coroutine
    BY <1>2 DEF Enqueue
  <2>5. \A i \in JobId \ {id} : table'[i] = Blank \/ table'[i] = table[i]
    BY <2>3 DEF Finished
  <2>. QED
    BY <2>3, <2>4, <2>5 DEF RunsWork, Blank
<1>3. ASSUME NEW tx \in Tx, Discard(tx) PROVE RunsWork'
  <2>1. /\ table' = Erased(table, OfTx(table, tx))
        /\ coroutine' = Disowned(OfTx(table, tx))
        /\ OfTx(table, tx) \subseteq JobId
    BY <1>3 DEF Discard, Discarded, OfTx, Present
  <2>2. \A i \in JobId : table'[i] = IF i \in OfTx(table, tx) THEN Blank ELSE table[i]
    BY <1>1, <2>1, ErasedRows
  <2>. QED
    BY <1>1, <2>1, <2>2 DEF RunsWork, Disowned, Coroutine, Blank
<1>4. CASE ReviveDead
  <2>1. UNCHANGED coroutine /\ table' = Revived(table)
    BY <1>4 DEF ReviveDead
  <2>2. \A i \in JobId : /\ table[i].attempts = 0 => table'[i].attempts = 0
                         /\ table'[i].status # "absent" => table[i].status # "absent"
    BY <1>1, <2>1, RevivedRows
  <2>. QED
    BY <2>1, <2>2 DEF RunsWork
<1>5. ASSUME NEW S \in SUBSET JobId, Claim(S) PROVE RunsWork'
  <2>1. \A i \in S : table[i].status = "pending"
    BY <1>5 DEF Claim, Claimable, TypeOK, With
  <2>2. \A i \in JobId : coroutine[i].at = "idle"
    BY <1>5 DEF Claim, Busy
  <2>3. \A i \in S : table[i].work \in Work
    BY <2>1 DEF KeyUnique
  <2>. QED
    BY <1>1, <1>5, <2>2, <2>3 DEF Claim, Allotted, RunsWork
<1>6. ASSUME NEW id \in JobId, HandlerReturns(id) \/ HandlerRaises(id) PROVE RunsWork'
  BY <1>1, <1>6 DEF HandlerReturns, HandlerRaises, RunsWork, Coroutine
<1>7. ASSUME NEW id \in JobId, Finish(id) \/ FinishLost(id) PROVE RunsWork'
  <2>1. coroutine' = [coroutine EXCEPT ![id] = Idle]
    BY <1>7 DEF Finish, FinishLost
  <2>2. \A i \in JobId \ {id} : table'[i] = table[i]
    <3>1. CASE Finish(id)
      <4>1. PICK ok \in BOOLEAN : table' = Settled(table, id, ok)
        BY <3>1 DEF Finish
      <4>. QED
        BY <1>1, <1>7, <4>1, SettledRows
    <3>2. CASE FinishLost(id)
      BY <3>2 DEF FinishLost
    <3>. QED
      BY <1>7, <3>1, <3>2
  <2>. QED
    BY <1>1, <2>1, <2>2 DEF RunsWork, Idle
<1>8. CASE Spawn \/ Stop
  <2>1. UNCHANGED table
    BY <1>8 DEF Spawn, Stop
  <2>2. \A i \in JobId : coroutine'[i].at # "idle" =>
          /\ coroutine[i].at # "idle"
          /\ coroutine'[i].work = coroutine[i].work
          /\ coroutine'[i].row = coroutine[i].row
    <3>1. CASE Spawn
      BY <1>1, <3>1 DEF Spawn, Coroutine
    <3>2. CASE Stop
      BY <1>1, <3>2 DEF Stop, Coroutine, Idle
    <3>. QED
      BY <1>8, <3>1, <3>2
  <2>. QED
    BY <2>1, <2>2 DEF RunsWork
<1>9. CASE Crash
  BY <1>9 DEF Crash, RunsWork, Idle
<1>10. ASSUME ResetOrphans \/ ResetUnheard \/ (\E S \in SUBSET JobId : ClaimUnheard(S)) PROVE RunsWork'
  BY <1>10 DEF ResetOrphans, ResetUnheard, ClaimUnheard, RunsWork, AtRest
<1>11. CASE UNCHANGED <<table, coroutine>>
  BY <1>11 DEF RunsWork
<1>. QED
  BY <1>2, <1>3, <1>4, <1>5, <1>6, <1>7, <1>8, <1>9, <1>10, <1>11
     DEF Next, Environment, Worker, Process, Elapse, Exit, Start, ResetFails, vars

(* A batch begins as one: none of its coroutines is past the handler while   *)
(* another has not begun.                                                    *)
BatchTogether ==
  \/ \A i \in JobId : coroutine[i].at # "claimed"
  \/ \A i \in JobId : coroutine[i].at \in {"idle", "claimed"}

LEMMA BatchStep ==
  ASSUME IInv, BatchTogether, [Next]_vars
  PROVE  BatchTogether'
<1>1. coroutine \in [JobId -> Coroutine]
  BY DEF IInv, TypeOK
<1>2. ASSUME NEW S \in SUBSET JobId, Claim(S) PROVE BatchTogether'
  BY <1>2 DEF Claim, Allotted, Busy, BatchTogether
<1>3. CASE Spawn \/ Stop \/ Crash
  <2>1. CASE Spawn
    BY <1>1, <2>1 DEF Spawn, BatchTogether, Coroutine
  <2>2. CASE Stop
    BY <1>1, <2>2 DEF Stop, BatchTogether, Coroutine, Idle
  <2>3. CASE Crash
    BY <2>3 DEF Crash, BatchTogether, Idle
  <2>. QED
    BY <1>3, <2>1, <2>2, <2>3
<1>4. ASSUME NEW id \in JobId, HandlerReturns(id) \/ HandlerRaises(id) PROVE BatchTogether'
  BY <1>1, <1>4 DEF HandlerReturns, HandlerRaises, BatchTogether, Coroutine
<1>5. ASSUME NEW id \in JobId, Finish(id) \/ FinishLost(id) PROVE BatchTogether'
  BY <1>1, <1>5 DEF Finish, FinishLost, BatchTogether, Idle
<1>6. ASSUME NEW tx \in Tx, Discard(tx) PROVE BatchTogether'
  BY <1>1, <1>6 DEF Discard, Disowned, BatchTogether, Coroutine
<1>7. CASE UNCHANGED coroutine
  BY <1>7 DEF BatchTogether
<1>. QED
  BY <1>2, <1>3, <1>4, <1>5, <1>6, <1>7
     DEF Next, Environment, Worker, Process, Elapse, Exit, Start, ResetOrphans, ResetFails,
         ResetUnheard, ClaimUnheard, Enqueue, ReviveDead, vars

(* What Outbox does not see. *)
LEMMA SameTable ==
  ASSUME UNCHANGED table
  PROVE  UNCHANGED Abstract!table
  BY DEF Abstract!table, WorkWith

LEMMA SameRuns ==
  ASSUME UNCHANGED coroutine
  PROVE  UNCHANGED <<Abstract!runs, RowGone, Adrift>>
  BY DEF Abstract!runs, RunsAt, RowGone, Busy, Adrift

(* Without coroutines Outbox has no runs. *)
LEMMA NoRuns ==
  ASSUME Busy = {}
  PROVE  /\ RunsAt({"claimed", "executing"}) = {} /\ RunsAt({"succeeded"}) = {} /\ RunsAt({"failed", "cancelled"}) = {}
         /\ Adrift = {} /\ Exposed = {}
  BY DEF Busy, RunsAt, Adrift, Exposed, RowGone

LEMMA EnqueueRefines ==
  ASSUME IInv, RunsWork, NEW w \in Work, NEW id \in JobId, Enqueue(w, id)
  PROVE  Abstract!Enqueue(w)
<1> USE DEF IInv
<1>1. /\ table \in Table
      /\ CanEnqueue(table, w, id)
      /\ table' = Enqueued(table, w, id)
      /\ UNCHANGED coroutine
  BY DEF Enqueue, TypeOK
<1>2. /\ table'[id] = [work |-> w, status |-> "pending", attempts |-> 0]
      /\ table[id].status = "absent" \/ id \in Finished(table, w)
      /\ \A i \in Finished(table, w) \ {id} : table'[i] = Blank
      /\ \A i \in JobId \ (Finished(table, w) \cup {id}) : table'[i] = table[i]
  BY <1>1, EnqueuedRows
<1>3. \A i \in JobId : i \in Finished(table, w) <=> /\ table[i].work = w
                                                    /\ table[i].status \in {"done", "dead"}
  BY DEF Finished
<1>4. \A i \in JobId : table[i].work = w => table[i].status \notin {"pending", "running"}
  BY <1>1 DEF CanEnqueue, Outstanding
<1>5. \A i \in JobId : table[i].status = "absent" => table[i].work = NoWork
  BY DEF KeyUnique
<1>6. NoWork \notin Work
  BY JobTableAssumption
<1>7. w \notin WorkWith("pending") \cup WorkWith("running")
  BY <1>4 DEF WorkWith
<1>8. /\ WorkWith("pending")' = WorkWith("pending") \cup {w}
      /\ WorkWith("running")' = WorkWith("running")
  BY <1>2, <1>3, <1>4, <1>5, <1>6 DEF WorkWith, Blank
<1>9. /\ WorkWith("done")' = WorkWith("done") \ {w}
      /\ WorkWith("dead")' = WorkWith("dead") \ {w}
  BY <1>2, <1>3, <1>4, <1>5, <1>6 DEF WorkWith, Blank
<1>10. UNCHANGED Exposed \/ \E u \in Adrift : Exposed' = Exposed \cup {<<u, w>>}
  <2>1. \A i \in RowGone \ {id} : table'[i] = table[i]
    BY <1>2, <1>3 DEF RowGone, Busy, StaleRow
  <2>2. RowGone' = RowGone
    BY <1>1, SameRuns
  <2>3. CASE id \notin RowGone
    BY <1>1, <2>1, <2>2, <2>3 DEF Exposed
  <2>4. CASE id \in RowGone
    <3>1. table[id].work = NoWork
      BY <1>2, <1>3, <1>5, <2>4 DEF RowGone, Busy, StaleRow
    <3>2. coroutine[id].work \in Work
      BY <2>4 DEF RunsWork, RowGone, Busy
    <3>3. Exposed' = Exposed \cup {<<coroutine[id].work, w>>}
      BY <1>1, <1>2, <1>6, <2>1, <2>2, <2>4, <3>1, <3>2 DEF Exposed
    <3>4. coroutine[id].work \in Adrift
      BY <2>4, <3>2 DEF Adrift
    <3>. QED
      BY <3>3, <3>4
  <2>. QED
    BY <2>3, <2>4
<1>. QED
  BY <1>1, <1>7, <1>8, <1>9, <1>10, SameRuns DEF Abstract!Enqueue

LEMMA DiscardRefines ==
  ASSUME IInv, RunsWork, NEW tx \in Tx, Discard(tx)
  PROVE  Abstract!Discard({w \in Work : tx \in TxOf[w]})
<1> DEFINE S == {w \in Work : tx \in TxOf[w]}
           D == OfTx(table, tx)
<1> USE DEF IInv
<1>1. /\ table' = Erased(table, D) /\ coroutine' = Disowned(D) /\ D \subseteq JobId
  BY DEF Discard, Discarded, OfTx, Present
<1>2. /\ \A i \in D : table'[i] = Blank
      /\ \A i \in JobId \ D : table'[i] = table[i]
  BY <1>1, ErasedRows DEF TypeOK
<1>3. \A i \in JobId : i \in D <=> table[i].work \in S
  BY JobTableAssumption DEF OfTx, Present, KeyUnique
<1>4. \A i \in JobId : /\ coroutine'[i].at = coroutine[i].at
                       /\ coroutine'[i].work = coroutine[i].work
                       /\ coroutine'[i].row = IF i \in D THEN "gone" ELSE coroutine[i].row
  BY <1>1 DEF Disowned, TypeOK, Coroutine
<1>5. \A i \in JobId : coroutine[i].at # "idle" /\ coroutine[i].row = "held" =>
        (i \in D <=> coroutine[i].work \in S)
  BY <1>3 DEF OwnRow
<1>6. NoWork \notin S /\ S \subseteq Work
  BY JobTableAssumption
<1> HIDE DEF S, D
<1>7. /\ WorkWith("pending")' = WorkWith("pending") \ S
      /\ WorkWith("running")' = WorkWith("running") \ S
      /\ WorkWith("done")' = WorkWith("done") \ S
      /\ WorkWith("dead")' = WorkWith("dead") \ S
  BY <1>1, <1>2, <1>3 DEF WorkWith, Blank
<1>8. /\ RunsAt({"claimed", "executing"})' = RunsAt({"claimed", "executing"}) \ S
      /\ RunsAt({"succeeded"})' = RunsAt({"succeeded"}) \ S
      /\ RunsAt({"failed", "cancelled"})' = RunsAt({"failed", "cancelled"}) \ S
  BY <1>4, <1>5 DEF RunsAt
<1>9. Adrift' = Adrift \cup (S \cap Abstract!Answering)
  <2>1. \A i \in JobId : coroutine[i].at \in {"idle", "claimed", "executing", "succeeded", "failed", "cancelled"}
                         /\ coroutine[i].row \in {"held", "gone"}
    BY DEF TypeOK, Coroutine
  <2>2. ASSUME NEW w \in Adrift' PROVE w \in Adrift \cup (S \cap Abstract!Answering)
    BY <1>4, <1>5, <2>1, <2>2 DEF Adrift, RowGone, Busy, Abstract!Answering, RunsAt
  <2>3. Adrift \subseteq Adrift'
    BY <1>4 DEF Adrift, RowGone, Busy
  <2>4. S \cap Abstract!Answering \subseteq Adrift'
    BY <1>4, <1>5, <1>6 DEF Adrift, RowGone, Busy, Abstract!Answering, RunsAt
  <2>. QED
    BY <2>2, <2>3, <2>4
<1>10. Exposed' = {p \in Exposed : p[2] \notin S}
  <2>1. \A i \in JobId \ D : i \in RowGone' <=> i \in RowGone
    BY <1>4 DEF RowGone, Busy
  <2>2. \A i \in D : table'[i].work \notin Work
    BY <1>2, JobTableAssumption DEF Blank
  <2>3. RowGone \subseteq JobId /\ RowGone' \subseteq JobId
    BY DEF RowGone, Busy
  <2>. QED
    BY <1>2, <1>3, <1>4, <2>1, <2>2, <2>3 DEF Exposed
<1>. QED
  BY <1>7, <1>8, <1>9, <1>10 DEF Abstract!Discard, S

LEMMA ReviveRefines ==
  ASSUME IInv, ReviveDead
  PROVE  Abstract!Revive
<1>1. UNCHANGED coroutine /\ table' = Revived(table) /\ table \in Table
  BY DEF ReviveDead, IInv, TypeOK
<1>2. \A i \in JobId : /\ table'[i].work = table[i].work
                       /\ table'[i].status = IF table[i].status = "dead" THEN "pending" ELSE table[i].status
  BY <1>1, RevivedRows
<1>3. /\ WorkWith("pending")' = WorkWith("pending") \cup WorkWith("dead")
      /\ WorkWith("dead")' = {}
      /\ WorkWith("running")' = WorkWith("running")
      /\ WorkWith("done")' = WorkWith("done")
  BY <1>2 DEF WorkWith
<1>4. UNCHANGED Exposed
  BY <1>1, <1>2 DEF Exposed, RowGone, Busy
<1>. QED
  BY <1>1, <1>3, <1>4, SameRuns DEF Abstract!Revive

(* What a claim of rows does to the work seen by key. *)
LEMMA ClaimedWork ==
  ASSUME IInv, NEW S \in SUBSET JobId, table' = Claimed(table, S),
         \A i \in S : table[i].status = "pending",
         NEW W, W = {table[i].work : i \in S}
  PROVE  /\ W \in SUBSET Work /\ W \subseteq WorkWith("pending")
         /\ WorkWith("pending")' = WorkWith("pending") \ W
         /\ WorkWith("running")' = WorkWith("running") \cup W
         /\ WorkWith("done")' = WorkWith("done")
         /\ WorkWith("dead")' = WorkWith("dead")
<1> USE DEF IInv
<1>1. W \in SUBSET Work /\ W \subseteq WorkWith("pending")
  BY DEF KeyUnique, WorkWith
<1>2. /\ \A i \in JobId : table'[i].work = table[i].work
      /\ \A i \in S : table'[i].status = "running"
      /\ \A i \in JobId \ S : table'[i] = table[i]
  BY ClaimedRows DEF TypeOK
<1>3. \A i \in JobId : table[i].work \in W /\ table[i].status # "absent" => i \in S
  BY DEF KeyUnique
<1>4. \A i \in S : table[i].work \in W
  OBVIOUS
<1>5. \A w \in W : \E i \in S : w = table[i].work
  OBVIOUS
<1>6. WorkWith("pending")' = WorkWith("pending") \ W
  BY <1>2, <1>3, <1>4 DEF WorkWith
<1>7. WorkWith("running")' = WorkWith("running") \cup W
  BY <1>1, <1>2, <1>4, <1>5 DEF WorkWith
<1>8. WorkWith("done")' = WorkWith("done") /\ WorkWith("dead")' = WorkWith("dead")
  BY <1>2 DEF WorkWith
<1>. QED
  BY <1>1, <1>6, <1>7, <1>8

LEMMA ClaimRefines ==
  ASSUME IInv, NEW S \in SUBSET JobId, Claim(S)
  PROVE  \E W \in SUBSET Work : Abstract!Claim(W)
<1> DEFINE W == {table[i].work : i \in S}
<1> USE DEF IInv
<1>1. Busy = {} /\ table' = Claimed(table, S) /\ coroutine' = Allotted(S)
  BY DEF Claim
<1>2. \A i \in S : table[i].status = "pending"
  BY DEF Claim, Claimable, TypeOK, With
<1>3. /\ W \in SUBSET Work /\ W \subseteq WorkWith("pending")
      /\ WorkWith("pending")' = WorkWith("pending") \ W
      /\ WorkWith("running")' = WorkWith("running") \cup W
      /\ WorkWith("done")' = WorkWith("done")
      /\ WorkWith("dead")' = WorkWith("dead")
  BY <1>1, <1>2, ClaimedWork
<1>4. /\ \A i \in S : table[i].work \in W
      /\ \A w \in W : \E i \in S : w = table[i].work
  OBVIOUS
<1>5. \A i \in JobId : coroutine[i].at = "idle"
  BY <1>1 DEF Busy
<1>6. \A i \in JobId : IF i \in S THEN /\ coroutine'[i].at = "claimed"
                                        /\ coroutine'[i].work = table[i].work
                                        /\ coroutine'[i].row = "held"
                                   ELSE coroutine'[i].at = "idle"
  BY <1>1, <1>5 DEF Allotted
<1> HIDE DEF W
<1>7. RunsAt({"claimed", "executing"})' = W
  <2>1. \A i \in JobId : coroutine'[i].at \in {"claimed", "executing"} => i \in S
    BY <1>6
  <2>. QED
    BY <1>3, <1>4, <1>6, <2>1 DEF RunsAt
<1>8. RunsAt({"succeeded"})' = {} /\ RunsAt({"failed", "cancelled"})' = {}
  <2>1. \A i \in JobId : coroutine'[i].at \in {"claimed", "idle"}
    BY <1>6
  <2>. QED
    BY <2>1 DEF RunsAt
<1>9. Adrift' = {} /\ Exposed' = {}
  <2>1. RowGone' = {}
    BY <1>6 DEF RowGone, Busy
  <2>. QED
    BY <2>1 DEF Adrift, Exposed
<1>10. Abstract!Claim(W)
  BY <1>1, <1>3, <1>7, <1>8, <1>9, NoRuns DEF Abstract!Claim, Abstract!Answering
<1>. QED
  BY <1>3, <1>10

(* A claim during a shutdown is one whose runs never begin.                   *)
LEMMA ClaimUnheardRefines ==
  ASSUME IInv, NEW S \in SUBSET JobId, ClaimUnheard(S)
  PROVE  \E W \in SUBSET Work : Abstract!Claim(W)
<1> DEFINE W == {table[i].work : i \in S}
<1> USE DEF IInv
<1>1. Busy = {} /\ table' = Claimed(table, S) /\ UNCHANGED coroutine
  BY DEF ClaimUnheard, AtRest, Busy
<1>2. \A i \in S : table[i].status = "pending"
  BY DEF ClaimUnheard, Claimable, TypeOK, With
<1>3. /\ W \in SUBSET Work /\ W \subseteq WorkWith("pending")
      /\ WorkWith("pending")' = WorkWith("pending") \ W
      /\ WorkWith("running")' = WorkWith("running") \cup W
      /\ WorkWith("done")' = WorkWith("done")
      /\ WorkWith("dead")' = WorkWith("dead")
  BY <1>1, <1>2, ClaimedWork
<1> HIDE DEF W
<1>4. UNCHANGED Abstract!runs /\ Adrift' = {} /\ Exposed' = {}
  <2>1. Adrift = {} /\ RowGone = {}
    BY <1>1 DEF Adrift, RowGone
  <2>2. RowGone' = {} /\ Adrift' = {}
    BY <1>1, <2>1, SameRuns
  <2>. QED
    BY <1>1, <2>2, SameRuns DEF Exposed
<1>5. Abstract!Claim(W)
  BY <1>1, <1>3, <1>4, NoRuns DEF Abstract!Claim, Abstract!Answering, Abstract!runs
<1>. QED
  BY <1>3, <1>5

(* A coroutine whose handler comes to an end answers for its own job, or is   *)
(* adrift, and no other coroutine has its work.                              *)
LEMMA HandlerRefines ==
  ASSUME IInv, RunsWork, NEW id \in JobId, HandlerReturns(id) \/ HandlerRaises(id)
  PROVE  [\E w \in Work : Abstract!Return(w) \/ Abstract!Raise({w})]_Abstract!vars
<1> USE DEF IInv
<1>1. /\ UNCHANGED table
      /\ coroutine[id].at = "executing"
      /\ coroutine[id].work \in Work
      /\ \A i \in JobId : /\ coroutine'[i].work = coroutine[i].work
                           /\ coroutine'[i].row = coroutine[i].row
      /\ \A i \in JobId \ {id} : coroutine'[i].at = coroutine[i].at
      /\ coroutine'[id].at = IF HandlerReturns(id) THEN "succeeded" ELSE "failed"
  <2>1. coroutine[id].at = "executing" /\ UNCHANGED table
    BY DEF HandlerReturns, HandlerRaises
  <2>2. coroutine'[id].at = IF HandlerReturns(id) THEN "succeeded" ELSE "failed"
    BY DEF HandlerReturns, HandlerRaises, TypeOK, Coroutine
  <2>3. /\ \A i \in JobId : /\ coroutine'[i].work = coroutine[i].work
                             /\ coroutine'[i].row = coroutine[i].row
        /\ \A i \in JobId \ {id} : coroutine'[i].at = coroutine[i].at
    BY DEF HandlerReturns, HandlerRaises, TypeOK, Coroutine
  <2>. QED
    BY <2>1, <2>2, <2>3 DEF RunsWork
<1>2. PICK w \in Work : w = coroutine[id].work
  BY <1>1
<1>3. \A i \in JobId : coroutine[i].at # "idle" /\ coroutine[i].work = w => i = id
  BY <1>1, <1>2 DEF NeverTwiceAtOnce, Busy
<1>4. UNCHANGED <<Abstract!table, Adrift, Exposed>>
  <2>1. RowGone' = RowGone /\ RowGone \subseteq JobId
    BY <1>1 DEF RowGone, Busy
  <2>2. Adrift' = Adrift
    BY <1>1, <2>1 DEF Adrift
  <2>3. Exposed' = Exposed
    BY <1>1, <2>1 DEF Exposed
  <2>. QED
    BY <1>1, <2>2, <2>3, SameTable
<1>5. CASE coroutine[id].row = "gone"
  <2>1. UNCHANGED Abstract!runs
    BY <1>1, <1>5 DEF Abstract!runs, RunsAt
  <2>. QED
    BY <1>4, <2>1 DEF Abstract!vars
<1>6. CASE coroutine[id].row # "gone"
  <2>1. coroutine[id].row = "held" /\ w \in RunsAt({"claimed", "executing"})
    BY <1>1, <1>2, <1>6 DEF TypeOK, Coroutine, RunsAt
  <2>2. RunsAt({"claimed", "executing"})' = RunsAt({"claimed", "executing"}) \ {w}
    BY <1>1, <1>2, <1>3 DEF RunsAt
  <2>3. CASE HandlerReturns(id)
    <3>1. /\ RunsAt({"succeeded"})' = RunsAt({"succeeded"}) \cup {w}
          /\ RunsAt({"failed", "cancelled"})' = RunsAt({"failed", "cancelled"})
      BY <1>1, <1>2, <2>1, <2>3 DEF RunsAt
    <3>. QED
      BY <1>4, <2>1, <2>2, <3>1 DEF Abstract!Return
  <2>4. CASE ~HandlerReturns(id)
    <3>1. /\ RunsAt({"failed", "cancelled"})' = RunsAt({"failed", "cancelled"}) \cup {w}
          /\ RunsAt({"succeeded"})' = RunsAt({"succeeded"})
      BY <1>1, <1>2, <2>1, <2>4 DEF RunsAt
    <3>. QED
      BY <1>4, <2>1, <2>2, <3>1 DEF Abstract!Raise
  <2>. QED
    BY <2>3, <2>4
<1>. QED
  BY <1>5, <1>6

(* What the end of a coroutine takes from the runs. *)
LEMMA RunEnds ==
  ASSUME IInv, NEW id \in JobId, coroutine[id].at # "idle", NEW w \in Work, w = coroutine[id].work,
         coroutine' = [coroutine EXCEPT ![id] = Idle]
  PROVE  /\ RunsAt({"claimed", "executing"})' = RunsAt({"claimed", "executing"}) \ {w}
         /\ RunsAt({"succeeded"})' = RunsAt({"succeeded"}) \ {w}
         /\ RunsAt({"failed", "cancelled"})' = RunsAt({"failed", "cancelled"}) \ {w}
         /\ Adrift' = Adrift \ {w}
         /\ RowGone' = RowGone \ {id}
<1>1. \A i \in JobId : coroutine[i].at # "idle" /\ coroutine[i].work = w => i = id
  BY DEF IInv, NeverTwiceAtOnce, Busy
<1>2. /\ coroutine'[id].at = "idle"
      /\ \A i \in JobId \ {id} : coroutine'[i] = coroutine[i]
  BY DEF IInv, TypeOK, Idle
<1>3. RowGone' = RowGone \ {id}
  BY <1>2 DEF RowGone, Busy
<1>4. \A st \in {"claimed", "executing", "succeeded", "failed", "cancelled"} : st # "idle"
  OBVIOUS
<1>5. RunsAt({"claimed", "executing"})' = RunsAt({"claimed", "executing"}) \ {w}
  BY <1>1, <1>2 DEF RunsAt
<1>6. RunsAt({"succeeded"})' = RunsAt({"succeeded"}) \ {w}
  BY <1>1, <1>2 DEF RunsAt
<1>7. RunsAt({"failed", "cancelled"})' = RunsAt({"failed", "cancelled"}) \ {w}
  BY <1>1, <1>2 DEF RunsAt
<1>8. Adrift' = Adrift \ {w}
  BY <1>1, <1>2 DEF Adrift, RowGone, Busy
<1>. QED
  BY <1>3, <1>5, <1>6, <1>7, <1>8

(* A coroutine that lost its row ends, and the table is left as it is, or the *)
(* row at its rowid is closed.                                               *)
LEMMA DriftRefines ==
  ASSUME IInv, RunsWork, NEW id \in JobId, coroutine[id].at # "idle", coroutine[id].row = "gone",
         coroutine' = [coroutine EXCEPT ![id] = Idle],
         NEW ok \in BOOLEAN, UNCHANGED table \/ table' = Settled(table, id, ok)
  PROVE  Abstract!Drift(coroutine[id].work)
<1> USE DEF IInv
<1>1. PICK w \in Work : w = coroutine[id].work
  BY DEF RunsWork
<1>2. id \in RowGone /\ RowGone \subseteq JobId
  BY DEF RowGone, Busy
<1>3. /\ UNCHANGED Abstract!runs
      /\ Adrift' = Adrift \ {w}
      /\ RowGone' = RowGone \ {id}
      /\ w \in Adrift
  <2>1. \A i \in JobId : coroutine[i].at # "idle" /\ coroutine[i].work = w => i = id
    BY <1>1 DEF NeverTwiceAtOnce, Busy
  <2>2. w \notin RunsAt({"claimed", "executing"}) \cup RunsAt({"succeeded"}) \cup RunsAt({"failed", "cancelled"})
    BY <2>1 DEF RunsAt
  <2>3. w \in Adrift
    BY <1>1, <1>2 DEF Adrift
  <2>4. /\ RunsAt({"claimed", "executing"})' = RunsAt({"claimed", "executing"}) \ {w}
        /\ RunsAt({"succeeded"})' = RunsAt({"succeeded"}) \ {w}
        /\ RunsAt({"failed", "cancelled"})' = RunsAt({"failed", "cancelled"}) \ {w}
        /\ Adrift' = Adrift \ {w}
        /\ RowGone' = RowGone \ {id}
    BY <1>1, RunEnds
  <2>. QED
    BY <2>2, <2>3, <2>4 DEF Abstract!runs
<1>4. \A i \in JobId \ {id} : table'[i] = table[i] /\ coroutine'[i] = coroutine[i]
  BY SettledRows DEF TypeOK
<1>5. \A i \in JobId : table'[i].work = table[i].work
  BY SettledRows DEF TypeOK
<1>6. Exposed' = {p \in Exposed : p[1] # w}
  <2>1. \A i \in RowGone \ {id} : coroutine[i].work # w
    BY <1>1 DEF NeverTwiceAtOnce, RowGone, Busy
  <2>2. Exposed' = {p \in Work \X Work : \E i \in RowGone \ {id} : p = <<coroutine[i].work, table[i].work>>}
    BY <1>2, <1>3, <1>4 DEF Exposed
  <2>. QED
    BY <1>1, <1>2, <2>1, <2>2 DEF Exposed
<1>7. CASE UNCHANGED table
  <2>1. UNCHANGED Abstract!table
    BY <1>7, SameTable
  <2>. QED
    BY <1>1, <1>3, <1>6, <2>1 DEF Abstract!Drift, Abstract!table
<1>8. CASE table' = Settled(table, id, ok) /\ table[id].status = "absent"
  BY <1>7, <1>8 DEF Settled
<1>9. CASE table' = Settled(table, id, ok) /\ table[id].status # "absent"
  <2>1. table[id].status = "pending" /\ table[id].attempts = 0 /\ table[id].work \in Work
    BY <1>9 DEF StaleRow, RunsWork, KeyUnique
  <2>2. table'[id].status = IF ok THEN "done" ELSE "pending"
    BY <1>9, <2>1, SettledRows, JobTableAssumption DEF StatusAfter, TypeOK
  <2>3. CASE ok
    <3>1. PICK v \in Work : v = table[id].work
      BY <2>1
    <3>2. \A i \in JobId : table[i].work = v => i = id
      BY <2>1, <3>1 DEF KeyUnique
    <3>3. /\ WorkWith("pending")' = WorkWith("pending") \ {v}
          /\ WorkWith("done")' = WorkWith("done") \cup {v}
          /\ WorkWith("running")' = WorkWith("running")
          /\ WorkWith("dead")' = WorkWith("dead")
      BY <1>4, <1>5, <2>1, <2>2, <2>3, <3>1, <3>2 DEF WorkWith
    <3>4. v \in WorkWith("pending") /\ <<w, v>> \in Exposed
      BY <1>1, <1>2, <2>1, <3>1 DEF WorkWith, Exposed
    <3>. QED
      BY <1>1, <1>3, <1>6, <3>3, <3>4 DEF Abstract!Drift
  <2>4. CASE ~ok
    <3>1. \A i \in JobId : table'[i].status = table[i].status
      BY <1>4, <2>1, <2>2, <2>4
    <3>2. UNCHANGED Abstract!table
      BY <1>5, <3>1 DEF Abstract!table, WorkWith
    <3>. QED
      BY <1>1, <1>3, <1>6, <3>2 DEF Abstract!Drift, Abstract!table
  <2>. QED
    BY <2>3, <2>4
<1>. QED
  BY <1>7, <1>8, <1>9

LEMMA FinishRefines ==
  ASSUME IInv, RunsWork, NEW id \in JobId, Finish(id)
  PROVE  \E w \in Work : Abstract!Close(w) \/ Abstract!Retry(w) \/ Abstract!Drift(w)
<1> DEFINE ok == coroutine[id].at = "succeeded"
<1> USE DEF IInv
<1>1. /\ coroutine[id].at \in {"succeeded", "failed", "cancelled"}
      /\ table' = Settled(table, id, ok)
      /\ coroutine' = [coroutine EXCEPT ![id] = Idle]
  BY DEF Finish, Over
<1>2. PICK w \in Work : w = coroutine[id].work
  BY <1>1 DEF RunsWork
<1>3. CASE coroutine[id].row = "gone"
  BY <1>1, <1>2, <1>3, DriftRefines
<1>4. CASE coroutine[id].row # "gone"
  <2>1. coroutine[id].row = "held" /\ table[id].status = "running" /\ table[id].work = w
    BY <1>1, <1>2, <1>4 DEF OwnRow, TypeOK, Coroutine
  <2>2. \A i \in JobId : (table[i].work = w => i = id) /\ (coroutine[i].at # "idle" /\ coroutine[i].work = w => i = id)
    BY <1>1, <1>2, <2>1 DEF KeyUnique, NeverTwiceAtOnce, Busy
  <2>3. /\ \A i \in JobId : table'[i].work = table[i].work
        /\ \A i \in JobId \ {id} : table'[i] = table[i]
        /\ table'[id].status = StatusAfter(table[id], ok)
    BY <1>1, <2>1, SettledRows DEF TypeOK
  <2>4. /\ RunsAt({"claimed", "executing"})' = RunsAt({"claimed", "executing"}) \ {w}
        /\ RunsAt({"succeeded"})' = RunsAt({"succeeded"}) \ {w}
        /\ RunsAt({"failed", "cancelled"})' = RunsAt({"failed", "cancelled"}) \ {w}
        /\ Adrift' = Adrift \ {w}
        /\ RowGone' = RowGone \ {id}
    BY <1>1, <1>2, RunEnds
  <2>5. w \notin RunsAt({"claimed", "executing"}) \cup Adrift /\ id \notin RowGone /\ RowGone \subseteq JobId
    BY <1>1, <2>1, <2>2 DEF RunsAt, Adrift, RowGone, Busy
  <2>6. UNCHANGED Exposed
    <3>1. \A i \in RowGone : table'[i] = table[i] /\ coroutine'[i] = coroutine[i]
      BY <1>1, <2>3, <2>5 DEF TypeOK
    <3>2. RowGone' = RowGone
      BY <2>4, <2>5
    <3>. QED
      BY <3>1, <3>2 DEF Exposed
  <2>7. WorkWith("running")' = WorkWith("running") \ {w}
    <3>1. StatusAfter(table[id], ok) # "running"
      BY DEF StatusAfter
    <3>. QED
      BY <2>1, <2>2, <2>3, <3>1 DEF WorkWith
  <2>8. CASE ok
    <3>1. table'[id].status = "done"
      BY <2>3, <2>8 DEF StatusAfter
    <3>2. /\ WorkWith("done")' = WorkWith("done") \cup {w}
          /\ WorkWith("pending")' = WorkWith("pending")
          /\ WorkWith("dead")' = WorkWith("dead")
      BY <2>1, <2>2, <2>3, <3>1 DEF WorkWith
    <3>3. w \in RunsAt({"succeeded"}) /\ w \notin RunsAt({"failed", "cancelled"})
      BY <1>2, <2>1, <2>2, <2>8 DEF RunsAt
    <3>4. Abstract!Close(w)
      BY <2>4, <2>5, <2>6, <2>7, <3>2, <3>3 DEF Abstract!Close
    <3>. QED
      BY <3>4
  <2>9. CASE ~ok
    <3>1. w \in RunsAt({"failed", "cancelled"}) /\ w \notin RunsAt({"succeeded"})
      BY <1>1, <1>2, <2>1, <2>2, <2>9 DEF RunsAt
    <3>2. CASE table'[id].status = "dead"
      <4>1. /\ WorkWith("dead")' = WorkWith("dead") \cup {w}
            /\ WorkWith("pending")' = WorkWith("pending")
            /\ WorkWith("done")' = WorkWith("done")
        BY <2>1, <2>2, <2>3, <3>2 DEF WorkWith
      <4>2. Abstract!Retry(w)
        BY <2>4, <2>5, <2>6, <2>7, <3>1, <4>1 DEF Abstract!Retry
      <4>. QED
        BY <4>2
    <3>3. CASE table'[id].status = "pending"
      <4>1. /\ WorkWith("pending")' = WorkWith("pending") \cup {w}
            /\ WorkWith("dead")' = WorkWith("dead")
            /\ WorkWith("done")' = WorkWith("done")
        BY <2>1, <2>2, <2>3, <3>3 DEF WorkWith
      <4>2. Abstract!Retry(w)
        BY <2>4, <2>5, <2>6, <2>7, <3>1, <4>1 DEF Abstract!Retry
      <4>. QED
        BY <4>2
    <3>. QED
      BY <2>3, <2>9, <3>2, <3>3 DEF StatusAfter
  <2>. QED
    BY <2>8, <2>9
<1>. QED
  BY <1>3, <1>4

LEMMA FinishLostRefines ==
  ASSUME IInv, RunsWork, NEW id \in JobId, FinishLost(id)
  PROVE  \E w \in Work : Abstract!Lose(w) \/ Abstract!Drift(w)
<1> USE DEF IInv
<1>1. /\ coroutine[id].at \in {"succeeded", "failed", "cancelled"}
      /\ UNCHANGED table
      /\ coroutine' = [coroutine EXCEPT ![id] = Idle]
  BY DEF FinishLost, Over
<1>2. PICK w \in Work : w = coroutine[id].work
  BY <1>1 DEF RunsWork
<1>3. CASE coroutine[id].row = "gone"
  BY <1>1, <1>2, <1>3, DriftRefines
<1>4. CASE coroutine[id].row # "gone"
  <2>1. coroutine[id].row = "held"
    BY <1>4 DEF TypeOK, Coroutine
  <2>2. \A i \in JobId : coroutine[i].at # "idle" /\ coroutine[i].work = w => i = id
    BY <1>1, <1>2 DEF NeverTwiceAtOnce, Busy
  <2>3. /\ RunsAt({"claimed", "executing"})' = RunsAt({"claimed", "executing"}) \ {w}
        /\ RunsAt({"succeeded"})' = RunsAt({"succeeded"}) \ {w}
        /\ RunsAt({"failed", "cancelled"})' = RunsAt({"failed", "cancelled"}) \ {w}
        /\ Adrift' = Adrift \ {w}
        /\ RowGone' = RowGone \ {id}
    BY <1>1, <1>2, RunEnds
  <2>4. w \notin RunsAt({"claimed", "executing"}) \cup Adrift /\ id \notin RowGone /\ RowGone \subseteq JobId
    BY <1>1, <2>1, <2>2 DEF RunsAt, Adrift, RowGone, Busy
  <2>5. w \in RunsAt({"succeeded"}) \cup RunsAt({"failed", "cancelled"})
    BY <1>1, <1>2, <2>1 DEF RunsAt
  <2>6. UNCHANGED Exposed
    <3>1. \A i \in RowGone : coroutine'[i] = coroutine[i]
      BY <1>1, <2>4 DEF TypeOK
    <3>2. RowGone' = RowGone
      BY <2>3, <2>4
    <3>. QED
      BY <1>1, <3>1, <3>2 DEF Exposed
  <2>7. Abstract!Lose(w)
    BY <1>1, <2>3, <2>4, <2>5, <2>6, SameTable DEF Abstract!Lose
  <2>. QED
    BY <2>7
<1>. QED
  BY <1>3, <1>4

(* The start of a batch is nothing new to Outbox.                            *)
LEMMA SpawnRefines ==
  ASSUME IInv, Spawn
  PROVE  UNCHANGED Abstract!vars
<1>1. /\ UNCHANGED table
      /\ \A i \in JobId : /\ coroutine'[i].work = coroutine[i].work
                           /\ coroutine'[i].row = coroutine[i].row
                           /\ coroutine'[i].at = IF coroutine[i].at = "claimed" THEN "executing" ELSE coroutine[i].at
  BY DEF Spawn, IInv, TypeOK, Coroutine
<1>2. RowGone' = RowGone /\ RowGone \subseteq JobId
  BY <1>1 DEF RowGone, Busy
<1>3. /\ RunsAt({"claimed", "executing"})' = RunsAt({"claimed", "executing"})
      /\ RunsAt({"succeeded"})' = RunsAt({"succeeded"})
      /\ RunsAt({"failed", "cancelled"})' = RunsAt({"failed", "cancelled"})
  BY <1>1 DEF RunsAt
<1>4. Adrift' = Adrift
  BY <1>1, <1>2 DEF Adrift
<1>5. Exposed' = Exposed
  BY <1>1, <1>2 DEF Exposed
<1>. QED
  BY <1>1, <1>3, <1>4, <1>5, SameTable DEF Abstract!vars, Abstract!runs

(* No coroutine is left: to Outbox, the process has crashed.                 *)
LEMMA NothingLeft ==
  ASSUME UNCHANGED table, \A i \in JobId : coroutine'[i].at = "idle"
  PROVE  Abstract!Crash
<1>1. /\ RunsAt({"claimed", "executing"})' = {} /\ RunsAt({"succeeded"})' = {} /\ RunsAt({"failed", "cancelled"})' = {}
      /\ Adrift' = {} /\ Exposed' = {}
  BY DEF RunsAt, Adrift, Exposed, RowGone, Busy
<1>. QED
  BY <1>1, SameTable DEF Abstract!Crash

(* A shutdown cancels the runs of a batch that has begun, and drops those of *)
(* one that has not.                                                         *)
LEMMA StopRefines ==
  ASSUME IInv, BatchTogether, Stop
  PROVE  Abstract!Crash \/ \E W \in SUBSET Work : Abstract!Raise(W)
<1>1. /\ UNCHANGED table
      /\ \A i \in JobId :
           IF coroutine[i].at = "claimed" THEN coroutine'[i].at = "idle"
           ELSE /\ coroutine'[i].work = coroutine[i].work
                /\ coroutine'[i].row = coroutine[i].row
                /\ coroutine'[i].at = IF coroutine[i].at = "executing" THEN "cancelled" ELSE coroutine[i].at
  BY StopCoroutines DEF Stop, IInv
<1>2. CASE \A i \in JobId : coroutine[i].at \in {"idle", "claimed"}
  BY <1>1, <1>2, NothingLeft
<1>3. CASE \A i \in JobId : coroutine[i].at # "claimed"
  <2> DEFINE W == RunsAt({"claimed", "executing"})
  <2>1. /\ RunsAt({"claimed", "executing"})' = {}
        /\ RunsAt({"succeeded"})' = RunsAt({"succeeded"})
        /\ RunsAt({"failed", "cancelled"})' = RunsAt({"failed", "cancelled"}) \cup W
    BY <1>1, <1>3 DEF RunsAt
  <2>2. RowGone' = RowGone /\ RowGone \subseteq JobId
    BY <1>1, <1>3 DEF RowGone, Busy
  <2>3. Adrift' = Adrift
    BY <1>1, <1>3, <2>2 DEF Adrift
  <2>4. Exposed' = Exposed
    BY <1>1, <1>3, <2>2 DEF Exposed
  <2>5. W \in SUBSET Work
    BY DEF RunsAt
  <2>6. Abstract!Raise(W)
    BY <1>1, <2>1, <2>3, <2>4, SameTable DEF Abstract!Raise
  <2>. QED
    BY <2>5, <2>6
<1>. QED
  BY <1>2, <1>3 DEF BatchTogether

(* A reset, of the worker that starts or of one that was stopped.            *)
LEMMA ResetRefines ==
  ASSUME IInv, ResetOrphans \/ ResetUnheard
  PROVE  Abstract!Restart
<1> USE DEF IInv
<1>1. Busy = {} /\ UNCHANGED coroutine /\ table' = Reset(table)
  BY DEF ResetOrphans, ResetUnheard, AtRest, Busy
<1>2. \A i \in JobId : /\ table'[i].work = table[i].work
                       /\ table'[i].status = IF table[i].status = "running" THEN "pending" ELSE table[i].status
  BY <1>1, ResetRows DEF TypeOK
<1>3. /\ WorkWith("pending")' = WorkWith("pending") \cup WorkWith("running")
      /\ WorkWith("running")' = {}
      /\ WorkWith("done")' = WorkWith("done")
      /\ WorkWith("dead")' = WorkWith("dead")
  BY <1>2 DEF WorkWith
<1>4. UNCHANGED Exposed
  BY <1>1, <1>2 DEF Exposed, RowGone, Busy
<1>. QED
  BY <1>1, <1>3, <1>4, SameRuns, NoRuns DEF Abstract!Restart, Abstract!Answering

LEMMA ProcessRefines ==
  ASSUME IInv, BatchTogether, Process
  PROVE  [Abstract!Next]_Abstract!vars
<1>1. CASE Stop
  BY <1>1, StopRefines DEF Abstract!Next
<1>2. CASE Exit \/ Start \/ ResetFails
  <2>1. UNCHANGED <<table, coroutine>>
    BY <1>2 DEF Exit, Start, ResetFails
  <2>. QED
    BY <2>1, SameTable, SameRuns DEF Abstract!vars, Exposed
<1>3. CASE Crash
  <2>1. UNCHANGED table /\ \A i \in JobId : coroutine'[i].at = "idle"
    BY <1>3 DEF Crash, Idle
  <2>. QED
    BY <2>1, NothingLeft DEF Abstract!Next
<1>4. CASE ResetOrphans \/ ResetUnheard
  BY <1>4, ResetRefines DEF Abstract!Next
<1>5. ASSUME NEW S \in SUBSET JobId, ClaimUnheard(S) PROVE Abstract!Next
  BY <1>5, ClaimUnheardRefines DEF Abstract!Next
<1>. QED
  BY <1>1, <1>2, <1>3, <1>4, <1>5 DEF Process

LEMMA StepRefines ==
  ASSUME IInv, RunsWork, BatchTogether, [Next]_vars
  PROVE  [Abstract!Next]_Abstract!vars
<1>1. ASSUME NEW w \in Work, NEW id \in JobId, Enqueue(w, id) PROVE Abstract!Next
  BY <1>1, EnqueueRefines DEF Abstract!Next
<1>2. ASSUME NEW tx \in Tx, Discard(tx) PROVE Abstract!Next
  <2>1. {w \in Work : tx \in TxOf[w]} \in SUBSET Work
    OBVIOUS
  <2>. QED
    BY <1>2, <2>1, DiscardRefines DEF Abstract!Next
<1>3. CASE ReviveDead
  BY <1>3, ReviveRefines DEF Abstract!Next
<1>4. ASSUME NEW S \in SUBSET JobId, Claim(S) PROVE Abstract!Next
  BY <1>4, ClaimRefines DEF Abstract!Next
<1>5. ASSUME NEW id \in JobId, HandlerReturns(id) \/ HandlerRaises(id) PROVE [Abstract!Next]_Abstract!vars
  <2>1. \A w \in Work : {w} \in SUBSET Work
    OBVIOUS
  <2>. QED
    BY <1>5, <2>1, HandlerRefines DEF Abstract!Next
<1>6. ASSUME NEW id \in JobId, Finish(id) PROVE Abstract!Next
  BY <1>6, FinishRefines DEF Abstract!Next
<1>7. ASSUME NEW id \in JobId, FinishLost(id) PROVE Abstract!Next
  BY <1>7, FinishLostRefines DEF Abstract!Next
<1>8. CASE UNCHANGED <<table, coroutine>>
  BY <1>8, SameTable, SameRuns DEF Abstract!vars, Exposed
<1>9. CASE Spawn
  BY <1>9, SpawnRefines
<1>. QED
  BY <1>1, <1>2, <1>3, <1>4, <1>5, <1>6, <1>7, <1>8, <1>9, ProcessRefines
     DEF Next, Environment, Worker, Elapse, vars

(* services/jobs.py implements Outbox: seen by key, the table, its rowids and *)
(* the coroutines do nothing to a job that Outbox does not allow.            *)
THEOREM ImplementsOutbox == Spec => QueueIsOutbox
<1>1. Init => Abstract!Init
  <2> SUFFICES ASSUME Init PROVE Abstract!Init
    OBVIOUS
  <2>1. Busy = {} /\ \A i \in JobId : table[i].status = "absent"
    BY EmptyTableRows DEF Init, Busy, Idle, Blank
  <2>2. WorkWith("pending") = {} /\ WorkWith("running") = {} /\ WorkWith("done") = {} /\ WorkWith("dead") = {}
    BY <2>1 DEF WorkWith
  <2>. QED
    BY <2>1, <2>2, NoRuns DEF Abstract!Init
<1>2. Init => RunsWork /\ BatchTogether
  BY DEF Init, RunsWork, BatchTogether, Idle
<1>3. IInv /\ RunsWork /\ BatchTogether /\ [Next]_vars =>
        RunsWork' /\ BatchTogether' /\ [Abstract!Next]_Abstract!vars
  BY RunsWorkStep, BatchStep, StepRefines
<1>. QED
  BY <1>1, <1>2, <1>3, Safety, PTL DEF Spec, QueueIsOutbox, Abstract!Spec
=============================================================================
