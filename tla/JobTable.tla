------------------------------ MODULE JobTable ------------------------------
(***************************************************************************)
(* The jobs table (models.Job) and what one database session of            *)
(* services/jobs.py does to it.  A table is a function from row ids to      *)
(* rows; every operator returns the table that a committed session leaves.  *)
(* next_run_at is not here: JobQueue keeps the order in which rows run.     *)
(***************************************************************************)
EXTENDS Integers, FiniteSets

CONSTANTS Work,         \* idempotency keys, each with its kind and payload
          NoWork,       \* the work of a row that does not exist
          Tx,           \* transaction ids
          TxOf,         \* the transaction_id of a payload, {} when it has none
          MaxJobs,      \* bound: largest rowid of the jobs table
          MaxAttempts   \* Job.max_attempts (8)

ASSUME JobTableAssumption ==
  /\ NoWork \notin Work
  /\ TxOf \in [Work -> SUBSET Tx]
  /\ MaxJobs \in Nat \ {0}
  /\ MaxAttempts \in Nat \ {0}

JobId == 1..MaxJobs

Status == {"absent", "pending", "running", "done", "dead"}

Row == [work : Work \cup {NoWork}, status : Status, attempts : Nat]

Blank == [work |-> NoWork, status |-> "absent", attempts |-> 0]

Table == [JobId -> Row]

EmptyTable == [i \in JobId |-> Blank]

-----------------------------------------------------------------------------
With(t, st) == {i \in JobId : t[i].status = st}

Present(t) == {i \in JobId : t[i].status # "absent"}

Outstanding(t, w) ==
  \E i \in JobId : t[i].work = w /\ t[i].status \in {"pending", "running"}

Finished(t, w) ==
  {i \in JobId : t[i].work = w /\ t[i].status \in {"done", "dead"}}

(* SQLite's rowid without AUTOINCREMENT: one more than the largest in use. *)
IsNextRowid(t, id) ==
  /\ \A i \in Present(t) : i < id
  /\ id = 1 \/ id - 1 \in Present(t)

Erased(t, S) == [i \in JobId |-> IF i \in S THEN Blank ELSE t[i]]

-----------------------------------------------------------------------------
(* enqueue: refused while the key is outstanding; a finished row that still *)
(* holds the key is deleted first, and its rowid may be the one reused.     *)
CanEnqueue(t, w, id) ==
  /\ ~Outstanding(t, w)
  /\ IsNextRowid(Erased(t, Finished(t, w)), id)

Enqueued(t, w, id) ==
  [Erased(t, Finished(t, w)) EXCEPT
     ![id] = [work |-> w, status |-> "pending", attempts |-> 0]]

(* _claim *)
Claimed(t, S) ==
  [i \in JobId |->
     IF i \in S THEN [t[i] EXCEPT !.status = "running", !.attempts = @ + 1]
     ELSE t[i]]

(* Mutants: a failure past the budget filed as done; one attempt too many;  *)
(* a value that JobStatus does not have.                                    *)
StatusSwallowed(row, ok) ==
  IF ok \/ row.attempts >= MaxAttempts THEN "done" ELSE "pending"

StatusOffByOne(row, ok) ==
  IF ok THEN "done"
  ELSE IF row.attempts > MaxAttempts THEN "dead" ELSE "pending"

StatusUnknown(row, ok) == IF ok THEN "done" ELSE "failed"

StatusAfter(row, ok) ==
  IF ok THEN "done"
  ELSE IF row.attempts >= MaxAttempts THEN "dead" ELSE "pending"

(* _finish: by rowid, and a silent return when the row is gone. *)
Settled(t, id, ok) ==
  IF t[id].status = "absent" THEN t
  ELSE [t EXCEPT ![id].status = StatusAfter(t[id], ok)]

(* Mutant: a worker that starts without looking for orphans. *)
ResetNothing(t) == t

(* reset_orphaned_jobs *)
Reset(t) ==
  [i \in JobId |->
     IF t[i].status = "running" THEN [t[i] EXCEPT !.status = "pending"] ELSE t[i]]

(* revive_dead *)
Revived(t) ==
  [i \in JobId |->
     IF t[i].status = "dead"
     THEN [t[i] EXCEPT !.status = "pending", !.attempts = 0]
     ELSE t[i]]

(* discard_for_transaction: every row of the transaction, whatever its status. *)
OfTx(t, tx) == {i \in Present(t) : tx \in TxOf[t[i].work]}

Discarded(t, tx) == Erased(t, OfTx(t, tx))
=============================================================================
