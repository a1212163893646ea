------------------------------ MODULE JobQueue ------------------------------
(***************************************************************************)
(* The job worker (services/jobs.py) and the sessions that share its table.*)
(* _claim commits in a thread before its coroutines exist; a coroutine of  *)
(* _run_one keeps the rowid it claimed and gives it to _finish when its    *)
(* handler is over.  In between any session may discard the row, and the   *)
(* process may be stopped or killed.                                       *)
(***************************************************************************)
EXTENDS JobTable

CONSTANTS Deferred,       \* work enqueued with delay_seconds > 0
          Batches,        \* values of work_forever's batch (5)
          MaxDisruptions  \* bound: process ends, and sessions of the worker lost

ASSUME JobQueueAssumption ==
  /\ Deferred \subseteq Work
  /\ Batches \subseteq Nat \ {0}
  /\ MaxDisruptions \in Nat

VARIABLES
  batch,        \* work_forever's argument, which nothing changes
  table,        \* the jobs table
  due,          \* pending rows whose next_run_at has come
  ahead,        \* for a due row, the due rows before it: next_run_at, then id
  coroutine,    \* _run_one, by the rowid it claimed
  phase,        \* of the process and its worker
  unheard,      \* session of the worker that outlives its cancelled await
  disruptions,  \* how many of the MaxDisruptions so far
  owed,         \* history: work enqueued whose own run has not succeeded
  inherited,    \* history: rows inserted at a rowid a coroutine still held
  stranded      \* history: running rows that no coroutine will finish

vars == <<batch, table, due, ahead, coroutine, phase, unheard, disruptions, owed, inherited,
          stranded>>

(* "started": work_forever awaits reset_orphaned_jobs; "workless": the reset *)
(* raised, and the worker's task is over while the others go on.             *)
Phase == {"down", "started", "up", "workless", "stopping"}

Coroutine ==
  [at : {"idle", "claimed", "executing", "succeeded", "failed", "cancelled"},
   work : Work \cup {NoWork},
   row : {"held", "gone"}]  \* history: whether the claimed row still exists

Idle == [at |-> "idle", work |-> NoWork, row |-> "gone"]

Busy == {i \in JobId : coroutine[i].at # "idle"}

(* The coroutines once the rows S have been deleted under them. *)
Disowned(S) ==
  [i \in JobId |-> IF i \in S THEN [coroutine[i] EXCEPT !.row = "gone"]
                   ELSE coroutine[i]]

(* Rows that leave the order, and rows whose next_run_at is now. *)
Reorder(gone, come) ==
  LET stay == due \ gone
  IN  /\ due' = stay \cup come
      /\ ahead' = [i \in JobId |-> IF i \in come THEN stay \cup {j \in come : j < i}
                                   ELSE IF i \in stay THEN ahead[i] \ gone
                                   ELSE {}]

Init ==
  /\ batch \in Batches
  /\ table = EmptyTable
  /\ due = {}
  /\ ahead = [i \in JobId |-> {}]
  /\ coroutine = [i \in JobId |-> Idle]
  /\ phase = "down"
  /\ unheard = "none"
  /\ disruptions = 0
  /\ owed = {}
  /\ inherited = {}
  /\ stranded = {}

-----------------------------------------------------------------------------
(* Sessions of the process: the poller, the scheduler, the bot, the web UI. *)

Enqueue(w, id) ==
  /\ phase # "down"
  /\ CanEnqueue(table, w, id)
  /\ table' = Enqueued(table, w, id)
  /\ Reorder({}, IF w \in Deferred THEN {} ELSE {id})
  /\ owed' = owed \cup {w}
  /\ inherited' = (inherited \ (Finished(table, w) \cup {id}))
                     \cup ({id} \cap Busy)
  /\ UNCHANGED <<batch, coroutine, phase, unheard, disruptions, stranded>>

Discard(tx) ==
  /\ phase # "down"
  /\ table' = Discarded(table, tx)
  /\ Reorder(OfTx(table, tx), {})
  /\ coroutine' = Disowned(OfTx(table, tx))
  /\ owed' = {w \in owed : tx \notin TxOf[w]}
  /\ inherited' = inherited \ OfTx(table, tx)
  /\ stranded' = stranded \ OfTx(table, tx)
  /\ UNCHANGED <<batch, phase, unheard, disruptions>>

ReviveDead ==
  /\ phase # "down"
  /\ With(table, "dead") # {}
  /\ table' = Revived(table)
  /\ Reorder({}, With(table, "dead"))
  /\ UNCHANGED <<batch, coroutine, phase, unheard, disruptions, owed, inherited, stranded>>

Elapse(id) ==
  /\ table[id].status = "pending"
  /\ id \notin due
  /\ Reorder({}, {id})
  /\ UNCHANGED <<batch, table, coroutine, phase, unheard, disruptions, owed, inherited, stranded>>

-----------------------------------------------------------------------------
(* work_forever and its coroutines. *)

(* Mutant: a claim of any due rows, whatever their next_run_at. *)
ClaimableUnordered(S) ==
  /\ S \subseteq due
  /\ S # {}
  /\ Cardinality(S) <= batch
  /\ Cardinality(S) < batch => S = due

(* The first due rows, in order, as many as the batch takes. *)
Claimable(S) ==
  /\ S \subseteq due
  /\ S # {}
  /\ \A i \in S : ahead[i] \subseteq S
  /\ Cardinality(S) <= batch
  /\ Cardinality(S) < batch => S = due

Allotted(S) ==
  [i \in JobId |-> IF i \in S
                   THEN [at |-> "claimed", work |-> table[i].work, row |-> "held"]
                   ELSE coroutine[i]]

(* Mutant: a worker that claims as soon as one coroutine of the batch is over. *)
ClaimEarly(S) ==
  /\ phase = "up"
  /\ \E i \in JobId : i \notin Busy
  /\ S \cap Busy = {}
  /\ Claimable(S)
  /\ table' = Claimed(table, S)
  /\ Reorder(S, {})
  /\ coroutine' = Allotted(S)
  /\ UNCHANGED <<batch, phase, unheard, disruptions, owed, inherited, stranded>>

(* _claim's thread commits. The whole batch is gathered before it runs again.*)
Claim(S) ==
  /\ phase = "up"
  /\ Busy = {}
  /\ Claimable(S)
  /\ table' = Claimed(table, S)
  /\ Reorder(S, {})
  /\ coroutine' = Allotted(S)
  /\ UNCHANGED <<batch, phase, unheard, disruptions, owed, inherited, stranded>>

(* The await of the claim returns, and gather starts the batch. *)
Spawn ==
  /\ phase = "up"
  /\ \E i \in JobId : coroutine[i].at = "claimed"
  /\ coroutine' = [i \in JobId |->
                     IF coroutine[i].at = "claimed"
                     THEN [coroutine[i] EXCEPT !.at = "executing"]
                     ELSE coroutine[i]]
  /\ UNCHANGED <<batch, table, due, ahead, phase, unheard, disruptions, owed, inherited, stranded>>

HandlerReturns(id) ==
  /\ phase = "up"
  /\ coroutine[id].at = "executing"
  /\ coroutine' = [coroutine EXCEPT ![id].at = "succeeded"]
  /\ owed' = IF coroutine[id].row = "held" THEN owed \ {coroutine[id].work} ELSE owed
  /\ UNCHANGED <<batch, table, due, ahead, phase, unheard, disruptions, inherited, stranded>>

(* An exception, or no handler registered for the kind. *)
HandlerRaises(id) ==
  /\ phase = "up"
  /\ coroutine[id].at = "executing"
  /\ coroutine' = [coroutine EXCEPT ![id].at = "failed"]
  /\ UNCHANGED <<batch, table, due, ahead, phase, unheard, disruptions, owed, inherited, stranded>>

Over(id) == coroutine[id].at \in {"succeeded", "failed", "cancelled"}

Finish(id) ==
  /\ Over(id)
  /\ table' = Settled(table, id, coroutine[id].at = "succeeded")
  /\ Reorder({id}, {})
  /\ coroutine' = [coroutine EXCEPT ![id] = Idle]
  /\ UNCHANGED <<batch, phase, unheard, disruptions, owed, inherited, stranded>>

(* _finish raises or never runs: gather swallows it and nothing retries it. *)
FinishLost(id) ==
  /\ Over(id)
  /\ disruptions < MaxDisruptions
  /\ disruptions' = disruptions + 1
  /\ coroutine' = [coroutine EXCEPT ![id] = Idle]
  /\ stranded' = IF table[id].status = "running" THEN stranded \cup {id} ELSE stranded
  /\ UNCHANGED <<batch, table, due, ahead, phase, unheard, owed, inherited>>

-----------------------------------------------------------------------------
(* The process. *)

(* lifespan's shutdown cancels the worker. A handler that runs is cancelled; *)
(* a batch whose coroutines have not begun is dropped, its rows running. The *)
(* thread of a claim or of the reset goes on, with nobody to hear of it.     *)
Stop ==
  /\ phase \in {"started", "up", "workless"}
  /\ disruptions < MaxDisruptions
  /\ disruptions' = disruptions + 1
  /\ phase' = "stopping"
  /\ unheard' \in {"none"} \cup (IF phase = "started" THEN {"reset"} ELSE {})
                          \cup (IF phase = "up" /\ Busy = {} THEN {"claim"} ELSE {})
  /\ coroutine' = [i \in JobId |->
                     CASE coroutine[i].at = "executing" ->
                            [coroutine[i] EXCEPT !.at = "cancelled"]
                       [] coroutine[i].at = "claimed" -> Idle
                       [] OTHER -> coroutine[i]]
  /\ stranded' = stranded \cup {i \in JobId : /\ coroutine[i].at = "claimed"
                                            /\ coroutine[i].row = "held"}
  /\ UNCHANGED <<batch, table, due, ahead, owed, inherited>>

ClaimUnheard(S) ==
  /\ unheard = "claim"
  /\ Claimable(S)
  /\ table' = Claimed(table, S)
  /\ Reorder(S, {})
  /\ unheard' = "none"
  /\ stranded' = stranded \cup S
  /\ UNCHANGED <<batch, coroutine, phase, disruptions, owed, inherited>>

ResetUnheard ==
  /\ unheard = "reset"
  /\ table' = Reset(table)
  /\ Reorder({}, With(table, "running"))
  /\ unheard' = "none"
  /\ stranded' = {}
  /\ UNCHANGED <<batch, coroutine, phase, disruptions, owed, inherited>>

(* A session unheard that has not committed by now found nothing or failed.  *)
Exit ==
  /\ phase = "stopping"
  /\ Busy = {}
  /\ phase' = "down"
  /\ unheard' = "none"
  /\ UNCHANGED <<batch, table, due, ahead, coroutine, disruptions, owed, inherited, stranded>>

Crash ==
  /\ phase # "down"
  /\ disruptions < MaxDisruptions
  /\ disruptions' = disruptions + 1
  /\ phase' = "down"
  /\ unheard' = "none"
  /\ coroutine' = [i \in JobId |-> Idle]
  /\ stranded' = With(table, "running")
  /\ UNCHANGED <<batch, table, due, ahead, owed, inherited>>

(* The tasks of the process start together: the others need not wait for the *)
(* worker's reset.                                                           *)
Start ==
  /\ phase = "down"
  /\ phase' = "started"
  /\ UNCHANGED <<batch, table, due, ahead, coroutine, unheard, disruptions, owed, inherited,
                 stranded>>

ResetOrphans ==
  /\ phase = "started"
  /\ phase' = "up"
  /\ table' = Reset(table)
  /\ Reorder({}, With(table, "running"))
  /\ stranded' = {}
  /\ UNCHANGED <<batch, coroutine, unheard, disruptions, owed, inherited>>

(* The reset raises, outside any try: nothing starts the worker again.       *)
ResetFails ==
  /\ phase = "started"
  /\ disruptions < MaxDisruptions
  /\ disruptions' = disruptions + 1
  /\ phase' = "workless"
  /\ UNCHANGED <<batch, table, due, ahead, coroutine, unheard, owed, inherited, stranded>>

-----------------------------------------------------------------------------
Environment ==
  \/ \E w \in Work, id \in JobId : Enqueue(w, id)
  \/ \E tx \in Tx : Discard(tx)
  \/ ReviveDead

Worker ==
  \/ \E S \in SUBSET JobId : Claim(S)
  \/ Spawn
  \/ \E id \in JobId : \/ HandlerReturns(id) \/ HandlerRaises(id)
                       \/ Finish(id) \/ FinishLost(id)

Process ==
  \/ Start \/ ResetOrphans \/ ResetFails
  \/ Stop \/ Exit \/ Crash
  \/ (\E S \in SUBSET JobId : ClaimUnheard(S)) \/ ResetUnheard

Next == Environment \/ (\E id \in JobId : Elapse(id)) \/ Worker \/ Process

(* Handlers return or raise, threads run to their commit, the loop goes on, *)
(* the clock advances, and systemd (Restart=always) starts the service again.*)
Fairness ==
  /\ WF_vars(\E S \in SUBSET JobId : Claim(S))
  /\ WF_vars(Spawn)
  /\ \A id \in JobId : /\ WF_vars(HandlerReturns(id) \/ HandlerRaises(id))
                       /\ WF_vars(Finish(id))
                       /\ WF_vars(Elapse(id))
  /\ WF_vars(Exit)
  /\ WF_vars(Start)
  /\ WF_vars(ResetOrphans)

Spec == Init /\ [][Next]_vars

LiveSpec == Spec /\ Fairness

-----------------------------------------------------------------------------
(* Every variable has its type. *)
TypeOK ==
  /\ batch \in Batches
  /\ table \in Table
  /\ due \subseteq With(table, "pending")
  /\ ahead \in [JobId -> SUBSET due]
  /\ coroutine \in [JobId -> Coroutine]
  /\ phase \in Phase
  /\ unheard \in {"none", "claim", "reset"}
  /\ disruptions \in 0..MaxDisruptions
  /\ owed \subseteq Work
  /\ inherited \subseteq JobId
  /\ stranded \subseteq JobId

(* The promise of the outbox: work that was enqueued, was not discarded and  *)
(* has not succeeded has a row, and that row will run, is running, or is     *)
(* dead and shown on the health page; unless the row was inserted at a rowid *)
(* that a coroutine of a discarded row still held.                           *)
OutboxKept ==
  \A w \in owed : \E i \in JobId :
    /\ table[i].work = w
    /\ \/ table[i].status \in {"pending", "running", "dead"}
       \/ table[i].status = "done" /\ i \in inherited

(* The same without the exception: what the module's docstring promises.     *)
DoneMeansRan ==
  \A w \in owed, i \in JobId : table[i].work = w => table[i].status # "done"

(* A running row has the coroutine that claimed it, whether that has begun   *)
(* or not, or it was left behind in one of four ways: its finishing write    *)
(* was lost, a shutdown came between the claim's commit and its coroutines,  *)
(* the claim was committed during the shutdown, or the process was killed.   *)
(* A reset leaves no such row: no other row waits for a restart.             *)
RunningIsHeld ==
  \A i \in With(table, "running") :
    \/ i \in Busy /\ coroutine[i].row = "held" /\ coroutine[i].work = table[i].work
    \/ i \in stranded

(* Two coroutines never do the same work at once, although a key can be      *)
(* discarded and enqueued again while its first run goes on.                 *)
NeverTwiceAtOnce ==
  \A i, j \in Busy : coroutine[i].work = coroutine[j].work => i = j

(* A job is tried at most max_attempts times, plus once for each run that a  *)
(* process end or a lost write cut off, or that was claimed and never begun. *)
AttemptBudget ==
  \A i \in JobId : table[i].attempts <= MaxAttempts + disruptions

(* What is outstanding is settled (done, dead or discarded): no job starves, *)
(* though more are due than a batch takes and others are retried, enqueued   *)
(* and revived for ever. Excepted is a row left running, until a restart,    *)
(* and a process whose worker ended because the reset raised.                *)
EveryJobSettles ==
  \A w \in Work : Outstanding(table, w) ~>
    \/ ~Outstanding(table, w)
    \/ \E i \in stranded : table[i].work = w
    \/ phase = "workless"

-----------------------------------------------------------------------------
(* The queue by key, which is what the components that enqueue rely on.      *)

WorkWith(st) == {w \in Work : \E i \in JobId : table[i].work = w /\ table[i].status = st}

RunsAt(S) ==
  {w \in Work : \E i \in JobId :
     coroutine[i].work = w /\ coroutine[i].at \in S /\ coroutine[i].row = "held"}

RowGone == {i \in Busy : coroutine[i].row = "gone"}

Adrift == {w \in Work : \E i \in RowGone : coroutine[i].work = w}

Exposed == {p \in Work \X Work : \E i \in RowGone : p = <<coroutine[i].work, table[i].work>>}

Abstract == INSTANCE Outbox WITH
  pending <- WorkWith("pending"),
  running <- WorkWith("running"),
  done <- WorkWith("done"),
  dead <- WorkWith("dead"),
  executing <- RunsAt({"claimed", "executing"}),
  succeeded <- RunsAt({"succeeded"}),
  failed <- RunsAt({"failed", "cancelled"}),
  adrift <- Adrift,
  exposed <- Exposed

(* The queue implements Outbox: whatever rowids are reused, writes lost and  *)
(* runs cut off, a job is begun when no other run is under way, and is       *)
(* closed by its own success, or by a run adrift it was exposed to.          *)
QueueIsOutbox == Abstract!Spec
=============================================================================
