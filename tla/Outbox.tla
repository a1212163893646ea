------------------------------- MODULE Outbox -------------------------------
(***************************************************************************)
(* What the job queue promises to the components that enqueue: jobs by      *)
(* key, without rowids, attempts, backoff or the order of claims. A job     *)
(* leaves the table's care only when a run of its own succeeds or when it   *)
(* is discarded; one that failed too often stays, dead. The one exception   *)
(* is explicit: a run whose job was discarded is adrift, and may close a    *)
(* pending job that is exposed to it.                                       *)
(***************************************************************************)
CONSTANT Work        \* idempotency keys, each with its kind and payload

VARIABLES pending, running, done, dead,  \* work, by what the table says of it
          executing, succeeded, failed,  \* runs that answer for their job
          adrift,                        \* runs whose job was discarded
          exposed                        \* <<w, v>>: the run of w, adrift, takes v for its own

table == <<pending, running, done, dead>>

runs == <<executing, succeeded, failed>>

vars == <<table, runs, adrift, exposed>>

Init ==
  /\ pending = {} /\ running = {} /\ done = {} /\ dead = {}
  /\ executing = {} /\ succeeded = {} /\ failed = {}
  /\ adrift = {} /\ exposed = {}

Answering == executing \cup succeeded \cup failed

-----------------------------------------------------------------------------
(* A key that is outstanding is refused, a finished one is given away.       *)
Enqueue(w) ==
  /\ w \notin pending \cup running
  /\ pending' = pending \cup {w}
  /\ done' = done \ {w}
  /\ dead' = dead \ {w}
  /\ \/ UNCHANGED exposed
     \/ \E u \in adrift : exposed' = exposed \cup {<<u, w>>}
  /\ UNCHANGED <<running, runs, adrift>>

Discard(S) ==
  /\ pending' = pending \ S
  /\ running' = running \ S
  /\ done' = done \ S
  /\ dead' = dead \ S
  /\ executing' = executing \ S
  /\ succeeded' = succeeded \ S
  /\ failed' = failed \ S
  /\ adrift' = adrift \cup (S \cap Answering)
  /\ exposed' = {p \in exposed : p[2] \notin S}

Revive ==
  /\ pending' = pending \cup dead
  /\ dead' = {}
  /\ UNCHANGED <<running, done, runs, adrift, exposed>>

-----------------------------------------------------------------------------
(* No run begins before every run of the last batch is over; none begins at  *)
(* all when the process is stopping.                                         *)
Claim(S) ==
  /\ Answering \cup adrift = {}
  /\ S \subseteq pending
  /\ pending' = pending \ S
  /\ running' = running \cup S
  /\ executing' \in {S, {}}
  /\ UNCHANGED <<done, dead, succeeded, failed, adrift, exposed>>

Return(w) ==
  /\ w \in executing
  /\ executing' = executing \ {w}
  /\ succeeded' = succeeded \cup {w}
  /\ UNCHANGED <<table, failed, adrift, exposed>>

(* Some raise, or all are cancelled. *)
Raise(S) ==
  /\ S \subseteq executing
  /\ executing' = executing \ S
  /\ failed' = failed \cup S
  /\ UNCHANGED <<table, succeeded, adrift, exposed>>

Close(w) ==
  /\ w \in succeeded
  /\ succeeded' = succeeded \ {w}
  /\ running' = running \ {w}
  /\ done' = done \cup {w}
  /\ UNCHANGED <<pending, dead, executing, failed, adrift, exposed>>

(* Another attempt, or none is left. *)
Retry(w) ==
  /\ w \in failed
  /\ failed' = failed \ {w}
  /\ running' = running \ {w}
  /\ \/ pending' = pending \cup {w} /\ UNCHANGED dead
     \/ dead' = dead \cup {w} /\ UNCHANGED pending
  /\ UNCHANGED <<done, executing, succeeded, adrift, exposed>>

(* A finishing write is lost: the job is running until a restart.            *)
Lose(w) ==
  /\ w \in succeeded \cup failed
  /\ succeeded' = succeeded \ {w}
  /\ failed' = failed \ {w}
  /\ UNCHANGED <<table, executing, adrift, exposed>>

(* A run adrift ends: it closes nothing, or the job that was exposed to it.  *)
Drift(w) ==
  /\ w \in adrift
  /\ adrift' = adrift \ {w}
  /\ exposed' = {p \in exposed : p[1] # w}
  /\ \/ UNCHANGED <<pending, done>>
     \/ \E v \in pending :
          /\ <<w, v>> \in exposed
          /\ pending' = pending \ {v}
          /\ done' = done \cup {v}
  /\ UNCHANGED <<running, dead, runs>>

-----------------------------------------------------------------------------
(* The process ends, and starts again. *)
Crash ==
  /\ executing' = {} /\ succeeded' = {} /\ failed' = {}
  /\ adrift' = {} /\ exposed' = {}
  /\ UNCHANGED table

Restart ==
  /\ Answering \cup adrift = {}
  /\ pending' = pending \cup running
  /\ running' = {}
  /\ UNCHANGED <<done, dead, runs, adrift, exposed>>

Next ==
  \/ \E w \in Work : Enqueue(w) \/ Return(w) \/ Close(w) \/ Retry(w) \/ Lose(w) \/ Drift(w)
  \/ \E S \in SUBSET Work : Discard(S) \/ Claim(S) \/ Raise(S)
  \/ Revive \/ Crash \/ Restart

Spec == Init /\ [][Next]_vars
=============================================================================
