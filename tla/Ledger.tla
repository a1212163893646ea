------------------------------- MODULE Ledger -------------------------------
(***************************************************************************)
(* What mail intake promises, without pages, cursors, failures of Graph or *)
(* restarts: a mail is on record at most once, and mail is acknowledged    *)
(* (not asked for again) only when it is on record or was given up.        *)
(***************************************************************************)
EXTENDS Naturals

CONSTANT Mid            \* mails, by internet_message_id

VARIABLES charges,      \* how many charges each mail has
          excused,      \* mails given up: filtered, failed, deleted by hand
          acknowledged  \* mails that will not be asked for again

vars == <<charges, excused, acknowledged>>

Init ==
  /\ charges = [m \in Mid |-> 0]
  /\ excused = {}
  /\ acknowledged = {}

Settled == {m \in Mid : charges[m] > 0} \cup excused

Record(m) ==
  /\ charges[m] = 0
  /\ charges' = [charges EXCEPT ![m] = 1]
  /\ excused' = excused \ {m}
  /\ UNCHANGED acknowledged

Excuse(m) ==
  /\ charges[m] = 0
  /\ excused' = excused \cup {m}
  /\ UNCHANGED <<charges, acknowledged>>

Forget(m) ==
  /\ charges[m] = 1
  /\ charges' = [charges EXCEPT ![m] = 0]
  /\ excused' = excused \cup {m}
  /\ UNCHANGED acknowledged

(* Also what takes an acknowledgement back, with a smaller set. *)
Acknowledge(S) ==
  /\ S \subseteq Settled
  /\ acknowledged' = S
  /\ UNCHANGED <<charges, excused>>

Next ==
  \/ \E m \in Mid : Record(m) \/ Excuse(m) \/ Forget(m)
  \/ \E S \in SUBSET Mid : Acknowledge(S)

Spec == Init /\ [][Next]_vars
=============================================================================
