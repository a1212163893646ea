----------------------------- MODULE MCJobQueue -----------------------------
(* Instance of JobQueue: the work of two charges, and one without a charge.  *)
EXTENDS JobQueue, TLC

CONSTANTS notify, delmsg, other, t1, t2

MCWork == {notify, delmsg, other}

MCTxOf == [w \in Work |-> CASE w = notify -> {t1} [] w = other -> {t2} [] OTHER -> {}]
=============================================================================
