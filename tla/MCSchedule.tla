----------------------------- MODULE MCSchedule -----------------------------
(* Instance of Schedule: days of two slots, the tasks due in the second;     *)
(* a zone behind UTC, whose evening is of the next UTC day, and a zone ahead *)
(* of that one.                                                              *)
EXTENDS Schedule

CONSTANTS west, east, t1

MCDate == 0..((MaxTime + 1) \div 2)

MCOffset(z) == IF z = west THEN 0 ELSE 1

MCDateOf == [z \in {west, east} |-> [c \in 0..MaxTime |-> (c + MCOffset(z)) \div 2]]

MCUtcDateOf == [c \in 0..MaxTime |-> (c + 1) \div 2]

MCOpen == [z \in {west, east} |-> [h \in 0..1 |-> {c \in 0..MaxTime : (c + MCOffset(z)) % 2 >= h}]]

Usual == [zone |-> west, enabled |-> TRUE, hour |-> 1, lapse |-> 2]

(* One setting at a time differs from the usual ones. *)
MCSettings ==
  {Usual, [Usual EXCEPT !.zone = east], [Usual EXCEPT !.enabled = FALSE], [Usual EXCEPT !.hour = 0],
   [Usual EXCEPT !.lapse = 6]}
=============================================================================
