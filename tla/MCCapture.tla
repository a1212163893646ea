----------------------------- MODULE MCCapture -----------------------------
(* Instance of Capture: a message with two receipts, and one with a copy of  *)
(* the first.                                                                *)
EXTENDS Capture, TLC

CONSTANTS m1, m2, lunch, taxi

MCSize == m1 :> 2 @@ m2 :> 1

MCPhotoOf == <<m1, 1>> :> lunch @@ <<m1, 2>> :> taxi @@ <<m2, 1>> :> lunch
=============================================================================
