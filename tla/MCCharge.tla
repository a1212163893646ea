------------------------------ MODULE MCCharge ------------------------------
(* Instance of Charge: the bounds are numbers, given in MCCharge.cfg.        *)
EXTENDS Charge
=============================================================================
