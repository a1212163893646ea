------------------------------ MODULE MCIntake ------------------------------
(* Instance of Intake: two folders; a mail with a copy in each, a mail of    *)
(* the first folder, one that the filter refuses, and one simulated.         *)
EXTENDS Intake, TLC

CONSTANTS inbox, archive, lunch, advert, test

MCMidOf == (1 :> lunch) @@ (2 :> advert) @@ (3 :> lunch)

MCFolderOf == (1 :> inbox) @@ (2 :> inbox) @@ (3 :> archive)
=============================================================================
