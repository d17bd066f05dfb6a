------------------------- MODULE MCShellAdmission --------------------------
(***************************************************************************)
(* Admission of requests on small instances.                               *)
(***************************************************************************)
EXTENDS ShellAdmission, TLC

CONSTANTS paste, drop, launch

MCGesture == paste :> "Paste" @@ drop :> "Drop" @@ launch :> "Launch"
=============================================================================
