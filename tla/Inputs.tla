------------------------------- MODULE Inputs -------------------------------
(***************************************************************************)
(* What this crate makes of a caller's image or question before a graph    *)
(* sees it, and of the scores after: the images of JinaV5Vision (Vision)   *)
(* and the questions of the three deciders (Deciders), in one process.     *)
(* The two share nothing, so the process is bounded to one of them: their  *)
(* interleavings would only multiply what each does by itself.             *)
(***************************************************************************)
EXTENDS Vision, Deciders

InputsInit == VisionInit /\ DecidersInit
InputsNext ==
  \/ decider = {} /\ VisionNext /\ UNCHANGED decidersVars
  \/ stage = "none" /\ DecidersNext /\ UNCHANGED visionVars
InputsSpec == InputsInit /\ [][InputsNext]_<<visionVars, decidersVars>>

\* The variables of both keep their shape.
TypeOK == VisionTypeOK /\ DecidersTypeOK
=============================================================================
