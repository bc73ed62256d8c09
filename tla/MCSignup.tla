------------------------------ MODULE MCSignup ------------------------------
(***************************************************************************)
(* TLC instances of SignupJob.                                             *)
(***************************************************************************)
EXTENDS SignupJob

CONSTANTS j1, j2, j3

OneJob    == {j1}
FirstTwo  == {j1, j2}
ThreeJobs == {j1, j2, j3}
=============================================================================
