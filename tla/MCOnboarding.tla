---------------------------- MODULE MCOnboarding ----------------------------
(* The constants are numbers, given in the configuration. *)
EXTENDS Onboarding
=============================================================================
