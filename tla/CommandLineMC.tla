----------------------------- MODULE CommandLineMC -----------------------------
(***************************************************************************)
(* An instance of CommandLine for TLC.                                     *)
(***************************************************************************)
EXTENDS CommandLine, ArgumentMC, ReferencesMC
===============================================================================
