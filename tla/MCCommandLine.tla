----------------------------- MODULE MCCommandLine ------------------------------
(***************************************************************************)
(* Instances of CommandLine for TLC.                                       *)
(***************************************************************************)
EXTENDS CommandLine, TLC

SomeLevels == {"absent", "debug", "loud"}
=============================================================================
