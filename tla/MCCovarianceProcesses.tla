----------------------- MODULE MCCovarianceProcesses -----------------------
(***************************************************************************)
(* An instance of CovarianceProcesses for TLC: three groups, one line of   *)
(* an earlier run, SIGINT to everybody or to one process.                  *)
(***************************************************************************)
EXTENDS CovarianceProcesses, TLC

OldLines == <<10, Newline>>
Norms == 1 :> 4 @@ 2 :> 9 @@ 3 :> 7 @@ 10 :> 20
SomeInterrupts == {Processes, {0}, {1}}
=============================================================================
