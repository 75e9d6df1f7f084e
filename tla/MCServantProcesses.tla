------------------------ MODULE MCServantProcesses ------------------------
(***************************************************************************)
(* An instance of ServantProcesses for TLC.                                *)
(***************************************************************************)
EXTENDS ServantProcesses

CONSTANTS s1, s2, c1

SomeVictims == {s1, Server}
=============================================================================
