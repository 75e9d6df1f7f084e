--------------------------- MODULE MCDessertTable ---------------------------
(* An input file and the processes that get SIGINT, for TLC. *)
EXTENDS DessertTable

\* Every chef of the instance is needed, both orders of a pair occur, and a
\* pair repeats in the other order.
MixedInput == <<<<"W", "S">>, <<"M", "F">>, <<"S", "W">>, <<"S", "F">>>>

\* Three chefs whose pairs overlap; one of them and the wholesaler may be
\* interrupted.
SomeChefs == {0, 2, 3}
SomeProcs == {0, Wholesaler}
=============================================================================
