------------------------ MODULE MCTransactionServer ------------------------
(***************************************************************************)
(* Instances of TransactionServer for TLC: which servant holds which city  *)
(* and what each client asks for.                                          *)
(***************************************************************************)
EXTENDS TransactionServer, TLC

CONSTANTS s1, s2, all, known, unknown, k1, k2, elsewhere

\* Two servants; one client asks for a city of s2, one for everything.
MixedConns == {all, known, s1, s2}
MixedWants == all :> Empty @@ known :> k2
TwoHold == s1 :> {k1} @@ s2 :> {k2}

\* One servant; one client asks for its city, one for a city nobody has.
LostConns == {known, unknown, s1}
LostWants == known :> k1 @@ unknown :> elsewhere
OneHolds == s1 :> {k1}
=============================================================================
