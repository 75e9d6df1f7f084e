-------------------------- MODULE MCMatrixService --------------------------
(* Matrices for the checking of MatrixService: one row and two, by rows. *)
EXTENDS MatrixService, TLC

CONSTANTS c1, c2

\* The code calls the second not invertible; it is (2 * 7 - 1 * 2 = 12).
TwoMatrices == c1 :> <<5>> @@ c2 :> <<2, 1, 2, 7>>
=============================================================================
