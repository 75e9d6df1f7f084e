------------------------ MODULE MCSupplierConsumers ------------------------
(* Input files for the checking of SupplierConsumers with C * N = 6. *)
EXTENDS SupplierConsumers

Times(n, s) == [i \in 1 .. n |-> s]

MCInputs == {
  <<"1", "2", "2", "1", "other", "1", "1", "2", "2", "1", "2", "2", "1">>,
  Times(6, "1") \o Times(6, "2"),                    \* all of one kind first
  Times(3, "2") \o Times(7, "1") \o Times(5, "2"),   \* more than is taken
  Times(8, "1") \o Times(6, "2"),                    \* a semaphore overflows
  <<"1", "2", "1", "1">>}                            \* less
=============================================================================
