------------------------- MODULE MCTransactionData -------------------------
(***************************************************************************)
(* An instance of TransactionData for TLC: five cities, two servants in    *)
(* either order, files at the edges of the dates asked for, and arrays     *)
(* that are full, or too small for the files or for the lines of a file.   *)
(***************************************************************************)
EXTENDS TransactionData, TLC

CONSTANTS gumushane, hakkari, mus, ordu, van, bag, ev

FiveCities == <<gumushane, hakkari, mus, ordu, van>>
NameParts == [c \in CityNames |-> IF c = mus THEN {mus, gumushane} ELSE {c}]
EitherOrder == {<< <<1, 2>>, <<3, 5>> >>, << <<3, 5>>, <<1, 2>> >>}

File(y, m, d, t) == [date |-> <<y, m, d>>, types |-> t]
f1 == File(2018, 2, 3, <<bag, ev, bag>>)
f2 == File(2018, 2, 2, <<bag>>)
f3 == File(2050, 11, 9, <<ev, bag>>)
f4 == File(2050, 12, 1, <<bag>>)

Small == [c \in CityNames |->
            CASE c = gumushane -> {f1, f2} [] c = hakkari -> {f3}
              [] c = mus -> {f4, f3} [] OTHER -> {f1}]
\* More than FILE_COUNT files in a city.
Large == [Small EXCEPT ![van] = {f1, f2, f3}, ![mus] = {f1}]
\* More than TRANSACTION_COUNT lines in a file.
Long == [Small EXCEPT ![mus] = {f4, File(2050, 11, 9, <<ev, bag, bag, ev>>)}]
SomeLibraries == {Small, Large, Long}

Spans == {<< <<2018, 2, 3>>, <<2050, 11, 9>> >>,
          << <<2018, 1, 4>>, <<2018, 12, 1>> >>}
SomeLines ==
  {[type |-> bag, from |-> d[1], to |-> d[2], city |-> c, blanks |-> n] :
     d \in Spans, c \in {Missing, mus, hakkari, ordu}, n \in 1 .. 2}
=============================================================================
