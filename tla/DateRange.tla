----------------------------- MODULE DateRange -----------------------------
(***************************************************************************)
(* The test of a servant that a file's date lies in the range of a request *)
(* (Final/source_code/Servant/servant.c).  A date is <<year, month, day>>. *)
(***************************************************************************)
EXTENDS Integers

\* Of a file or of a request: any triples, not only those of the calendar.
Dates == Int \X Int \X Int

\* Faulty: the months of the range count in its middle years too.
FaultyExistance(date, from, to) ==
  \A n \in 1 .. 3 : from[n] <= date[n] /\ date[n] <= to[n]

\* The code's cascade: each test returns 0, the end returns 1.
checkCitTransactionExistance(date, from, to) ==
  /\ ~(date[1] < from[1] \/ date[1] > to[1])
  /\ date[1] = from[1] =>
       /\ ~(date[2] < from[2])
       /\ date[2] = from[2] => ~(date[3] < from[3])
  /\ date[1] = to[1] =>
       /\ ~(date[2] > to[2])
       /\ date[2] = to[2] => ~(date[3] > to[3])

\* The order of dates.
AtMost(d, e) ==
  \/ d[1] < e[1]
  \/ d[1] = e[1] /\ d[2] < e[2]
  \/ d[1] = e[1] /\ d[2] = e[2] /\ d[3] <= e[3]
=============================================================================
