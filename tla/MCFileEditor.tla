--------------------------- MODULE MCFileEditor ---------------------------
(***************************************************************************)
(* An instance of FileEditor for TLC: two editors, short texts of three    *)
(* letters and line ends, and command lines with every kind of edit.       *)
(***************************************************************************)
EXTENDS FileEditor

SomeChars == {"a", "b", "c", "A", "\n", "\r"}
SomeEnds == {"\n", "\r"}
LowerOf(c) == IF c = "A" THEN "a" ELSE c

Simple(kind, pattern, with, lower) ==
  [kind |-> kind, patterns |-> <<pattern>>, with |-> with, lower |-> lower]

SomeTexts == {<<"a", "a", "a", "b">>, <<"b", "a", "\r", "a", "b">>,
              <<"A", "b", "\n", "b", "a", "\n">>}
SomeJobs ==
  {<<Simple("plain", <<"a">>, <<"b", "a">>, FALSE),
     Simple("end", <<"b", "a">>, <<"c", "b">>, FALSE)>>,
   <<Simple("plain", <<"a", "a">>, <<"c", "a", "a">>, FALSE)>>,
   <<Simple("start", <<"a">>, <<"c", "c">>, FALSE),
     Simple("plain", <<"b">>, <<"c">>, TRUE),
     Simple("wrong format", <<"a">>, <<"b">>, FALSE)>>,
   <<[kind |-> "plain", patterns |-> <<(<<"a">>), <<"b">> >>, with |-> <<"c">>,
      lower |-> FALSE], Simple("plain", <<"c", "b">>, <<"a">>, FALSE)>>}
=============================================================================
