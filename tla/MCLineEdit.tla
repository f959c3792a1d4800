------------------------------ MODULE MCLineEdit ------------------------------
(* Instances of LineEdit for TLC. *)
EXTENDS LineEdit

(* Two letters, one of them in both cases. *)
FoldCase == [c \in Chars |-> IF c = "A" THEN "a" ELSE c]

History(lines, rd, wr, tmpl) ==
  [lines |-> [i \in Ring |-> lines[i + 1]], rd |-> rd, wr |-> wr, tmpl |-> tmpl]

NoLines == History(<< <<>>, <<>>, <<>>, <<>> >>, 0, 0, <<>>)
(* Six commands entered into four slots, the session ended while scrolling. *)
Wrapped == History(<< <<"b">>, <<"a", "b">>, <<"a">>, <<"A", "b">> >>, 0, 2, <<"b">>)

Histories == {NoLines, Wrapped}
SomeInserts == {<<>>, <<"a">>, <<"b", "a">>}
=============================================================================
