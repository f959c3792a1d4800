---------------------------- MODULE MCCmdSession ----------------------------
(* Instances of CmdSession for TLC. *)
EXTENDS CmdSession

Texts(strings) == {Chars(s) : s \in strings}

(* Beginnings of names, whole commands, and options that do and do not fit *)
(* behind them; "go" once more, so that three commands can wait.  65 is    *)
(* the code of "A" and of the TLV that is a type: the long buffer, once    *)
(* set, makes a UI that is started again take BUFF of WR8 for a text, and  *)
(* pass on the line that says so.                                          *)
SomeChunks ==
  << Texts({"b", "Fr", "wr16", "go", "loopback", "frd -in a b -out c",
            "wr8 -BUFF 2 65 0 1 -addr 010", "br -addr 0x10 -addr q", "quit",
            "wr8 -buff 1 0 0 0 0 65 4 1 0 0 0"}),
     Texts({"w", "go", " -", " -addr 7", " -str x -y", " -buff 0 65 4 q", "wr8 -buff a b"}),
     Texts({"go"}) >>

(* A value, and then a line that leaves it out and has one that cannot be  *)
(* read.                                                                   *)
LeftOutChunks == << Texts({"wr8 -buff 5"}), Texts({" wr8 -addr q"}) >>

(* A response that reaches beyond the definitions of commands, and a short one. *)
SomeResponses == {[i \in 1 .. 70 |-> "A"], Chars("ok")}
=============================================================================
