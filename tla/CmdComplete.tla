------------------------------ MODULE CmdComplete ------------------------------
(***************************************************************************)
(* What Tab and Tab Tab make of the command line and the table             *)
(* (bdm-dbg-ui/dbg-ui_inp.c, cmd_auto_complete and cmd_suggest).  Both     *)
(* look at the text left of the cursor only, and at the first and the last *)
(* word of it.                                                             *)
(***************************************************************************)
EXTENDS CmdTable, FiniteSets

Left(line, pos) == SubSeq(line, 1, pos)
Right(line, pos) == SubSeq(line, pos + 1, Len(line))

(* The places of the names that begin with a word. *)
Matching(entries, word) == {i \in DOMAIN entries : BeginsWith(entries[i].name, word)}

FirstWord(words) == IF words = <<>> THEN <<>> ELSE words[1]
LastWord(words) == IF Len(words) < 2 THEN <<>> ELSE words[Len(words)]
NoDash(word) == IF word # <<>> /\ IsOption(word) THEN Tail(word) ELSE word

(* The character that all the names which begin with the word go on with;  *)
(* none if one of them ends there, or they differ, or there are none.      *)
Common(entries, word) ==
  IF \A i \in Matching(entries, word) : Len(entries[i].name) > Len(word)
  THEN {entries[i].name[Len(word) + 1] : i \in Matching(entries, word)} ELSE {}

match_case(c, word) == IF word # <<>> /\ LowerOf[word[1]] = word[1] /\ UpperOf[word[1]] # word[1]
                       THEN LowerOf[c] ELSE UpperOf[c]

ExtensionOfFirst(entries, word) ==  \* the first name, not what all have in common
  IF Matching(entries, word) = {} THEN <<>>
  ELSE LET n == entries[Min(Matching(entries, word))].name IN SubSeq(n, Len(word) + 1, Len(n))

NextCommon(s) ==
  LET c == match_case(CHOOSE x \in Common(s.entries, s.word) : TRUE, s.word)
  IN IF Cardinality(Common(s.entries, s.word)) # 1 THEN s
     ELSE [s EXCEPT !.word = Append(@, c), !.ext = Append(@, c)]
Completing == INSTANCE Loop WITH Step <- NextCommon
ExtensionOf(entries, word) ==
  Completing!Repeat([entries |-> entries, word |-> word, ext |-> <<>>],
                    Len(ExtensionOfFirst(entries, word))).ext

Complete(entries, word) ==
  \E i \in Matching(entries, word) :
    Matching(entries, word) = {i} /\ SameWord(entries[i].name, word)

(* The options of a command: with " -" in front when there is no word yet, *)
(* and a blank when the name is complete.                                  *)
InsertOption(entries, word) ==
  LET ext == ExtensionOf(entries, NoDash(word))
  IN (IF word = <<>> THEN Chars(" -") ELSE <<>>) \o ext
     \o (IF Complete(entries, NoDash(word) \o ext) THEN <<Blank>> ELSE <<>>)

(* A command's name: with " -" behind it when it is complete and the value *)
(* of its first option is not zero (the union is compared with NULL).      *)
InsertCommand(table, word) ==
  LET ext == ExtensionOf(table, word)
      done == Complete(table, word \o ext)
      fields == table[Named(table, word \o ext)].fields
  IN ext \o (IF done /\ fields # <<>> /\ fields[1].set THEN Chars(" -") ELSE <<>>)

Inserted(table, text) ==
  LET words == Tokens(text)
      cmd == Named(table, FirstWord(words))
  IN CASE cmd # 0 /\ table[cmd].fields # NoFields ->
            InsertOption(table[cmd].fields, LastWord(words))
       [] (cmd = 0 \/ table[cmd].fields = NoFields) /\ LastWord(words) = <<>> ->
            InsertCommand(table, FirstWord(words))
       [] OTHER -> <<>>

(* cmd_auto_complete: the line; the cursor moves behind what is inserted. *)
cmd_auto_complete(line, pos, table) ==
  Left(line, pos) \o Inserted(table, Left(line, pos)) \o Right(line, pos)

SuggestAsTyped(text) == Tokens(text)  \* the text is not converted to upper case

SuggestWords(text) == Tokens(Upper(text))

(* cmd_suggest: the names it prints, by their places in the table.  Here   *)
(* the comparison is exact, the text being in upper case, and one command  *)
(* alone is recognized only when no other begins with it.                  *)
From(entries, word) ==
  [i \in {j \in DOMAIN entries : IsPrefix(word, entries[j].name)} |-> entries[i].name]
cmd_suggest(line, pos, table) ==
  LET words == SuggestWords(Left(line, pos))
      first == FirstWord(words)
      last == LastWord(words)
      several == last = <<>> /\ Cardinality(Matching(table, first)) > 1
      exact == IF first = <<>> \/ several THEN 0 ELSE Named(table, first)
  IN CASE exact # 0 -> From(table[exact].fields, NoDash(last))
       [] exact = 0 /\ last # <<>> -> <<>>
       [] OTHER -> From(table, first)
=============================================================================
