------------------------------ MODULE CmdMeaning ------------------------------
(***************************************************************************)
(* What a typed line means, without a parser: a command's name and         *)
(* options, each with the values behind it.  The options are found by      *)
(* their places in the line, and of each variable the last value counts.   *)
(***************************************************************************)
EXTENDS CmdParse

(* Where options begin: at a word that begins with "-", unless it is the   *)
(* first value of the option before it.  So of several such words in a row *)
(* every second one is an option, from the first one on.                   *)
OptionPlaces(words) ==
  {i \in 2 .. Len(words) :
     \E j \in 2 .. i : /\ (i - j) % 2 = 0
                       /\ \A k \in j .. i : IsOption(words[k])
                       /\ j = 2 \/ ~IsOption(words[j - 1])}

ValuesAt(words, i) ==
  LET last == CHOOSE n \in i .. Len(words) :
                /\ n = Len(words) \/ n + 1 \in OptionPlaces(words)
                /\ \A k \in i + 1 .. n : k \notin OptionPlaces(words)
  IN SubSeq(words, i + 1, last)

OptionAt(words, i) ==
  LET fields == gta_io_ui_cmd[Named(gta_io_ui_cmd, words[1])].fields
      f == Named(fields, Tail(words[i]))
  IN IF f = 0 THEN [type |-> -1] ELSE fields[f]

Width(type) == IF type = CFT_RAW8 THEN 1 ELSE 2
Bytes(n, width) == IF width = 1 THEN <<n>> ELSE <<n % 256, n \div 256>>

(* One number, any number of words of a text, and bytes of which the last  *)
(* may be unreadable.                                                      *)
GoodValues(type, vals) ==
  CASE type = CFT_NUM -> Len(vals) = 1
    [] type = CFT_TXT -> Len(vals) > 0
    [] type \in {CFT_RAW8, CFT_RAW16} ->
         /\ Len(vals) > 0
         /\ \A i \in 1 .. Len(vals) - 1 : ScanD(vals[i], 1).read
    [] OTHER -> FALSE

WellFormed(line) ==
  LET words == Tokens(line)
  IN /\ words # <<>> /\ Named(gta_io_ui_cmd, words[1]) # 0
     /\ Len(words) > 1 => 2 \in OptionPlaces(words)
     /\ \A i \in OptionPlaces(words) :
          GoodValues(OptionAt(words, i).type, ValuesAt(words, i))

(* The numbers of an option can all be read and fit into what they are     *)
(* for: cmd_lib.c:201 "specified value fit to field".                      *)
InRange(number, width) ==
  number.read /\ number.val < (IF width = 1 THEN 256 ELSE 65536)
ValuesFitField(type, vals) ==
  CASE type = CFT_NUM -> ScanI(vals[1]).read /\ ScanI(vals[1]).val \div 65536 < 65536
    [] type = CFT_TXT -> TRUE
    [] OTHER -> \A v \in ToSet(vals) :
                  InRange(Decimal(IF IsOption(v) THEN Tail(v) ELSE v), Width(type))
AllFit(line) ==
  LET words == Tokens(line)
  IN \A i \in OptionPlaces(words) :
       ValuesFitField(OptionAt(words, i).type, ValuesAt(words, i))

ValueMeant(type, vals) ==
  CASE type = CFT_NUM -> ScanI(vals[1]).val
    [] type = CFT_TXT -> FlattenSeq([i \in 1 .. 2 * Len(vals) - 1 |->
                           IF i % 2 = 1 THEN vals[(i + 1) \div 2] ELSE <<Blank>>])
    [] OTHER -> LET good == IF ScanD(Last(vals), 1).read THEN vals ELSE Front(vals)
                IN FlattenSeq([i \in DOMAIN good |->
                     Bytes(ScanD(good[i], Width(type)).val, Width(type))])

(* The places whose values count: the last one of each variable.  A number *)
(* that cannot be read counts for nothing.                                 *)
Effective(words, cell) ==
  {i \in OptionPlaces(words) :
     /\ OptionAt(words, i).cell = cell
     /\ OptionAt(words, i).type = CFT_NUM => ScanI(words[i + 1]).read}

Carried(line, vals) ==
  LET words == Tokens(line)
  IN [cell \in Cells |->
        LET places == Effective(words, cell)
            last == CHOOSE i \in places : \A j \in places : j <= i
        IN IF places = {} THEN vals[cell]
           ELSE ValueMeant(OptionAt(words, last).type, ValuesAt(words, last))]

(* The act of each command and the variables it tells.  RD does nothing,   *)
(* and the address of WR8 and WR16 is not told.  A second transfer is not  *)
(* begun before the first one is over.                                     *)
Acts == <<"sign", "break", "go", "reset", "none", "write", "write", "fwrite",
          "fread", "loopback">>
Arguments(act) ==
  CASE act = "break" -> {"br_addr"}
    [] act = "write" -> {"raw_buff"}
    [] act = "fwrite" -> {"fin"}
    [] act = "fread" -> {"fin", "fout"}
    [] act = "loopback" -> {"lbs"}
    [] OTHER -> {}
ActOf(line) == Acts[Named(gta_io_ui_cmd, Tokens(line)[1])]
Told(act, vals) == [act |-> act, args |-> [cell \in Arguments(act) |-> vals[cell]]]
=============================================================================
