------------------------------- MODULE CmdParse -------------------------------
(***************************************************************************)
(* The command parser (bdm-dbg-cmd-lib/cmd_lib.c), which the UI runs to    *)
(* see whether a line is a command and the IO process runs once more to    *)
(* set the options' variables: a command's name, then options, each with   *)
(* its value or values, up to the next word that begins with "-".  A line  *)
(* that is refused half-way leaves what was set before.                    *)
(***************************************************************************)
EXTENDS CmdTable

(* swscanf_s of %i, %hhd and %hd: an optional sign, then the longest run   *)
(* of digits; what follows is not looked at.  A pair of "read" and value.  *)
HexDigits == DecDigits \o Chars("abcdef")
DigitOf == [c \in Alphabet |-> SelectInSeq(HexDigits, LAMBDA x : x = LowerOf[c]) - 1]
ASSUME DigitsAssumption == DigitOf \in [Alphabet -> -1 .. 15]

Run(s, base) == CHOOSE n \in 0 .. Len(s) :
                  /\ \A i \in 1 .. n : DigitOf[s[i]] \in 0 .. base - 1
                  /\ n < Len(s) => DigitOf[s[n + 1]] \notin 0 .. base - 1
NextDigit(n) == [n EXCEPT !.val = n.base * @ + DigitOf[Head(n.rest)], !.rest = Tail(@)]
Digits == INSTANCE Loop WITH Step <- NextDigit
Number(digits, base) ==
  Digits!Repeat([val |-> 0, base |-> base, rest |-> digits], Run(digits, base)).val

Magnitude(digits, base) ==
  [read |-> Run(digits, base) > 0, val |-> Number(digits, base)]
Decimal(s) == Magnitude(s, 10)
AnyBase(s) == CASE Len(s) > 2 /\ SubSeq(s, 1, 2) \in {<<"0", "x">>, <<"0", "X">>}
                     -> Magnitude(SubSeq(s, 3, Len(s)), 16)
                [] s # <<>> /\ s[1] = "0" -> Magnitude(s, 8)
                [] OTHER -> Magnitude(s, 10)

Negative(number) == [number EXCEPT !.val = IF @ = 0 THEN 0 ELSE 65536 * 65536 - @]
ScanI(word) == IF IsOption(word) THEN Negative(AnyBase(Tail(word))) ELSE AnyBase(word)

Modulo(number, limit) == [number EXCEPT !.val = @ % limit]
Minus(number) == [number EXCEPT !.val = -@]
ScanD(word, width) == Modulo(IF IsOption(word) THEN Minus(Decimal(Tail(word)))
                                              ELSE Decimal(word),
                             IF width = 1 THEN 256 ELSE 65536)
ByteOf(n, i) == IF i = 0 THEN n % 256 ELSE n \div 256

(* What an option of a type takes of the words behind it (the first one in *)
(* any case) and makes of them: the value, if any, and the words that are  *)
(* left.                                                                   *)
Taken(vals, rest) == [vals |-> vals, rest |-> rest]

Num(n, rest) == Taken(IF n.read THEN {n.val} ELSE {}, rest)
TakeNum(words) == Num(ScanI(Head(words)), Tail(words))

TextPastOption(words) == Len(words)  \* a text does not end at an option

TextLen(words) == CHOOSE n \in 1 .. Len(words) :
                    /\ \A i \in 2 .. n : ~IsOption(words[i])
                    /\ n < Len(words) => IsOption(words[n + 1])

NextJoined(s) == [text |-> s.text \o <<Blank>> \o Head(s.rest), rest |-> Tail(s.rest)]
Joining == INSTANCE Loop WITH Step <- NextJoined
Joined(words) ==
  Joining!Repeat([text |-> Head(words), rest |-> Tail(words)], Len(words) - 1).text
TextPastDash(words, n) ==  \* n_skip_tokenization_fl is not set
  Taken({Joined(SubSeq(words, 1, n))}, SubSeq(words, n + 2, Len(words)))

Text(words, n) == Taken({Joined(SubSeq(words, 1, n))}, SubSeq(words, n + 1, Len(words)))
TakeTxt(words) == Text(words, TextLen(words))

(* A buffer ends at an option, or with a value that cannot be read, which  *)
(* is gone.  Its values lie in it one after the other.                     *)
RawLen(words) == CHOOSE n \in 1 .. Len(words) :
                   /\ \A i \in 1 .. n - 1 : ScanD(words[i], 1).read /\ ~IsOption(words[i + 1])
                   /\ \/ n = Len(words) \/ IsOption(words[n + 1])
                      \/ ~ScanD(words[n], 1).read
RawBytes(words, n, width) ==
  [j \in 1 .. n * width |->
    ByteOf(ScanD(words[(j - 1) \div width + 1], width).val, (j - 1) % width)]
Raw(words, n, width) ==
  Taken({RawBytes(words, IF ScanD(words[n], 1).read THEN n ELSE n - 1, width)},
        SubSeq(words, n + 1, Len(words)))
TakeRaw(words, width) == Raw(words, RawLen(words), width)

Take(type, words) ==
  CASE type = CFT_NUM -> TakeNum(words)
    [] type = CFT_TXT -> TakeTxt(words)
    [] type = CFT_RAW8 -> TakeRaw(words, 1)
    [] type = CFT_RAW16 -> TakeRaw(words, 2)
    [] OTHER -> Taken({}, Tail(words))

Updated(store, cell, vals) == [store EXCEPT ![cell] = CHOOSE v \in vals : TRUE]

(* The options one after the other: f is the place in the table of the     *)
(* next one, t what it takes.  The loop stops at the end of the words, or  *)
(* where the line is refused.                                              *)
Refused(s) == [s EXCEPT !.ok = FALSE]
NextOption(s, f, t) ==
  [s EXCEPT !.rest = t.rest,
            !.store = IF s.n_update /\ t.vals # {}
                      THEN Updated(@, s.fields[f].cell, t.vals) ELSE @]
WithOption(s, f) ==
  IF f = 0 \/ Len(s.rest) = 1 THEN Refused(s)
  ELSE NextOption(s, f, Take(s.fields[f].type, Tail(s.rest)))
TakeOption(s) ==
  CASE s.rest = <<>> \/ ~s.ok -> s
    [] s.rest # <<>> /\ s.ok /\ ~IsOption(Head(s.rest)) -> Refused(s)
    [] OTHER -> WithOption(s, Named(s.fields, Tail(Head(s.rest))))
Options == INSTANCE Loop WITH Step <- TakeOption
update_cmd_int(words, fields, store, n_update) ==
  Options!Repeat([rest |-> words, fields |-> fields, store |-> store,
                  n_update |-> n_update, ok |-> TRUE], Len(words))

(* The command that a line is, 0 if it is none. *)
Outcome(cmd, r) == [cmd |-> IF r.ok THEN cmd ELSE 0, store |-> r.store]
AsCommand(cmd, words, table, store, n_update) ==
  IF cmd = 0 \/ table[cmd].fields = NoFields THEN [cmd |-> 0, store |-> store]
  ELSE Outcome(cmd, update_cmd_int(Tail(words), table[cmd].fields, store, n_update))
OfWords(words, table, store, n_update) ==
  AsCommand(IF words = <<>> THEN 0 ELSE Named(table, Head(words)), words, table, store,
            n_update)
decomposite_cp_cmd(line, table, store, n_update) ==
  OfWords(Tokens(line), table, store, n_update)
=============================================================================
