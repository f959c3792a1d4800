------------------------------- MODULE CmdTable -------------------------------
(***************************************************************************)
(* The command table of the plug-in (bdm-dbg-io-avrb/io_avrb_ui_cmd.c) in  *)
(* the types of cmd_lib.h, and the store of the variables that its options *)
(* set.  A text is a sequence of one-character strings, an option's value  *)
(* is a number, a text or a sequence of bytes, and several options share   *)
(* one variable.                                                           *)
(***************************************************************************)
EXTENDS Integers, Sequences, SequencesExt

Chars(s) == [i \in 1 .. Len(s) |-> SubSeq(s, i, i)]

LowerCase == Chars("abcdefghijklmnopqrstuvwxyz")
UpperCase == Chars("ABCDEFGHIJKLMNOPQRSTUVWXYZ")
DecDigits == Chars("0123456789")
Alphabet == ToSet(LowerCase \o UpperCase \o DecDigits \o Chars(" -._?"))

UpperOf == [c \in Alphabet |-> IF Contains(LowerCase, c)
              THEN UpperCase[SelectInSeq(LowerCase, LAMBDA x : x = c)] ELSE c]
LowerOf == [c \in Alphabet |-> IF Contains(UpperCase, c)
              THEN LowerCase[SelectInSeq(UpperCase, LAMBDA x : x = c)] ELSE c]

Str == Seq(Alphabet)
Word == Str \ {<<>>}

Upper(s) == [i \in DOMAIN s |-> UpperOf[s[i]]]                  \* _wcsupr
SameWord(s, t) == Upper(s) = Upper(t)                           \* _wcsicmp
BeginsWith(s, t) == IsPrefix(Upper(t), Upper(s))                \* _wcsnicmp

Blank == " "
IsOption(word) == word[1] = "-"

(* wcstok(text, L" ") until it returns NULL: each pass takes a blank or a  *)
(* word and the blank behind it.                                           *)
Gap(text) == SelectInSeq(text, LAMBDA c : c = Blank)
NextWord(s) ==
  LET gap == Gap(s.rest)
  IN CASE s.rest = <<>> -> s
       [] s.rest # <<>> /\ gap = 0 -> [words |-> Append(s.words, s.rest), rest |-> <<>>]
       [] gap = 1 -> [s EXCEPT !.rest = Tail(@)]
       [] OTHER -> [words |-> Append(s.words, SubSeq(s.rest, 1, gap - 1)),
                    rest |-> SubSeq(s.rest, gap + 1, Len(s.rest))]
Words == INSTANCE Loop WITH Step <- NextWord
Tokens(text) == Words!Repeat([words |-> <<>>, rest |-> text], Len(text)).words
-----------------------------------------------------------------------------
(* E_CMD_FIELD_TYPE; T_UI_CMD_FIELD with the variable it points to; T_UI_CMD. *)
CFT_NUM == 0
CFT_TXT == 1
CFT_RAW8 == 2
CFT_RAW16 == 3

Field(name, type, max, cell) ==
  [name |-> Chars(name), type |-> type, max |-> max, cell |-> cell]
Cmd(name, fields) == [name |-> Chars(name), fields |-> fields]

BDM_WRITE_DATA_LEN == 4096
JFILENAME_LEN == 128
LOOPBACK_STRING_DATA_LEN == 128

gta_io_ui_cmd ==
  << Cmd("SIGN", <<>>),
     Cmd("BR", << Field("ADDR", CFT_NUM, 0, "br_addr") >>),
     Cmd("GO", <<>>),
     Cmd("RST", <<>>),
     Cmd("RD", << Field("ADDR", CFT_NUM, 0, "rd_addr"),
                  Field("LEN", CFT_NUM, 0, "rd_len") >>),
     Cmd("WR8", << Field("ADDR", CFT_NUM, 0, "wr8_addr"),
                   Field("BUFF", CFT_RAW8, BDM_WRITE_DATA_LEN, "raw_buff") >>),
     Cmd("WR16", << Field("ADDR", CFT_NUM, 0, "wr16_addr"),
                    Field("BUFF", CFT_RAW16, BDM_WRITE_DATA_LEN, "raw_buff") >>),
     Cmd("FWR", << Field("IN", CFT_TXT, JFILENAME_LEN, "fin") >>),
     Cmd("FRD", << Field("IN", CFT_TXT, JFILENAME_LEN, "fin"),
                   Field("OUT", CFT_TXT, JFILENAME_LEN, "fout") >>),
     Cmd("LOOPBACK", << Field("STR", CFT_TXT, LOOPBACK_STRING_DATA_LEN, "lbs") >>) >>

FirstStore ==
  [br_addr |-> 0, rd_addr |-> 0, rd_len |-> 0, wr8_addr |-> 0, wr16_addr |-> 0,
   raw_buff |-> <<>>, fin |-> Chars("rd.json"), fout |-> Chars("out.json"),
   lbs |-> Chars("--LOOPBACK_TEST_STRING--")]
Cells == DOMAIN FirstStore

Byte == 0 .. 255
Stores == [br_addr : Int, rd_addr : Int, rd_len : Int, wr8_addr : Int, wr16_addr : Int,
           raw_buff : Seq(Byte), fin : Str, fout : Str, lbs : Str]
Fits(type, cell) ==
  CASE type = CFT_NUM -> cell \in {"br_addr", "rd_addr", "rd_len", "wr8_addr", "wr16_addr"}
    [] type = CFT_TXT -> cell \in {"fin", "fout", "lbs"}
    [] OTHER -> cell = "raw_buff"

Option == {f \in [name : Word, type : 0 .. 3, max : Nat, cell : Cells] :
             f.max < 65536 /\ Fits(f.type, f.cell)}

(* pt_fields is NULL: the UI's entry for a definition that it refused. *)
NoFields == << [name |-> <<>>, type |-> -1, max |-> -1, set |-> FALSE] >>

Named(entries, word) == SelectInSeq(entries, LAMBDA e : SameWord(e.name, word))
-----------------------------------------------------------------------------
(* What the literals of this module are made of. *)
ASSUME CaseAssumption == UpperOf \in [Alphabet -> Alphabet] /\ LowerOf \in [Alphabet -> Alphabet]
ASSUME BlankAssumption == Blank \in Alphabet
ASSUME StringsAssumption ==
  {Chars("rd.json"), Chars("out.json"), Chars("--LOOPBACK_TEST_STRING--"), Chars(" -"),
   Chars("AVRB UI")} \subseteq Str
ASSUME TableAssumption == gta_io_ui_cmd \in Seq([name : Word, fields : Seq(Option)])
ASSUME UpperAssumption ==
  \A c \in Alphabet : /\ UpperOf[UpperOf[c]] = UpperOf[c]
                      /\ UpperOf[c] = Blank <=> c = Blank
                      /\ IsOption(<<UpperOf[c]>>) <=> IsOption(<<c>>)
ASSUME NamesAssumption ==
  /\ \A i, j \in DOMAIN gta_io_ui_cmd :
       /\ Upper(gta_io_ui_cmd[i].name) = gta_io_ui_cmd[i].name
       /\ IsPrefix(gta_io_ui_cmd[i].name, gta_io_ui_cmd[j].name) => i = j
  /\ \A cmd \in ToSet(gta_io_ui_cmd) : \A i, j \in DOMAIN cmd.fields :
       /\ Upper(cmd.fields[i].name) = cmd.fields[i].name
       /\ cmd.fields[i].name = cmd.fields[j].name => i = j
ASSUME SizesAssumption ==
  \A cmd \in ToSet(gta_io_ui_cmd) :
    /\ Len(cmd.name) <= 126 /\ Len(cmd.fields) < 65536
    /\ \A f \in ToSet(cmd.fields) : Len(f.name) <= 126
=============================================================================
