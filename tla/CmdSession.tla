------------------------------ MODULE CmdSession ------------------------------
(***************************************************************************)
(* Commands from the keyboard to the device.  The UI (dbg-ui.c,            *)
(* dbg-ui_inp.c) learns the command table from the IO process, completes   *)
(* what is typed with it and passes on the lines that it can parse; the IO *)
(* process (dbg-io.c) parses them again, sets its variables and runs the   *)
(* command (io_avrb_dev_cmd.c).  Either process may be started again,      *)
(* which leaves the other with what it knew.                               *)
(*                                                                         *)
(* Not here: how the pipe is connected and the handshake interleaved       *)
(* (UiPipe; it is one step), how the line is edited (LineEdit; texts are   *)
(* typed at the cursor, which moves for a Tab), how the device answers     *)
(* (DevRx) and how a transfer goes on (RegionXfer).                        *)
(***************************************************************************)
EXTENDS CmdTlv, CmdMeaning, CmdComplete

CONSTANTS
  Chunks,       \* bound: Chunks[k], the texts that may be typed as the k-th
  Responses,    \* texts of responses that the IO process reports
  MaxTabs,      \* bound: completions
  MaxBack,      \* bound: places that the cursor goes back for a completion
  MaxRestarts,  \* bound: restarts of either process
  MaxResponses  \* bound: responses

ASSUME BoundsAssumption ==
  /\ Chunks \in Seq(SUBSET Str) /\ Responses \subseteq Str
  /\ {MaxTabs, MaxBack, MaxRestarts, MaxResponses} \subseteq Nat

VARIABLES
  table,  \* gpt_io_ui_cmd, NoTable for NULL
  buf,    \* gba_io_pipe_rx_buff of the UI, as far as it is not zero
  line,   \* ca_cmd_line
  cur,    \* n_cur_pos: characters left of the cursor
  conn,   \* the handshake is over and neither process has gone since
  rd,     \* the line the IO process has read, none while its read is pending
  up_q,   \* lines written by the UI and not yet read
  store,  \* the variables behind the options, in the IO process
  sent,   \* the bytes given to dev_tx last, or the files of the last job
  busy,   \* memf_cmd # NULL
  typed, tabs, restarts, responses  \* counters for the bounds

uiVars == <<table, buf, line, cur>>
ioVars == <<rd, up_q, store, sent, busy>>
boundVars == <<typed, tabs, restarts, responses>>
vars == <<uiVars, conn, ioVars, boundVars>>

NoTable == <<>>

Init ==
  /\ table = NoTable /\ buf = <<>> /\ line = <<>> /\ cur = 0
  /\ conn = FALSE /\ rd = <<>> /\ up_q = <<>>
  /\ store = FirstStore /\ sent = [act |-> "none"] /\ busy = FALSE
  /\ typed = 0 /\ tabs = 0 /\ restarts = 0 /\ responses = 0
-----------------------------------------------------------------------------
(* The UI: keys. *)
Type(text) ==
  /\ typed' = typed + 1
  /\ line' = Left(line, cur) \o text \o Right(line, cur)
  /\ cur' = cur + Len(text)
  /\ UNCHANGED <<table, buf, conn, ioVars, tabs, restarts, responses>>

(* Of two Tabs in a row the second is Tab Tab, which shows cmd_suggest's  *)
(* names and changes nothing.                                              *)
Tab(pos) ==
  /\ tabs < MaxTabs
  /\ tabs' = tabs + 1
  /\ pos + MaxBack >= Len(line)
  /\ line' = IF table = NoTable THEN line ELSE cmd_auto_complete(line, pos, table)
  /\ cur' = pos + Len(line') - Len(line)
  /\ UNCHANGED <<table, buf, conn, ioVars, typed, restarts, responses>>

(* ui_cmd_proc.  The next line begins empty. *)
IsQuit == LET words == Tokens(line)
          IN words # <<>> /\ Upper(words[1]) \in {Chars("QUIT"), Chars("EXIT"), Chars("Q")}
IsHelp == Upper(FirstWord(Tokens(line))) = Chars("HELP")
IsCommand == /\ ~IsQuit /\ ~IsHelp /\ table # NoTable
             /\ decomposite_cp_cmd(line, table, store, FALSE).cmd # 0

EnterCommand ==
  /\ IsCommand
  /\ line' = <<>> /\ cur' = 0
  /\ IF conn                                            \* io_pipe_tx_str
     THEN IF rd = <<>> THEN rd' = <<line>> /\ UNCHANGED up_q
                       ELSE up_q' = Append(up_q, line) /\ UNCHANGED rd
     ELSE UNCHANGED <<rd, up_q>>
  /\ UNCHANGED <<table, buf, conn, store, sent, busy, boundVars>>

EnterOther ==
  /\ line # <<>> /\ ~IsCommand /\ ~IsQuit
  /\ line' = <<>> /\ cur' = 0
  /\ UNCHANGED <<table, buf, conn, ioVars, boundVars>>

(* The UI ends, by a command or otherwise, and is started again.  What it  *)
(* has written stays readable.                                             *)
UiRestarts ==
  /\ restarts < MaxRestarts
  /\ restarts' = restarts + 1
  /\ table' = NoTable /\ buf' = <<>> /\ line' = <<>> /\ cur' = 0 /\ conn' = FALSE
  /\ UNCHANGED <<ioVars, typed, tabs, responses>>

EnterQuit == IsQuit /\ UiRestarts
UiIsKilled == conn /\ UiRestarts

(* ui_check, after the connection was seen to be broken. *)
UiFreesTable ==
  /\ ~conn /\ table # NoTable
  /\ table' = NoTable
  /\ UNCHANGED <<buf, line, cur, conn, ioVars, boundVars>>

(* io_pipe_rx_proc: a response is shown from the buffer. *)
UiShows(text) ==
  /\ conn /\ responses < MaxResponses
  /\ responses' = responses + 1
  /\ buf' = Received(RspMsg(text), buf)
  /\ UNCHANGED <<table, line, cur, conn, ioVars, typed, tabs, restarts>>

(* INIT, START, ACK, CDEF ..., END, READY.  The IO process accepts a new   *)
(* connection when it has handled what came over the last one.             *)
Connect ==
  /\ ~conn /\ table = NoTable /\ rd = <<>>
  /\ conn' = TRUE
  /\ LET h == Handshake(store, buf)
     IN table' = h.table /\ buf' = h.buf
  /\ UNCHANGED <<line, cur, ioVars, boundVars>>
-----------------------------------------------------------------------------
(* The device's packets: struct t_cmd_hdr {mark, command, length of the    *)
(* data}, and the data.                                                    *)
Packet(mark, cmd, data) ==
  [act |-> "packet", bytes |-> <<mark, cmd>> \o LE4(Len(data)) \o data]
Job(act, files) == [act |-> act, args |-> files]

cmd_io_sign(vals) == Packet(17, 0, <<>>)
cmd_io_bdm_break(vals) == Packet(210, 22, LE4(vals.br_addr))
cmd_io_bdm_go(vals) == Packet(210, 23, <<>>)
cmd_io_bdm_reset(vals) == Packet(210, 24, <<>>)
cmd_io_bdm_write_mem(vals) == Packet(210, 33, LE4(0) \o LE4(0) \o vals.raw_buff)
cmd_io_loopback(vals) == Packet(210, 65, Wide(vals.lbs) \o <<0, 0>>)
cmd_io_bdm_fwrite_region(vals) == Job("fwrite", [fin |-> vals.fin])
cmd_io_bdm_fread_region(vals) == Job("fread", [fin |-> vals.fin, fout |-> vals.fout])

(* The functors of gta_io_ui_cmd; cmd_io_bdm_read does nothing. *)
RunCmd(cmd, vals) ==
  CASE cmd = 1 -> cmd_io_sign(vals)
    [] cmd = 2 -> cmd_io_bdm_break(vals)
    [] cmd = 3 -> cmd_io_bdm_go(vals)
    [] cmd = 4 -> cmd_io_bdm_reset(vals)
    [] cmd = 5 -> sent
    [] cmd \in {6, 7} -> cmd_io_bdm_write_mem(vals)
    [] cmd = 8 -> IF busy THEN sent ELSE cmd_io_bdm_fwrite_region(vals)
    [] cmd = 9 -> IF busy THEN sent ELSE cmd_io_bdm_fread_region(vals)
    [] cmd = 10 -> cmd_io_loopback(vals)

AllStrings(q) == q                                       \* one after the other
AllInOne(q) == IF q = <<>> THEN <<>> ELSE <<FlattenSeq(q)>>  \* without their NULs

(* A read takes all that is queued, and the first string of it is handled. *)
FirstString(q) == IF q = <<>> THEN <<>> ELSE <<Head(q)>>

(* io_pipe_rx_proc and io_ui_cmd_proc, then io_pipe_rx_init. *)
IoHandles ==
  /\ rd # <<>>
  /\ LET r == decomposite_cp_cmd(Head(rd), gta_io_ui_cmd, store, TRUE)
     IN /\ store' = r.store
        /\ sent' = IF r.cmd = 0 THEN sent ELSE RunCmd(r.cmd, r.store)
        /\ busy' = (busy \/ r.cmd \in {8, 9})
  /\ rd' = FirstString(up_q) /\ up_q' = <<>>
  /\ UNCHANGED <<uiVars, conn, boundVars>>

JobEnds ==                                              \* memf_cmd_close
  /\ busy /\ busy' = FALSE
  /\ UNCHANGED <<uiVars, conn, rd, up_q, store, sent, boundVars>>

IoRestarts ==
  /\ restarts < MaxRestarts
  /\ restarts' = restarts + 1
  /\ conn' = FALSE /\ rd' = <<>> /\ up_q' = <<>>
  /\ store' = FirstStore /\ busy' = FALSE
  /\ UNCHANGED <<uiVars, sent, typed, tabs, responses>>
-----------------------------------------------------------------------------
Next ==
  \/ typed < Len(Chunks) /\ \E text \in Chunks[typed + 1] : Type(text)
  \/ \E pos \in 0 .. Len(line) : Tab(pos)
  \/ EnterCommand \/ EnterOther \/ EnterQuit \/ UiIsKilled \/ UiFreesTable
  \/ \E text \in Responses : UiShows(text)
  \/ Connect \/ IoHandles \/ JobEnds \/ IoRestarts

Spec == Init /\ [][Next]_vars
-----------------------------------------------------------------------------
(* Type correctness. *)
Learned == [name : Str, type : Int, max : Int, set : BOOLEAN]
Sent == [act : {"none"}] \cup [act : {"packet"}, bytes : Seq(Byte)]
        \cup [act : {"fwrite"}, args : [fin : Str]]
        \cup [act : {"fread"}, args : [fin : Str, fout : Str]]
TypeOK ==
  /\ table \in Seq([name : Str, fields : Seq(Learned)]) /\ buf \in Seq(Byte)
  /\ line \in Str /\ cur \in 0 .. Len(line)
  /\ conn \in BOOLEAN /\ busy \in BOOLEAN
  /\ rd \in Seq(Str) /\ up_q \in Seq(Str)
  /\ Len(rd) <= 1 /\ (rd = <<>> => up_q = <<>>)
  /\ store \in Stores /\ sent \in Sent
  /\ typed \in 0 .. Len(Chunks) /\ tabs \in 0 .. MaxTabs
  /\ restarts \in 0 .. MaxRestarts /\ responses \in 0 .. MaxResponses

(* What is learned of a table: names, and the options' names, types and    *)
(* lengths.                                                                *)
Shape(entries) ==
  [k \in DOMAIN entries |->
    [name |-> entries[k].name,
     fields |-> [i \in DOMAIN entries[k].fields |->
                  LET f == entries[k].fields[i] IN <<f.name, f.type, f.max>>]]]
(* The UI has learned the table of the IO process.  That is not always so: *)
(* the value of a buffer is stepped over with a length that it does not    *)
(* have (cmd_lib.c:357), and where the UI goes on reading depends on the   *)
(* bytes of the value and on what lies behind the message.  What is stated *)
(* of commands with a buffer is stated under this condition.               *)
TableIsRight == table # NoTable /\ Shape(table) = Shape(gta_io_ui_cmd)

(* Commands without a buffer are learned in any case, and so are the names *)
(* of all: what lies behind a message in the buffer, and where the length  *)
(* that a buffer does not have leads, concerns no other command.           *)
Plain(cmd) == \A f \in ToSet(cmd.fields) : f.type \in {CFT_NUM, CFT_TXT}
LearnsPlain ==
  table # NoTable =>
    /\ DOMAIN table = DOMAIN gta_io_ui_cmd
    /\ \A k \in DOMAIN table :
         /\ table[k].name = gta_io_ui_cmd[k].name
         /\ Plain(gta_io_ui_cmd[k]) => Shape(table)[k] = Shape(gta_io_ui_cmd)[k]

(* The command that a text begins with, if any, has no buffer.             *)
ConcernsPlain(text) ==
  LET cmd == Named(gta_io_ui_cmd, FirstWord(Tokens(text)))
  IN cmd # 0 => Plain(gta_io_ui_cmd[cmd])

(* What the UI passes on after parsing it with the table that it learned,  *)
(* and what is left of it by the IO process's reads, is a command for the  *)
(* IO process too: always if it is about a command without a buffer, and   *)
(* of the others as long as the UI's table is right.  (The UI may accept   *)
(* a buffer's line with a wrong table, and the IO process refuse it.)      *)
IoAccepts ==
  \A i \in DOMAIN (rd \o up_q) :
    TableIsRight \/ ConcernsPlain((rd \o up_q)[i]) =>
      decomposite_cp_cmd((rd \o up_q)[i], gta_io_ui_cmd, store, FALSE).cmd # 0

(* The names that a text could go on with: commands as long as it has one  *)
(* word that is not a command's name, else the options of the command.     *)
Candidates(text) ==
  LET words == Tokens(text)
      cmd == Named(gta_io_ui_cmd, FirstWord(words))
      names == IF cmd # 0 THEN {f.name : f \in ToSet(gta_io_ui_cmd[cmd].fields)}
               ELSE IF Len(words) > 1 THEN {}
               ELSE {c.name : c \in ToSet(gta_io_ui_cmd)}
      word == IF cmd # 0 THEN NoDash(LastWord(words)) ELSE FirstWord(words)
  IN {n \in names : BeginsWith(n, word)}

(* Tab Tab lists what Tab would choose from, whatever the case of what is  *)
(* typed, if the UI's table is right.                                      *)
SuggestsCandidates ==
  TableIsRight =>
    LET names == cmd_suggest(line, cur, table)
    IN Range(names) = Candidates(Left(line, cur)) /\ IsInjective(names)

(* Tab keeps what is typed on both sides of the cursor and goes on as far  *)
(* as all the candidates agree; only a complete name gets more, a blank or *)
(* " -" and, of a command with one option, that option.  It need not get   *)
(* it: dbg-ui_inp.c:237 "If atleast one field exist, add space" is not so  *)
(* for BR, whose " -" depends on the value of ADDR.                        *)
Completes(text, ins) ==
  LET words == Tokens(text)
      cmd == Named(gta_io_ui_cmd, FirstWord(words))
      word == IF cmd = 0 THEN FirstWord(words) ELSE NoDash(LastWord(words))
      dash == IF cmd # 0 /\ LastWord(words) = <<>> THEN Chars(" -") ELSE <<>>
      names == Candidates(text)
      common == LongestCommonPrefix({Upper(n) : n \in names})
      more == SubSeq(common, Len(word) + 1, Len(common))
  IN IF names = {} THEN ins = dash
     ELSE /\ IsPrefix(dash \o more, Upper(ins))
          /\ LET rest == SubSeq(ins, Len(dash \o more) + 1, Len(ins))
             IN \/ rest = <<>>
                \/ Cardinality(names) = 1 /\ rest \in {<<Blank>>, Chars(" -")}
CompletesName ==
  [][tabs' # tabs /\ TableIsRight =>
       LET n == Len(line') - Len(line)
           pos == cur' - n
           ins == SubSeq(line', pos + 1, cur')
       IN /\ line' = Left(line, pos) \o ins \o Right(line, pos)
          /\ Completes(Left(line, pos), ins)]_vars

(* What the device was told, read from the bytes of the packet. *)
ActNamed(mark, cmd) ==
  CASE mark = 17 /\ cmd = 0 -> "sign"
    [] mark = 210 /\ cmd = 22 -> "break"
    [] mark = 210 /\ cmd = 23 -> "go"
    [] mark = 210 /\ cmd = 24 -> "reset"
    [] mark = 210 /\ cmd = 33 -> "write"
    [] mark = 210 /\ cmd = 65 -> "loopback"
ArgsIn(act, data) ==
  CASE act = "break" -> [br_addr |-> DwordAt(data, 1)]
    [] act = "write" -> [raw_buff |-> SubSeq(data, 9, Len(data))]
    [] act = "loopback" -> [lbs |-> [i \in 1 .. Len(data) \div 2 - 1 |-> CharOf[data[2 * i - 1]]]]
    [] OTHER -> <<>>
ToldBy(s) ==
  IF s.act # "packet"
  THEN [act |-> s.act, args |-> IF s.act = "none" THEN <<>> ELSE s.args]
  ELSE LET act == ActNamed(s.bytes[1], s.bytes[2])
       IN [act |-> act,
           args |-> ArgsIn(act, SubSeq(s.bytes, 7, 6 + DwordAt(s.bytes, 3)))]

(* A line about a command with a buffer may come through unchecked. *)
Unchecked(text) == ~ConcernsPlain(text)
OwnCells(text) ==
  LET cmd == Named(gta_io_ui_cmd, FirstWord(Tokens(text)))
  IN IF cmd = 0 THEN {} ELSE {f.cell : f \in ToSet(gta_io_ui_cmd[cmd].fields)}

M == INSTANCE CmdMenu WITH waiting <- rd \o up_q, told <- ToldBy(sent)

(* The whole is the menu of CmdMenu, whatever the UI has learned: every    *)
(* well-formed line that is carried out sets exactly what it says, other   *)
(* variables keep what lines before have set, its packet says what the     *)
(* variables hold, a line that comes through without being well-formed is  *)
(* about a command with a buffer and touches only that command's own       *)
(* variables, and of the lines that wait the first is kept.                *)
IsMenu == M!Menu

(* A line that says a command, with values that can be read and fit, is    *)
(* taken by the UI: always if the command has no buffer, and of the others *)
(* if the UI's table is right.  (The parser also takes some whose values   *)
(* do not fit; cmd_lib.c:201 says that it would not.)                      *)
NothingRefused ==
  /\ table # NoTable /\ (TableIsRight \/ ConcernsPlain(line))
  /\ ~IsQuit /\ ~IsHelp /\ WellFormed(line) /\ AllFit(line)
  => IsCommand

(* Two comments on what a line sets that is carried out.  cmd_lib.c:201:   *)
(* "l_rc == TRUE only if field found and specified value fit to field",    *)
(* where l_rc is what lets the command be carried out.  dbg-ui_inp.c:659:  *)
(* "Default values are used for unspecified options".  From either one it  *)
(* follows that this holds of every line carried out; so a line of which   *)
(* it does not hold contradicts both.                                      *)
DefaultsUsed(text, vals) ==
  LET words == Tokens(text)
      given == {OptionAt(words, i).cell : i \in OptionPlaces(words)}
  IN \A cell \in OwnCells(text) \ given : vals[cell] = FirstStore[cell]
SetsAsSaid ==
  [][IoHandles /\ WellFormed(Head(rd)) =>
       AllFit(Head(rd)) \/ DefaultsUsed(Head(rd), store')]_vars
=============================================================================
