------------------------------- MODULE UiPipe -------------------------------
(***************************************************************************)
(* The named pipe between the IO process (bdm-dbg-io/dbg-io.c, the server) *)
(* and the UI process (bdm-dbg-ui/dbg-ui.c, the client), and the handshake *)
(* that teaches the UI the command table of the IO process:                *)
(*                                                                         *)
(*     UI  --INIT-->  IO,  IO --START-->  UI,                              *)
(*     UI  --ACK-->   IO,  IO --CDEF i--> UI     once per command,         *)
(*     UI  --ACK-->   IO,  IO --END-->    UI,  UI --READY--> IO.           *)
(*                                                                         *)
(* Both ends keep a connection flag and a UI flag that go through RISE and *)
(* FALL between CLR and SET, an auto-reset event that asks for a check of  *)
(* the connection, and one overlapped read.  One iteration of the loop of  *)
(* the IO process is one step; the UI's is cut where the other process may *)
(* act between two of its calls on the pipe.                               *)
(***************************************************************************)
EXTENDS Naturals, Sequences, FiniteSets

CONSTANTS
  NumCmds,       \* commands in the IO process's gta_io_ui_cmd
  MaxExits,      \* bound: times the UI is quit or killed
  MaxCrashes,    \* bound: times the IO process is killed
  MaxResponses,  \* bound: device responses the IO process reports
  MaxCommands    \* bound: commands the user enters

ASSUME BoundsAssumption ==
  /\ NumCmds \in Nat \ {0}
  /\ MaxExits \in Nat /\ MaxCrashes \in Nat
  /\ MaxResponses \in Nat /\ MaxCommands \in Nat

VARIABLES
  io_up,     \* is the IO process running?
  io_conn,   \* its gt_flags.io_conn
  io_ui,     \* its gt_flags.io_ui
  io_ev,     \* its event HANDLE_IO_PIPE_CONN
  io_cur,    \* its gt_io_ui.pt_curr_cmd: command to send next, 0 for NULL
  io_rd,     \* its overlapped read: "none", "pending", "done" or "failed"
  io_buf,    \* gca_io_pipe_rx_buff
  ui_up,     \* is the UI process running?
  ui_pc,     \* where it is in its loop
  ui_due,    \* did the loop wake on the timeout, so that ui_check is due?
  ui_conn,   \* its gt_flags.io_conn
  ui_ui,     \* its gt_flags.io_ui
  ui_ev,     \* its event HANDLE_IO_PIPE
  ui_cur,    \* its gt_io_ui.pt_curr_cmd: slot to fill next, 0 for NULL
  ui_rd,     \* its overlapped read
  ui_buf,    \* gba_io_pipe_rx_buff
  table,     \* its gta_io_ui_cmd: command in each slot, 0 for an empty one
  ready,     \* gpt_io_ui_cmd # NULL: commands may be entered
  inst,      \* the pipe instance, see PipeState
  up_q,      \* messages written by the UI, not yet read
  dn_q,      \* messages written by the IO process, not yet read
  exits, crashes, responses, commands  \* counters for the bounds

ioVars == <<io_up, io_conn, io_ui, io_ev, io_cur, io_rd, io_buf>>
uiVars == <<ui_up, ui_pc, ui_due, ui_conn, ui_ui, ui_ev, ui_cur, ui_rd, ui_buf,
            table, ready>>
pipeVars == <<inst, up_q, dn_q>>
boundVars == <<exits, crashes, responses, commands>>
vars == <<ioVars, uiVars, pipeVars, boundVars>>

Slots == 1 .. NumCmds

Msg(k, n) == [kind |-> k, num |-> n]
NoMsg == Msg("none", 0)

(* The server's end.  A client holds the other end when it is "connected"  *)
(* (the UI's handle) or "leaked" (a handle the UI's probe opened and never *)
(* closed); "closing" when the client has gone and the server not noticed. *)
PipeState == {"none", "listening", "connected", "leaked", "closing",
              "disconnected"}

Flag == {"CLR", "RISE", "FALL", "SET"}
ReadState == {"none", "pending", "done", "failed"}
Signalled(rd) == rd \in {"done", "failed"}
-----------------------------------------------------------------------------
EmptyTable == [k \in Slots |-> 0]

Init ==
  /\ io_up = FALSE /\ io_conn = "CLR" /\ io_ui = "CLR" /\ io_ev = FALSE
  /\ io_cur = 0 /\ io_rd = "none" /\ io_buf = NoMsg
  /\ ui_up = FALSE /\ ui_pc = "wait" /\ ui_due = FALSE
  /\ ui_conn = "CLR" /\ ui_ui = "CLR" /\ ui_ev = FALSE
  /\ ui_cur = 0 /\ ui_rd = "none" /\ ui_buf = NoMsg
  /\ table = EmptyTable /\ ready = FALSE
  /\ inst = "none" /\ up_q = <<>> /\ dn_q = <<>>
  /\ exits = 0 /\ crashes = 0 /\ responses = 0 /\ commands = 0
-----------------------------------------------------------------------------
(* The IO process. *)

(* io_pipe_init; pt_curr_cmd is a zeroed global. *)
IoStart ==
  /\ ~io_up
  /\ io_up' = TRUE
  /\ io_conn' = "CLR" /\ io_ui' = "CLR" /\ io_ev' = TRUE
  /\ io_cur' = 0 /\ io_rd' = "none" /\ io_buf' = NoMsg
  /\ inst' = "listening" /\ up_q' = <<>>
  /\ UNCHANGED <<dn_q, uiVars, boundVars>>

(* What it has written stays readable. *)
IoCrash ==
  /\ io_up /\ crashes < MaxCrashes
  /\ crashes' = crashes + 1
  /\ io_up' = FALSE
  /\ io_ev' = FALSE /\ io_rd' = "none"
  /\ inst' = "none" /\ up_q' = <<>>
  /\ ui_rd' = IF ui_rd = "pending" THEN "failed" ELSE ui_rd
  /\ UNCHANGED <<io_conn, io_ui, io_cur, io_buf, dn_q, ui_up, ui_pc,
                 ui_due, ui_conn, ui_ui, ui_ev, ui_cur, ui_buf, table, ready,
                 exits, responses, commands>>

UiFlagNotSettled(flag) == io_ui' = flag  \* io_ui_check is skipped

(* io_ui_check ends every iteration. *)
io_ui_check(flag) ==
  io_ui' = CASE flag = "RISE" -> "SET" [] flag = "FALL" -> "CLR" [] OTHER -> flag

(* io_pipe_tx_byte: WriteFile; a failure is flagged without an event. *)
TxOk == inst \in {"connected", "leaked"}
AfterTx(conn) == IF TxOk THEN conn ELSE "FALL"

io_pipe_tx(m) ==
  IF inst = "connected"
  THEN IF ui_rd = "pending"
       THEN /\ ui_rd' = "done" /\ ui_buf' = m
            /\ UNCHANGED dn_q
       ELSE dn_q' = Append(dn_q, m) /\ UNCHANGED <<ui_rd, ui_buf>>
  ELSE UNCHANGED <<ui_rd, ui_buf, dn_q>>

RxInitFailsSilently(conn) ==  \* no event when the read is refused
  \/ /\ up_q # <<>>
     /\ io_rd' = "done" /\ io_buf' = Head(up_q) /\ up_q' = <<>>
     /\ io_conn' = conn
     /\ UNCHANGED io_ev
  \/ /\ up_q = <<>>
     /\ IF TxOk THEN io_rd' = "pending" /\ io_conn' = conn
                ELSE io_rd' = "none" /\ io_conn' = "FALL"
     /\ UNCHANGED <<io_buf, up_q, io_ev>>

(* io_pipe_rx_init.  The server's end is not in message-read mode: a read  *)
(* takes all that is queued, of which only the first string is looked at.  *)
io_pipe_rx_init(conn) ==
  \/ /\ up_q # <<>>
     /\ io_rd' = "done" /\ io_buf' = Head(up_q) /\ up_q' = <<>>
     /\ io_conn' = conn
     /\ UNCHANGED io_ev
  \/ /\ up_q = <<>> /\ inst \in {"connected", "leaked"}
     /\ io_rd' = "pending"
     /\ io_conn' = conn
     /\ UNCHANGED <<io_buf, up_q, io_ev>>
  \/ /\ up_q = <<>> /\ inst \notin {"connected", "leaked"}
     /\ io_rd' = "none"
     /\ io_conn' = "FALL" /\ io_ev' = TRUE
     /\ UNCHANGED <<io_buf, up_q>>

(* io_pipe_rx_proc.  During the handshake ... *)
IoReceives(kind) == io_up /\ io_rd = "done" /\ io_buf.kind = kind
Handshaking == io_ui = "CLR" /\ io_conn = "SET"

IoAnswer(m) ==
  /\ io_pipe_tx(m)
  /\ io_pipe_rx_init(AfterTx(io_conn))
  /\ UNCHANGED <<io_up, io_ui, inst, ui_up, ui_pc, ui_due, ui_conn,
                 ui_ui, ui_ev, ui_cur, table, ready, boundVars>>

IoInitWithoutReset ==  \* INIT does not reset the cursor
  /\ IoReceives("INIT") /\ Handshaking
  /\ io_cur' = IF io_cur = 0 THEN 1 ELSE io_cur
  /\ IoAnswer(Msg("START", 0))

IoInit ==                                               \* io_ui_init
  /\ IoReceives("INIT") /\ Handshaking
  /\ io_cur' = 1
  /\ IoAnswer(Msg("START", 0))

IoAck ==                                                \* io_ui_init_cont
  /\ IoReceives("ACK") /\ Handshaking /\ io_cur \in Slots
  /\ io_cur' = io_cur + 1
  /\ IoAnswer(Msg("CDEF", io_cur))

IoAckLast ==
  /\ IoReceives("ACK") /\ Handshaking /\ io_cur = NumCmds + 1
  /\ IoAnswer(Msg("END", 0))
  /\ UNCHANGED io_cur

IoReadyNoRead ==  \* READY ends the handshake without a next read
  /\ IoReceives("READY") /\ Handshaking
  /\ io_ui_check("RISE")
  /\ io_rd' = "none"
  /\ UNCHANGED <<io_up, io_conn, io_ev, io_buf, up_q, io_cur, inst, dn_q, uiVars,
                 boundVars>>

IoReady ==
  /\ IoReceives("READY") /\ Handshaking
  /\ io_ui_check("RISE")
  /\ io_pipe_rx_init(io_conn)
  /\ UNCHANGED <<io_up, io_cur, inst, dn_q, uiVars, boundVars>>

(* ... and after it: io_ui_cmd_proc. *)
IoCommand ==
  /\ IoReceives("CMD") /\ io_ui = "SET"
  /\ io_pipe_rx_init(io_conn)
  /\ UNCHANGED <<io_up, io_ui, io_cur, inst, dn_q, uiVars, boundVars>>

(* What is not expected is dropped, and the next read posted. *)
IoDrops ==
  /\ io_up /\ io_rd = "done"
  /\ \/ ~Handshaking /\ io_ui # "SET"
     \/ Handshaking /\ io_buf.kind = "CMD"
     \/ Handshaking /\ io_buf.kind = "ACK" /\ io_cur = 0
     \/ io_ui = "SET" /\ io_buf.kind # "CMD"
  /\ io_pipe_rx_init(io_conn)
  /\ UNCHANGED <<io_up, io_ui, io_cur, inst, dn_q, uiVars, boundVars>>

IoRxFails ==
  /\ io_up /\ io_rd = "failed"
  /\ io_pipe_rx_init("FALL")
  /\ UNCHANGED <<io_up, io_ui, io_cur, inst, dn_q, uiVars, boundVars>>

(* io_pipe_check, woken by HANDLE_IO_PIPE_CONN: never with the flag SET,   *)
(* since whoever sets the event leaves another state.                      *)
IoCheck(conn) ==
  /\ io_up /\ io_ev /\ ~Signalled(io_rd)
  /\ io_conn = conn

(* ConnectNamedPipe: the client has not come, is there, or has gone again. *)
IoListens ==
  /\ IoCheck("CLR")
  /\ \/ /\ inst \in {"listening", "disconnected"}
        /\ inst' = "listening" /\ io_ev' = FALSE
        /\ UNCHANGED io_conn
     \/ /\ inst \in {"connected", "leaked"}
        /\ io_conn' = "RISE" /\ io_ev' = TRUE
        /\ UNCHANGED inst
     \/ /\ inst = "closing"
        /\ io_conn' = "FALL" /\ io_ev' = TRUE
        /\ UNCHANGED inst
  /\ UNCHANGED <<io_up, io_ui, io_cur, io_rd, io_buf, up_q, dn_q,
                 uiVars, boundVars>>

IoConnected ==
  /\ IoCheck("RISE")
  /\ \/ /\ up_q # <<>>
        /\ io_rd' = "done" /\ io_buf' = Head(up_q) /\ up_q' = <<>>
        /\ io_conn' = "SET" /\ io_ev' = FALSE
     \/ /\ up_q = <<>> /\ inst \in {"connected", "leaked"}
        /\ io_rd' = "pending"
        /\ io_conn' = "SET" /\ io_ev' = FALSE
        /\ UNCHANGED <<io_buf, up_q>>
     \/ /\ up_q = <<>> /\ inst = "closing"
        /\ io_rd' = "none"
        /\ io_conn' = "CLR" /\ io_ev' = TRUE
        /\ UNCHANGED <<io_buf, up_q>>
  /\ UNCHANGED <<io_up, io_ui, io_cur, inst, dn_q, uiVars, boundVars>>

(* DisconnectNamedPipe throws away what is queued and breaks the client's  *)
(* end.                                                                    *)
DisconnectNamedPipe ==
  /\ inst' = "disconnected"
  /\ up_q' = <<>>
  /\ dn_q' = IF inst = "connected" THEN <<>> ELSE dn_q
  /\ io_rd' = IF io_rd = "pending" THEN "failed" ELSE io_rd
  /\ ui_rd' = IF ui_rd = "pending" THEN "failed" ELSE ui_rd
  /\ UNCHANGED <<io_up, io_cur, io_buf, ui_up, ui_pc, ui_due, ui_conn,
                 ui_ui, ui_ev, ui_cur, ui_buf, table, ready, boundVars>>

IoDisconnectsSilently ==  \* no event after DisconnectNamedPipe
  /\ IoCheck("FALL")
  /\ io_conn' = "CLR" /\ io_ev' = FALSE
  /\ io_ui_check("FALL")
  /\ DisconnectNamedPipe

IoDisconnectsKeepsUi ==   \* io_ui is not reset
  /\ IoCheck("FALL")
  /\ io_conn' = "CLR" /\ io_ev' = TRUE
  /\ DisconnectNamedPipe
  /\ UNCHANGED io_ui

IoDisconnects ==
  /\ IoCheck("FALL")
  /\ io_conn' = "CLR" /\ io_ev' = TRUE
  /\ io_ui_check("FALL")
  /\ DisconnectNamedPipe

(* A response of the device is reported to the UI, whoever that is by now, *)
(* when no event of the pipe is waiting (HANDLE_DEV_RX comes last).        *)
IoReports ==
  /\ io_up /\ ~io_ev /\ ~Signalled(io_rd)
  /\ responses < MaxResponses
  /\ responses' = responses + 1
  /\ io_pipe_tx(Msg("RSP", 0))
  /\ io_conn' = AfterTx(io_conn)
  /\ UNCHANGED <<io_up, io_ui, io_ev, io_cur, io_rd, io_buf, inst,
                 up_q, ui_up, ui_pc, ui_due, ui_conn, ui_ui, ui_ev, ui_cur,
                 table, ready, exits, crashes, commands>>

IoLoop ==
  \/ IoInit \/ IoAck \/ IoAckLast \/ IoReady \/ IoCommand \/ IoDrops
  \/ IoRxFails \/ IoListens \/ IoConnected \/ IoDisconnects
-----------------------------------------------------------------------------
(* The UI process. *)

(* wmain up to its loop; pt_curr_cmd is a zeroed global. *)
UiStart ==
  /\ ~ui_up
  /\ ui_up' = TRUE /\ ui_pc' = "wait" /\ ui_due' = FALSE
  /\ ui_conn' = "CLR" /\ ui_ui' = "CLR" /\ ui_ev' = TRUE
  /\ ui_cur' = 0 /\ ui_rd' = "none" /\ ui_buf' = NoMsg
  /\ table' = EmptyTable /\ ready' = FALSE
  /\ UNCHANGED <<ioVars, pipeVars, boundVars>>

(* Closing the client's end: what the UI wrote stays readable, a read the  *)
(* server has posted fails.                                                *)
CloseClient(open) ==
  /\ inst' = IF inst \in open THEN "closing" ELSE inst
  /\ io_rd' = IF inst \in open /\ io_rd = "pending" THEN "failed" ELSE io_rd
  /\ dn_q' = <<>>
  /\ UNCHANGED up_q

(* The process ends, however: its handles close, the leaked one too. *)
UiEnds ==
  /\ ui_up' = FALSE /\ ui_pc' = "wait" /\ ui_due' = FALSE /\ ui_ev' = FALSE
  /\ ui_rd' = "none" /\ ready' = FALSE
  /\ CloseClient({"connected", "leaked"})
  /\ UNCHANGED <<io_up, io_conn, io_ui, io_ev, io_cur, io_buf, ui_conn,
                 ui_ui, ui_cur, ui_buf, table>>

(* The user quits or kills it. *)
UiExit ==
  /\ ui_up /\ exits < MaxExits
  /\ exits' = exits + 1
  /\ UiEnds
  /\ UNCHANGED <<crashes, responses, commands>>

(* io_pipe_tx_str: WriteFile, and what follows a failure. *)
ui_pipe_tx(m) ==
  IF inst = "connected"
  THEN IF io_rd = "pending"
       THEN io_rd' = "done" /\ io_buf' = m /\ UNCHANGED up_q
       ELSE up_q' = Append(up_q, m) /\ UNCHANGED <<io_rd, io_buf>>
  ELSE UNCHANGED <<io_rd, io_buf, up_q>>

ui_after_tx(conn) ==
  IF inst = "connected"
  THEN ui_conn' = conn /\ UNCHANGED ui_ev
  ELSE ui_conn' = "FALL" /\ ui_ev' = TRUE

UiWaits == ui_up /\ ui_pc = "wait"

(* io_pipe_rx_proc: a message has come.  The next read is posted into the  *)
(* buffer the message is in; only then is the message looked at.           *)
UiReceives ==
  /\ UiWaits /\ ui_rd = "done" /\ dn_q = <<>>
  /\ ui_pc' = "parse"
  /\ IF inst = "connected"
     THEN ui_rd' = "pending" /\ ui_conn' = "SET"
     ELSE ui_rd' = "none" /\ ui_conn' = "FALL"
  /\ UNCHANGED <<ui_up, ui_due, ui_ui, ui_ev, ui_cur, ui_buf, table, ready,
                 ioVars, pipeVars, boundVars>>

(* A read that succeeds at once makes io_pipe_rx_init return FALSE, upon   *)
(* which wmain returns.                                                    *)
UiReceivesTwo ==
  /\ UiWaits /\ ui_rd = "done" /\ dn_q # <<>>
  /\ UiEnds
  /\ UNCHANGED boundVars

UiRxFailsSilently ==  \* no event
  /\ UiWaits /\ ui_rd = "failed"
  /\ ui_rd' = "none"
  /\ ui_conn' = "FALL"
  /\ UNCHANGED <<ui_up, ui_pc, ui_due, ui_ui, ui_ev, ui_cur, ui_buf, table, ready,
                 ioVars, pipeVars, boundVars>>

UiRxFails ==
  /\ UiWaits /\ ui_rd = "failed"
  /\ ui_rd' = "none"
  /\ ui_conn' = "FALL" /\ ui_ev' = TRUE
  /\ UNCHANGED <<ui_up, ui_pc, ui_due, ui_ui, ui_cur, ui_buf, table, ready,
                 ioVars, pipeVars, boundVars>>

(* io_pipe_rx_proc_ui_cmd *)
UiParses(kind) ==
  /\ ui_up /\ ui_pc = "parse" /\ ui_buf.kind = kind
  /\ ui_pc' = "wait"

UiReplies(reply) ==
  /\ ui_pipe_tx(Msg(reply, 0))
  /\ ui_after_tx(ui_conn)
  /\ UNCHANGED <<ui_up, ui_due, ui_rd, ui_buf, ready, inst, dn_q, io_up,
                 io_conn, io_ui, io_ev, io_cur, boundVars>>

UiStartsTable ==
  /\ UiParses("START")
  /\ ui_cur' = 1
  /\ UiReplies("ACK")
  /\ UNCHANGED <<table, ui_ui>>

UiEndsTableEarly ==   \* READY is sent with every definition
  /\ UiParses("CDEF")
  /\ table' = IF ui_cur \in Slots THEN [table EXCEPT ![ui_cur] = ui_buf.num]
              ELSE table
  /\ ui_cur' = ui_cur + 1
  /\ UiReplies("READY")
  /\ ui_ui' = "RISE"

UiAddsCommand ==
  /\ UiParses("CDEF")
  /\ table' = IF ui_cur \in Slots THEN [table EXCEPT ![ui_cur] = ui_buf.num]
              ELSE table
  /\ ui_cur' = ui_cur + 1
  /\ UiReplies("ACK")
  /\ UNCHANGED ui_ui

UiEndsTable ==
  /\ UiParses("END")
  /\ ui_ui' = "RISE"
  /\ UiReplies("READY")
  /\ UNCHANGED <<table, ui_cur>>

UiPrints ==
  /\ UiParses("RSP")
  /\ UNCHANGED <<ui_up, ui_due, ui_conn, ui_ui, ui_ev, ui_cur, ui_rd, ui_buf,
                 table, ready, ioVars, pipeVars, boundVars>>
-----------------------------------------------------------------------------
(* io_pipe_check of the UI, on HANDLE_IO_PIPE or, when not connected, on   *)
(* the timeout; ui_check follows on the timeout only.                      *)

UiIdle == UiWaits /\ ~Signalled(ui_rd)

UiWakes ==
  /\ UiIdle /\ ui_ev
  /\ ui_ev' = FALSE
  /\ ui_pc' = "check"
  /\ UNCHANGED <<ui_up, ui_due, ui_conn, ui_ui, ui_cur, ui_rd, ui_buf, table,
                 ready, ioVars, pipeVars, boundVars>>

UiTimesOut ==
  /\ UiIdle /\ ~ui_ev
  /\ ui_pc' = IF ui_conn = "CLR" THEN "check" ELSE "tidy"
  /\ ui_due' = TRUE
  /\ UNCHANGED <<ui_up, ui_conn, ui_ui, ui_ev, ui_cur, ui_rd, ui_buf, table,
                 ready, ioVars, pipeVars, boundVars>>

UiAt(pc) == ui_up /\ ui_pc = pc
Checked == IF ui_due THEN "tidy" ELSE "wait"

(* io_pipe_connect: CreateFile finds the server listening, or does not. *)
UiConnects ==
  /\ UiAt("check") /\ ui_conn = "CLR"
  /\ IF inst = "listening"
     THEN /\ inst' = "connected" /\ io_ev' = TRUE
          /\ ui_conn' = "RISE" /\ ui_ev' = TRUE
          /\ ui_pc' = "first read"
     ELSE /\ ui_pc' = Checked
          /\ UNCHANGED <<inst, io_ev, ui_conn, ui_ev>>
  /\ UNCHANGED <<io_up, io_conn, io_ui, io_cur, io_rd, io_buf, up_q,
                 dn_q, ui_up, ui_due, ui_ui, ui_cur, ui_rd, ui_buf, table,
                 ready, boundVars>>

(* The FALL branch: CLR, close the handle; a posted read fails. *)
UiDisconnects ==
  /\ ui_conn' = "CLR"
  /\ ui_ui' = "FALL"
  /\ CloseClient({"connected"})
  /\ ui_pc' = Checked
  /\ ui_rd' = IF ui_rd = "pending" THEN "failed" ELSE ui_rd
  /\ UNCHANGED <<io_up, io_conn, io_ui, io_ev, io_cur, io_buf, ui_up,
                 ui_due, ui_cur, ui_buf, table, ready, boundVars>>

UiFalls == UiAt("check") /\ ui_conn = "FALL" /\ UiDisconnects /\ UNCHANGED ui_ev

(* The first read.  When it fails the flag is set to SET all the same. *)
UiPostsFirstRead ==
  /\ UiAt("first read") /\ dn_q = <<>>
  /\ ui_pc' = "send INIT"
  /\ ui_conn' = "SET"
  /\ ui_rd' = IF inst = "connected" THEN "pending" ELSE "none"
  /\ UNCHANGED <<ui_up, ui_due, ui_ui, ui_ev, ui_cur, ui_buf, table, ready,
                 ioVars, pipeVars, boundVars>>

(* It succeeds at once, which is taken for an error. *)
UiFirstReadSucceeds ==
  /\ UiAt("first read") /\ dn_q # <<>>
  /\ ui_buf' = Head(dn_q) /\ ui_rd' = "done"
  /\ ui_conn' = "CLR" /\ ui_ui' = "FALL"
  /\ CloseClient({"connected"})
  /\ ui_pc' = Checked
  /\ UNCHANGED <<io_up, io_conn, io_ui, io_ev, io_cur, io_buf, ui_up,
                 ui_due, ui_ev, ui_cur, table, ready, boundVars>>

UiSendsInit ==
  /\ UiAt("send INIT")
  /\ \/ /\ inst = "connected"
        /\ ui_pipe_tx(Msg("INIT", 0))
        /\ ui_pc' = "probe"
        /\ UNCHANGED <<io_up, io_conn, io_ui, io_ev, io_cur, ui_up,
                       ui_due, ui_conn, ui_ui, ui_ev, ui_cur, ui_rd, ui_buf,
                       table, ready, inst, dn_q, boundVars>>
     \/ /\ inst # "connected"
        /\ ui_ev' = TRUE
        /\ UiDisconnects

UiProbesWithInit ==  \* a check repeats INIT until the table is there
  /\ UiAt("probe") \/ (UiAt("check") /\ ui_conn = "SET")
  /\ ui_pc' = Checked
  /\ IF ui_pc = "check" /\ ~ready THEN ui_pipe_tx(Msg("INIT", 0))
                                  ELSE UNCHANGED <<io_rd, io_buf, up_q>>
  /\ UNCHANGED <<io_up, io_conn, io_ui, io_ev, io_cur, inst, dn_q, ui_up,
                 ui_due, ui_conn, ui_ui, ui_ev, ui_cur, ui_rd, ui_buf, table,
                 ready, boundVars>>

(* The probe: ERROR_PIPE_BUSY is what it hopes for.  When the server       *)
(* listens, the probe connects to it and the handle is forgotten.          *)
UiProbes ==
  /\ \/ UiAt("probe")
     \/ UiAt("check") /\ ui_conn = "SET"
  /\ ui_pc' = Checked
  /\ CASE inst = "none" -> ui_conn' = "FALL" /\ UNCHANGED <<inst, io_ev>>
       [] inst = "listening" ->
            ui_conn' = "FALL" /\ inst' = "leaked" /\ io_ev' = TRUE
       [] OTHER -> UNCHANGED <<ui_conn, inst, io_ev>>
  /\ UNCHANGED <<io_up, io_conn, io_ui, io_cur, io_rd, io_buf, up_q,
                 dn_q, ui_up, ui_due, ui_ui, ui_ev, ui_cur, ui_rd, ui_buf,
                 table, ready, boundVars>>

(* ui_check, at the end of an iteration that began with the timeout.       *)
(* ui_cmds_free clears the table unless its first slot is empty.           *)
UiTidies ==
  /\ UiAt("tidy")
  /\ ui_pc' = "wait" /\ ui_due' = FALSE
  /\ CASE ui_ui = "RISE" -> /\ ui_ui' = "SET" /\ ready' = TRUE
                            /\ UNCHANGED table
       [] ui_ui = "FALL" -> /\ ui_ui' = "CLR" /\ ready' = FALSE
                            /\ table' = IF table[1] = 0 THEN table ELSE EmptyTable
       [] OTHER -> UNCHANGED <<ui_ui, ready, table>>
  /\ UNCHANGED <<ui_up, ui_conn, ui_ev, ui_cur, ui_rd, ui_buf, ioVars, pipeVars,
                 boundVars>>

(* ui_cmd_proc: the user enters a command of the table. *)
UiCommand ==
  /\ UiWaits /\ ready /\ table[1] # 0
  /\ commands < MaxCommands
  /\ commands' = commands + 1
  /\ ui_pipe_tx(Msg("CMD", 0))
  /\ ui_after_tx(ui_conn)
  /\ UNCHANGED <<ui_up, ui_pc, ui_due, ui_ui, ui_cur, ui_rd, ui_buf, table,
                 ready, inst, dn_q, io_up, io_conn, io_ui, io_ev, io_cur, exits, crashes, responses>>

UiLoop ==
  \/ UiReceives \/ UiReceivesTwo \/ UiRxFails
  \/ UiStartsTable \/ UiAddsCommand \/ UiEndsTable \/ UiPrints
  \/ UiWakes \/ UiTimesOut \/ UiConnects \/ UiFalls \/ UiPostsFirstRead
  \/ UiFirstReadSucceeds \/ UiSendsInit \/ UiProbes \/ UiTidies
-----------------------------------------------------------------------------
Next ==
  \/ IoStart \/ IoCrash \/ IoReports \/ IoLoop
  \/ UiStart \/ UiExit \/ UiCommand \/ UiLoop

Spec == Init /\ [][Next]_vars

(* Both loops run on: their waits have a timeout. *)
FairSpec == Spec /\ WF_vars(IoLoop) /\ WF_vars(UiLoop)
-----------------------------------------------------------------------------
(* Properties. *)

Up == [kind : {"INIT", "ACK", "READY", "CMD"}, num : Nat]
Down == [kind : {"START", "CDEF", "END", "RSP"}, num : Nat]

IoTypes ==
  /\ io_up \in BOOLEAN /\ io_conn \in Flag /\ io_ui \in {"CLR", "SET"}
  /\ io_ev \in BOOLEAN /\ io_cur \in 0 .. NumCmds + 1 /\ io_rd \in ReadState
  /\ io_buf \in Up \cup {NoMsg}

UiTypes ==
  /\ ui_up \in BOOLEAN
  /\ ui_pc \in {"wait", "parse", "check", "first read", "send INIT", "probe",
                "tidy"}
  /\ ui_due \in BOOLEAN /\ ui_conn \in Flag /\ ui_ui \in Flag
  /\ ui_ev \in BOOLEAN /\ ui_cur \in Nat /\ ui_rd \in ReadState
  /\ ui_buf \in Down \cup {NoMsg}
  /\ table \in [Slots -> Nat] /\ ready \in BOOLEAN

PipeTypes == inst \in PipeState /\ up_q \in Seq(Up) /\ dn_q \in Seq(Down)

BoundTypes ==
  exits \in Nat /\ crashes \in Nat /\ responses \in Nat /\ commands \in Nat

(* Every variable of the two processes and the pipe has its type; io_ui of *)
(* the IO process is CLR or SET between two iterations of its loop.        *)
TypeOK == IoTypes /\ UiTypes /\ PipeTypes /\ BoundTypes

(* As long as the device has not answered, every message of the pipe is    *)
(* part of a dialogue; the runs that expect a violation show what one      *)
(* answer at the wrong moment does.                                        *)
Quiet == responses = 0

(* The handshake is a dialogue: over both directions, queued or read and   *)
(* not yet acted upon, there is at most one of its messages.  Everything   *)
(* else about the handshake (one buffer per direction, a read that must    *)
(* not find a second message) leans on this.                               *)
IsHandshake(m) == m.kind \notin {"none", "CMD", "RSP"}
Queued(q) == {i \in DOMAIN q : IsHandshake(q[i])}
OneIf(b) == IF b THEN 1 ELSE 0

InFlight ==
  Cardinality(Queued(up_q)) + Cardinality(Queued(dn_q))
  + OneIf(io_up /\ io_rd = "done" /\ IsHandshake(io_buf))
  + OneIf(ui_up /\ ui_rd = "done" /\ IsHandshake(ui_buf))
  + OneIf(ui_up /\ ui_pc = "parse" /\ IsHandshake(ui_buf))

LockStep == Quiet /\ inst = "connected" => InFlight <= 1

(* The i-th definition ends up in slot i, also when a UI is replaced, or   *)
(* the IO process dies, in the middle of a handshake: the two cursors run  *)
(* together although nothing but START, which carries no number, sets them.*)
SlotsInOrder == Quiet => \A k \in Slots : table[k] \in {0, k}

(* dbg-ui.c:317 "UI init completed": the commands the UI offers are the    *)
(* commands of the IO process.                                             *)
TableComplete == ready /\ ui_ui = "SET" => \A k \in Slots : table[k] = k

(* They are, with an IO process that stays and a device that is silent,    *)
(* however often the UI is replaced in the middle of the handshake.        *)
TableCompleteIfQuiet == Quiet /\ crashes = 0 => TableComplete

(* When the IO process thinks that the session is up, and takes what it    *)
(* reads for commands, the UI at the other end has announced itself on     *)
(* this very connection, also when its predecessor was killed in a session *)
(* (dbg-io.c:606, dbg-ui.c:781).  Whether it has the whole table yet is    *)
(* another question: TableCompleteIfQuiet.                                 *)
SessionsAgree ==
  io_up /\ io_ui = "SET" /\ inst = "connected" => ui_ui \in {"RISE", "SET"}

(* dbg-ui.c:653 "Automatically connect/disconects from IO pipe": a         *)
(* connection that broke is noticed.  When the UI waits with FALL or RISE, *)
(* something is signalled that will make it act on the flag: its timeout   *)
(* does not.                                                               *)
UiNotParked ==
  Quiet /\ ui_up /\ ui_pc = "wait" /\ ui_conn \in {"FALL", "RISE"} =>
    ui_ev \/ Signalled(ui_rd)

(* The IO process, too, waits with FALL or RISE only when it will be woken:*)
(* by an event, or by the next client.                                     *)
IoNotParked ==
  io_up /\ io_conn \in {"FALL", "RISE"} =>
    io_ev \/ Signalled(io_rd) \/ inst = "listening"

(* Both ends keep a read posted on a connection they hold for good, or     *)
(* have the failure of the connection signalled.                           *)
ReadsArmed ==
  /\ io_up /\ io_conn = "SET" => io_rd # "none"
  /\ ui_up /\ ui_pc = "wait" /\ ui_conn = "SET" => ui_rd # "none"

(* dbg-ui.c:360 "returns TRUE if OK, FALSE otherwise": the UI process ends *)
(* only when the user ends it, never because a read went well.             *)
EndsOnRequest == [][ui_up /\ ~ui_up' => exits' = exits + 1]_vars

(* Restarts alone never make it end.                                       *)
EndsOnRequestIfQuiet == [][Quiet /\ ui_up /\ ~ui_up' => exits' = exits + 1]_vars

(* While both processes run, the UI gets its command table and the IO      *)
(* process knows, whoever started first and whatever the UI before did,    *)
(* with an IO process that stays and a device that is silent.              *)
BecomesReady ==
  io_up /\ ui_up ~>
    (~ui_up \/ crashes > 0 \/ ~Quiet \/ (ready /\ io_ui = "SET"))

(* dbg-ui.c:653 "Automatically connect/disconects from IO pipe": a UI that *)
(* does not hold a connection gets one when the IO process is there,       *)
(* an IO process that was replaced included.                               *)
Reconnects == io_up /\ ui_up ~> (~io_up \/ ~ui_up \/ inst = "connected")
=============================================================================
