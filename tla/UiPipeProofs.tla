---------------------------- MODULE UiPipeProofs ----------------------------
(***************************************************************************)
(* Proofs about UiPipe, for any number of commands, restarts, kills,       *)
(* device responses and user commands.                                     *)
(*                                                                         *)
(* The types are inductive by themselves; the rest is not.  What the two   *)
(* ends know of the pipe (IoSide, UiSide) shows that neither is left       *)
(* waiting; that READY and io_ui do not outlive a connection (Sessions)    *)
(* shows that commands are taken from a UI with its table.  The handshake  *)
(* needs to be known as a whole: one message at most, wherever it is       *)
(* (Alone), with the number the UI expects (Numbers), on a pipe that was   *)
(* empty when it began (Silent).  All of this holds as long as the device  *)
(* is silent (Quiet); that the table gets complete needs an IO process     *)
(* that stays as well (Unbroken, Filled).                                  *)
(***************************************************************************)
EXTENDS UiPipe, TLAPS, SequenceTheorems, FiniteSetTheorems

(* The server's end: what the state of the instance says about the read,   *)
(* the queue and the event.  In every state but listening, something is    *)
(* posted or signalled that takes the IO process on.                       *)
IoSide ==
  /\ ~io_up => inst = "none" /\ up_q = <<>> /\ io_rd = "none"
  /\ io_up => inst # "none"
  /\ inst = "listening" => up_q = <<>> /\ io_rd = "none"
  /\ inst = "disconnected" =>
       up_q = <<>> /\ io_ev /\ io_rd \notin {"pending", "done"}
  /\ inst = "closing" => io_ev \/ Signalled(io_rd)
  /\ inst \in {"connected", "leaked"} => io_ev \/ io_rd # "none"
  /\ io_rd = "failed" => inst \in {"closing", "disconnected"}
  /\ io_rd = "pending" => inst \in {"connected", "leaked"}
  /\ io_up /\ io_conn = "SET" => io_rd # "none"
  /\ io_up /\ io_conn = "RISE" => io_ev
  /\ io_up /\ io_conn = "FALL" =>
       io_ev \/ (inst = "closing" /\ Signalled(io_rd)) \/ inst = "listening"

(* The client's end: what its flag and its place in the loop say about the *)
(* instance and the read.                                                  *)
UiSide ==
  /\ ~ui_up => /\ ui_rd = "none" /\ ui_pc = "wait" /\ dn_q = <<>> /\ ~ready
               /\ inst \notin {"connected", "leaked"}
  /\ inst = "connected" => ui_conn \in {"RISE", "SET"}
  /\ ui_rd = "pending" => inst = "connected"
  /\ ui_rd = "failed" => inst # "connected"
  /\ ui_up /\ ui_conn = "RISE" => ui_pc = "first read"
  /\ ui_pc = "first read" => ui_conn = "RISE" /\ ui_rd = "none"
  /\ ui_pc \in {"send INIT", "probe"} => ui_conn = "SET"
  /\ ui_pc = "parse" => ui_conn # "CLR"
  /\ ui_pc = "check" /\ ui_conn \in {"CLR", "FALL"} => ui_rd = "none"
  /\ ui_up /\ ui_conn = "SET" /\ ui_rd = "none" =>
       ui_pc = "send INIT" /\ inst # "connected"

(* A session of commands is that of the UI which announced it: neither     *)
(* io_ui nor a READY under way outlives the connection.                    *)
Announced == ui_ui \in {"RISE", "SET"}

Sessions ==
  /\ io_up /\ inst \in {"disconnected", "listening"} => io_ui = "CLR"
  /\ inst = "connected" /\ io_ui = "SET" => Announced
  /\ inst = "connected" /\ io_rd = "done" /\ io_buf.kind = "READY" => Announced
  /\ \A i \in DOMAIN up_q :
       inst = "connected" /\ up_q[i].kind = "READY" => Announced

-----------------------------------------------------------------------------
(* With a device that is silent. *)

(* Where a message of the handshake can be besides the queues. *)
IoReads == io_rd = "done" /\ IsHandshake(io_buf)
UiReads == ui_rd = "done"
UiParsing == ui_pc = "parse"

(* There is one of them at most. *)
Alone ==
  /\ \A i, j \in Queued(up_q) : i = j
  /\ \A i, j \in DOMAIN dn_q : i = j
  /\ Queued(up_q) # {} => ~IoReads /\ dn_q = <<>> /\ ~UiReads /\ ~UiParsing
  /\ IoReads => dn_q = <<>> /\ ~UiReads /\ ~UiParsing
  /\ dn_q # <<>> => ~UiReads /\ ~UiParsing
  /\ UiReads => ~UiParsing

(* A message to the UI, wherever it is, carries the number the UI expects; *)
(* on a connection that lasts, the IO process is just ahead.               *)
Told(m) ==
  /\ IsHandshake(m)
  /\ m.kind = "START" => (inst = "connected" => io_cur = 1)
  /\ m.kind = "CDEF" => /\ m.num = ui_cur /\ ui_cur \in Slots
                        /\ inst = "connected" => io_cur = ui_cur + 1
  /\ m.kind = "END" => ui_cur = NumCmds + 1

(* When the UI asks for the next definition the cursors agree. *)
Asked(m) == m.kind = "ACK" /\ inst = "connected" => io_cur = ui_cur

Numbers ==
  /\ \A i \in DOMAIN dn_q : Told(dn_q[i])
  /\ UiReads \/ UiParsing => Told(ui_buf)
  /\ \A i \in DOMAIN up_q : Asked(up_q[i])
  /\ io_rd = "done" => Asked(io_buf)

(* The handshake begins on an empty pipe. *)
Silent ==
  /\ ui_conn \in {"CLR", "RISE"} \/ ui_pc = "send INIT" => dn_q = <<>> /\ ~UiReads
  /\ ui_pc \in {"first read", "send INIT"} /\ inst = "connected" =>
       Queued(up_q) = {} /\ ~IoReads

(* A UI whose flag fell has been or will be told. *)
UiWoken ==
  ui_up /\ ui_pc \in {"wait", "tidy"} /\ ui_conn = "FALL" =>
    ui_ev \/ Signalled(ui_rd)

(* With an IO process that stays as well, a UI has one connection, and     *)
(* nothing takes it away.                                                  *)
Unbroken ==
  /\ inst # "leaked"
  /\ io_up /\ io_conn = "FALL" => inst \in {"closing", "disconnected"}
  /\ ui_up => /\ ui_conn # "FALL" /\ ui_ui # "FALL" /\ ui_rd # "failed"
              /\ ui_conn \in {"RISE", "SET"} => inst = "connected"
              /\ Announced \/ ready => ui_conn = "SET"

(* So its table fills from the front and is never cleared.                 *)
Filled ==
  ui_up => /\ \A k \in Slots : k < ui_cur => table[k] = k
           /\ Announced => \A k \in Slots : table[k] = k

IInv ==
  /\ TypeOK /\ IoSide /\ UiSide /\ Sessions
  /\ Quiet => Alone /\ Numbers /\ Silent /\ UiWoken /\ SlotsInOrder
  /\ Quiet /\ crashes = 0 => Unbroken /\ Filled
-----------------------------------------------------------------------------
(* The types. *)

(* What is sent is a message; whatever is in a buffer has a number.        *)
LEMMA Messages ==
  /\ \A k \in {"START", "END", "RSP"} : Msg(k, 0) \in Down
  /\ \A n \in Nat : Msg("CDEF", n) \in Down
  /\ \A k \in {"INIT", "ACK", "READY", "CMD"} : Msg(k, 0) \in Up
  /\ \A m \in Up \cup Down \cup {NoMsg} : m.num \in Nat
BY DEF Msg, NoMsg, Up, Down

(* Appending to a queue and taking its head.                               *)
LEMMA QueueTypes ==
  ASSUME NEW S, NEW q \in Seq(S)
  PROVE  /\ <<>> \in Seq(S)
         /\ \A m \in S : Append(q, m) \in Seq(S)
         /\ q # <<>> => Head(q) \in S
BY EmptySeq, AppendProperties, HeadTailProperties

(* The calls on the pipe, of the IO process ... *)
LEMMA IoTxTypes ==
  ASSUME TypeOK, NEW m \in Down, io_pipe_tx(m)
  PROVE  ui_rd' \in ReadState /\ ui_buf' \in Down \cup {NoMsg} /\ dn_q' \in Seq(Down)
BY QueueTypes DEF TypeOK, UiTypes, PipeTypes, ReadState, io_pipe_tx

(* io_pipe_rx_init *)
LEMMA IoRxTypes ==
  ASSUME TypeOK, NEW conn \in Flag, io_pipe_rx_init(conn)
  PROVE  /\ io_rd' \in ReadState /\ io_buf' \in Up \cup {NoMsg}
         /\ up_q' \in Seq(Up) /\ io_conn' \in Flag /\ io_ev' \in BOOLEAN
BY QueueTypes DEF TypeOK, IoTypes, PipeTypes, ReadState, Flag, io_pipe_rx_init

(* DisconnectNamedPipe *)
LEMMA DisconnectTypes ==
  ASSUME TypeOK, DisconnectNamedPipe
  PROVE  UiTypes' /\ PipeTypes' /\ BoundTypes' /\ io_rd' \in ReadState
BY QueueTypes DEF TypeOK, UiTypes, PipeTypes, BoundTypes, IoTypes, ReadState,
   PipeState, DisconnectNamedPipe, boundVars

(* ... and of the UI. *)
LEMMA UiTxTypes ==
  ASSUME TypeOK, NEW m \in Up, ui_pipe_tx(m)
  PROVE  io_rd' \in ReadState /\ io_buf' \in Up \cup {NoMsg} /\ up_q' \in Seq(Up)
BY QueueTypes DEF TypeOK, IoTypes, PipeTypes, ReadState, ui_pipe_tx

(* The client closes its end, *)
LEMMA CloseTypes ==
  ASSUME TypeOK, NEW open, CloseClient(open)
  PROVE  PipeTypes' /\ io_rd' \in ReadState
BY QueueTypes DEF TypeOK, IoTypes, PipeTypes, ReadState, PipeState, CloseClient

(* or the process ends. *)
LEMMA UiEndsTypes == TypeOK /\ UiEnds => IoTypes' /\ UiTypes' /\ PipeTypes'
<1> SUFFICES ASSUME TypeOK, UiEnds PROVE IoTypes' /\ UiTypes' /\ PipeTypes'
  OBVIOUS
<1>1. PipeTypes' /\ io_rd' \in ReadState
  BY CloseTypes DEF UiEnds
<1>2. IoTypes'
  BY <1>1 DEF UiEnds, TypeOK, IoTypes
<1>3. UiTypes'
  BY DEF UiEnds, TypeOK, UiTypes, ReadState
<1> QED
  BY <1>1, <1>2, <1>3

(* The FALL branch of the UI's io_pipe_check. *)
LEMMA UiDisconnectsTypes ==
  TypeOK /\ UiDisconnects /\ ui_ev' \in BOOLEAN => TypeOK'
<1> SUFFICES ASSUME TypeOK, UiDisconnects, ui_ev' \in BOOLEAN PROVE TypeOK'
  OBVIOUS
<1>1. PipeTypes' /\ io_rd' \in ReadState
  BY CloseTypes DEF UiDisconnects
<1>2. IoTypes'
  BY <1>1 DEF UiDisconnects, TypeOK, IoTypes
<1>3. UiTypes'
  BY DEF UiDisconnects, Checked, Flag, TypeOK, UiTypes, ReadState
<1>4. BoundTypes'
  BY DEF UiDisconnects, boundVars, TypeOK, BoundTypes
<1> QED
  BY <1>1, <1>2, <1>3, <1>4 DEF TypeOK

(* The variables of a part that a step leaves alone keep their types.      *)
LEMMA UnchangedTypes ==
  ASSUME TypeOK
  PROVE  /\ UNCHANGED ioVars => IoTypes'
         /\ UNCHANGED uiVars => UiTypes'
         /\ UNCHANGED pipeVars => PipeTypes'
         /\ UNCHANGED boundVars => BoundTypes'
BY DEF TypeOK, IoTypes, UiTypes, PipeTypes, BoundTypes, ioVars, uiVars,
       pipeVars, boundVars
(* Every step of the IO process keeps the types, *)
LEMMA TypeStepIo == TypeOK /\ (IoStart \/ IoCrash \/ IoReports \/ IoLoop) => TypeOK'
<1> SUFFICES ASSUME TypeOK, IoStart \/ IoCrash \/ IoReports \/ IoLoop
             PROVE  TypeOK'
  OBVIOUS
<1> USE DEF TypeOK
<1>1. CASE IoStart
  BY <1>1, QueueTypes, BoundsAssumption, UnchangedTypes
  DEF IoStart, IoTypes, PipeTypes, PipeState, Flag, ReadState
<1>2. CASE IoCrash
  <2>1. IoTypes'
    BY <1>2 DEF IoCrash, IoTypes, ReadState
  <2>2. UiTypes'
    BY <1>2 DEF IoCrash, UiTypes, ReadState
  <2>3. PipeTypes' /\ BoundTypes'
    BY <1>2, QueueTypes DEF IoCrash, PipeTypes, PipeState, BoundTypes
  <2> QED
    BY <2>1, <2>2, <2>3
<1>3. CASE IoReports
  <2>1. ui_rd' \in ReadState /\ ui_buf' \in Down \cup {NoMsg} /\ dn_q' \in Seq(Down)
    BY <1>3, IoTxTypes, Messages DEF IoReports
  <2>2. IoTypes'
    BY <1>3 DEF IoReports, AfterTx, IoTypes, Flag
  <2>3. UiTypes'
    BY <1>3, <2>1 DEF IoReports, UiTypes
  <2>4. PipeTypes'
    BY <1>3, <2>1 DEF IoReports, PipeTypes
  <2>5. BoundTypes'
    BY <1>3 DEF IoReports, BoundTypes
  <2> QED
    BY <2>2, <2>3, <2>4, <2>5
<1>4. ASSUME NEW m \in Down, IoAnswer(m), io_cur' \in 0 .. NumCmds + 1 PROVE TypeOK'
  <2>1. ui_rd' \in ReadState /\ ui_buf' \in Down \cup {NoMsg} /\ dn_q' \in Seq(Down)
    BY <1>4, IoTxTypes DEF IoAnswer
  <2>2. AfterTx(io_conn) \in Flag
    BY DEF AfterTx, IoTypes, Flag
  <2>3. /\ io_rd' \in ReadState /\ io_buf' \in Up \cup {NoMsg}
        /\ up_q' \in Seq(Up) /\ io_conn' \in Flag /\ io_ev' \in BOOLEAN
    BY <1>4, <2>2, IoRxTypes DEF IoAnswer
  <2> QED
    BY <1>4, <2>1, <2>3, UnchangedTypes
    DEF IoAnswer, IoTypes, UiTypes, PipeTypes
<1>5. CASE IoInit
  BY <1>4, <1>5, Messages, BoundsAssumption DEF IoInit
<1>6. CASE IoAck
  <2>1. io_cur' \in 0 .. NumCmds + 1 /\ io_cur \in Nat
    BY <1>6, BoundsAssumption DEF IoAck, Slots
  <2> QED
    BY <1>4, <1>6, <2>1, Messages DEF IoAck
<1>7. CASE IoAckLast
  BY <1>4, <1>7, Messages DEF IoAckLast, IoTypes
<1>8. ASSUME NEW conn \in Flag, io_pipe_rx_init(conn), io_ui' \in {"CLR", "SET"},
             UNCHANGED <<io_up, io_cur, inst, dn_q, uiVars, boundVars>>
      PROVE  TypeOK'
  <2>1. /\ io_rd' \in ReadState /\ io_buf' \in Up \cup {NoMsg}
        /\ up_q' \in Seq(Up) /\ io_conn' \in Flag /\ io_ev' \in BOOLEAN
    BY <1>8, IoRxTypes
  <2> QED
    BY <1>8, <2>1, UnchangedTypes DEF IoTypes, PipeTypes
<1>9. CASE IoReady \/ IoCommand \/ IoDrops \/ IoRxFails
  BY <1>8, <1>9
  DEF IoReady, IoCommand, IoDrops, IoRxFails, IoTypes, Flag, io_ui_check
<1>10. CASE IoListens
  BY <1>10, UnchangedTypes
  DEF IoListens, IoTypes, PipeTypes, PipeState, Flag
<1>11. CASE IoConnected
  BY <1>11, UnchangedTypes, QueueTypes
  DEF IoConnected, IoTypes, PipeTypes, ReadState, Flag
<1>12. CASE IoDisconnects
  <2>1. UiTypes' /\ PipeTypes' /\ BoundTypes' /\ io_rd' \in ReadState
    BY <1>12, DisconnectTypes DEF IoDisconnects
  <2> QED
    BY <1>12, <2>1
    DEF IoDisconnects, DisconnectNamedPipe, io_ui_check, IoTypes, Flag
<1> QED
  BY <1>1, <1>2, <1>3, <1>5, <1>6, <1>7, <1>9, <1>10, <1>11, <1>12 DEF IoLoop

(* and every step of the UI. *)
LEMMA TypeStepUi == TypeOK /\ (UiStart \/ UiExit \/ UiCommand \/ UiLoop) => TypeOK'
<1> SUFFICES ASSUME TypeOK, UiStart \/ UiExit \/ UiCommand \/ UiLoop
             PROVE  TypeOK'
  OBVIOUS
<1> USE DEF TypeOK
<1>1. CASE UiStart
  BY <1>1, BoundsAssumption, UnchangedTypes
  DEF UiStart, UiTypes, EmptyTable, Flag, ReadState
<1>2. CASE UiExit \/ UiReceivesTwo
  <2>1. IoTypes' /\ UiTypes' /\ PipeTypes'
    BY <1>2, UiEndsTypes DEF UiExit, UiReceivesTwo
  <2> QED
    BY <1>2, <2>1 DEF UiExit, UiReceivesTwo, BoundTypes, boundVars
<1>3. CASE UiCommand
  <2>1. io_rd' \in ReadState /\ io_buf' \in Up \cup {NoMsg} /\ up_q' \in Seq(Up)
    BY <1>3, UiTxTypes, Messages DEF UiCommand
  <2>2. UiTypes'
    BY <1>3 DEF UiCommand, ui_after_tx, UiTypes, Flag
  <2>3. IoTypes' /\ PipeTypes' /\ BoundTypes'
    BY <1>3, <2>1 DEF UiCommand, IoTypes, PipeTypes, BoundTypes
  <2> QED
    BY <2>2, <2>3
<1>4. CASE UiReceives \/ UiRxFails \/ UiWakes \/ UiTimesOut \/ UiPostsFirstRead
           \/ UiPrints
  <2>1. UNCHANGED <<ioVars, pipeVars, boundVars>>
    BY <1>4
    DEF UiReceives, UiRxFails, UiWakes, UiTimesOut, UiPostsFirstRead, UiPrints
  <2>2. UiReceives \/ UiRxFails => UiTypes'
    BY DEF UiReceives, UiRxFails, UiTypes, Flag, ReadState
  <2>3. UiWakes \/ UiTimesOut => UiTypes'
    BY DEF UiWakes, UiTimesOut, UiTypes
  <2>4. UiPostsFirstRead \/ UiPrints => UiTypes'
    BY DEF UiPostsFirstRead, UiPrints, UiParses, UiTypes, Flag, ReadState
  <2> QED
    BY <1>4, <2>1, <2>2, <2>3, <2>4, UnchangedTypes
<1>5. ASSUME NEW kind, NEW reply \in {"ACK", "READY"}, UiParses(kind), UiReplies(reply),
             table' \in [Slots -> Nat], ui_cur' \in Nat, ui_ui' \in Flag
      PROVE  TypeOK'
  <2>1. io_rd' \in ReadState /\ io_buf' \in Up \cup {NoMsg} /\ up_q' \in Seq(Up)
    BY <1>5, UiTxTypes, Messages DEF UiReplies
  <2>2. UiTypes'
    BY <1>5 DEF UiReplies, UiParses, ui_after_tx, UiTypes, Flag
  <2>3. IoTypes' /\ PipeTypes' /\ BoundTypes'
    BY <1>5, <2>1, UnchangedTypes DEF UiReplies, IoTypes, PipeTypes
  <2> QED
    BY <2>2, <2>3
<1>6. CASE UiStartsTable \/ UiEndsTable
  <2>1. table \in [Slots -> Nat] /\ ui_cur \in Nat /\ ui_ui \in Flag
    BY DEF UiTypes
  <2>2. table' \in [Slots -> Nat] /\ ui_ui' \in Flag
    BY <1>6, <2>1 DEF UiStartsTable, UiEndsTable, Flag
  <2>3. ui_cur' \in Nat
    BY <1>6, <2>1 DEF UiStartsTable, UiEndsTable
  <2> QED
    BY <1>5, <1>6, <2>2, <2>3 DEF UiStartsTable, UiEndsTable
<1>7. CASE UiAddsCommand
  <2>1. /\ ui_buf.num \in Nat
        /\ table \in [Slots -> Nat] /\ ui_cur \in Nat /\ ui_ui \in Flag
    BY Messages DEF UiTypes
  <2>2. table' \in [Slots -> Nat] /\ ui_ui' \in Flag
    BY <1>7, <2>1 DEF UiAddsCommand
  <2>3. ui_cur' \in Nat
    BY <1>7, <2>1 DEF UiAddsCommand
  <2> QED
    BY <1>5, <1>7, <2>2, <2>3 DEF UiAddsCommand
<1>8. CASE UiConnects \/ UiProbes
  <2>1. UiTypes'
    BY <1>8 DEF UiConnects, UiProbes, Checked, UiTypes, Flag
  <2>2. IoTypes' /\ PipeTypes' /\ BoundTypes'
    BY <1>8, UnchangedTypes
    DEF UiConnects, UiProbes, IoTypes, PipeTypes, PipeState
  <2> QED
    BY <2>1, <2>2
<1>9. CASE UiFalls
  BY <1>9, UiDisconnectsTypes DEF UiFalls, UiTypes
<1>10. CASE UiFirstReadSucceeds
  <2>1. PipeTypes' /\ io_rd' \in ReadState
    BY <1>10, CloseTypes DEF UiFirstReadSucceeds
  <2>2. Head(dn_q) \in Down
    BY <1>10, QueueTypes DEF UiFirstReadSucceeds, PipeTypes
  <2>3. UiTypes'
    BY <1>10, <2>2 DEF UiFirstReadSucceeds, Checked, UiTypes, Flag, ReadState
  <2>4. IoTypes' /\ BoundTypes'
    BY <1>10, <2>1, UnchangedTypes DEF UiFirstReadSucceeds, IoTypes
  <2> QED
    BY <2>1, <2>3, <2>4
<1>11. CASE UiSendsInit
  <2>1. CASE inst # "connected"
    BY <1>11, <2>1, UiDisconnectsTypes DEF UiSendsInit
  <2>2. CASE inst = "connected"
    <3>1. io_rd' \in ReadState /\ io_buf' \in Up \cup {NoMsg} /\ up_q' \in Seq(Up)
      BY <1>11, <2>2, UiTxTypes, Messages DEF UiSendsInit
    <3>2. UiTypes' /\ BoundTypes'
      BY <1>11, <2>2, UnchangedTypes DEF UiSendsInit, UiTypes
    <3> QED
      BY <1>11, <2>2, <3>1, <3>2 DEF UiSendsInit, IoTypes, PipeTypes
  <2> QED
    BY <2>1, <2>2
<1>12. CASE UiTidies
  <2>1. EmptyTable \in [Slots -> Nat]
    BY DEF EmptyTable
  <2>2. UiTypes'
    BY <1>12, <2>1 DEF UiTidies, UiTypes, Flag
  <2> QED
    BY <1>12, <2>2, UnchangedTypes DEF UiTidies
<1> QED
  BY <1>1, <1>2, <1>3, <1>4, <1>6, <1>7, <1>8, <1>9, <1>10, <1>11, <1>12
  DEF UiLoop

(* So the types hold initially and always. *)
LEMMA TypeInit == Init => TypeOK
<1> SUFFICES ASSUME Init PROVE TypeOK
  OBVIOUS
<1>1. IoTypes
  <2>1. io_cur \in 0 .. NumCmds + 1
    BY BoundsAssumption DEF Init
  <2> QED
    BY <2>1 DEF Init, IoTypes, Flag, ReadState
<1>2. EmptyTable \in [Slots -> Nat] /\ ui_cur \in Nat
  BY DEF EmptyTable, Init
<1>3. UiTypes
  BY <1>2 DEF Init, UiTypes, Flag, ReadState
<1>4. PipeTypes /\ BoundTypes
  BY QueueTypes DEF Init, PipeTypes, PipeState, BoundTypes
<1> QED
  BY <1>1, <1>3, <1>4 DEF TypeOK

(* One step. *)
LEMMA TypeStep == TypeOK /\ [Next]_vars => TypeOK'
BY TypeStepIo, TypeStepUi, UnchangedTypes DEF Next, vars, TypeOK

(* Every variable keeps its type, whatever happens to the processes. *)
THEOREM TypeCorrect == Spec => []TypeOK
BY TypeInit, TypeStep, PTL DEF Spec

-----------------------------------------------------------------------------
(* The two ends of the pipe. *)

(* A queue that grew, and the head of one. *)
LEMMA QueueElements ==
  ASSUME NEW S, NEW q \in Seq(S), NEW m \in S
  PROVE  /\ \A i \in DOMAIN Append(q, m) :
              Append(q, m)[i] = m \/ (i \in DOMAIN q /\ Append(q, m)[i] = q[i])
         /\ Append(q, m) # <<>>
BY AppendProperties, LenProperties

(* The head of a queue is in it. *)
LEMMA HeadElement ==
  ASSUME NEW S, NEW q \in Seq(S), q # <<>>
  PROVE  1 \in DOMAIN q /\ Head(q) = q[1]
BY HeadTailProperties, LenProperties, EmptySeq

(* Posting the next read keeps the server's end live.                      *)
LEMMA RxIoSide ==
  ASSUME TypeOK, IoSide, io_up, Signalled(io_rd), NEW conn, io_pipe_rx_init(conn),
         conn = io_conn \/ (conn = "FALL" /\ inst \notin {"connected", "leaked"}),
         UNCHANGED <<io_up, inst>>
  PROVE  IoSide'
BY
DEF TypeOK, IoTypes, PipeTypes, PipeState, IoSide, Signalled, io_pipe_rx_init

(* So do the client's calls, and its leaving.                              *)
LEMMA UiTxIoSide ==
  ASSUME IoSide, NEW m, ui_pipe_tx(m), UNCHANGED <<io_up, io_conn, io_ev, inst>>
  PROVE  IoSide'
BY DEF IoSide, Signalled, ui_pipe_tx

(* A client that closes its end leaves the server something to notice.     *)
LEMMA CloseIoSide ==
  ASSUME TypeOK, IoSide, NEW open, CloseClient(open),
         \A state \in open : state \in {"connected", "leaked"},
         UNCHANGED <<io_up, io_conn, io_ev>>
  PROVE  IoSide'
BY DEF TypeOK, IoTypes, ReadState, IoSide, Signalled, CloseClient

(* Every step keeps what the server's end knows.                           *)
LEMMA IoSideStep == TypeOK /\ IoSide /\ [Next]_vars => IoSide'
<1> SUFFICES ASSUME TypeOK, IoSide, [Next]_vars PROVE IoSide'
  OBVIOUS
<1>1. CASE IoStart
  BY <1>1 DEF IoStart, IoSide, Signalled
<1>2. CASE IoCrash
  BY <1>2 DEF IoCrash, IoSide, Signalled
<1>3. CASE IoReports
  BY <1>3
  DEF IoReports, IoSide, Signalled, AfterTx, TxOk, TypeOK, PipeTypes, PipeState
<1>4. ASSUME NEW m, IoAnswer(m), io_up, io_rd = "done", Handshaking PROVE IoSide'
  BY <1>4, RxIoSide DEF IoAnswer, AfterTx, TxOk, Signalled
<1>5. CASE IoInit \/ IoAck \/ IoAckLast
  BY <1>4, <1>5 DEF IoInit, IoAck, IoAckLast, IoReceives
<1>6. CASE IoReady \/ IoCommand \/ IoDrops
  BY <1>6, RxIoSide DEF IoReady, IoCommand, IoDrops, IoReceives, Signalled
<1>7. CASE IoRxFails
  BY <1>7, RxIoSide DEF IoRxFails, IoSide, Signalled
<1>8. CASE IoListens
  BY <1>8 DEF IoListens, IoCheck, IoSide, Signalled, TypeOK, IoTypes, ReadState
<1>9. CASE IoConnected
  BY <1>9 DEF IoConnected, IoCheck, IoSide, Signalled
<1>10. CASE IoDisconnects
  BY <1>10
  DEF IoDisconnects, DisconnectNamedPipe, io_ui_check, IoCheck, IoSide, Signalled
<1>11. CASE UiExit \/ UiReceivesTwo
  BY <1>11, CloseIoSide DEF UiExit, UiReceivesTwo, UiEnds
<1>12. CASE UiCommand
  BY <1>12, UiTxIoSide DEF UiCommand
<1>13. CASE UiStartsTable \/ UiAddsCommand \/ UiEndsTable
  BY <1>13, UiTxIoSide DEF UiStartsTable, UiAddsCommand, UiEndsTable, UiReplies
<1>14. CASE UiFalls \/ UiFirstReadSucceeds
  BY <1>14, CloseIoSide DEF UiFalls, UiDisconnects, UiFirstReadSucceeds
<1>15. CASE UiSendsInit
  BY <1>15, CloseIoSide, UiTxIoSide DEF UiSendsInit, UiDisconnects
<1>16. CASE UiConnects
  BY <1>16 DEF UiConnects, IoSide, Signalled
<1>19. CASE UiProbes
  BY <1>19 DEF UiProbes, IoSide, Signalled
<1>17. UNCHANGED <<ioVars, inst, up_q>> => IoSide'
  BY DEF ioVars, IoSide, Signalled
<1>18. CASE UiStart \/ UiReceives \/ UiRxFails \/ UiPrints \/ UiWakes
            \/ UiTimesOut \/ UiPostsFirstRead \/ UiTidies \/ UNCHANGED vars
  BY <1>17, <1>18
  DEF UiStart, UiReceives, UiRxFails, UiPrints, UiWakes, UiTimesOut,
      UiPostsFirstRead, UiTidies, vars, pipeVars
<1> QED
  BY <1>1, <1>2, <1>3, <1>5, <1>6, <1>7, <1>8, <1>9, <1>10, <1>11, <1>12,
     <1>13, <1>14, <1>15, <1>16, <1>18, <1>19 DEF Next, IoLoop, UiLoop

-----------------------------------------------------------------------------
(* A write of the server reaches a client that reads, or queues.           *)
LEMMA IoTxUiSide ==
  ASSUME UiSide, NEW m, io_pipe_tx(m),
         UNCHANGED <<ui_up, ui_pc, ui_conn, inst, ready>>
  PROVE  UiSide'
BY DEF UiSide, io_pipe_tx

(* Every step keeps what the client's end knows.                           *)
LEMMA UiSideStep == TypeOK /\ IoSide /\ UiSide /\ [Next]_vars => UiSide'
<1> SUFFICES ASSUME TypeOK, IoSide, UiSide, [Next]_vars PROVE UiSide'
  OBVIOUS
<1>1. CASE IoStart
  BY <1>1 DEF IoStart, IoSide, UiSide, uiVars
<1>2. CASE IoCrash
  BY <1>2 DEF IoCrash, UiSide
<1>3. CASE IoReports \/ IoInit \/ IoAck \/ IoAckLast
  BY <1>3, IoTxUiSide DEF IoReports, IoInit, IoAck, IoAckLast, IoAnswer
<1>4. UNCHANGED <<uiVars, inst, dn_q>> => UiSide'
  <2> SUFFICES ASSUME UNCHANGED <<uiVars, inst, dn_q>> PROVE UiSide'
    OBVIOUS
  <2>1. UNCHANGED <<ui_up, ui_rd, ui_pc, dn_q, ready, inst, ui_conn>>
    BY DEF uiVars
  <2> QED
    BY <2>1 DEF UiSide
<1>5. CASE IoReady \/ IoCommand \/ IoDrops \/ IoRxFails \/ IoConnected \/ UNCHANGED vars
  BY <1>4, <1>5
  DEF IoReady, IoCommand, IoDrops, IoRxFails, IoConnected, vars, pipeVars
<1>6. CASE IoListens
  BY <1>6 DEF IoListens, UiSide, uiVars
<1>7. CASE IoDisconnects
  BY <1>7 DEF IoDisconnects, DisconnectNamedPipe, UiSide
<1>8. CASE UiStart
  BY <1>8 DEF UiStart, UiSide, pipeVars
<1>9. CASE UiExit \/ UiReceivesTwo
  BY <1>9 DEF UiExit, UiReceivesTwo, UiEnds, CloseClient, UiSide
<1>10. CASE UiCommand
  BY <1>10 DEF UiCommand, UiWaits, ui_after_tx, UiSide
<1>11. CASE UiReceives \/ UiRxFails
  BY <1>11 DEF UiReceives, UiRxFails, UiWaits, UiSide, pipeVars
<1>12. ASSUME NEW m, UiReplies(m), ui_up, ui_pc = "parse", ui_pc' = "wait"
       PROVE UiSide'
  BY <1>12 DEF UiReplies, ui_after_tx, UiSide
<1>13. CASE UiStartsTable \/ UiAddsCommand \/ UiEndsTable
  BY <1>12, <1>13 DEF UiStartsTable, UiAddsCommand, UiEndsTable, UiParses
<1>14. CASE UiPrints
  BY <1>14 DEF UiPrints, UiParses, UiSide, pipeVars
<1>15. CASE UiWakes \/ UiTimesOut
  BY <1>15
  DEF UiWakes, UiTimesOut, UiIdle, UiWaits, Signalled, UiSide, pipeVars, TypeOK,
      UiTypes, ReadState
<1>16. CASE UiConnects
  BY <1>16 DEF UiConnects, UiAt, Checked, UiSide
<1>17. CASE UiFalls
  BY <1>17 DEF UiFalls, UiDisconnects, UiAt, Checked, CloseClient, UiSide
<1>18. CASE UiFirstReadSucceeds
  BY <1>18 DEF UiFirstReadSucceeds, UiAt, Checked, CloseClient, UiSide
<1>19. CASE UiPostsFirstRead
  BY <1>19 DEF UiPostsFirstRead, UiAt, UiSide, pipeVars
<1>20. CASE UiSendsInit
  BY <1>20 DEF UiSendsInit, UiDisconnects, UiAt, Checked, CloseClient, UiSide
<1>21. CASE UiProbes
  BY <1>21 DEF UiProbes, UiAt, Checked, UiSide
<1>22. CASE UiTidies
  BY <1>22 DEF UiTidies, UiAt, UiSide, pipeVars
<1> QED
  BY <1>1, <1>2, <1>3, <1>5, <1>6, <1>7, <1>8, <1>9, <1>10, <1>11, <1>13,
     <1>14, <1>15, <1>16, <1>17, <1>18, <1>19, <1>20, <1>21, <1>22
  DEF Next, IoLoop, UiLoop
-----------------------------------------------------------------------------
(* Sessions of commands. *)

(* The next read of the server takes what was queued.                      *)
LEMMA RxSessions ==
  ASSUME TypeOK, IoSide, Sessions, io_up, Signalled(io_rd), NEW conn,
         io_pipe_rx_init(conn), UNCHANGED <<io_up, inst, ui_ui>>,
         io_ui' = io_ui \/ (io_rd = "done" /\ io_buf.kind = "READY")
  PROVE  Sessions'
<1>1. inst' \notin {"disconnected", "listening"} \/ io_ui' = "CLR"
  BY DEF IoSide, Sessions, Signalled
<1>2. inst = "connected" /\ io_ui' = "SET" => Announced
  BY DEF Sessions
<1>3. up_q # <<>> => 1 \in DOMAIN up_q /\ Head(up_q) = up_q[1]
  BY HeadElement DEF TypeOK, PipeTypes
<1>4. ASSUME inst = "connected", io_rd' = "done", io_buf'.kind = "READY"
      PROVE  Announced
  BY <1>3, <1>4 DEF io_pipe_rx_init, Sessions
<1>5. up_q' = <<>>
  BY DEF io_pipe_rx_init
<1>6. DOMAIN <<>> = {}
  BY EmptySeq, LenProperties
<1> QED
  BY <1>1, <1>2, <1>4, <1>5, <1>6 DEF Sessions, Announced

(* A write of the UI: only READY matters, and that it announces.           *)
LEMMA UiTxSessions ==
  ASSUME TypeOK, Sessions, NEW m \in Up, ui_pipe_tx(m), UNCHANGED <<io_up, inst, io_ui>>,
         Announced => Announced', m.kind = "READY" => Announced'
  PROVE  Sessions'
<1>1. CASE inst = "connected"
  <2>1. ASSUME NEW i \in DOMAIN up_q', up_q'[i].kind = "READY" PROVE Announced'
    <3>1. up_q' = Append(up_q, m) \/ up_q' = up_q
      BY <1>1 DEF ui_pipe_tx
    <3>2. up_q'[i] = m \/ (i \in DOMAIN up_q /\ up_q'[i] = up_q[i])
      BY <2>1, <3>1, QueueElements DEF TypeOK, PipeTypes
    <3> QED
      BY <1>1, <2>1, <3>2 DEF Sessions
  <2>2. io_rd' = "done" /\ io_buf'.kind = "READY" => Announced'
    BY <1>1 DEF ui_pipe_tx, Sessions
  <2> QED
    BY <1>1, <2>1, <2>2 DEF Sessions
<1>2. CASE inst # "connected"
  BY <1>2 DEF Sessions
<1> QED
  BY <1>1, <1>2

(* Without a connection there is only io_ui to look at.                    *)
LEMMA NoSession ==
  ASSUME inst' # "connected",
         io_up' /\ inst' \in {"disconnected", "listening"} => io_ui' = "CLR"
  PROVE  Sessions'
BY DEF Sessions

(* No step lets a session, or its READY, outlive the connection.           *)
LEMMA SessionsStep == TypeOK /\ IoSide /\ UiSide /\ Sessions /\ [Next]_vars => Sessions'
<1> SUFFICES ASSUME TypeOK, IoSide, UiSide, Sessions, [Next]_vars PROVE Sessions'
  OBVIOUS
<1>1. CASE IoStart
  BY <1>1, NoSession DEF IoStart
<1>2. CASE IoCrash
  BY <1>2, NoSession DEF IoCrash
<1>3. CASE IoInit \/ IoAck \/ IoAckLast
  BY <1>3, RxSessions
  DEF IoInit, IoAck, IoAckLast, IoReceives, Signalled, IoAnswer
<1>4. CASE IoReady \/ IoCommand \/ IoDrops \/ IoRxFails
  BY <1>4, RxSessions
  DEF IoReady, IoCommand, IoDrops, IoRxFails, IoReceives, Signalled, uiVars
<1>5. CASE IoListens
  BY <1>5, NoSession DEF IoListens, IoCheck, Sessions, Announced, uiVars
<1>6. CASE IoConnected
  <2>1. up_q # <<>> => 1 \in DOMAIN up_q /\ Head(up_q) = up_q[1]
    BY HeadElement DEF TypeOK, PipeTypes
  <2>2. ASSUME inst = "connected", io_rd' = "done", io_buf'.kind = "READY"
        PROVE  Announced
    BY <1>6, <2>1, <2>2 DEF IoConnected, Sessions
  <2>3. up_q' = <<>> /\ UNCHANGED <<io_up, io_ui, inst, ui_ui>>
    BY <1>6 DEF IoConnected, uiVars
  <2>4. DOMAIN <<>> = {}
    BY EmptySeq, LenProperties
  <2> QED
    BY <2>2, <2>3, <2>4 DEF Sessions, Announced
<1>7. CASE IoDisconnects
  BY <1>7, NoSession DEF IoDisconnects, DisconnectNamedPipe, io_ui_check
<1>8. CASE UiStart
  BY <1>8, NoSession DEF UiStart, UiSide, Sessions, ioVars, pipeVars
<1>9. CASE UiExit \/ UiReceivesTwo
  BY <1>9, NoSession DEF UiExit, UiReceivesTwo, UiEnds, CloseClient, Sessions
<1>10. CASE UiCommand
  BY <1>10, UiTxSessions, Messages DEF UiCommand, Announced, Msg
<1>11. CASE UiStartsTable \/ UiAddsCommand
  BY <1>11, UiTxSessions, Messages
  DEF UiStartsTable, UiAddsCommand, UiReplies, Announced, Msg
<1>12. CASE UiEndsTable
  BY <1>12, UiTxSessions, Messages DEF UiEndsTable, UiReplies, Announced
<1>13. CASE UiConnects
  <2>1. CASE inst = "listening"
    <3>1. DOMAIN <<>> = {}
      BY EmptySeq, LenProperties
    <3>2. up_q' = <<>> /\ io_rd' = "none" /\ inst' = "connected" /\ io_ui' = "CLR"
      BY <1>13, <2>1 DEF UiConnects, IoSide, Sessions
    <3> QED
      BY <3>1, <3>2 DEF Sessions
  <2>2. CASE inst # "listening"
    BY <1>13, <2>2 DEF UiConnects, Sessions, Announced
  <2> QED
    BY <2>1, <2>2
<1>14. ASSUME CloseClient({"connected"}), UNCHANGED <<io_up, io_ui>>
       PROVE  Sessions'
  <2>1. inst' # "connected" /\ (inst' \in {"disconnected", "listening"} => inst' = inst)
    BY <1>14 DEF CloseClient
  <2> QED
    BY <1>14, <2>1, NoSession DEF Sessions
<1>15. CASE UiSendsInit
  <2>1. CASE inst = "connected"
    BY <1>15, <2>1, UiTxSessions, Messages DEF UiSendsInit, Announced, Msg
  <2>2. CASE inst # "connected"
    BY <1>14, <1>15, <2>2 DEF UiSendsInit, UiDisconnects
  <2> QED
    BY <2>1, <2>2
<1>16. CASE UiProbes
  BY <1>16, NoSession DEF UiProbes, Sessions, Announced
<1>17. UNCHANGED <<ioVars, inst, up_q>> /\ (Announced => Announced') => Sessions'
  <2> SUFFICES ASSUME UNCHANGED <<ioVars, inst, up_q>>, Announced => Announced'
               PROVE  Sessions'
    OBVIOUS
  <2>1. UNCHANGED <<io_up, io_ui, io_rd, io_buf, inst, up_q>>
    BY DEF ioVars
  <2> QED
    BY <2>1 DEF Sessions
<1>18. CASE IoReports \/ UiReceives \/ UiRxFails \/ UiPrints \/ UiWakes
            \/ UiTimesOut \/ UiPostsFirstRead \/ UNCHANGED vars
  <2>1. UNCHANGED <<io_up, io_ui, io_rd, io_buf, inst, up_q, ui_ui>>
    BY <1>18
    DEF IoReports, UiReceives, UiRxFails, UiPrints, UiWakes, UiTimesOut,
        UiPostsFirstRead, vars, ioVars, uiVars, pipeVars
  <2> QED
    BY <2>1 DEF Sessions, Announced
<1>20. CASE UiFalls \/ UiFirstReadSucceeds
  BY <1>14, <1>20 DEF UiFalls, UiFirstReadSucceeds, UiDisconnects
<1>19. CASE UiTidies
  BY <1>17, <1>19 DEF UiTidies, Announced, pipeVars
<1> QED
  BY <1>1, <1>2, <1>3, <1>4, <1>5, <1>6, <1>7, <1>8, <1>9, <1>10, <1>11, <1>12,
     <1>13, <1>15, <1>16, <1>18, <1>19, <1>20 DEF Next, IoLoop, UiLoop
-----------------------------------------------------------------------------
(* The dialogue, as long as the device is silent. *)

(* Which messages belong to the handshake, and where a queue holds them.   *)
LEMMA HandshakeKinds ==
  /\ \A n : \A k \in {"INIT", "ACK", "READY", "START", "CDEF", "END"} :
       IsHandshake(Msg(k, n)) /\ Msg(k, n).kind = k /\ Msg(k, n).num = n
  /\ ~IsHandshake(Msg("CMD", 0)) /\ Msg("CMD", 0).kind = "CMD"
  /\ ~IsHandshake(Msg("RSP", 0))
BY DEF IsHandshake, Msg

(* Nothing is queued in an empty queue; *)
LEMMA QueuedEmpty == Queued(<<>>) = {} /\ DOMAIN <<>> = {}
BY EmptySeq, LenProperties DEF Queued

(* a message that is not of the handshake changes nothing, and one that is *)
(* alone if none was there;                                                *)
LEMMA QueuedAppend ==
  ASSUME NEW S, NEW q \in Seq(S), NEW m \in S
  PROVE  /\ ~IsHandshake(m) => Queued(Append(q, m)) = Queued(q)
         /\ Queued(q) = {} => \A i, j \in Queued(Append(q, m)) : i = j
<1>1. /\ DOMAIN Append(q, m) = 1 .. Len(q) + 1
      /\ DOMAIN q = 1 .. Len(q) /\ Len(q) \in Nat
  BY AppendProperties, LenProperties
<1>2. \A i \in DOMAIN q : Append(q, m)[i] = q[i]
  BY AppendProperties, LenProperties
<1>3. Append(q, m)[Len(q) + 1] = m
  BY AppendProperties
<1>4. \A i \in DOMAIN Append(q, m) : i \in DOMAIN q \/ i = Len(q) + 1
  BY <1>1
<1>5. DOMAIN q \subseteq DOMAIN Append(q, m)
  BY <1>1
<1>6. Queued(Append(q, m)) \subseteq Queued(q) \cup {Len(q) + 1}
  BY <1>2, <1>4 DEF Queued
<1>7. Queued(q) \subseteq Queued(Append(q, m))
  BY <1>2, <1>5 DEF Queued
<1>8. ~IsHandshake(m) => Len(q) + 1 \notin Queued(Append(q, m))
  BY <1>3 DEF Queued
<1> QED
  BY <1>6, <1>7, <1>8

(* a head of the handshake is one of its messages. *)
LEMMA QueuedHead ==
  ASSUME NEW S, NEW q \in Seq(S), q # <<>>, IsHandshake(Head(q))
  PROVE  Queued(q) # {}
BY HeadElement DEF Queued

(* A queue of one message. *)
LEMMA OneElement ==
  ASSUME NEW S, NEW m \in S
  PROVE  /\ DOMAIN Append(<<>>, m) = {1} /\ Append(<<>>, m)[1] = m
         /\ Append(<<>>, m) # <<>>
<1>1. <<>> \in Seq(S) /\ Len(<<>>) = 0
  BY EmptySeq
<1>2. Append(<<>>, m) # <<>> /\ Len(Append(<<>>, m)) = 1
      /\ Append(<<>>, m)[1] = m /\ Append(<<>>, m) \in Seq(S)
  BY <1>1, AppendProperties
<1>3. DOMAIN Append(<<>>, m) = 1 .. 1
  BY <1>2, LenProperties
<1> QED
  BY <1>2, <1>3

(* Messages that stay or are lost take nothing from the dialogue.          *)
LEMMA LessTraffic ==
  ASSUME Alone, Numbers,
         up_q' = up_q \/ up_q' = <<>>,
         dn_q' = dn_q \/ dn_q' = <<>>,
         io_rd' = "done" => io_rd = "done" /\ io_buf' = io_buf,
         UiReads' => UiReads,
         UiParsing' => UiParsing,
         UiReads' \/ UiParsing' => ui_buf' = ui_buf /\ ui_cur' = ui_cur,
         dn_q' # <<>> => ui_cur' = ui_cur,
         inst' = "connected" => UNCHANGED <<inst, io_cur, ui_cur>>
  PROVE  Alone' /\ Numbers'
<1>1. Queued(up_q)' = Queued(up_q) \/ Queued(up_q)' = {}
  BY QueuedEmpty DEF Queued
<1>2. IoReads' => IoReads
  BY DEF IoReads, IsHandshake
<1>3. Alone'
  BY <1>1, <1>2, QueuedEmpty DEF Alone
<1>4. \A m : Told(m) /\ ui_cur' = ui_cur => Told(m)'
  BY DEF Told, IsHandshake, Slots
<1>5. \A m : Asked(m) => Asked(m)'
  BY DEF Asked
<1>6. \A i \in DOMAIN dn_q' : Told(dn_q[i])'
  BY <1>4, QueuedEmpty DEF Numbers
<1>7. UiReads' \/ UiParsing' => Told(ui_buf)'
  BY <1>4 DEF Numbers
<1>8. \A i \in DOMAIN up_q' : Asked(up_q[i])'
  BY <1>5, QueuedEmpty DEF Numbers
<1>9. io_rd' = "done" => Asked(io_buf)'
  BY <1>5 DEF Numbers
<1> QED
  BY <1>3, <1>6, <1>7, <1>8, <1>9 DEF Numbers

(* A read of the server takes the whole queue and keeps its head.          *)
LEMMA ServerReads ==
  ASSUME TypeOK, Alone, Numbers, up_q' = <<>>,
         io_rd' = "done" => up_q # <<>> /\ io_buf' = Head(up_q),
         UNCHANGED <<dn_q, ui_rd, ui_pc, ui_buf, inst, io_cur, ui_cur>>
  PROVE  Alone' /\ Numbers' /\ Queued(up_q)' = {} /\ (IoReads' => Queued(up_q) # {})
<1>1. Queued(up_q)' = {}
  BY QueuedEmpty DEF Queued
<1>2. IoReads' => Queued(up_q) # {}
  BY QueuedHead DEF IoReads, TypeOK, PipeTypes, IsHandshake
<1>3. UiReads' = UiReads /\ UiParsing' = UiParsing
  BY DEF UiReads, UiParsing
<1>4. Alone'
  BY <1>1, <1>2, <1>3 DEF Alone
<1>5. \A m : (Told(m) => Told(m)') /\ (Asked(m) => Asked(m)')
  BY DEF Told, Asked, IsHandshake, Slots
<1>6. io_rd' = "done" => Asked(io_buf)'
  BY <1>5, HeadElement DEF Numbers, TypeOK, PipeTypes
<1>7. DOMAIN up_q' = {}
  BY QueuedEmpty
<1> QED
  BY <1>1, <1>2, <1>3, <1>4, <1>5, <1>6, <1>7 DEF Numbers

(* The server answers what it has read: all else is empty then.            *)
LEMMA ServerAnswers ==
  ASSUME TypeOK, Alone, IoReads, NEW m \in Down, IoAnswer(m),
         inst = "connected" => Told(m)'
  PROVE  /\ Alone' /\ Numbers'
         /\ Queued(up_q)' = {} /\ ~IoReads'
         /\ inst # "connected" => dn_q' = <<>> /\ ~UiReads'
<1>1. Queued(up_q) = {} /\ dn_q = <<>> /\ ~UiReads /\ ~UiParsing
  BY DEF Alone
<1>2. up_q' = <<>> /\ (io_rd' = "done" => up_q # <<>> /\ io_buf' = Head(up_q))
  BY DEF IoAnswer, io_pipe_rx_init
<1>3. io_rd' = "done" => ~IsHandshake(io_buf')
  BY <1>1, <1>2, QueuedHead DEF TypeOK, PipeTypes
<1>4. ~IoReads' /\ (io_rd' = "done" => Asked(io_buf)')
  BY <1>3 DEF IoReads, Asked, IsHandshake
<1>5. Queued(up_q)' = {} /\ DOMAIN up_q' = {}
  BY <1>2, QueuedEmpty DEF Queued
<1>6. \/ UNCHANGED <<dn_q, ui_rd, ui_buf>>
      \/ inst = "connected" /\ dn_q' = <<>> /\ UiReads' /\ ui_buf' = m
      \/ inst = "connected" /\ dn_q' = Append(<<>>, m) /\ ~UiReads'
  BY <1>1 DEF IoAnswer, io_pipe_tx, UiReads
<1>7. ~UiParsing'
  BY <1>1 DEF IoAnswer, UiParsing
<1>8. Alone'
  <2>1. \A i, j \in DOMAIN dn_q' : i = j
    BY <1>1, <1>6, QueuedEmpty, OneElement
  <2> QED
    BY <1>1, <1>4, <1>5, <1>6, <1>7, <2>1 DEF Alone, UiReads
<1>9. \A i \in DOMAIN dn_q' : Told(dn_q[i])'
  <2>1. ASSUME NEW i \in DOMAIN dn_q' PROVE dn_q'[i] = m /\ inst = "connected"
    BY <1>1, <1>6, <2>1, QueuedEmpty, OneElement
  <2> QED
    BY <2>1 DEF Told, IsHandshake
<1>10. UiReads' => Told(ui_buf)'
  BY <1>1, <1>6 DEF UiReads, Told, IsHandshake
<1> QED
  BY <1>1, <1>4, <1>5, <1>6, <1>7, <1>8, <1>9, <1>10 DEF Numbers, UiReads

(* The UI writes its part of the dialogue when all is empty.               *)
LEMMA ClientSays ==
  ASSUME TypeOK, Queued(up_q) = {}, ~IoReads, dn_q = <<>>, ~UiReads,
         NEW m \in Up, ui_pipe_tx(m), Asked(m)', UNCHANGED <<dn_q, ui_rd>>,
         ~UiParsing'
  PROVE  Alone' /\ Numbers'
<1>1. dn_q' = <<>> /\ ~UiReads' /\ DOMAIN dn_q' = {}
  BY QueuedEmpty DEF UiReads
<1>2. \/ UNCHANGED <<up_q, io_rd, io_buf>>
      \/ up_q' = up_q /\ io_rd = "pending" /\ io_rd' = "done" /\ io_buf' = m
      \/ up_q' = Append(up_q, m) /\ UNCHANGED <<io_rd, io_buf>>
  BY DEF ui_pipe_tx
<1>3. /\ \A i, j \in Queued(up_q)' : i = j
      /\ Queued(up_q)' # {} => ~IoReads'
  BY <1>2, QueuedAppend DEF TypeOK, PipeTypes, IoReads, Queued, IsHandshake
<1>4. \A i \in DOMAIN up_q : up_q[i].kind # "ACK"
  BY DEF Queued, IsHandshake
<1>5. \A i \in DOMAIN up_q' : Asked(up_q[i])'
  <2>1. ASSUME NEW i \in DOMAIN up_q'
        PROVE  up_q'[i] = m \/ (i \in DOMAIN up_q /\ up_q'[i] = up_q[i])
    BY <1>2, <2>1, QueueElements DEF TypeOK, PipeTypes
  <2> QED
    BY <1>4, <2>1 DEF Asked
<1>6. io_rd' = "done" => Asked(io_buf)'
  BY <1>2 DEF IoReads, IsHandshake, Asked
<1> QED
  BY <1>1, <1>3, <1>5, <1>6 DEF Alone, Numbers

(* A command is not part of it. *)
LEMMA ClientCommands ==
  ASSUME TypeOK, Alone, Numbers, ui_pipe_tx(Msg("CMD", 0)),
         UNCHANGED <<dn_q, ui_rd, ui_pc, ui_buf, inst, io_cur, ui_cur>>
  PROVE  Alone' /\ Numbers' /\ Queued(up_q)' = Queued(up_q) /\ (IoReads' => IoReads)
<1> DEFINE m == Msg("CMD", 0)
<1>1. m \in Up /\ ~IsHandshake(m) /\ m.kind # "ACK"
  BY Messages, HandshakeKinds
<1>2. \/ UNCHANGED <<up_q, io_rd, io_buf>>
      \/ up_q' = up_q /\ io_rd' = "done" /\ io_buf' = m
      \/ up_q' = Append(up_q, m) /\ UNCHANGED <<io_rd, io_buf>>
  BY DEF ui_pipe_tx
<1> HIDE DEF m
<1>3. Queued(up_q)' = Queued(up_q)
  BY <1>1, <1>2, QueuedAppend DEF TypeOK, PipeTypes, Queued, IsHandshake
<1>4. IoReads' => IoReads
  BY <1>1, <1>2 DEF IoReads, IsHandshake
<1>5. UiReads' = UiReads /\ UiParsing' = UiParsing
  BY DEF UiReads, UiParsing
<1>6. Alone'
  BY <1>3, <1>4, <1>5 DEF Alone
<1>7. \A x : (Told(x) => Told(x)') /\ (Asked(x) => Asked(x)')
  BY DEF Told, Asked, IsHandshake, Slots
<1>8. Asked(m)'
  BY <1>1 DEF Asked
<1>9. \A i \in DOMAIN up_q' : Asked(up_q[i])'
  <2>1. ASSUME NEW i \in DOMAIN up_q'
        PROVE  up_q'[i] = m \/ (i \in DOMAIN up_q /\ up_q'[i] = up_q[i])
    BY <1>1, <1>2, <2>1, QueueElements DEF TypeOK, PipeTypes
  <2> QED
    BY <1>7, <1>8, <2>1 DEF Numbers, Asked
<1>10. io_rd' = "done" => Asked(io_buf)'
  BY <1>2, <1>7, <1>8 DEF Numbers, Asked
<1> QED
  BY <1>3, <1>4, <1>5, <1>6, <1>7, <1>9, <1>10 DEF Numbers

(* The device stays silent only if it was, and does not report then.       *)
LEMMA QuietBefore ==
  ASSUME TypeOK, [Next]_vars, Quiet'
  PROVE  Quiet /\ ~IoReports
<1>1. ~IoReports
  <2> SUFFICES ASSUME IoReports PROVE FALSE
    OBVIOUS
  <2>1. responses' = responses + 1 /\ responses \in Nat
    BY DEF IoReports, TypeOK, BoundTypes
  <2> QED
    BY <2>1 DEF Quiet
<1>2. responses' = responses
  BY <1>1
  DEF Next, vars, boundVars, IoStart, IoCrash, IoLoop, IoInit, IoAck, IoAckLast, IoAnswer,
      IoReady, IoCommand, IoDrops, IoRxFails, IoListens, IoConnected, IoDisconnects,
      DisconnectNamedPipe, UiStart, UiExit, UiCommand, UiLoop, UiReceives,
      UiReceivesTwo, UiRxFails, UiStartsTable, UiAddsCommand, UiEndsTable, UiReplies,
      UiPrints, UiWakes, UiTimesOut, UiConnects, UiFalls, UiDisconnects,
      UiPostsFirstRead, UiFirstReadSucceeds, UiSendsInit, UiProbes, UiTidies
<1> QED
  BY <1>1, <1>2 DEF Quiet

(* What the three parts know rules out the steps a device must speak for.  *)
LEMMA QuietSteps ==
  ASSUME TypeOK, UiSide, Alone, Numbers, Silent
  PROVE  ~UiReceivesTwo /\ ~UiFirstReadSucceeds /\ ~UiPrints
<1>1. ~UiReceivesTwo
  BY DEF UiReceivesTwo, Alone, UiReads
<1>2. ~UiFirstReadSucceeds
  BY DEF UiFirstReadSucceeds, UiAt, UiSide, Silent
<1>3. ~UiPrints
  BY DEF UiPrints, UiParses, UiParsing, Numbers, Told, IsHandshake
<1> QED
  BY <1>1, <1>2, <1>3

(* Every iteration of the IO process keeps the dialogue, *)
LEMMA IoDialogue ==
  ASSUME TypeOK, IoSide, UiSide, Alone, Numbers, Silent, IoLoop
  PROVE  Alone' /\ Numbers' /\ Silent'
<1>1. ASSUME NEW m \in Down, IoAnswer(m), IoReads, inst = "connected" => Told(m)'
      PROVE  Alone' /\ Numbers' /\ Silent'
  <2>1. /\ Alone' /\ Numbers' /\ Queued(up_q)' = {} /\ ~IoReads'
        /\ inst # "connected" => dn_q' = <<>> /\ ~UiReads'
    BY <1>1, ServerAnswers
  <2>2. UNCHANGED <<ui_conn, ui_pc, inst>>
    BY <1>1 DEF IoAnswer
  <2> QED
    BY <1>1, <2>1, <2>2 DEF Silent, UiSide
<1>2. CASE IoInit
  <2>1. IoReads
    BY <1>2 DEF IoInit, IoReceives, IoReads, IsHandshake
  <2>2. ASSUME NEW m, m = Msg("START", 0) PROVE m \in Down /\ Told(m)'
    BY <1>2, <2>2, Messages, HandshakeKinds DEF IoInit, Told, IsHandshake
  <2> QED
    BY <1>1, <1>2, <2>1, <2>2 DEF IoInit
<1>3. CASE IoAck
  <2>1. IoReads /\ (inst = "connected" => io_cur = ui_cur)
    BY <1>3 DEF IoAck, IoReceives, IoReads, IsHandshake, Numbers, Asked
  <2>2. ui_cur' = ui_cur /\ inst' = inst /\ io_cur' = io_cur + 1 /\ io_cur \in Slots
    BY <1>3 DEF IoAck, IoAnswer
  <2>3. ASSUME NEW m, m = Msg("CDEF", io_cur)
        PROVE  m \in Down /\ (inst = "connected" => Told(m)')
    <3>1. m \in Down
      BY <2>2, <2>3, Messages DEF Slots
    <3>2. IsHandshake(m) /\ m.kind = "CDEF" /\ m.num = io_cur
      BY <2>3, HandshakeKinds
    <3> QED
      BY <2>1, <2>2, <3>1, <3>2 DEF Told, IsHandshake, Slots
  <2> QED
    BY <1>1, <1>3, <2>1, <2>3 DEF IoAck
<1>4. CASE IoAckLast
  <2>1. IoReads /\ (inst = "connected" => io_cur = ui_cur)
    BY <1>4 DEF IoAckLast, IoReceives, IoReads, IsHandshake, Numbers, Asked
  <2>2. ui_cur' = ui_cur /\ inst' = inst /\ io_cur = NumCmds + 1
    BY <1>4 DEF IoAckLast, IoAnswer
  <2>3. ASSUME NEW m, m = Msg("END", 0)
        PROVE  m \in Down /\ (inst = "connected" => Told(m)')
    BY <2>1, <2>2, <2>3, Messages, HandshakeKinds DEF Told, IsHandshake
  <2> QED
    BY <1>1, <1>4, <2>1, <2>3 DEF IoAckLast
<1>5. CASE IoReady \/ IoCommand \/ IoDrops \/ IoRxFails \/ IoConnected
  <2>1. /\ up_q' = <<>>
        /\ io_rd' = "done" => up_q # <<>> /\ io_buf' = Head(up_q)
    BY <1>5
    DEF IoReady, IoCommand, IoDrops, IoRxFails, IoConnected, io_pipe_rx_init
  <2>2. UNCHANGED <<dn_q, ui_rd, ui_pc, ui_buf, inst, io_cur, ui_cur, ui_conn>>
    BY <1>5 DEF IoReady, IoCommand, IoDrops, IoRxFails, IoConnected, uiVars
  <2>3. Alone' /\ Numbers' /\ Queued(up_q)' = {} /\ (IoReads' => Queued(up_q) # {})
    BY <2>1, <2>2, ServerReads
  <2> QED
    BY <2>2, <2>3 DEF Silent, UiReads
<1>6. CASE IoListens
  <2>1. UNCHANGED <<up_q, dn_q, io_rd, io_buf, ui_rd, ui_buf, ui_pc, ui_cur, io_cur, ui_conn>>
        /\ (inst' = "connected" => inst' = inst)
    BY <1>6 DEF IoListens, uiVars
  <2>2. Alone' /\ Numbers'
    BY <2>1, LessTraffic DEF UiReads, UiParsing
  <2> QED
    BY <2>1, <2>2 DEF Silent, UiReads, IoReads, Queued, IsHandshake
<1>7. CASE IoDisconnects
  <2>1. /\ up_q' = <<>> /\ (dn_q' = dn_q \/ dn_q' = <<>>) /\ inst' = "disconnected"
        /\ io_rd' = "done" => io_rd = "done" /\ io_buf' = io_buf
        /\ ui_rd' = "done" => ui_rd = "done"
        /\ UNCHANGED <<ui_buf, ui_pc, ui_cur, ui_conn>>
    BY <1>7 DEF IoDisconnects, DisconnectNamedPipe
  <2>2. Alone' /\ Numbers'
    BY <2>1, LessTraffic DEF UiReads, UiParsing
  <2> QED
    BY <2>1, <2>2 DEF Silent, UiReads
<1> QED
  BY <1>2, <1>3, <1>4, <1>5, <1>6, <1>7 DEF IoLoop

(* and every step of the UI's loop, *)
LEMMA UiDialogue ==
  ASSUME TypeOK, IoSide, UiSide, Alone, Numbers, Silent, UiLoop
  PROVE  Alone' /\ Numbers' /\ Silent'
<1>1. ~UiReceivesTwo /\ ~UiFirstReadSucceeds /\ ~UiPrints
  BY QuietSteps
<1>2. CASE UiReceives
  <2>1. /\ UNCHANGED <<up_q, dn_q, io_rd, io_buf, io_cur, ui_cur, ui_buf, inst>>
        /\ dn_q = <<>> /\ ui_rd = "done" /\ ui_rd' # "done" /\ ui_pc' = "parse"
        /\ ui_conn' \in {"SET", "FALL"}
    BY <1>2 DEF UiReceives, UiWaits, ioVars, pipeVars
  <2>2. Queued(up_q)' = Queued(up_q) /\ IoReads' = IoReads
    BY <2>1 DEF Queued, IoReads, IsHandshake
  <2>3. Queued(up_q) = {} /\ ~IoReads
    BY <2>1 DEF Alone, UiReads
  <2>4. Alone'
    BY <2>1, <2>2, <2>3, QueuedEmpty DEF Alone, UiReads
  <2>5. \A m : (Told(m) => Told(m)') /\ (Asked(m) => Asked(m)')
    BY <2>1 DEF Told, Asked, IsHandshake, Slots
  <2>6. Numbers'
    BY <2>1, <2>5 DEF Numbers, UiReads
  <2>7. Silent'
    BY <2>1 DEF Silent
  <2> QED
    BY <2>4, <2>6, <2>7
<1>3. ASSUME NEW reply \in {"ACK", "READY"}, UiReplies(reply), UiAt("parse"),
             ui_pc' = "wait",
             inst = "connected" /\ reply = "ACK" => io_cur = ui_cur'
      PROVE  Alone' /\ Numbers' /\ Silent'
  <2>1. Queued(up_q) = {} /\ ~IoReads /\ dn_q = <<>> /\ ~UiReads
    BY <1>3 DEF Alone, UiParsing, UiAt
  <2>2. /\ UNCHANGED <<dn_q, ui_rd, inst, io_cur>> /\ ui_pipe_tx(Msg(reply, 0))
        /\ ~UiParsing'
    BY <1>3 DEF UiReplies, UiParsing
  <2>3. ASSUME NEW m, m = Msg(reply, 0) PROVE m \in Up /\ Asked(m)'
    <3>1. m \in Up /\ m.kind = reply
      BY <2>3, Messages, HandshakeKinds
    <3> QED
      BY <1>3, <2>2, <3>1 DEF Asked
  <2>4. Alone' /\ Numbers'
    BY <2>1, <2>2, <2>3, ClientSays
  <2>5. dn_q' = <<>> /\ ~UiReads' /\ ui_pc' = "wait"
    BY <1>3, <2>1, <2>2 DEF UiReads
  <2> QED
    BY <2>4, <2>5 DEF Silent
<1>4. CASE UiStartsTable
  <2>1. inst = "connected" => io_cur = 1
    BY <1>4 DEF UiStartsTable, UiParses, UiParsing, Numbers, Told
  <2> QED
    BY <1>3, <1>4, <2>1 DEF UiStartsTable, UiParses, UiAt
<1>5. CASE UiAddsCommand
  <2>1. inst = "connected" => io_cur = ui_cur + 1
    BY <1>5 DEF UiAddsCommand, UiParses, UiParsing, Numbers, Told
  <2> QED
    BY <1>3, <1>5, <2>1 DEF UiAddsCommand, UiParses, UiAt
<1>6. CASE UiEndsTable
  BY <1>3, <1>6 DEF UiEndsTable, UiParses, UiAt
<1>7. CASE UiSendsInit /\ inst = "connected"
  <2>1. Queued(up_q) = {} /\ ~IoReads /\ dn_q = <<>> /\ ~UiReads
    BY <1>7 DEF UiSendsInit, UiAt, Silent
  <2>2. /\ UNCHANGED <<dn_q, ui_rd, inst, io_cur, ui_conn>> /\ ui_pipe_tx(Msg("INIT", 0))
        /\ ui_pc' = "probe"
    BY <1>7 DEF UiSendsInit
  <2>3. ASSUME NEW m, m = Msg("INIT", 0) PROVE m \in Up /\ Asked(m)'
    BY <2>3, Messages, HandshakeKinds DEF Asked
  <2>4. Alone' /\ Numbers'
    BY <2>1, <2>2, <2>3, ClientSays DEF UiParsing
  <2> QED
    BY <2>1, <2>2, <2>4 DEF Silent, UiReads
<1>8. CASE UiFalls \/ (UiSendsInit /\ inst # "connected")
  <2>1. /\ UiDisconnects /\ UNCHANGED <<up_q, io_buf, ui_buf, ui_cur, io_cur>>
        /\ inst' # "connected" /\ dn_q' = <<>> /\ ui_pc' \in {"wait", "tidy"}
        /\ ui_rd' = "done" => ui_rd = "done"
        /\ io_rd' = "done" => io_rd = "done"
    BY <1>8 DEF UiFalls, UiSendsInit, UiDisconnects, CloseClient, Checked
  <2>2. Alone' /\ Numbers'
    BY <2>1, LessTraffic DEF UiReads, UiParsing
  <2>3. ~UiReads
    BY <1>8 DEF UiFalls, UiSendsInit, UiAt, UiSide, Silent, UiReads
  <2> QED
    BY <2>1, <2>2, <2>3 DEF Silent, UiReads
<1>9. CASE UiConnects
  <2>1. /\ UNCHANGED <<up_q, dn_q, io_rd, io_buf, io_cur, ui_cur, ui_buf, ui_rd>>
        /\ ui_pc' # "parse" /\ ui_conn = "CLR" /\ ui_pc' # "send INIT"
    BY <1>9 DEF UiConnects, UiAt, Checked
  <2>2. dn_q = <<>> /\ ~UiReads
    BY <2>1 DEF Silent
  <2>3. CASE inst = "listening"
    <3>1. up_q = <<>> /\ io_rd = "none"
      BY <2>3 DEF IoSide
    <3>2. Queued(up_q)' = {} /\ DOMAIN up_q' = {} /\ DOMAIN dn_q' = {} /\ ~IoReads'
      BY <2>1, <2>2, <3>1, QueuedEmpty DEF IoReads, Queued
    <3> QED
      BY <2>1, <2>2, <3>1, <3>2 DEF Alone, Numbers, Silent, UiReads, UiParsing
  <2>4. CASE inst # "listening"
    <3>1. inst' = inst /\ ui_pc' \in {"wait", "tidy"}
      BY <1>9, <2>4 DEF UiConnects, Checked
    <3>2. Alone' /\ Numbers'
      BY <2>1, <3>1, LessTraffic DEF UiReads, UiParsing
    <3> QED
      BY <2>1, <2>2, <3>1, <3>2 DEF Silent, UiReads
  <2> QED
    BY <2>3, <2>4
<1>10. CASE UiRxFails \/ UiWakes \/ UiTimesOut \/ UiProbes \/ UiTidies
            \/ UiPostsFirstRead
  <2>1. /\ UNCHANGED <<up_q, dn_q, io_rd, io_buf, io_cur, ui_cur, ui_buf>>
        /\ ui_rd' = "done" => ui_rd = "done"
        /\ ui_pc' # "parse" /\ ui_pc' # "first read"
        /\ inst' = "connected" => inst' = inst
    BY <1>10
    DEF UiRxFails, UiWakes, UiTimesOut, UiProbes, UiTidies, UiPostsFirstRead,
        UiWaits, Checked, ioVars, pipeVars
  <2>2. Alone' /\ Numbers'
    BY <2>1, LessTraffic DEF UiReads, UiParsing
  <2>3. CASE UiPostsFirstRead
    <3>1. /\ ui_pc = "first read" /\ ui_pc' = "send INIT" /\ inst' = inst /\ dn_q = <<>>
          /\ ui_conn = "RISE" /\ ui_conn' = "SET"
      BY <2>3 DEF UiPostsFirstRead, UiAt, UiSide, pipeVars
    <3>2. Queued(up_q)' = Queued(up_q) /\ IoReads' = IoReads
      BY <2>1 DEF Queued, IoReads, IsHandshake
    <3> QED
      BY <2>1, <2>2, <3>1, <3>2 DEF Silent, UiReads
  <2>4. CASE ~UiPostsFirstRead
    <3>1. ui_pc' # "send INIT" /\ (ui_conn' = ui_conn \/ ui_conn' = "FALL")
      BY <1>10, <2>4
      DEF UiRxFails, UiWakes, UiTimesOut, UiProbes, UiTidies, UiWaits, Checked
    <3> QED
      BY <2>1, <2>2, <3>1 DEF Silent, UiReads
  <2> QED
    BY <2>2, <2>3, <2>4
<1> QED
  BY <1>1, <1>2, <1>4, <1>5, <1>6, <1>7, <1>8, <1>9, <1>10 DEF UiLoop

(* and every start, end and command. *)
LEMMA DialogueStep ==
  ASSUME TypeOK, IoSide, UiSide, Alone, Numbers, Silent, [Next]_vars, Quiet'
  PROVE  Alone' /\ Numbers' /\ Silent'
<1>1. ~IoReports
  BY QuietBefore
<1>2. CASE IoStart \/ IoCrash
  <2>1. /\ up_q' = <<>> /\ dn_q' = dn_q /\ inst' # "connected" /\ io_rd' # "done"
        /\ ui_rd' = "done" => ui_rd = "done"
        /\ UNCHANGED <<ui_buf, ui_pc, ui_cur, ui_conn>>
    BY <1>2 DEF IoStart, IoCrash, uiVars
  <2>2. Alone' /\ Numbers'
    BY <2>1, LessTraffic DEF UiReads, UiParsing
  <2> QED
    BY <2>1, <2>2 DEF Silent, UiReads
<1>3. CASE UiStart \/ UiExit
  <2>1. /\ up_q' = up_q /\ dn_q' = <<>> /\ inst' # "connected" /\ ui_rd' # "done"
        /\ ui_pc' = "wait" /\ io_buf' = io_buf
        /\ io_rd' = "done" => io_rd = "done"
    BY <1>3 DEF UiStart, UiExit, UiEnds, CloseClient, UiSide, ioVars, pipeVars
  <2>2. Alone' /\ Numbers'
    BY <2>1, LessTraffic DEF UiReads, UiParsing
  <2> QED
    BY <2>1, <2>2 DEF Silent, UiReads
<1>4. CASE UiCommand
  <2>1. /\ ui_pipe_tx(Msg("CMD", 0)) /\ ui_pc = "wait"
        /\ UNCHANGED <<dn_q, ui_rd, ui_pc, ui_buf, inst, io_cur, ui_cur>>
        /\ ui_conn' \in {ui_conn, "FALL"}
    BY <1>4 DEF UiCommand, UiWaits, ui_after_tx
  <2>2. Alone' /\ Numbers'
    BY <2>1, ClientCommands
  <2> QED
    BY <2>1, <2>2 DEF Silent, UiReads
<1>5. CASE UNCHANGED vars
  <2>1. UNCHANGED <<up_q, dn_q, io_rd, io_buf, ui_rd, ui_buf, ui_pc, ui_cur, io_cur,
                    ui_conn, inst>>
    BY <1>5 DEF vars, ioVars, uiVars, pipeVars
  <2>2. Alone' /\ Numbers'
    BY <2>1, LessTraffic DEF UiReads, UiParsing
  <2> QED
    BY <2>1, <2>2 DEF Silent, UiReads, IoReads, Queued, IsHandshake
<1> QED
  BY <1>1, <1>2, <1>3, <1>4, <1>5, IoDialogue, UiDialogue DEF Next
-----------------------------------------------------------------------------
(* The UI's flag and its table, as long as the device is silent. *)

(* A UI whose flag falls is told, since READY or ACK is sent from the       *)
(* parser and fails there.  A response would be printed and the fall lost. *)
LEMMA UiWokenStep ==
  ASSUME TypeOK, UiSide, UiWoken, ~UiPrints, [Next]_vars
  PROVE  UiWoken'
<1>1. UNCHANGED <<ui_up, ui_pc, ui_conn, ui_ev>> /\ (Signalled(ui_rd) => Signalled(ui_rd)')
        => UiWoken'
  BY DEF UiWoken, Signalled
<1>2. CASE IoStart \/ IoCrash \/ IoReports \/ IoLoop \/ UNCHANGED vars
  <2>1. UNCHANGED <<ui_up, ui_pc, ui_conn, ui_ev>>
    BY <1>2
    DEF IoStart, IoCrash, IoReports, IoLoop, IoInit, IoAck, IoAckLast, IoAnswer, IoReady,
        IoCommand, IoDrops, IoRxFails, IoListens, IoConnected, IoDisconnects,
        DisconnectNamedPipe, vars, uiVars
  <2>2. \/ ui_rd' = ui_rd \/ ui_rd = "pending"
    BY <1>2
    DEF IoStart, IoCrash, IoReports, IoLoop, IoInit, IoAck, IoAckLast, IoAnswer, IoReady,
        IoCommand, IoDrops, IoRxFails, IoListens, IoConnected, IoDisconnects,
        DisconnectNamedPipe, io_pipe_tx, vars, uiVars
  <2> QED
    BY <1>1, <2>1, <2>2 DEF Signalled
<1>3. CASE UiStart \/ UiExit \/ UiReceivesTwo
  BY <1>3 DEF UiStart, UiExit, UiReceivesTwo, UiEnds, UiWoken
<1>4. CASE UiCommand
  BY <1>4 DEF UiCommand, ui_after_tx, UiWoken, Signalled
<1>5. CASE UiStartsTable \/ UiAddsCommand \/ UiEndsTable
  BY <1>5
  DEF UiStartsTable, UiAddsCommand, UiEndsTable, UiReplies, ui_after_tx, UiSide, UiWoken
<1>6. CASE UiReceives \/ UiRxFails \/ UiWakes \/ UiTimesOut \/ UiPostsFirstRead
  BY <1>6
  DEF UiReceives, UiRxFails, UiWakes, UiTimesOut, UiPostsFirstRead, UiIdle, UiWaits,
      UiWoken, Signalled
<1>7. CASE UiConnects
  BY <1>7 DEF UiConnects, UiWoken
<1>8. CASE UiFalls \/ UiFirstReadSucceeds
  BY <1>8 DEF UiFalls, UiDisconnects, UiFirstReadSucceeds, UiWoken
<1>9. CASE UiSendsInit
  BY <1>9 DEF UiSendsInit, UiDisconnects, UiWoken
<1>10. CASE UiProbes
  <2>1. ui_conn = "SET" /\ ui_rd # "none"
    BY <1>10 DEF UiProbes, UiAt, UiSide
  <2>2. inst # "connected" => Signalled(ui_rd)
    BY <2>1 DEF UiSide, Signalled, TypeOK, UiTypes, ReadState
  <2>3. (inst = "connected" => ui_conn' = "SET") /\ ui_rd' = ui_rd
    BY <1>10, <2>1 DEF UiProbes
  <2> QED
    BY <2>2, <2>3 DEF UiWoken, Signalled
<1>11. CASE UiTidies
  BY <1>11 DEF UiTidies, UiAt, UiWoken, Signalled
<1> QED
  BY <1>2, <1>3, <1>4, <1>5, <1>6, <1>7, <1>8, <1>9, <1>10, <1>11
  DEF Next, UiLoop

(* Only three steps touch the table. *)
LEMMA TableSteps ==
  ASSUME [Next]_vars, ~UiStart, ~UiAddsCommand, ~UiTidies
  PROVE  table' = table
BY
DEF Next, vars, uiVars, IoStart, IoCrash, IoReports, IoLoop, IoInit, IoAck, IoAckLast,
   IoAnswer, IoReady, IoCommand, IoDrops, IoRxFails, IoListens, IoConnected,
   IoDisconnects, DisconnectNamedPipe, UiExit, UiEnds, UiCommand, UiLoop, UiReceives,
   UiReceivesTwo, UiRxFails, UiStartsTable, UiEndsTable, UiReplies, UiPrints, UiWakes,
   UiTimesOut, UiConnects, UiFalls, UiDisconnects, UiPostsFirstRead,
   UiFirstReadSucceeds, UiSendsInit, UiProbes

(* They put a definition into its slot or clear the table.                  *)
LEMMA SlotsStep ==
  ASSUME TypeOK, Numbers, Quiet, SlotsInOrder, [Next]_vars
  PROVE  SlotsInOrder'
<1>1. \A k \in Slots : table[k] \in {0, k}
  BY DEF SlotsInOrder
<1>2. Slots' = Slots /\ \A k \in Slots : EmptyTable[k] = 0
  BY DEF Slots, EmptyTable
<1>3. CASE UiStart
  BY <1>2, <1>3 DEF UiStart, SlotsInOrder
<1>4. CASE UiAddsCommand
  <2>1. ui_buf.num = ui_cur /\ table \in [Slots -> Nat]
    BY <1>4
    DEF UiAddsCommand, UiParses, UiParsing, Numbers, Told, TypeOK, UiTypes
  <2>2. table' = table \/ table' = [table EXCEPT ![ui_cur] = ui_cur]
    BY <1>4, <2>1 DEF UiAddsCommand
  <2> QED
    BY <1>1, <1>2, <2>1, <2>2 DEF SlotsInOrder
<1>5. CASE UiTidies
  <2>1. table' = table \/ table' = EmptyTable
    BY <1>5 DEF UiTidies
  <2> QED
    BY <1>1, <1>2, <2>1 DEF SlotsInOrder
<1> QED
  BY <1>1, <1>2, <1>3, <1>4, <1>5, TableSteps DEF SlotsInOrder
-----------------------------------------------------------------------------
(* The connection and the table, when the IO process stays as well.        *)

(* The IO process has stayed only if it had before, and does not end then. *)
LEMMA StaysBefore ==
  ASSUME TypeOK, [Next]_vars, crashes' = 0
  PROVE  crashes = 0 /\ ~IoCrash
<1>1. ~IoCrash
  <2> SUFFICES ASSUME IoCrash PROVE FALSE
    OBVIOUS
  <2>1. crashes' = crashes + 1 /\ crashes \in Nat
    BY DEF IoCrash, TypeOK, BoundTypes
  <2> QED
    BY <2>1
<1>2. crashes' = crashes
  BY <1>1
  DEF Next, vars, boundVars, IoStart, IoReports, IoLoop, IoInit, IoAck, IoAckLast, IoAnswer,
      IoReady, IoCommand, IoDrops, IoRxFails, IoListens, IoConnected, IoDisconnects,
      DisconnectNamedPipe, UiStart, UiExit, UiCommand, UiLoop, UiReceives,
      UiReceivesTwo, UiRxFails, UiStartsTable, UiAddsCommand, UiEndsTable, UiReplies,
      UiPrints, UiWakes, UiTimesOut, UiConnects, UiFalls, UiDisconnects,
      UiPostsFirstRead, UiFirstReadSucceeds, UiSendsInit, UiProbes, UiTidies
<1> QED
  BY <1>1, <1>2

(* Every other step keeps the one connection of the UI.                    *)
LEMMA UnbrokenStep ==
  ASSUME TypeOK, IoSide, UiSide, Alone, Numbers, Silent, Unbroken, [Next]_vars,
         ~IoReports, ~IoCrash
  PROVE  Unbroken'
<1> USE DEF Unbroken
<1>1. ~UiReceivesTwo /\ ~UiFirstReadSucceeds /\ ~UiPrints
  BY QuietSteps
<1>2. ~UiFalls /\ ~UiRxFails
  BY DEF UiFalls, UiRxFails, UiAt, UiWaits
<1>3. CASE IoStart
  BY <1>3 DEF IoStart, IoSide, uiVars, Announced
<1>4. CASE IoInit \/ IoAck \/ IoAckLast
  <2>1. /\ io_up /\ io_rd = "done" /\ io_conn = "SET"
        /\ io_conn' = "FALL" => inst \notin {"connected", "leaked"}
        /\ ui_rd' = ui_rd \/ ui_rd' = "done"
        /\ UNCHANGED <<io_up, inst, ui_up, ui_conn, ui_ui, ready>>
    BY <1>4
    DEF IoInit, IoAck, IoAckLast, IoReceives, Handshaking, IoAnswer, io_pipe_tx,
        io_pipe_rx_init, AfterTx, TxOk
  <2>2. inst \notin {"listening", "disconnected", "none"}
    BY <2>1 DEF IoSide
  <2>3. io_up' /\ io_conn' = "FALL" => inst' \in {"closing", "disconnected"}
    BY <2>1, <2>2 DEF TypeOK, PipeTypes, PipeState
  <2> QED
    BY <2>1, <2>3 DEF Announced
<1>5. CASE IoReady \/ IoCommand \/ IoDrops \/ IoRxFails
  <2>1. /\ io_up /\ Signalled(io_rd)
        /\ io_conn' = "FALL" /\ io_conn # "FALL" /\ io_rd # "failed" =>
             inst \notin {"connected", "leaked"}
        /\ UNCHANGED <<io_up, inst, ui_up, ui_conn, ui_ui, ui_rd, ready>>
    BY <1>5
    DEF IoReady, IoCommand, IoDrops, IoRxFails, IoReceives, Signalled,
        io_pipe_rx_init, uiVars
  <2>2. inst # "none" /\ inst # "listening" /\ (io_rd = "done" => inst # "disconnected")
    BY <2>1 DEF IoSide, Signalled
  <2>3. io_up' /\ io_conn' = "FALL" => inst' \in {"closing", "disconnected"}
    BY <2>1, <2>2 DEF IoSide, Signalled, TypeOK, PipeTypes, PipeState
  <2> QED
    BY <2>1, <2>3 DEF Announced
<1>6. CASE IoListens
  BY <1>6 DEF IoListens, IoCheck, uiVars, Announced
<1>7. CASE IoConnected
  BY <1>7 DEF IoConnected, uiVars, Announced
<1>8. CASE IoDisconnects
  BY <1>8 DEF IoDisconnects, IoCheck, DisconnectNamedPipe, UiSide, Announced
<1>9. CASE UiStart
  BY <1>9 DEF UiStart, ioVars, pipeVars, Announced
<1>10. CASE UiExit
  BY <1>10 DEF UiExit, UiEnds, CloseClient
<1>11. CASE UiCommand
  BY <1>11 DEF UiCommand, UiWaits, ui_after_tx, Announced
<1>12. CASE UiReceives
  <2>1. ui_conn = "SET" /\ inst = "connected" /\ ui_up
    BY <1>12 DEF UiReceives, UiWaits, Silent, UiReads, TypeOK, UiTypes, Flag
  <2> QED
    BY <1>12, <2>1 DEF UiReceives, ioVars, pipeVars, Announced
<1>13. CASE UiStartsTable \/ UiAddsCommand \/ UiEndsTable
  <2>1. ui_up /\ ui_pc = "parse"
    BY <1>13 DEF UiStartsTable, UiAddsCommand, UiEndsTable, UiParses
  <2>2. ui_conn = "SET" /\ inst = "connected"
    BY <2>1 DEF UiSide, TypeOK, UiTypes, Flag
  <2>3. /\ UNCHANGED <<io_up, io_conn, inst, ui_up, ui_conn, ui_rd, ready>>
        /\ ui_ui' = ui_ui \/ ui_ui' = "RISE"
    BY <1>13, <2>2
    DEF UiStartsTable, UiAddsCommand, UiEndsTable, UiReplies, ui_after_tx
  <2> QED
    BY <2>2, <2>3 DEF Announced
<1>14. CASE UiWakes \/ UiTimesOut
  <2>1. UNCHANGED <<io_up, io_conn, inst, ui_up, ui_conn, ui_ui, ui_rd, ready>>
    BY <1>14 DEF UiWakes, UiTimesOut, ioVars, pipeVars
  <2> QED
    BY <2>1 DEF Announced
<1>19. CASE UiPostsFirstRead
  <2>1. inst = "connected"
    BY <1>19 DEF UiPostsFirstRead, UiAt, UiSide
  <2>2. /\ UNCHANGED <<io_up, io_conn, inst, ui_up, ui_ui, ready>>
        /\ ui_conn' = "SET" /\ ui_rd' # "failed"
    BY <1>19 DEF UiPostsFirstRead, ioVars, pipeVars
  <2> QED
    BY <2>1, <2>2 DEF Announced
<1>15. CASE UiConnects
  BY <1>15 DEF UiConnects, UiAt, Announced
<1>16. CASE UiSendsInit \/ UiProbes
  <2>1. inst = "connected"
    BY <1>16 DEF UiSendsInit, UiProbes, UiAt, UiSide
  <2>2. UNCHANGED <<io_up, io_conn, inst, ui_up, ui_conn, ui_ui, ui_rd, ready>>
    BY <1>16, <2>1 DEF UiSendsInit, UiProbes
  <2> QED
    BY <2>2 DEF Announced
<1>17. CASE UiTidies
  <2>1. /\ UNCHANGED <<io_up, io_conn, inst, ui_up, ui_conn, ui_rd>> /\ ui_up /\ ui_ui # "FALL"
        /\ \/ ui_ui = "RISE" /\ ui_ui' = "SET"
           \/ UNCHANGED <<ui_ui, ready>>
    BY <1>17 DEF UiTidies, UiAt, ioVars, pipeVars
  <2> QED
    BY <2>1 DEF Announced
<1>18. CASE UNCHANGED vars
  <2>1. UNCHANGED <<io_up, io_conn, inst, ui_up, ui_conn, ui_ui, ui_rd, ready>>
    BY <1>18 DEF vars, ioVars, uiVars, pipeVars
  <2> QED
    BY <2>1 DEF Announced
<1> QED
  BY <1>1, <1>2, <1>3, <1>4, <1>5, <1>6, <1>7, <1>8, <1>9, <1>10, <1>11, <1>12,
     <1>13, <1>14, <1>15, <1>16, <1>17, <1>18, <1>19 DEF Next, IoLoop, UiLoop

(* The table grows by the definition the UI expects and is never cleared.  *)
LEMMA FilledStep ==
  ASSUME TypeOK, Numbers, Unbroken, Filled, [Next]_vars
  PROVE  Filled'
<1>1. Slots' = Slots /\ NumCmds \in Nat
  BY BoundsAssumption DEF Slots
<1>2. CASE UiStart
  BY <1>1, <1>2 DEF UiStart, Filled, Announced, Slots
<1>3. CASE UiStartsTable
  <2>1. ui_cur' = 1 /\ UNCHANGED <<ui_up, table, ui_ui>>
    BY <1>3 DEF UiStartsTable, UiReplies
  <2>2. \A k \in Slots : ~(k < 1)
    BY DEF Slots
  <2> QED
    BY <1>1, <2>1, <2>2 DEF Filled, Announced
<1>4. CASE UiAddsCommand
  <2>1. ui_buf.num = ui_cur /\ ui_cur \in Slots /\ table \in [Slots -> Nat]
    BY <1>4
    DEF UiAddsCommand, UiParses, UiParsing, Numbers, Told, TypeOK, UiTypes
  <2>2. /\ table' = [table EXCEPT ![ui_cur] = ui_cur] /\ ui_cur' = ui_cur + 1
        /\ UNCHANGED <<ui_up, ui_ui>> /\ ui_up
    BY <1>4, <2>1 DEF UiAddsCommand, UiReplies, UiParses
  <2>3. \A k \in Slots : k < ui_cur + 1 => k < ui_cur \/ k = ui_cur
    BY <2>1 DEF Slots
  <2>4. \A k \in Slots : (table[k] = k \/ k = ui_cur) => table'[k] = k
    BY <2>1, <2>2
  <2> QED
    BY <1>1, <2>2, <2>3, <2>4 DEF Filled, Announced
<1>5. CASE UiEndsTable
  <2>1. ui_cur = NumCmds + 1 /\ ui_up
    BY <1>5 DEF UiEndsTable, UiParses, UiParsing, Numbers, Told
  <2>2. \A k \in Slots : k < ui_cur
    BY <1>1, <2>1 DEF Slots
  <2>3. UNCHANGED <<ui_up, table, ui_cur>>
    BY <1>5 DEF UiEndsTable, UiReplies
  <2> QED
    BY <1>1, <2>1, <2>2, <2>3 DEF Filled
<1>6. CASE UiTidies
  <2>1. UNCHANGED <<ui_up, table, ui_cur>> /\ (Announced' => Announced)
    BY <1>6 DEF UiTidies, UiAt, Unbroken, Announced
  <2> QED
    BY <1>1, <2>1 DEF Filled
<1>7. CASE UNCHANGED <<ui_up, ui_cur, table>> /\ (Announced' => Announced)
  BY <1>1, <1>7 DEF Filled
<1>8. CASE ~ui_up'
  BY <1>8 DEF Filled
<1>9. CASE IoStart \/ IoCrash \/ IoReports \/ IoLoop \/ UNCHANGED vars
  BY <1>7, <1>9
  DEF IoStart, IoCrash, IoReports, IoLoop, IoInit, IoAck, IoAckLast, IoAnswer, IoReady,
      IoCommand, IoDrops, IoRxFails, IoListens, IoConnected, IoDisconnects,
      DisconnectNamedPipe, vars, uiVars, Announced
<1>10. CASE UiExit \/ UiReceivesTwo
  BY <1>8, <1>10 DEF UiExit, UiReceivesTwo, UiEnds
<1>11. CASE UiCommand \/ UiReceives \/ UiRxFails \/ UiPrints \/ UiWakes \/ UiTimesOut
            \/ UiConnects \/ UiPostsFirstRead \/ UiProbes
  BY <1>7, <1>11
  DEF UiCommand, UiReceives, UiRxFails, UiPrints, UiWakes, UiTimesOut, UiConnects,
      UiPostsFirstRead, UiProbes, Announced
<1>12. CASE UiFalls \/ UiFirstReadSucceeds \/ UiSendsInit
  BY <1>7, <1>12
  DEF UiFalls, UiFirstReadSucceeds, UiSendsInit, UiDisconnects, Announced
<1> QED
  BY <1>2, <1>3, <1>4, <1>5, <1>6, <1>9, <1>10, <1>11, <1>12 DEF Next, UiLoop
-----------------------------------------------------------------------------
(* The invariant of all of this. *)
LEMMA Invariant == Spec => []IInv
<1>1. Init => IInv
  <2> SUFFICES ASSUME Init PROVE IInv
    OBVIOUS
  <2>1. IoSide /\ UiSide
    BY DEF Init, IoSide, UiSide, Signalled
  <2>2. Sessions
    BY QueuedEmpty DEF Init, Sessions
  <2>3. Alone /\ Numbers /\ Silent /\ UiWoken
    BY QueuedEmpty
    DEF Init, Alone, Numbers, Silent, UiWoken, IoReads, UiReads, UiParsing
  <2>4. SlotsInOrder
    BY DEF Init, SlotsInOrder, EmptyTable
  <2>5. Unbroken /\ Filled
    BY DEF Init, Unbroken, Filled, Announced
  <2> QED
    BY <2>1, <2>2, <2>3, <2>4, <2>5, TypeInit DEF IInv
<1>2. IInv /\ [Next]_vars => IInv'
  <2> SUFFICES ASSUME IInv, [Next]_vars PROVE IInv'
    OBVIOUS
  <2>1. TypeOK /\ IoSide /\ UiSide /\ Sessions
    BY DEF IInv
  <2>2. TypeOK' /\ IoSide' /\ UiSide' /\ Sessions'
    BY <2>1, TypeStep, IoSideStep, UiSideStep, SessionsStep
  <2>3. ASSUME Quiet'
        PROVE  /\ Alone /\ Numbers /\ Silent /\ UiWoken /\ SlotsInOrder
               /\ Quiet /\ ~IoReports /\ ~UiPrints
    <3>1. Quiet /\ ~IoReports
      BY <2>1, <2>3, QuietBefore
    <3>2. Alone /\ Numbers /\ Silent /\ UiWoken /\ SlotsInOrder
      BY <3>1 DEF IInv
    <3>3. ~UiPrints
      BY <2>1, <3>2, QuietSteps
    <3> QED
      BY <3>1, <3>2, <3>3
  <2>4. ASSUME Quiet' PROVE Alone' /\ Numbers' /\ Silent' /\ UiWoken' /\ SlotsInOrder'
    <3>1. Alone' /\ Numbers' /\ Silent'
      BY <2>1, <2>3, <2>4, DialogueStep
    <3>2. UiWoken'
      BY <2>1, <2>3, <2>4, UiWokenStep
    <3>3. SlotsInOrder'
      BY <2>1, <2>3, <2>4, SlotsStep
    <3> QED
      BY <3>1, <3>2, <3>3
  <2>5. ASSUME Quiet', (crashes = 0)' PROVE Unbroken' /\ Filled'
    <3>1. crashes = 0 /\ ~IoCrash
      BY <2>1, <2>5, StaysBefore
    <3>2. Unbroken /\ Filled
      BY <2>3, <2>5, <3>1 DEF IInv
    <3>3. Unbroken'
      BY <2>1, <2>3, <2>5, <3>1, <3>2, UnbrokenStep
    <3>4. Filled'
      BY <2>1, <2>3, <2>5, <3>2, FilledStep
    <3> QED
      BY <3>3, <3>4
  <2> QED
    BY <2>2, <2>4, <2>5 DEF IInv
<1> QED
  BY <1>1, <1>2, PTL DEF Spec

(* dbg-io.c: the IO process never waits with its flag RISE or FALL unless  *)
(* an event, a finished read or the next client will wake it.              *)
THEOREM IoWoken == Spec => []IoNotParked
<1>1. IInv => IoNotParked
  BY DEF IInv, IoSide, IoNotParked
<1> QED
  BY <1>1, Invariant, PTL

(* Both loops hold a connection only with a read posted on it.             *)
THEOREM Armed == Spec => []ReadsArmed
<1>1. IInv => ReadsArmed
  BY DEF IInv, IoSide, UiSide, ReadsArmed
<1> QED
  BY <1>1, Invariant, PTL

(* io_ui_cmd_proc runs for a UI that has announced itself on this          *)
(* connection, also when a UI before it was killed in its session.         *)
THEOREM Agreement == Spec => []SessionsAgree
<1>1. IInv => SessionsAgree
  BY DEF IInv, Sessions, SessionsAgree, Announced
<1> QED
  BY <1>1, Invariant, PTL

(* At most one message of the handshake is under way.                      *)
THEOREM OneMessage == Spec => []LockStep
<1>1. IInv => LockStep
  <2> SUFFICES ASSUME IInv, Quiet PROVE InFlight <= 1
    BY DEF LockStep
  <2>1. TypeOK /\ Alone /\ Numbers
    BY DEF IInv
  <2>2. /\ Queued(up_q) = {} => Cardinality(Queued(up_q)) = 0
        /\ Cardinality(Queued(up_q)) \in {0, 1}
    <3>1. CASE Queued(up_q) = {}
      BY <3>1, FS_EmptySet
    <3>2. CASE Queued(up_q) # {}
      <4>1. PICK i \in Queued(up_q) : TRUE
        BY <3>2
      <4>2. Queued(up_q) = {i}
        BY <2>1, <4>1 DEF Alone
      <4> QED
        BY <3>2, <4>2, FS_Singleton
    <3> QED
      BY <3>1, <3>2
  <2>3. /\ dn_q = <<>> => Cardinality(Queued(dn_q)) = 0
        /\ Cardinality(Queued(dn_q)) \in {0, 1}
    <3>1. CASE Queued(dn_q) = {}
      BY <3>1, FS_EmptySet
    <3>2. CASE Queued(dn_q) # {}
      <4>1. PICK i \in Queued(dn_q) : TRUE
        BY <3>2
      <4>2. Queued(dn_q) = {i}
        BY <2>1, <4>1 DEF Alone, Queued
      <4> QED
        BY <3>2, <4>2, FS_Singleton, QueuedEmpty
    <3> QED
      BY <3>1, <3>2
  <2>4. /\ OneIf(io_up /\ io_rd = "done" /\ IsHandshake(io_buf)) \in {0, 1}
        /\ ~IoReads => OneIf(io_up /\ io_rd = "done" /\ IsHandshake(io_buf)) = 0
    BY DEF OneIf, IoReads
  <2>5. /\ OneIf(ui_up /\ ui_rd = "done" /\ IsHandshake(ui_buf)) \in {0, 1}
        /\ ~UiReads => OneIf(ui_up /\ ui_rd = "done" /\ IsHandshake(ui_buf)) = 0
    BY DEF OneIf, UiReads
  <2>6. /\ OneIf(ui_up /\ ui_pc = "parse" /\ IsHandshake(ui_buf)) \in {0, 1}
        /\ ~UiParsing => OneIf(ui_up /\ ui_pc = "parse" /\ IsHandshake(ui_buf)) = 0
    BY DEF OneIf, UiParsing
  <2>7. /\ Queued(up_q) # {} => ~IoReads /\ dn_q = <<>> /\ ~UiReads /\ ~UiParsing
        /\ IoReads => dn_q = <<>> /\ ~UiReads /\ ~UiParsing
        /\ dn_q # <<>> => ~UiReads /\ ~UiParsing
        /\ UiReads => ~UiParsing
    BY <2>1 DEF Alone
  <2> QED
    BY <2>2, <2>3, <2>4, <2>5, <2>6, <2>7 DEF InFlight
<1> QED
  BY <1>1, Invariant, PTL

(* The table of a UI holds definition k in slot k or nothing.              *)
THEOREM InOrder == Spec => []SlotsInOrder
<1>1. IInv => SlotsInOrder
  BY DEF IInv, SlotsInOrder
<1> QED
  BY <1>1, Invariant, PTL

(* With an IO process that stays, a UI that is ready has every command.    *)
THEOREM Complete == Spec => []TableCompleteIfQuiet
<1>1. IInv => TableCompleteIfQuiet
  BY DEF IInv, UiSide, Filled, Announced, TableCompleteIfQuiet, TableComplete
<1> QED
  BY <1>1, Invariant, PTL

(* A UI that waits with its flag FALL or RISE will be woken for it.        *)
THEOREM UiIsWoken == Spec => []UiNotParked
<1>1. IInv => UiNotParked
  BY DEF IInv, UiSide, UiWoken, UiNotParked
<1> QED
  BY <1>1, Invariant, PTL

(* A UI ends only when it is quit or killed. *)
THEOREM EndsOnlyOnRequest == Spec => EndsOnRequestIfQuiet
<1>1. IInv /\ [Next]_vars => [Quiet /\ ui_up /\ ~ui_up' => exits' = exits + 1]_vars
  <2> SUFFICES ASSUME IInv, [Next]_vars, Quiet, ui_up, ~ui_up'
               PROVE  exits' = exits + 1
    OBVIOUS
  <2>1. ~UiReceivesTwo
    BY QuietSteps DEF IInv
  <2>2. CASE UiExit
    BY <2>2 DEF UiExit
  <2>3. CASE ~UiExit
    BY <2>1, <2>3
    DEF Next, vars, uiVars, IoStart, IoCrash, IoReports, IoLoop, IoInit, IoAck,
        IoAckLast, IoAnswer, IoReady, IoCommand, IoDrops, IoRxFails, IoListens,
        IoConnected, IoDisconnects, DisconnectNamedPipe, UiStart, UiCommand, UiLoop,
        UiReceives, UiRxFails, UiStartsTable, UiAddsCommand, UiEndsTable, UiReplies,
        UiPrints, UiWakes, UiTimesOut, UiConnects, UiFalls, UiDisconnects,
        UiPostsFirstRead, UiFirstReadSucceeds, UiSendsInit, UiProbes, UiTidies
  <2> QED
    BY <2>2, <2>3
<1> QED
  BY <1>1, Invariant, PTL DEF Spec, EndsOnRequestIfQuiet
=============================================================================
