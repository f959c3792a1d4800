------------------------------- MODULE DevRx -------------------------------
(***************************************************************************)
(* The receive side of the device connection of the IO process             *)
(* (bdm-dbg-io/dbg-io.c).                                                  *)
(*                                                                         *)
(* The device multiplexes two streams over one serial line: debug-log      *)
(* messages ("dbgl") and command responses ("crsp").  It cuts them into    *)
(* chunks; a chunk is one header byte (stream number, length) and that     *)
(* many bytes of the stream, and has nothing to do with where messages     *)
(* begin or end.  dev_rx_proc keeps exactly one overlapped read posted:    *)
(* for one chunk header, or for a piece of a message that is neither       *)
(* longer than the rest of the chunk nor than the rest of the message.     *)
(*                                                                         *)
(* One iteration of wmain's loop is two steps: main_loop_wait with the     *)
(* handler of the event it woke for (pc = "wait"), then dev_check          *)
(* (pc = "check").  The device, the serial driver and the cable are the    *)
(* environment; they act between any two steps of the loop.                *)
(***************************************************************************)
EXTENDS Naturals, Sequences

CONSTANTS
  HdrSize,     \* [Streams -> Nat]: bytes of a message header (2 and 6)
  Messages,    \* [Streams -> SUBSET Message]: what the firmware may send
  Garbage,     \* [Streams -> SUBSET Message]: what a mixed header may say
  ChunkLens,   \* lengths the firmware gives its chunks (6 bits: 0..63)
  MaxMsgs,     \* [Streams -> Nat]: bound, messages the device sends
  WireCap,     \* bound: bytes on the line and in the driver
  MaxUnplugs,  \* bound: times the cable is pulled
  MaxTx,       \* bound: commands written to the device
  EarlyTx      \* may the device talk before the IO process opened it?

Streams == {"dbgl", "crsp"}
None == "none"

Marks == {"LOG", "OVFL", "RSP", "BAD"}

(* A message by what its header says: the mark, and the size field.  The   *)
(* field counts the whole message in a log message, the payload alone in   *)
(* a response, and nothing in an overflow report.                          *)
Message == [mark : Marks, size : Nat]

ASSUME ConstantsAssumption ==
  /\ HdrSize \in [Streams -> Nat \ {0}]
  /\ Messages \in [Streams -> SUBSET Message]
  /\ Garbage \in [Streams -> SUBSET Message]
  /\ ChunkLens \subseteq 0 .. 63
  /\ MaxMsgs \in [Streams -> Nat] /\ WireCap \in Nat /\ MaxUnplugs \in Nat /\ MaxTx \in Nat
  /\ EarlyTx \in BOOLEAN

VARIABLES
  pc,          \* "wait", "check", or "hung" in the handler's while(1)
  dev_conn,    \* gt_flags.dev_conn
  not_idle,    \* the auto-reset event HANDLE_NOT_IDLE
  curr,        \* gt_dev_rx.pt_curr_stream
  stream_len,  \* gt_dev_rx.dw_stream_len
  btr,         \* dw_btr of each stream: length the message is known to have
  buf,         \* ca_buff[0 .. dw_wr_idx-1] of each stream; dw_wr_idx = Len
  rx,          \* the posted read: "none", "pending", "done" or "failed"
  req,         \* its length (dw_req_len_last)
  got,         \* the bytes it has received
  link,        \* "absent", "present", or "open": the IO process's handle works
  sent,        \* messages the device has queued on each stream, ever
  tx,          \* [m, o]: next byte the device puts on the line, per stream
  backlog,     \* queued bytes not yet covered by a chunk header, per stream
  chunk,       \* [s, left]: the chunk the device is transmitting
  wire,        \* bytes under way, oldest first
  delivered,   \* the last buffer a handler took for a message, per stream
  clean,       \* did this connection start in step, per stream
  expect,      \* index of the message next in line, per stream
  unplugs, txs \* counters for the bounds

loopVars == <<pc, dev_conn, not_idle>>
demuxVars == <<curr, stream_len, btr, buf>>
readVars == <<rx, req, got>>
deviceVars == <<link, sent, tx, backlog, chunk, wire>>
ghostVars == <<delivered, clean, expect>>
boundVars == <<unplugs, txs>>
vars == <<loopVars, demuxVars, readVars, deviceVars, ghostVars, boundVars>>

Min2(a, b) == IF a <= b THEN a ELSE b

(* Bytes of a message on the line. *)
Total(s, msg) == CASE s = "crsp" -> HdrSize[s] + msg.size
                   [] msg.mark = "LOG" -> msg.size
                   [] OTHER -> HdrSize[s]

(* A byte is known by where it comes from: byte o of message m of stream   *)
(* s.  Chunk headers have m = 0.  left counts the bytes of the chunk that  *)
(* follow it; in a header it is the length field itself.                   *)
HdrByte(s, n) == [s |-> s, m |-> 0, o |-> 0, left |-> n]
DataByte(s, m, o, n) == [s |-> s, m |-> m, o |-> o, left |-> n]
IsHdr(b) == b.m = 0

(* What the stream buffers hold: the origin of each byte. *)
Origin(b) == [s |-> b.s, m |-> b.m, o |-> b.o]
Origins(bs) == [i \in 1 .. Len(bs) |-> Origin(bs[i])]

(* A buffer that starts with the header of message m, in order. *)
StartsWith(s, m, b) ==
  \A i \in 1 .. HdrSize[s] : b[i] = [s |-> s, m |-> m, o |-> i - 1]

(* A buffer that is message m, whole. *)
IsMessage(s, m, b) ==
  /\ m \in 1 .. Len(sent[s])
  /\ Len(b) = Total(s, sent[s][m])
  /\ \A i \in 1 .. Len(b) : b[i] = [s |-> s, m |-> m, o |-> i - 1]

(* What the handlers may read in a complete header.  One that is pieced    *)
(* together from different messages says anything, except that its mark    *)
(* is the mark of the message its first byte starts.                       *)
Readings(s, b) ==
  IF b[1].m \in 1 .. Len(sent[s]) /\ StartsWith(s, b[1].m, b)
  THEN {sent[s][b[1].m]}
  ELSE {g \in Garbage[s] :
          (b[1].s = s /\ b[1].m \in 1 .. Len(sent[s]) /\ b[1].o = 0)
             => g.mark = sent[s][b[1].m].mark}

(* What a byte may say when it is read as a chunk header: data taken for   *)
(* a header names any stream, or one that does not exist.                  *)
ChunkReadings(b) ==
  IF IsHdr(b) THEN {[s |-> b.s, left |-> b.left]}
              ELSE [s : Streams \cup {None}, left : ChunkLens]
-----------------------------------------------------------------------------
Init ==
  /\ pc = "wait" /\ dev_conn = "UNDEF" /\ not_idle = TRUE
  /\ curr = None /\ stream_len = 0
  /\ btr = HdrSize
  /\ buf = [s \in Streams |-> <<>>]
  /\ rx = "none" /\ req = 0 /\ got = <<>>
  /\ link \in {"absent", "present"}
  /\ sent = [s \in Streams |-> <<>>]
  /\ tx = [s \in Streams |-> [m |-> 1, o |-> 0]]
  /\ backlog = [s \in Streams |-> 0]
  /\ chunk = [s |-> "dbgl", left |-> 0]
  /\ wire = <<>>
  /\ delivered = [s \in Streams |-> [msg |-> 0, bytes |-> <<>>]]
  /\ clean = [s \in Streams |-> FALSE]
  /\ expect = [s \in Streams |-> 1]
  /\ unplugs = 0 /\ txs = 0
-----------------------------------------------------------------------------
(* The device and the cable. *)

MayTalk == link = "open" \/ (EarlyTx /\ link = "present")

(* The firmware has a message for stream s. *)
DevQueue(s) ==
  /\ MayTalk
  /\ Len(sent[s]) < MaxMsgs[s]
  /\ \E msg \in Messages[s] :
       /\ sent' = [sent EXCEPT ![s] = Append(@, msg)]
       /\ backlog' = [backlog EXCEPT ![s] = @ + Total(s, msg)]
  /\ UNCHANGED <<link, tx, chunk, wire, loopVars, demuxVars, readVars,
                 ghostVars, boundVars>>

(* It opens a chunk of n bytes of stream s. *)
DevStartChunk(s, n) ==
  /\ MayTalk
  /\ chunk.left = 0
  /\ n <= backlog[s]
  /\ Len(wire) < WireCap
  /\ chunk' = [s |-> s, left |-> n]
  /\ backlog' = [backlog EXCEPT ![s] = @ - n]
  /\ wire' = Append(wire, HdrByte(s, n))
  /\ UNCHANGED <<link, sent, tx, loopVars, demuxVars, readVars, ghostVars,
                 boundVars>>

(* It transmits the next byte of the chunk. *)
DevByte ==
  LET s == chunk.s
      m == tx[s].m
      o == tx[s].o
  IN /\ link # "absent"
     /\ chunk.left > 0
     /\ Len(wire) < WireCap
     /\ wire' = Append(wire, DataByte(s, m, o, chunk.left - 1))
     /\ chunk' = [chunk EXCEPT !.left = @ - 1]
     /\ tx' = [tx EXCEPT ![s] =
                 IF o + 1 = Total(s, sent[s][m]) THEN [m |-> m + 1, o |-> 0]
                                                 ELSE [m |-> m, o |-> o + 1]]
     /\ UNCHANGED <<link, sent, backlog, loopVars, demuxVars, readVars,
                    ghostVars, boundVars>>

(* The cable is pulled: what was under way is lost, the device restarts    *)
(* with nothing queued, and a posted read fails.                           *)
DeviceLost ==
  /\ link' = "absent"
  /\ wire' = <<>>
  /\ chunk' = [chunk EXCEPT !.left = 0]
  /\ backlog' = [s \in Streams |-> 0]
  /\ tx' = [s \in Streams |-> [m |-> Len(sent[s]) + 1, o |-> 0]]
  /\ unplugs' = unplugs + 1
  /\ UNCHANGED <<sent, txs>>

Unplug ==
  /\ link # "absent"
  /\ unplugs < MaxUnplugs
  /\ DeviceLost
  /\ rx' = IF rx = "pending" THEN "failed" ELSE rx
  /\ UNCHANGED <<req, got, loopVars, demuxVars, ghostVars>>

Plug ==
  /\ link = "absent"
  /\ link' = "present"
  /\ UNCHANGED <<sent, tx, backlog, chunk, wire, loopVars, demuxVars, readVars,
                 ghostVars, boundVars>>
-----------------------------------------------------------------------------
(* The serial driver.  A read ends when it is full, or on its 200 ms       *)
(* timeout with what there is, possibly nothing.                           *)

DriverByte ==
  /\ rx = "pending"
  /\ wire # <<>>
  /\ Len(got) < req
  /\ got' = Append(got, Head(wire))
  /\ wire' = Tail(wire)
  /\ UNCHANGED <<rx, req, link, sent, tx, backlog, chunk, loopVars,
                 demuxVars, ghostVars, boundVars>>

DriverComplete ==
  /\ rx = "pending"
  /\ rx' = "done"
  /\ UNCHANGED <<req, got, loopVars, demuxVars, deviceVars, ghostVars, boundVars>>
-----------------------------------------------------------------------------
(* The main loop. *)

(* dev_rx_init: the read is refused when the device is gone, also when it  *)
(* is back but was not opened again.                                       *)
dev_rx_init(n) ==
  /\ req' = n
  /\ got' = <<>>
  /\ \/ /\ link = "open"
        /\ rx' = "pending"
        /\ UNCHANGED <<dev_conn, not_idle>>
     \/ /\ link # "open"
        /\ rx' = "none"
        /\ dev_conn' = "FALL"
        /\ not_idle' = TRUE

(* gt_flags.dev_conn = FL_FALL; SetEvent(NOT_IDLE), and no read posted. *)
Fall ==
  /\ dev_conn' = "FALL"
  /\ not_idle' = TRUE
  /\ rx' = "none"
  /\ UNCHANGED <<req, got>>

(* WaitForMultipleObjects reports the first signalled event of             *)
(* NOT_IDLE, IO_PIPE_RX, IO_PIPE_CONN, DEV_RX.                             *)
WakeNotIdle ==
  /\ pc = "wait" /\ not_idle
  /\ pc' = "check"
  /\ not_idle' = FALSE
  /\ UNCHANGED <<dev_conn, demuxVars, readVars, deviceVars, ghostVars, boundVars>>

WakeTimeout ==
  /\ pc = "wait" /\ ~not_idle /\ rx \notin {"done", "failed"}
  /\ pc' = "check"
  /\ UNCHANGED <<dev_conn, not_idle, demuxVars, readVars, deviceVars, ghostVars,
                 boundVars>>

(* A command from the UI ends in dev_tx. *)
WakeTx ==
  /\ pc = "wait" /\ ~not_idle
  /\ txs < MaxTx
  /\ txs' = txs + 1
  /\ pc' = "check"
  /\ IF dev_conn = "SET" /\ link # "open"
     THEN dev_conn' = "FALL" /\ not_idle' = TRUE
     ELSE UNCHANGED <<dev_conn, not_idle>>
  /\ UNCHANGED <<unplugs, demuxVars, readVars, deviceVars, ghostVars>>

(* The DEV_RX event with n_rc and gdw_dev_bytes_rcv as they come. *)
WakeRx == pc = "wait" /\ ~not_idle /\ rx = "done" /\ got # <<>>

RxFailed ==
  /\ pc = "wait" /\ ~not_idle /\ rx = "failed"
  /\ pc' = "check"
  /\ Fall
  /\ UNCHANGED <<demuxVars, deviceVars, ghostVars, boundVars>>

RxTimeoutNotRepeated ==  \* mutant
  /\ pc = "wait" /\ ~not_idle /\ rx = "done" /\ got = <<>>
  /\ pc' = "check"
  /\ rx' = "none"
  /\ UNCHANGED <<dev_conn, not_idle, req, got, demuxVars, deviceVars, ghostVars,
                 boundVars>>

RxTimeout ==
  /\ pc = "wait" /\ ~not_idle /\ rx = "done" /\ got = <<>>
  /\ pc' = "check"
  /\ dev_rx_init(req)
  /\ UNCHANGED <<demuxVars, deviceVars, ghostVars, boundVars>>
-----------------------------------------------------------------------------
(* dev_rx_proc *)

(* Bytes to ask for: no more than the chunk has left, nor than the message *)
(* still needs.  The difference is unsigned: when more was received than   *)
(* wanted it is huge and does not limit.                                   *)
RequestWholeChunk(left, want, have) == left  \* mutant

Request(left, want, have) ==
  IF want >= have THEN Min2(left, want - have) ELSE left

(* The end of dev_rx_proc: go on with the chunk or read the next header. *)
NextReadPerMessage(s, left, want, have) ==  \* mutant
  /\ stream_len' = left
  /\ curr' = IF have = 0 THEN None ELSE s
  /\ dev_rx_init(IF have = 0 THEN 1 ELSE Request(left, want, have))

NextRead(s, left, want, have) ==
  /\ stream_len' = left
  /\ curr' = IF left = 0 THEN None ELSE s
  /\ dev_rx_init(IF left = 0 THEN 1 ELSE Request(left, want, have))

(* A read for a header is one byte long, so "Garbage received", for any    *)
(* other number of bytes, cannot come up.                                  *)
RxChunkHeader ==
  /\ WakeRx /\ curr = None
  /\ pc' = "check"
  /\ \E h \in ChunkReadings(got[1]) :
       \/ /\ h.s # None
          /\ NextRead(h.s, h.left, btr[h.s], Len(buf[h.s]))
       \/ /\ h.s = None                      \* "Garbage received 2"
          /\ stream_len' = h.left
          /\ Fall /\ UNCHANGED curr
  /\ UNCHANGED <<btr, buf, deviceVars, ghostVars, boundVars>>

LeftWithHeader == stream_len - Len(got) - 1  \* mutant
Left == stream_len - Len(got)
Received(s) == buf[s] \o Origins(got)

(* Data for stream s that completes neither a header nor a message. *)
RxPartial(s) ==
  /\ WakeRx /\ curr = s
  /\ Len(Received(s)) < btr[s]
  /\ pc' = "check"
  /\ buf' = [buf EXCEPT ![s] = Received(s)]
  /\ NextRead(s, Left, btr[s], Len(Received(s)))
  /\ UNCHANGED <<btr, deviceVars, ghostVars, boundVars>>

(* "Garbage received 3": more than asked for. *)
RxOverrun(s) ==
  /\ WakeRx /\ curr = s
  /\ Len(Received(s)) > btr[s]
  /\ pc' = "check"
  /\ buf' = [buf EXCEPT ![s] = Received(s)]
  /\ stream_len' = Left
  /\ Fall
  /\ UNCHANGED <<curr, btr, deviceVars, ghostVars, boundVars>>

(* pf_handler is called with exactly dw_btr bytes in the buffer ... *)
HandlerCalled(s) == WakeRx /\ curr = s /\ Len(Received(s)) = btr[s]
HeaderRead(s) == Len(Received(s)) = HdrSize[s]

(* ... which either learns how long the message is and keeps the buffer, *)
AwaitMessage(s, n) ==
  /\ pc' = "check"
  /\ buf' = [buf EXCEPT ![s] = Received(s)]
  /\ btr' = [btr EXCEPT ![s] = n]
  /\ NextRead(s, Left, n, Len(Received(s)))
  /\ UNCHANGED <<deviceVars, ghostVars, boundVars>>

(* ... or has a message, and starts on the next one. *)
Deliver(s) ==
  /\ pc' = "check"
  /\ delivered' = [delivered EXCEPT ![s] =
        [msg |-> IF clean[s] THEN expect[s] ELSE 0, bytes |-> Received(s)]]
  /\ expect' = [expect EXCEPT ![s] = @ + 1]
  /\ buf' = [buf EXCEPT ![s] = <<>>]
  /\ btr' = [btr EXCEPT ![s] = HdrSize[s]]
  /\ NextRead(s, Left, HdrSize[s], 0)
  /\ UNCHANGED <<clean, deviceVars, boundVars>>

(* dev_rx_stream_handler_dbgl.  dw_btr differs from the header size only   *)
(* after a LOG or LOG_ISR mark, so the test of the mark that guards the    *)
(* last part holds whenever that part is reached.                          *)
DbglHeaderCountedTwice ==  \* mutant
  /\ HandlerCalled("dbgl") /\ HeaderRead("dbgl")
  /\ \E h \in Readings("dbgl", Received("dbgl")) :
       \/ h.mark = "OVFL" /\ Deliver("dbgl")
       \/ h.mark = "LOG"  /\ AwaitMessage("dbgl", HdrSize["dbgl"] + h.size)
       \/ h.mark \notin {"OVFL", "LOG"} /\ AwaitMessage("dbgl", btr["dbgl"])

DbglHeaderOverflowKept ==  \* mutant
  /\ HandlerCalled("dbgl") /\ HeaderRead("dbgl")
  /\ \E h \in Readings("dbgl", Received("dbgl")) :
       \/ h.mark = "LOG"  /\ AwaitMessage("dbgl", h.size)
       \/ h.mark # "LOG" /\ AwaitMessage("dbgl", btr["dbgl"])

DbglHeader ==
  /\ HandlerCalled("dbgl") /\ HeaderRead("dbgl")
  /\ \E h \in Readings("dbgl", Received("dbgl")) :
       \/ h.mark = "OVFL" /\ Deliver("dbgl")
       \/ h.mark = "LOG"  /\ AwaitMessage("dbgl", h.size)
       \/ h.mark \notin {"OVFL", "LOG"} /\ AwaitMessage("dbgl", btr["dbgl"])

DbglMessage ==
  HandlerCalled("dbgl") /\ ~HeaderRead("dbgl") /\ Deliver("dbgl")

(* dev_rx_stream_handler_crsp.  The mark is tested again when the payload  *)
(* is in, but the byte is the same one.                                    *)
CrspHeader ==
  /\ HandlerCalled("crsp") /\ HeaderRead("crsp")
  /\ \E h \in Readings("crsp", Received("crsp")) :
       \/ /\ h.mark = "RSP" /\ h.size # HdrSize["crsp"]
          /\ AwaitMessage("crsp", HdrSize["crsp"] + h.size)
       \/ /\ h.mark = "RSP" /\ h.size = HdrSize["crsp"]
          /\ Deliver("crsp")
       \/ /\ h.mark # "RSP"                  \* while (1);
          /\ pc' = "hung"
          /\ buf' = [buf EXCEPT !["crsp"] = Received("crsp")]
          /\ stream_len' = Left
          /\ rx' = "none"
          /\ UNCHANGED <<dev_conn, not_idle, curr, btr, req, got, deviceVars,
                         ghostVars, boundVars>>

CrspMessage ==
  HandlerCalled("crsp") /\ ~HeaderRead("crsp") /\ Deliver("crsp")
-----------------------------------------------------------------------------
(* dev_check *)

(* dev_open succeeds: the line is purged, the demultiplexer asks for a     *)
(* chunk header.  Nothing else of its state is reset.                      *)
CheckOpens ==
  /\ pc = "check" /\ dev_conn \in {"CLR", "UNDEF"} /\ link # "absent"
  /\ pc' = "wait"
  /\ link' = "open"
  /\ dev_conn' = "SET"
  /\ not_idle' = TRUE
  /\ curr' = None
  /\ rx' = "pending" /\ req' = 1 /\ got' = <<>>
  /\ wire' = <<>>
  /\ clean' = [s \in Streams |-> /\ buf[s] = <<>> /\ btr[s] = HdrSize[s]
                                 /\ chunk.left = 0 /\ tx[s].o = 0]
  /\ expect' = [s \in Streams |-> tx[s].m]
  /\ UNCHANGED <<stream_len, btr, buf, delivered, sent, tx, backlog,
                 chunk, boundVars>>

(* The device disappears between dev_open and the first read. *)
CheckOpensThenLost ==
  /\ pc = "check" /\ dev_conn \in {"CLR", "UNDEF"} /\ link # "absent"
  /\ unplugs < MaxUnplugs
  /\ DeviceLost
  /\ pc' = "wait"
  /\ dev_conn' = "FALL"
  /\ not_idle' = TRUE
  /\ curr' = None
  /\ rx' = "none" /\ req' = 1 /\ got' = <<>>
  /\ UNCHANGED <<stream_len, btr, buf, ghostVars>>

(* dev_open fails: the first failure is a FALL, handled at once. *)
CheckOpenFails ==
  /\ pc = "check" /\ dev_conn \in {"CLR", "UNDEF"} /\ link = "absent"
  /\ pc' = "wait"
  /\ not_idle' = (not_idle \/ dev_conn = "UNDEF")
  /\ dev_conn' = "CLR"
  /\ UNCHANGED <<demuxVars, readVars, deviceVars, ghostVars, boundVars>>

CheckClosesOnly ==  \* mutant
  /\ pc = "check" /\ dev_conn = "FALL"
  /\ pc' = "wait"
  /\ link' = IF link = "open" THEN "present" ELSE link
  /\ rx' = "none"
  /\ UNCHANGED <<dev_conn, not_idle, req, got, sent, tx, backlog, chunk, wire,
                 demuxVars, ghostVars, boundVars>>

CheckCloses ==
  /\ pc = "check" /\ dev_conn = "FALL"
  /\ pc' = "wait"
  /\ dev_conn' = "CLR"
  /\ link' = IF link = "open" THEN "present" ELSE link
  /\ rx' = "none"
  /\ UNCHANGED <<not_idle, req, got, sent, tx, backlog, chunk, wire, demuxVars,
                 ghostVars, boundVars>>

CheckConnected ==
  /\ pc = "check" /\ dev_conn = "SET"
  /\ pc' = "wait"
  /\ UNCHANGED <<dev_conn, not_idle, demuxVars, readVars, deviceVars, ghostVars,
                 boundVars>>
-----------------------------------------------------------------------------
Device ==
  \/ \E s \in Streams : DevQueue(s)
  \/ \E s \in Streams, n \in ChunkLens : DevStartChunk(s, n)
  \/ DevByte

Driver == DriverByte \/ DriverComplete

MainLoopWait ==
  \/ WakeNotIdle \/ WakeTimeout \/ WakeTx
  \/ RxFailed \/ RxTimeout \/ RxChunkHeader
  \/ \E s \in Streams : RxPartial(s) \/ RxOverrun(s)
  \/ DbglHeader \/ DbglMessage \/ CrspHeader \/ CrspMessage

DevCheck ==
  CheckOpens \/ CheckOpensThenLost \/ CheckOpenFails \/ CheckCloses
  \/ CheckConnected

Next == Device \/ Unplug \/ Plug \/ Driver \/ MainLoopWait \/ DevCheck

Spec == Init /\ [][Next]_vars

(* The loop runs on (its wait has a timeout), reads end, bytes sent while  *)
(* reads keep being posted do arrive, and the firmware flushes what it has *)
(* queued: it neither stops in a chunk, nor sends empty chunks or chunks   *)
(* of the other stream for ever.  Nothing makes it queue a message, and    *)
(* nobody has to plug the cable in.                                        *)
Fairness ==
  /\ WF_vars(MainLoopWait) /\ WF_vars(DevCheck)
  /\ WF_vars(DriverComplete) /\ SF_vars(DriverByte)
  /\ WF_vars(DevByte)
  /\ \A s \in Streams : SF_vars(\E n \in ChunkLens \ {0} : DevStartChunk(s, n))

FairSpec == Spec /\ Fairness
-----------------------------------------------------------------------------
(* Properties. *)

ByteOrigin == [s : Streams, m : Nat, o : Nat]
WireByte == [s : Streams, m : Nat, o : Nat, left : Nat]

LoopTypes ==
  /\ pc \in {"wait", "check", "hung"}
  /\ dev_conn \in {"UNDEF", "CLR", "SET", "FALL"}
  /\ not_idle \in BOOLEAN

DemuxTypes ==
  /\ curr \in Streams \cup {None}
  /\ stream_len \in Nat
  /\ btr \in [Streams -> Nat]
  /\ buf \in [Streams -> Seq(ByteOrigin)]

ReadTypes ==
  /\ rx \in {"none", "pending", "done", "failed"}
  /\ req \in Nat
  /\ got \in Seq(WireByte)

DeviceTypes ==
  /\ link \in {"absent", "present", "open"}
  /\ sent \in [Streams -> Seq(Message)]
  /\ tx \in [Streams -> [m : Nat, o : Nat]]
  /\ backlog \in [Streams -> Nat]
  /\ chunk \in [s : Streams, left : Nat]
  /\ wire \in Seq(WireByte)

GhostTypes ==
  /\ delivered \in [Streams -> [msg : Nat, bytes : Seq(ByteOrigin)]]
  /\ clean \in [Streams -> BOOLEAN]
  /\ expect \in [Streams -> Nat]

BoundTypes == unplugs \in Nat /\ txs \in Nat

(* Every variable of the demultiplexer, the driver and the device has its  *)
(* type (gt_dev_rx, T_DEV_RX_STREAM and the flags of dbg-io.c): above all, *)
(* dw_stream_len, which is unsigned, is never reduced below zero.          *)
TypeOK ==
  /\ LoopTypes /\ DemuxTypes /\ ReadTypes
  /\ DeviceTypes /\ GhostTypes /\ BoundTypes

(* The loop never waits on an open device without a read posted: dev_conn  *)
(* = SET means that bytes of the device will be noticed.  Every path of    *)
(* dev_rx_proc, dev_check and the handlers has to end in dev_rx_init or in *)
(* the FALL flag.                                                          *)
ReadArmed == dev_conn = "SET" /\ pc = "wait" => rx # "none"

(* What the demultiplexer believes of the chunk is what is on the line:    *)
(* the next byte it will get is a chunk header exactly when it reads one,  *)
(* and otherwise dw_stream_len counts the bytes of the chunk still to come *)
(* (once the connection started between two chunks).                       *)
ChunkInSync ==
  (\E s \in Streams : clean[s]) /\ link = "open" /\ rx \in {"pending", "done"}
    => LET next == got \o wire
       IN IF next = <<>>
          THEN IF curr = None THEN chunk.left = 0
               ELSE chunk.s = curr /\ chunk.left = stream_len
          ELSE IF curr = None THEN IsHdr(next[1])
               ELSE /\ ~IsHdr(next[1])
                    /\ next[1].s = curr
                    /\ next[1].left + 1 = stream_len

(* A posted read always asks for something, and for nothing beyond the     *)
(* chunk or the message it belongs to: a zero-length read would never end  *)
(* in data, a longer one would take the next message's bytes.              *)
RequestInBounds ==
  rx \in {"pending", "done"} /\ dev_conn = "SET" =>
    IF curr = None THEN req = 1
    ELSE clean[curr] =>
           /\ req \in 1 .. stream_len
           /\ Len(buf[curr]) + req <= btr[curr]

(* However the device cuts its streams into chunks, interleaves them, and  *)
(* however reads are split by timeouts: what a handler of a stream takes   *)
(* for its k-th message is that message, whole, in order, with none lost   *)
(* in between (on every connection that started in step).                  *)
DeliveredIntact ==
  \A s \in Streams :
    delivered[s].msg # 0 => IsMessage(s, delivered[s].msg, delivered[s].bytes)

(* dbg-io.c:1302 stops the IO process for good on a mark that is not a     *)
(* response's.  The firmware sends no such mark, so that the process stops *)
(* only on a connection that did not start between two responses, never by *)
(* a loss of place of its own: not even when the log stream started in the *)
(* middle of a message, is cut into chunks that share none of its          *)
(* boundaries, or overruns its buffer and makes the loop drop the line.    *)
HangsOnlyOutOfStep == pc = "hung" => ~clean["crsp"]

(* Every message the device queues on a connection that started in step,   *)
(* on both streams, reaches its handler, unless the cable is pulled out:   *)
(* the loop does not close such a connection by itself.                    *)
AllDelivered ==
  \A s \in Streams : \A i \in 1 .. MaxMsgs[s] :
    (/\ link = "open" /\ \A t \in Streams : clean[t]
     /\ Len(sent[s]) >= i /\ expect[s] <= i)
      ~> (delivered[s].msg >= i \/ link = "absent")

(* A device that is plugged in is opened, whatever happened before, unless *)
(* it is pulled out again, or the process hangs in the while (1) of        *)
(* dbg-io.c:1307: that ends every later connection too.                    *)
Reconnects == link = "present" ~> link \in {"open", "absent"} \/ pc = "hung"

(* dbg-io.c:1242 "Full DBGL message received": what the last part of the   *)
(* log handler prints is one message of the device.                        *)
LogMessageIsFull ==
  LET b == delivered["dbgl"].bytes
  IN b # <<>> => \E m \in 1 .. Len(sent["dbgl"]) : IsMessage("dbgl", m, b)

(* dbg-io.c:1310-1316 "Check is header received", "Check is payload        *)
(* present", "Request response reminder": a response without a payload is  *)
(* complete with its header.  In the code it never is: dw_btr stays what   *)
(* is there already, so that every further read for the response stream    *)
(* has length zero, ends with no bytes and is "just" repeated (1553-1557). *)
EmptyResponseCompletes ==
  \A i \in 1 .. MaxMsgs["crsp"] :
    (Len(sent["crsp"]) >= i /\ sent["crsp"][i].size = 0) ~> expect["crsp"] > i
=============================================================================
