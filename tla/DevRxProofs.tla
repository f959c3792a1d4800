---------------------------- MODULE DevRxProofs ----------------------------
(***************************************************************************)
(* Proofs about DevRx, for every value of its constants: the types, that   *)
(* the main loop never waits on an open device without a read posted, and  *)
(* that dev_rx_proc keeps its place in the chunks of the device.           *)
(*                                                                         *)
(* The type invariant is not inductive: dw_stream_len is unsigned and is   *)
(* reduced by what a read returned, so the proof has to know that a read   *)
(* returns no more than was asked for and never asks for more than the     *)
(* chunk has left (ReadFits).  That a read is posted has to be known in    *)
(* the middle of an iteration too, where dev_check relies on it (Armed).   *)
(*                                                                         *)
(* ChunkInSync only speaks of the next byte, which is not inductive: what  *)
(* comes after it was sent earlier and has to fit as well.  FrameInv says  *)
(* it of every byte under way: the bytes of a read in progress are counted *)
(* off the chunk that dw_stream_len tells of (ChunkCounted), and the line  *)
(* continues them without a gap up to what the device is sending           *)
(* (LineFramed).  Nothing is assumed of the messages: the framing does not *)
(* depend on what the streams carry.                                       *)
(***************************************************************************)
EXTENDS DevRx, TLAPS, SequenceTheorems

(* A posted read returns at most what it asked for; one for data asks for  *)
(* at most what the chunk has left.                                        *)
ReadFits ==
  /\ Len(got) <= req
  /\ curr # None /\ rx \in {"pending", "done"} => req <= stream_len

(* Connected means armed, also between the handler and dev_check. *)
Armed == dev_conn = "SET" /\ pc # "hung" => rx # "none"

IInv == TypeOK /\ ReadFits /\ Armed
-----------------------------------------------------------------------------
(* The helpers. *)

(* What dev_rx_proc asks for is a length, and not beyond the chunk         *)
(* (dbg-io.c:1123-1156, with the subtraction guarded).                     *)
LEMMA RequestBounded ==
  ASSUME NEW left \in Nat, NEW want \in Nat, NEW have \in Nat
  PROVE  Request(left, want, have) \in Nat /\ Request(left, want, have) <= left
BY DEF Request, Min2

(* Copying what a read returned into a stream buffer keeps its length.     *)
LEMMA OriginsSeq ==
  ASSUME NEW bs \in Seq(WireByte)
  PROVE  Origins(bs) \in Seq(ByteOrigin) /\ Len(Origins(bs)) = Len(bs)
<1> DEFINE e(i) == Origin(bs[i])
<1>1. Len(bs) \in Nat
  BY LenProperties
<1>2. ASSUME NEW i \in 1 .. Len(bs) PROVE e(i) \in ByteOrigin
  <2>1. bs[i] \in WireByte
    BY ElementOfSeq
  <2> QED
    BY <2>1 DEF Origin, ByteOrigin, WireByte
<1>3. [i \in 1 .. Len(bs) |-> e(i)] \in Seq(ByteOrigin)
  BY <1>1, <1>2, SeqDef
<1> QED
  BY <1>1, <1>3, LenProperties DEF Origins

(* A stream buffer after a read is a buffer (dbg-io.c:1103-1121).          *)
LEMMA ReceivedSeq ==
  ASSUME TypeOK, NEW s \in Streams
  PROVE  Received(s) \in Seq(ByteOrigin) /\ Len(Received(s)) \in Nat
<1>1. Origins(got) \in Seq(ByteOrigin)
  BY OriginsSeq DEF TypeOK, ReadTypes
<1>2. buf[s] \in Seq(ByteOrigin)
  BY DEF TypeOK, DemuxTypes
<1> QED
  BY <1>1, <1>2, ConcatProperties, LenProperties DEF Received

(* Whatever a header says is a message or garbage, so its size is a length *)
(* (the cast of ca_buff to a header in both handlers).                     *)
LEMMA ReadingsAreMessages ==
  ASSUME TypeOK, NEW s \in Streams, NEW b, NEW h \in Readings(s, b)
  PROVE  h \in Message /\ h.size \in Nat
<1>1. h \in Message
  <2>1. CASE b[1].m \in 1 .. Len(sent[s]) /\ StartsWith(s, b[1].m, b)
    <3>1. sent[s] \in Seq(Message)
      BY DEF TypeOK, DeviceTypes
    <3> QED
      BY <2>1, <3>1, ElementOfSeq DEF Readings
  <2>2. CASE ~(b[1].m \in 1 .. Len(sent[s]) /\ StartsWith(s, b[1].m, b))
    BY <2>2, ConstantsAssumption DEF Readings
  <2> QED
    BY <2>1, <2>2
<1> QED
  BY <1>1 DEF Message

(* dev_rx_init keeps the types, and what it leaves behind is an empty read *)
(* of the length asked for, or the FALL flag.                              *)
LEMMA InitRead ==
  ASSUME TypeOK, NEW n \in Nat, dev_rx_init(n)
  PROVE  /\ ReadTypes'
         /\ dev_conn' \in {"UNDEF", "CLR", "SET", "FALL"} /\ not_idle' \in BOOLEAN
         /\ req' = n /\ Len(got') = 0
         /\ dev_conn' = "SET" => rx' = "pending"
<1>1. got' = <<>> /\ got' \in Seq(WireByte) /\ Len(got') = 0
  BY EmptySeq DEF dev_rx_init
<1> QED
  BY <1>1 DEF dev_rx_init, ReadTypes, TypeOK, LoopTypes

(* The end of dev_rx_proc posts a read that fits, and is armed.            *)
LEMMA NextReadFits ==
  ASSUME TypeOK, NEW s \in Streams, NEW left \in Nat, NEW want \in Nat,
         NEW have \in Nat, NextRead(s, left, want, have),
         pc' \in {"wait", "check", "hung"}
  PROVE  /\ LoopTypes' /\ ReadTypes' /\ ReadFits' /\ Armed'
         /\ curr' \in Streams \cup {None} /\ stream_len' \in Nat
<1> DEFINE n == IF left = 0 THEN 1 ELSE Request(left, want, have)
<1>1. n \in Nat /\ (left # 0 => n <= left)
  BY RequestBounded
<1>2. dev_rx_init(n)
  BY DEF NextRead
<1>3. stream_len' = left /\ curr' = IF left = 0 THEN None ELSE s
  BY DEF NextRead
<1>4. /\ ReadTypes'
      /\ dev_conn' \in {"UNDEF", "CLR", "SET", "FALL"} /\ not_idle' \in BOOLEAN
      /\ req' = n /\ Len(got') = 0
      /\ dev_conn' = "SET" => rx' = "pending"
  <2> HIDE DEF n
  <2> QED
    BY <1>1, <1>2, InitRead
<1>5. ReadFits'
  <2>1. Len(got') <= req'
    BY <1>1, <1>4
  <2>2. ASSUME curr' # None PROVE req' <= stream_len'
    BY <1>1, <1>3, <1>4, <2>2
  <2> QED
    BY <2>1, <2>2 DEF ReadFits
<1> QED
  BY <1>3, <1>4, <1>5 DEF LoopTypes, Armed
-----------------------------------------------------------------------------
(* A group of variables that a step leaves alone keeps its types. *)
LEMMA UnchangedTypes ==
  ASSUME TypeOK
  PROVE  /\ UNCHANGED loopVars => LoopTypes'
         /\ UNCHANGED demuxVars => DemuxTypes'
         /\ UNCHANGED readVars => ReadTypes'
         /\ UNCHANGED deviceVars => DeviceTypes'
         /\ UNCHANGED ghostVars => GhostTypes'
         /\ UNCHANGED boundVars => BoundTypes'
BY DEF TypeOK, LoopTypes, DemuxTypes, ReadTypes, DeviceTypes, GhostTypes,
       BoundTypes, loopVars, demuxVars, readVars, deviceVars, ghostVars,
       boundVars

(* Initially nothing is posted and nothing is connected.                   *)
LEMMA InitIInv == Init => IInv
<1> SUFFICES ASSUME Init PROVE IInv
  OBVIOUS
<1>1. <<>> \in Seq(WireByte) /\ <<>> \in Seq(ByteOrigin) /\ <<>> \in Seq(Message)
      /\ Len(<<>>) = 0
  BY EmptySeq
<1>2. TypeOK
  <2>1. LoopTypes /\ BoundTypes
    BY DEF Init, LoopTypes, BoundTypes
  <2>2. DemuxTypes
    BY <1>1, ConstantsAssumption DEF Init, DemuxTypes
  <2>3. ReadTypes
    BY <1>1 DEF Init, ReadTypes
  <2>4. DeviceTypes
    BY <1>1 DEF Init, DeviceTypes, Streams
  <2>5. GhostTypes
    BY <1>1 DEF Init, GhostTypes
  <2> QED
    BY <2>1, <2>2, <2>3, <2>4, <2>5 DEF TypeOK
<1>3. ReadFits /\ Armed
  BY <1>1 DEF Init, ReadFits, Armed
<1> QED
  BY <1>2, <1>3 DEF IInv
-----------------------------------------------------------------------------
(* The environment: only Unplug and the driver touch the posted read.      *)

LEMMA DeviceStep == IInv /\ Device => IInv'
<1> SUFFICES ASSUME IInv, Device PROVE IInv'
  OBVIOUS
<1> USE DEF IInv
<1>1. ASSUME NEW s \in Streams, DevQueue(s) PROVE IInv'
  <2>1. PICK msg \in Messages[s] :
          /\ sent' = [sent EXCEPT ![s] = Append(@, msg)]
          /\ backlog' = [backlog EXCEPT ![s] = @ + Total(s, msg)]
    BY <1>1 DEF DevQueue
  <2>2. msg \in Message /\ Total(s, msg) \in Nat
    BY ConstantsAssumption DEF Message, Total, Marks
  <2>3. Append(sent[s], msg) \in Seq(Message)
    BY <2>2 DEF TypeOK, DeviceTypes
  <2>4. DeviceTypes'
    BY <1>1, <2>1, <2>2, <2>3 DEF DevQueue, TypeOK, DeviceTypes
  <2>5. UNCHANGED <<loopVars, demuxVars, readVars, ghostVars, boundVars>>
    BY <1>1 DEF DevQueue
  <2>6. TypeOK'
    BY <2>4, <2>5, UnchangedTypes DEF TypeOK
  <2> QED
    BY <2>5, <2>6 DEF ReadFits, Armed, loopVars, demuxVars, readVars
<1>2. ASSUME NEW s \in Streams, NEW n \in ChunkLens, DevStartChunk(s, n)
      PROVE IInv'
  <2>1. n \in Nat
    BY ConstantsAssumption
  <2>2. HdrByte(s, n) \in WireByte
    BY <2>1 DEF HdrByte, WireByte
  <2>3. Append(wire, HdrByte(s, n)) \in Seq(WireByte)
    BY <2>2 DEF TypeOK, DeviceTypes
  <2>4. backlog[s] \in Nat /\ n <= backlog[s] /\ backlog[s] - n \in Nat
    BY <1>2, <2>1 DEF DevStartChunk, TypeOK, DeviceTypes
  <2>5. DeviceTypes'
    BY <1>2, <2>1, <2>3, <2>4 DEF DevStartChunk, TypeOK, DeviceTypes
  <2>6. UNCHANGED <<loopVars, demuxVars, readVars, ghostVars, boundVars>>
    BY <1>2 DEF DevStartChunk
  <2>7. TypeOK'
    BY <2>5, <2>6, UnchangedTypes DEF TypeOK
  <2> QED
    BY <2>6, <2>7 DEF ReadFits, Armed, loopVars, demuxVars, readVars
<1>3. ASSUME DevByte PROVE IInv'
  <2> DEFINE s == chunk.s
             m == tx[s].m
             o == tx[s].o
             b == DataByte(s, m, o, chunk.left - 1)
             t == IF o + 1 = Total(s, sent[s][m]) THEN [m |-> m + 1, o |-> 0]
                                                 ELSE [m |-> m, o |-> o + 1]
  <2>1. s \in Streams /\ chunk.left - 1 \in Nat
    BY <1>3 DEF DevByte, TypeOK, DeviceTypes
  <2>2. m \in Nat /\ o \in Nat
    BY <2>1 DEF TypeOK, DeviceTypes
  <2>3. b \in WireByte /\ t \in [m : Nat, o : Nat]
    BY <2>1, <2>2 DEF DataByte, WireByte
  <2>4. /\ wire' = Append(wire, b)
        /\ chunk' = [chunk EXCEPT !.left = @ - 1]
        /\ tx' = [tx EXCEPT ![s] = t]
        /\ UNCHANGED <<link, sent, backlog>>
    BY <1>3 DEF DevByte
  <2>5. DeviceTypes'
    <3>1. wire' \in Seq(WireByte)
      BY <2>3, <2>4 DEF TypeOK, DeviceTypes
    <3>2. tx' \in [Streams -> [m : Nat, o : Nat]]
      BY <2>1, <2>3, <2>4 DEF TypeOK, DeviceTypes
    <3>3. chunk' \in [s : Streams, left : Nat]
      BY <2>1, <2>4 DEF TypeOK, DeviceTypes
    <3> QED
      BY <2>4, <3>1, <3>2, <3>3 DEF TypeOK, DeviceTypes
  <2>6. UNCHANGED <<loopVars, demuxVars, readVars, ghostVars, boundVars>>
    BY <1>3 DEF DevByte
  <2>7. TypeOK'
    BY <2>5, <2>6, UnchangedTypes DEF TypeOK
  <2> QED
    BY <2>6, <2>7 DEF ReadFits, Armed, loopVars, demuxVars, readVars
<1> QED
  BY <1>1, <1>2, <1>3 DEF Device

(* Pulling the cable leaves the device's variables well typed.             *)
LEMMA DeviceLostTypes ==
  ASSUME TypeOK, DeviceLost
  PROVE  DeviceTypes' /\ BoundTypes'
<1>1. \A s \in Streams : Len(sent[s]) + 1 \in Nat
  <2> TAKE s \in Streams
  <2>1. sent[s] \in Seq(Message)
    BY DEF TypeOK, DeviceTypes
  <2> QED
    BY <2>1, LenProperties
<1>2. <<>> \in Seq(WireByte)
  BY EmptySeq
<1>3. tx' \in [Streams -> [m : Nat, o : Nat]]
  BY <1>1 DEF DeviceLost
<1>4. chunk' \in [s : Streams, left : Nat]
  BY DEF DeviceLost, TypeOK, DeviceTypes
<1> QED
  BY <1>2, <1>3, <1>4 DEF DeviceLost, TypeOK, DeviceTypes, BoundTypes

LEMMA CableStep == IInv /\ (Unplug \/ Plug) => IInv'
<1> SUFFICES ASSUME IInv, Unplug \/ Plug PROVE IInv'
  OBVIOUS
<1> USE DEF IInv
<1>1. CASE Unplug
  <2>1. DeviceTypes' /\ BoundTypes'
    BY <1>1, DeviceLostTypes DEF Unplug
  <2>2. ReadTypes'
    BY <1>1 DEF Unplug, TypeOK, ReadTypes
  <2>3. UNCHANGED <<req, got, loopVars, demuxVars, ghostVars>>
    BY <1>1 DEF Unplug
  <2>4. TypeOK'
    BY <2>1, <2>2, <2>3, UnchangedTypes DEF TypeOK
  <2>5. rx' = IF rx = "pending" THEN "failed" ELSE rx
    BY <1>1 DEF Unplug
  <2> QED
    BY <2>3, <2>4, <2>5 DEF ReadFits, Armed, loopVars, demuxVars
<1>2. CASE Plug
  <2>1. UNCHANGED <<loopVars, demuxVars, readVars, ghostVars, boundVars>>
    BY <1>2 DEF Plug
  <2>2. DeviceTypes'
    BY <1>2 DEF Plug, TypeOK, DeviceTypes
  <2>3. TypeOK'
    BY <2>1, <2>2, UnchangedTypes DEF TypeOK
  <2> QED
    BY <2>1, <2>3 DEF ReadFits, Armed, loopVars, demuxVars, readVars
<1> QED
  BY <1>1, <1>2

(* The driver never puts more into a read than it asked for.               *)
LEMMA DriverStep == IInv /\ Driver => IInv'
<1> SUFFICES ASSUME IInv, Driver PROVE IInv'
  OBVIOUS
<1> USE DEF IInv
<1>1. CASE DriverByte
  <2>1. wire \in Seq(WireByte) /\ wire # <<>> /\ got \in Seq(WireByte)
    BY <1>1 DEF DriverByte, TypeOK, DeviceTypes, ReadTypes
  <2>2. Head(wire) \in WireByte /\ Tail(wire) \in Seq(WireByte)
    BY <2>1, HeadTailProperties
  <2>3. got' \in Seq(WireByte) /\ Len(got') = Len(got) + 1 /\ Len(got) \in Nat
    BY <1>1, <2>1, <2>2, LenProperties DEF DriverByte
  <2>4. ReadTypes' /\ DeviceTypes'
    BY <1>1, <2>2, <2>3 DEF DriverByte, TypeOK, ReadTypes, DeviceTypes
  <2>5. UNCHANGED <<rx, req, loopVars, demuxVars, ghostVars, boundVars>>
    BY <1>1 DEF DriverByte
  <2>6. TypeOK'
    BY <2>4, <2>5, UnchangedTypes DEF TypeOK
  <2>7. Len(got') <= req'
    BY <1>1, <2>3, <2>5 DEF DriverByte, TypeOK, ReadTypes
  <2> QED
    BY <2>5, <2>6, <2>7 DEF ReadFits, Armed, loopVars, demuxVars
<1>2. CASE DriverComplete
  <2>1. UNCHANGED <<req, got, loopVars, demuxVars, deviceVars, ghostVars, boundVars>>
    BY <1>2 DEF DriverComplete
  <2>2. ReadTypes'
    BY <1>2 DEF DriverComplete, TypeOK, ReadTypes
  <2>3. TypeOK'
    BY <2>1, <2>2, UnchangedTypes DEF TypeOK
  <2> QED
    BY <1>2, <2>1, <2>3 DEF DriverComplete, ReadFits, Armed, loopVars, demuxVars
<1> QED
  BY <1>1, <1>2 DEF Driver
-----------------------------------------------------------------------------
(* dev_rx_proc and its handlers.                                           *)

(* dw_stream_len is not reduced below zero (dbg-io.c:1123-1156).           *)
LEMMA LeftNat ==
  ASSUME IInv, NEW s \in Streams, WakeRx, curr = s
  PROVE  Left \in Nat
<1>1. s # None
  BY DEF Streams, None
<1>2. Len(got) <= req /\ req <= stream_len
  BY <1>1 DEF IInv, ReadFits, WakeRx
<1>3. Len(got) \in Nat /\ req \in Nat /\ stream_len \in Nat
  BY LenProperties DEF IInv, TypeOK, ReadTypes, DemuxTypes
<1> QED
  BY <1>2, <1>3 DEF Left

(* A handler that has a header keeps the buffer.                           *)
LEMMA AwaitMessageStep ==
  ASSUME IInv, NEW s \in Streams, NEW n \in Nat, WakeRx, curr = s,
         AwaitMessage(s, n)
  PROVE  IInv'
<1>1. TypeOK
  BY DEF IInv
<1>2. Received(s) \in Seq(ByteOrigin) /\ Len(Received(s)) \in Nat /\ Left \in Nat
  BY <1>1, ReceivedSeq, LeftNat
<1>3. NextRead(s, Left, n, Len(Received(s))) /\ pc' = "check"
  BY DEF AwaitMessage
<1>4. /\ LoopTypes' /\ ReadTypes' /\ ReadFits' /\ Armed'
      /\ curr' \in Streams \cup {None} /\ stream_len' \in Nat
  BY <1>1, <1>2, <1>3, NextReadFits
<1>5. DemuxTypes'
  BY <1>1, <1>2, <1>4 DEF AwaitMessage, TypeOK, DemuxTypes
<1>6. UNCHANGED <<deviceVars, ghostVars, boundVars>>
  BY DEF AwaitMessage
<1> QED
  BY <1>1, <1>4, <1>5, <1>6, UnchangedTypes DEF IInv, TypeOK

(* A handler that has a message starts on the next one.                    *)
LEMMA DeliverStep ==
  ASSUME IInv, NEW s \in Streams, WakeRx, curr = s, Deliver(s)
  PROVE  IInv'
<1>1. TypeOK
  BY DEF IInv
<1>2. Received(s) \in Seq(ByteOrigin) /\ Left \in Nat /\ HdrSize[s] \in Nat
  BY <1>1, ReceivedSeq, LeftNat, ConstantsAssumption
<1>3. NextRead(s, Left, HdrSize[s], 0) /\ pc' = "check"
  BY DEF Deliver
<1>4. /\ LoopTypes' /\ ReadTypes' /\ ReadFits' /\ Armed'
      /\ curr' \in Streams \cup {None} /\ stream_len' \in Nat
  BY <1>1, <1>2, <1>3, NextReadFits
<1>5. DemuxTypes'
  <2>1. <<>> \in Seq(ByteOrigin)
    BY EmptySeq
  <2> QED
    BY <1>1, <1>2, <1>4, <2>1 DEF Deliver, TypeOK, DemuxTypes
<1>6. GhostTypes'
  <2>1. expect[s] \in Nat
    BY <1>1 DEF TypeOK, GhostTypes
  <2> DEFINE d == [msg |-> IF clean[s] THEN expect[s] ELSE 0, bytes |-> Received(s)]
  <2>2. d \in [msg : Nat, bytes : Seq(ByteOrigin)]
    BY <1>2, <2>1
  <2>3. /\ delivered' = [delivered EXCEPT ![s] = d]
        /\ expect' = [expect EXCEPT ![s] = @ + 1]
        /\ clean' = clean
    BY DEF Deliver
  <2> QED
    BY <1>1, <2>1, <2>2, <2>3 DEF TypeOK, GhostTypes
<1>7. UNCHANGED <<deviceVars, boundVars>>
  BY DEF Deliver
<1> QED
  BY <1>1, <1>4, <1>5, <1>6, <1>7, UnchangedTypes DEF IInv, TypeOK

(* Fall leaves no read, and the flag that makes dev_check close.           *)
LEMMA FallTypes ==
  ASSUME TypeOK, Fall, pc' = "check"
  PROVE  LoopTypes' /\ ReadTypes' /\ Armed'
BY DEF Fall, TypeOK, LoopTypes, ReadTypes, Armed

LEMMA ChunkHeaderStep ==
  ASSUME IInv, RxChunkHeader
  PROVE  IInv'
<1>1. TypeOK
  BY DEF IInv
<1>2. got \in Seq(WireByte) /\ got # <<>>
  BY <1>1 DEF RxChunkHeader, WakeRx, TypeOK, ReadTypes
<1>3. got[1] \in WireByte
  <2>1. Len(got) \in Nat \ {0}
    BY <1>2, EmptySeq
  <2> QED
    BY <1>2, <2>1, ElementOfSeq
<1>4. PICK h \in ChunkReadings(got[1]) :
        \/ h.s # None /\ NextRead(h.s, h.left, btr[h.s], Len(buf[h.s]))
        \/ h.s = None /\ stream_len' = h.left /\ Fall /\ UNCHANGED curr
  BY DEF RxChunkHeader
<1>5. h.s \in Streams \cup {None} /\ h.left \in Nat
  <2>1. ChunkLens \subseteq Nat
    BY ConstantsAssumption
  <2>2. CASE IsHdr(got[1])
    <3>1. h = [s |-> got[1].s, left |-> got[1].left]
      BY <2>2 DEF ChunkReadings
    <3> QED
      BY <1>3, <3>1 DEF WireByte
  <2>3. CASE ~IsHdr(got[1])
    <3>1. h \in [s : Streams \cup {None}, left : ChunkLens]
      BY <2>3 DEF ChunkReadings
    <3> QED
      BY <2>1, <3>1
  <2> QED
    BY <2>2, <2>3
<1>6. pc' = "check" /\ UNCHANGED <<btr, buf, deviceVars, ghostVars, boundVars>>
  BY DEF RxChunkHeader
<1>7. CASE h.s # None /\ NextRead(h.s, h.left, btr[h.s], Len(buf[h.s]))
  <2>1. h.s \in Streams
    BY <1>5, <1>7
  <2>2. btr[h.s] \in Nat /\ Len(buf[h.s]) \in Nat
    BY <1>1, <2>1, LenProperties DEF TypeOK, DemuxTypes
  <2>3. /\ LoopTypes' /\ ReadTypes' /\ ReadFits' /\ Armed'
        /\ curr' \in Streams \cup {None} /\ stream_len' \in Nat
    BY <1>1, <1>5, <1>6, <1>7, <2>1, <2>2, NextReadFits
  <2>4. DemuxTypes'
    BY <1>1, <1>6, <2>3 DEF TypeOK, DemuxTypes
  <2> QED
    BY <1>1, <1>6, <2>3, <2>4, UnchangedTypes DEF IInv, TypeOK
<1>8. CASE h.s = None /\ stream_len' = h.left /\ Fall /\ UNCHANGED curr
  <2>1. LoopTypes' /\ ReadTypes' /\ Armed'
    BY <1>1, <1>6, <1>8, FallTypes
  <2>2. DemuxTypes'
    BY <1>1, <1>5, <1>6, <1>8 DEF TypeOK, DemuxTypes
  <2>3. ReadFits'
    BY <1>8 DEF IInv, ReadFits, Fall
  <2> QED
    BY <1>1, <1>6, <2>1, <2>2, <2>3, UnchangedTypes DEF IInv, TypeOK
<1> QED
  BY <1>4, <1>7, <1>8

LEMMA PartialStep ==
  ASSUME IInv, NEW s \in Streams, RxPartial(s)
  PROVE  IInv'
<1>1. TypeOK /\ btr[s] \in Nat
  BY DEF IInv, TypeOK, DemuxTypes
<1>2. Received(s) \in Seq(ByteOrigin) /\ Len(Received(s)) \in Nat /\ Left \in Nat
  BY <1>1, ReceivedSeq, LeftNat DEF RxPartial
<1>3. NextRead(s, Left, btr[s], Len(Received(s))) /\ pc' = "check"
  BY DEF RxPartial
<1>4. /\ LoopTypes' /\ ReadTypes' /\ ReadFits' /\ Armed'
      /\ curr' \in Streams \cup {None} /\ stream_len' \in Nat
  BY <1>1, <1>2, <1>3, NextReadFits
<1>5. DemuxTypes'
  BY <1>1, <1>2, <1>4 DEF RxPartial, TypeOK, DemuxTypes
<1>6. UNCHANGED <<deviceVars, ghostVars, boundVars>>
  BY DEF RxPartial
<1> QED
  BY <1>1, <1>4, <1>5, <1>6, UnchangedTypes DEF IInv, TypeOK

LEMMA OverrunStep ==
  ASSUME IInv, NEW s \in Streams, RxOverrun(s)
  PROVE  IInv'
<1>1. TypeOK
  BY DEF IInv
<1>2. Received(s) \in Seq(ByteOrigin) /\ Left \in Nat
  BY <1>1, ReceivedSeq, LeftNat DEF RxOverrun
<1>3. Fall /\ pc' = "check"
  BY DEF RxOverrun
<1>4. LoopTypes' /\ ReadTypes' /\ Armed'
  BY <1>1, <1>3, FallTypes
<1>5. DemuxTypes'
  BY <1>1, <1>2 DEF RxOverrun, TypeOK, DemuxTypes
<1>6. ReadFits'
  BY <1>3 DEF IInv, ReadFits, Fall
<1>7. UNCHANGED <<deviceVars, ghostVars, boundVars>>
  BY DEF RxOverrun
<1> QED
  BY <1>1, <1>4, <1>5, <1>6, <1>7, UnchangedTypes DEF IInv, TypeOK

(* dev_rx_stream_handler_dbgl                                              *)
LEMMA DbglStep ==
  ASSUME IInv, DbglHeader \/ DbglMessage
  PROVE  IInv'
<1>1. TypeOK /\ "dbgl" \in Streams /\ btr["dbgl"] \in Nat
  BY DEF IInv, TypeOK, DemuxTypes, Streams
<1>2. WakeRx /\ curr = "dbgl"
  BY DEF DbglHeader, DbglMessage, HandlerCalled
<1>3. CASE DbglHeader
  <2>1. PICK h \in Readings("dbgl", Received("dbgl")) :
          \/ h.mark = "OVFL" /\ Deliver("dbgl")
          \/ h.mark = "LOG"  /\ AwaitMessage("dbgl", h.size)
          \/ h.mark \notin {"OVFL", "LOG"} /\ AwaitMessage("dbgl", btr["dbgl"])
    BY <1>3 DEF DbglHeader
  <2>2. h.size \in Nat
    BY <1>1, ReadingsAreMessages
  <2> QED
    BY <1>1, <1>2, <2>1, <2>2, DeliverStep, AwaitMessageStep
<1>4. CASE DbglMessage
  BY <1>1, <1>2, <1>4, DeliverStep DEF DbglMessage
<1> QED
  BY <1>3, <1>4

(* dev_rx_stream_handler_crsp                                              *)
LEMMA CrspStep ==
  ASSUME IInv, CrspHeader \/ CrspMessage
  PROVE  IInv'
<1>1. TypeOK /\ "crsp" \in Streams /\ HdrSize["crsp"] \in Nat
  BY ConstantsAssumption DEF IInv, Streams
<1>2. WakeRx /\ curr = "crsp"
  BY DEF CrspHeader, CrspMessage, HandlerCalled
<1>3. CASE CrspHeader
  <2>1. PICK h \in Readings("crsp", Received("crsp")) :
          \/ AwaitMessage("crsp", HdrSize["crsp"] + h.size)
          \/ Deliver("crsp")
          \/ /\ pc' = "hung"
             /\ buf' = [buf EXCEPT !["crsp"] = Received("crsp")]
             /\ stream_len' = Left
             /\ rx' = "none"
             /\ UNCHANGED <<dev_conn, not_idle, curr, btr, req, got, deviceVars,
                            ghostVars, boundVars>>
    BY <1>3 DEF CrspHeader
  <2>2. HdrSize["crsp"] + h.size \in Nat
    BY <1>1, ReadingsAreMessages
  <2>3. CASE AwaitMessage("crsp", HdrSize["crsp"] + h.size)
    BY <1>1, <1>2, <2>2, <2>3, AwaitMessageStep
  <2>4. CASE Deliver("crsp")
    BY <1>1, <1>2, <2>4, DeliverStep
  <2>5. CASE /\ pc' = "hung"
             /\ buf' = [buf EXCEPT !["crsp"] = Received("crsp")]
             /\ stream_len' = Left
             /\ rx' = "none"
             /\ UNCHANGED <<dev_conn, not_idle, curr, btr, req, got, deviceVars,
                            ghostVars, boundVars>>
    <3>1. Received("crsp") \in Seq(ByteOrigin) /\ Left \in Nat
      BY <1>1, <1>2, ReceivedSeq, LeftNat
    <3>2. LoopTypes' /\ ReadTypes'
      BY <1>1, <2>5 DEF TypeOK, LoopTypes, ReadTypes
    <3>3. DemuxTypes'
      BY <1>1, <2>5, <3>1 DEF TypeOK, DemuxTypes
    <3>4. ReadFits' /\ Armed'
      BY <2>5 DEF IInv, ReadFits, Armed
    <3> QED
      BY <1>1, <2>5, <3>2, <3>3, <3>4, UnchangedTypes DEF IInv, TypeOK
  <2> QED
    BY <2>1, <2>3, <2>4, <2>5
<1>4. CASE CrspMessage
  BY <1>1, <1>2, <1>4, DeliverStep DEF CrspMessage
<1> QED
  BY <1>3, <1>4
-----------------------------------------------------------------------------
(* The rest of main_loop_wait: no data comes with the event.               *)
LEMMA WakeStep ==
  ASSUME IInv, WakeNotIdle \/ WakeTimeout \/ WakeTx \/ RxFailed \/ RxTimeout
  PROVE  IInv'
<1>1. TypeOK
  BY DEF IInv
<1>2. CASE WakeNotIdle
  <2>1. UNCHANGED <<dev_conn, demuxVars, readVars, deviceVars, ghostVars, boundVars>>
        /\ pc' = "check" /\ not_idle' = FALSE /\ pc = "wait"
    BY <1>2 DEF WakeNotIdle
  <2>2. LoopTypes'
    BY <1>1, <2>1 DEF TypeOK, LoopTypes
  <2> QED
    BY <1>1, <2>1, <2>2, UnchangedTypes
    DEF IInv, TypeOK, ReadFits, Armed, demuxVars, readVars
<1>3. CASE WakeTimeout
  <2>1. UNCHANGED <<dev_conn, not_idle, demuxVars, readVars, deviceVars, ghostVars,
                    boundVars>>
        /\ pc' = "check" /\ pc = "wait"
    BY <1>3 DEF WakeTimeout
  <2>2. LoopTypes'
    BY <1>1, <2>1 DEF TypeOK, LoopTypes
  <2> QED
    BY <1>1, <2>1, <2>2, UnchangedTypes
    DEF IInv, TypeOK, ReadFits, Armed, demuxVars, readVars
<1>4. CASE WakeTx
  <2>1. UNCHANGED <<demuxVars, readVars, deviceVars, ghostVars>>
        /\ pc' = "check" /\ pc = "wait"
    BY <1>4 DEF WakeTx
  <2>2. \/ dev_conn' = "FALL" /\ not_idle' = TRUE
        \/ dev_conn' = dev_conn /\ not_idle' = not_idle
    BY <1>4 DEF WakeTx
  <2>3. LoopTypes'
    BY <1>1, <2>1, <2>2 DEF TypeOK, LoopTypes
  <2>4. BoundTypes'
    BY <1>1, <1>4 DEF WakeTx, TypeOK, BoundTypes
  <2>5. Armed'
    BY <2>1, <2>2 DEF IInv, Armed, readVars
  <2> QED
    BY <1>1, <2>1, <2>3, <2>4, <2>5, UnchangedTypes
    DEF IInv, TypeOK, ReadFits, demuxVars, readVars
<1>5. CASE RxFailed
  <2>1. UNCHANGED <<demuxVars, deviceVars, ghostVars, boundVars>>
        /\ Fall /\ pc' = "check"
    BY <1>5 DEF RxFailed
  <2>2. LoopTypes' /\ ReadTypes' /\ Armed'
    BY <1>1, <2>1, FallTypes
  <2>3. ReadFits'
    BY <2>1 DEF IInv, ReadFits, Fall
  <2> QED
    BY <1>1, <2>1, <2>2, <2>3, UnchangedTypes DEF IInv, TypeOK
<1>6. CASE RxTimeout
  <2>1. UNCHANGED <<demuxVars, deviceVars, ghostVars, boundVars>>
        /\ dev_rx_init(req) /\ pc' = "check" /\ rx = "done" /\ req \in Nat
    BY <1>1, <1>6 DEF RxTimeout, TypeOK, ReadTypes
  <2>2. /\ ReadTypes'
        /\ dev_conn' \in {"UNDEF", "CLR", "SET", "FALL"} /\ not_idle' \in BOOLEAN
        /\ req' = req /\ Len(got') = 0
        /\ dev_conn' = "SET" => rx' = "pending"
    BY <1>1, <2>1, InitRead
  <2>3. ReadFits'
    BY <2>1, <2>2 DEF IInv, ReadFits, demuxVars
  <2>4. LoopTypes' /\ Armed'
    BY <2>1, <2>2 DEF LoopTypes, Armed
  <2> QED
    BY <1>1, <2>1, <2>2, <2>3, <2>4, UnchangedTypes DEF IInv, TypeOK
<1> QED
  BY <1>2, <1>3, <1>4, <1>5, <1>6

LEMMA MainLoopWaitStep == IInv /\ MainLoopWait => IInv'
BY WakeStep, ChunkHeaderStep, PartialStep, OverrunStep, DbglStep, CrspStep
DEF MainLoopWait

(* dev_check: SET comes with a read for a chunk header.                    *)
LEMMA DevCheckStep == IInv /\ DevCheck => IInv'
<1> SUFFICES ASSUME IInv, DevCheck PROVE IInv'
  OBVIOUS
<1>1. TypeOK
  BY DEF IInv
<1>2. <<>> \in Seq(WireByte) /\ Len(<<>>) = 0
  BY EmptySeq
<1>3. CASE CheckOpens
  <2>1. LoopTypes' /\ DemuxTypes' /\ BoundTypes'
    BY <1>1, <1>3
    DEF CheckOpens, TypeOK, LoopTypes, DemuxTypes, BoundTypes, boundVars
  <2>2. ReadTypes' /\ DeviceTypes'
    BY <1>1, <1>2, <1>3 DEF CheckOpens, TypeOK, ReadTypes, DeviceTypes
  <2>3. GhostTypes'
    <3>1. clean' \in [Streams -> BOOLEAN]
      BY <1>3 DEF CheckOpens
    <3>2. expect' \in [Streams -> Nat]
      <4>1. \A s \in Streams : tx[s].m \in Nat
        BY <1>1 DEF TypeOK, DeviceTypes
      <4> QED
        BY <1>3, <4>1 DEF CheckOpens
    <3>3. delivered' = delivered
      BY <1>3 DEF CheckOpens
    <3> QED
      BY <1>1, <3>1, <3>2, <3>3 DEF TypeOK, GhostTypes
  <2>4. ReadFits' /\ Armed'
    BY <1>2, <1>3 DEF CheckOpens, ReadFits, Armed
  <2> QED
    BY <2>1, <2>2, <2>3, <2>4 DEF IInv, TypeOK
<1>4. CASE CheckOpensThenLost
  <2>1. DeviceTypes' /\ BoundTypes'
    BY <1>1, <1>4, DeviceLostTypes DEF CheckOpensThenLost
  <2>2. LoopTypes' /\ DemuxTypes' /\ ReadTypes'
    BY <1>1, <1>2, <1>4
    DEF CheckOpensThenLost, TypeOK, LoopTypes, DemuxTypes, ReadTypes
  <2>3. GhostTypes'
    BY <1>1, <1>4, UnchangedTypes DEF CheckOpensThenLost
  <2>4. ReadFits' /\ Armed'
    BY <1>2, <1>4 DEF CheckOpensThenLost, ReadFits, Armed
  <2> QED
    BY <2>1, <2>2, <2>3, <2>4 DEF IInv, TypeOK
<1>5. CASE CheckOpenFails
  <2>1. UNCHANGED <<demuxVars, readVars, deviceVars, ghostVars, boundVars>>
    BY <1>5 DEF CheckOpenFails
  <2>2. LoopTypes' /\ Armed'
    BY <1>1, <1>5 DEF CheckOpenFails, TypeOK, LoopTypes, Armed
  <2> QED
    BY <1>1, <2>1, <2>2, UnchangedTypes
    DEF IInv, TypeOK, ReadFits, demuxVars, readVars
<1>6. CASE CheckCloses
  <2>1. UNCHANGED <<not_idle, req, got, sent, tx, backlog, chunk, wire, demuxVars,
                    ghostVars, boundVars>>
        /\ pc' = "wait" /\ dev_conn' = "CLR" /\ rx' = "none"
    BY <1>6 DEF CheckCloses
  <2>2. LoopTypes' /\ ReadTypes'
    BY <1>1, <2>1 DEF TypeOK, LoopTypes, ReadTypes
  <2>3. DeviceTypes'
    BY <1>1, <1>6 DEF CheckCloses, TypeOK, DeviceTypes
  <2>4. ReadFits' /\ Armed'
    BY <2>1 DEF IInv, ReadFits, Armed
  <2> QED
    BY <1>1, <2>1, <2>2, <2>3, <2>4, UnchangedTypes DEF IInv, TypeOK
<1>7. CASE CheckConnected
  <2>1. UNCHANGED <<dev_conn, not_idle, demuxVars, readVars, deviceVars, ghostVars,
                    boundVars>>
        /\ pc' = "wait" /\ pc = "check"
    BY <1>7 DEF CheckConnected
  <2>2. LoopTypes'
    BY <1>1, <2>1 DEF TypeOK, LoopTypes
  <2> QED
    BY <1>1, <2>1, <2>2, UnchangedTypes
    DEF IInv, TypeOK, ReadFits, Armed, demuxVars, readVars
<1> QED
  BY <1>3, <1>4, <1>5, <1>6, <1>7 DEF DevCheck

LEMMA StutterStep == IInv /\ UNCHANGED vars => IInv'
<1> SUFFICES ASSUME IInv, UNCHANGED vars PROVE IInv'
  OBVIOUS
<1>1. UNCHANGED <<loopVars, demuxVars, readVars, deviceVars, ghostVars, boundVars>>
  BY DEF vars
<1>2. TypeOK'
  BY <1>1, UnchangedTypes DEF IInv, TypeOK
<1> QED
  BY <1>1, <1>2 DEF IInv, ReadFits, Armed, loopVars, demuxVars, readVars
-----------------------------------------------------------------------------
(* The inductive invariant of the receive side of dbg-io.c.                *)
THEOREM Inductive == Spec => []IInv
<1>1. IInv /\ [Next]_vars => IInv'
  BY DeviceStep, CableStep, DriverStep, MainLoopWaitStep, DevCheckStep, StutterStep
  DEF Next
<1> QED
  BY <1>1, InitIInv, PTL DEF Spec

(* Every variable keeps its type; in particular the unsigned dw_stream_len *)
(* of dbg-io.c:1123-1156 never wraps, whatever the device sends and        *)
(* however its messages are cut.                                           *)
THEOREM TypeCorrect == Spec => []TypeOK
<1>1. IInv => TypeOK
  BY DEF IInv
<1> QED
  BY <1>1, Inductive, PTL

(* The loop never waits on an open device without a read posted, whatever  *)
(* the device, the cable and the driver do (dev_rx_proc, dev_check and     *)
(* main_loop_wait of dbg-io.c).                                            *)
THEOREM AlwaysArmed == Spec => []ReadArmed
<1>1. IInv => ReadArmed
  BY DEF IInv, Armed, ReadArmed
<1> QED
  BY <1>1, Inductive, PTL

-----------------------------------------------------------------------------
(* The chunks.                                                             *)

(* A read that may still bring bytes, or has brought some.                 *)
Reading == rx \in {"pending", "done"}

(* Some stream started this connection in step, so that the line was       *)
(* between two chunks when it was opened.                                  *)
InStep == \E s \in Streams : clean[s]

(* What may come n bytes before the end of a chunk of stream c: the next   *)
(* byte of the chunk, or another header when n = 0.                        *)
Follows(c, n, b) ==
  IF n = 0 THEN IsHdr(b) ELSE ~IsHdr(b) /\ b.s = c /\ b.left = n - 1

EndsAt(c, n, ch) == ch.left = n /\ (n # 0 => ch.s = c)

(* The line w continues a chunk of stream c that has n bytes left, without *)
(* a gap, up to where the device is (ch).                                  *)
Framed(w, c, n, ch) ==
  /\ w = <<>> => EndsAt(c, n, ch)
  /\ w # <<>> => Follows(c, n, w[1]) /\ EndsAt(w[Len(w)].s, w[Len(w)].left, ch)
  /\ \A i \in 1 .. Len(w) - 1 : Follows(w[i].s, w[i].left, w[i + 1])

Numbered == \A s \in Streams : tx[s].m \in Nat \ {0}
HeaderReads == Reading /\ curr = None => req = 1
OpenIfPending == rx = "pending" => link = "open"

(* The bytes in hand are those of one chunk, or its header.                *)
ChunkCounted ==
  InStep /\ Reading =>
    /\ curr = None => \A i \in 1 .. Len(got) : IsHdr(got[i])
    /\ curr # None => /\ stream_len > 0
                      /\ \A i \in 1 .. Len(got) :
                           Follows(curr, stream_len - i + 1, got[i])

(* And the line goes on where they end.                                    *)
LineFramed ==
  InStep /\ Reading /\ link = "open" =>
    /\ curr # None => Framed(wire, curr, stream_len - Len(got), chunk)
    /\ curr = None /\ got = <<>> => Framed(wire, None, 0, chunk)
    /\ curr = None /\ got # <<>> => Framed(wire, got[1].s, got[1].left, chunk)

Frames == HeaderReads /\ OpenIfPending /\ ChunkCounted /\ LineFramed
FrameInv == IInv /\ Numbered /\ Frames
-----------------------------------------------------------------------------
(* The line.                                                               *)

(* A chunk header goes onto a line that ends between two chunks.           *)
LEMMA FramedHeader ==
  ASSUME NEW w \in Seq(WireByte), NEW c, NEW n \in Nat,
         NEW ch \in [s : Streams, left : Nat], Framed(w, c, n, ch), ch.left = 0,
         NEW s \in Streams, NEW k \in Nat
  PROVE  Framed(Append(w, HdrByte(s, k)), c, n, [s |-> s, left |-> k])
<1> DEFINE b == HdrByte(s, k)
           v == Append(w, b)
<1>1. b \in WireByte /\ IsHdr(b) /\ b.s = s /\ b.left = k
  BY DEF HdrByte, WireByte, IsHdr
<1>2. EndsAt(b.s, b.left, [s |-> s, left |-> k])
  BY <1>1 DEF EndsAt
<1>3. Len(w) \in Nat /\ (w = <<>> <=> Len(w) = 0)
  BY LenProperties, EmptySeq
<1> HIDE DEF b
<1>4. /\ Len(v) = Len(w) + 1 /\ v # <<>> /\ v[Len(v)] = b
      /\ \A i \in 1 .. Len(w) : v[i] = w[i]
  BY <1>1, AppendProperties
<1>5. Follows(c, n, v[1])
  <2>1. CASE w = <<>>
    BY <1>1, <1>3, <1>4, <2>1 DEF Framed, EndsAt, Follows
  <2>2. CASE w # <<>>
    BY <1>3, <1>4, <2>2 DEF Framed
  <2> QED
    BY <2>1, <2>2
<1>6. ASSUME NEW i \in 1 .. Len(v) - 1
      PROVE  Follows(v[i].s, v[i].left, v[i + 1])
  <2>1. CASE i = Len(w)
    <3>1. w # <<>> /\ v[i] = w[Len(w)] /\ v[i + 1] = b
      BY <1>3, <1>4, <2>1
    <3>2. w[Len(w)].left = 0
      BY <3>1 DEF Framed, EndsAt
    <3> QED
      BY <1>1, <3>1, <3>2 DEF Follows
  <2>2. CASE i # Len(w)
    <3>1. i \in 1 .. Len(w) - 1 /\ v[i] = w[i] /\ v[i + 1] = w[i + 1]
      BY <1>3, <1>4, <2>2
    <3> QED
      BY <3>1 DEF Framed
  <2> QED
    BY <2>1, <2>2
<1> HIDE DEF v
<1> QED
  <2>1. Framed(v, c, n, [s |-> s, left |-> k])
    BY <1>2, <1>4, <1>5, <1>6 DEF Framed
  <2> QED
    BY <2>1 DEF v, b

(* A byte of the chunk goes onto a line that ends within it.               *)
LEMMA FramedData ==
  ASSUME NEW w \in Seq(WireByte), NEW c, NEW n \in Nat,
         NEW ch \in [s : Streams, left : Nat], Framed(w, c, n, ch), ch.left > 0,
         NEW m \in Nat \ {0}, NEW o \in Nat
  PROVE  Framed(Append(w, DataByte(ch.s, m, o, ch.left - 1)), c, n,
                [ch EXCEPT !.left = @ - 1])
<1> DEFINE b == DataByte(ch.s, m, o, ch.left - 1)
           v == Append(w, b)
           d == [ch EXCEPT !.left = @ - 1]
<1>1. /\ ch.left \in Nat /\ ch.s \in Streams
      /\ b \in WireByte /\ ~IsHdr(b) /\ b.s = ch.s /\ b.left = ch.left - 1
  BY DEF DataByte, WireByte, IsHdr
<1>2. EndsAt(b.s, b.left, d)
  BY <1>1 DEF EndsAt
<1>3. Len(w) \in Nat /\ (w = <<>> <=> Len(w) = 0)
  BY LenProperties, EmptySeq
<1> HIDE DEF b
<1>4. /\ Len(v) = Len(w) + 1 /\ v # <<>> /\ v[Len(v)] = b
      /\ \A i \in 1 .. Len(w) : v[i] = w[i]
  BY <1>1, AppendProperties
<1>5. Follows(c, n, v[1])
  <2>1. CASE w = <<>>
    BY <1>1, <1>3, <1>4, <2>1 DEF Framed, EndsAt, Follows
  <2>2. CASE w # <<>>
    BY <1>3, <1>4, <2>2 DEF Framed
  <2> QED
    BY <2>1, <2>2
<1>6. ASSUME NEW i \in 1 .. Len(v) - 1
      PROVE  Follows(v[i].s, v[i].left, v[i + 1])
  <2>1. CASE i = Len(w)
    <3>1. w # <<>> /\ v[i] = w[Len(w)] /\ v[i + 1] = b
      BY <1>3, <1>4, <2>1
    <3>2. w[Len(w)].left = ch.left /\ w[Len(w)].s = ch.s
      BY <1>1, <3>1 DEF Framed, EndsAt
    <3> QED
      BY <1>1, <3>1, <3>2 DEF Follows
  <2>2. CASE i # Len(w)
    <3>1. i \in 1 .. Len(w) - 1 /\ v[i] = w[i] /\ v[i + 1] = w[i + 1]
      BY <1>3, <1>4, <2>2
    <3> QED
      BY <3>1 DEF Framed
  <2> QED
    BY <2>1, <2>2
<1> HIDE DEF v, d
<1> QED
  <2>1. Framed(v, c, n, d)
    BY <1>2, <1>4, <1>5, <1>6 DEF Framed
  <2> QED
    BY <2>1 DEF v, b, d

(* The driver takes the byte that follows.                                 *)
LEMMA FramedTail ==
  ASSUME NEW w \in Seq(WireByte), w # <<>>, NEW c, NEW n \in Nat, NEW ch,
         Framed(w, c, n, ch)
  PROVE  Follows(c, n, Head(w)) /\ Framed(Tail(w), Head(w).s, Head(w).left, ch)
<1> DEFINE v == Tail(w)
<1>1. /\ Len(w) \in Nat \ {0} /\ Head(w) = w[1]
      /\ v \in Seq(WireByte) /\ Len(v) = Len(w) - 1
      /\ \A i \in 1 .. Len(v) : v[i] = w[i + 1]
  BY HeadTailProperties, LenProperties, EmptySeq
<1>2. v = <<>> <=> Len(v) = 0
  BY <1>1, EmptySeq
<1>3. Follows(c, n, Head(w))
  BY <1>1 DEF Framed
<1> HIDE DEF v
<1>4. v = <<>> => EndsAt(Head(w).s, Head(w).left, ch)
  <2>1. EndsAt(w[Len(w)].s, w[Len(w)].left, ch)
    BY DEF Framed
  <2>2. v = <<>> => Len(w) = 1
    BY <1>1, <1>2
  <2> QED
    BY <1>1, <2>1, <2>2
<1>5. ASSUME v # <<>>
      PROVE  /\ Follows(Head(w).s, Head(w).left, v[1])
             /\ EndsAt(v[Len(v)].s, v[Len(v)].left, ch)
  <2>1. Len(v) >= 1 /\ 1 \in 1 .. Len(w) - 1 /\ v[1] = w[1 + 1] /\ v[Len(v)] = w[Len(w)]
    BY <1>1, <1>2, <1>5
  <2>2. Follows(w[1].s, w[1].left, w[1 + 1])
    BY <2>1 DEF Framed
  <2>3. EndsAt(w[Len(w)].s, w[Len(w)].left, ch)
    BY DEF Framed
  <2> QED
    BY <1>1, <2>1, <2>2, <2>3
<1>6. ASSUME NEW i \in 1 .. Len(v) - 1
      PROVE  Follows(v[i].s, v[i].left, v[i + 1])
  <2>1. i + 1 \in 1 .. Len(w) - 1 /\ v[i] = w[i + 1] /\ v[i + 1] = w[(i + 1) + 1]
    BY <1>1
  <2> QED
    BY <2>1 DEF Framed
<1>7. Framed(v, Head(w).s, Head(w).left, ch)
  BY <1>4, <1>5, <1>6 DEF Framed
<1> QED
  BY <1>3, <1>7 DEF v

(* Between two chunks it does not matter of which stream the last one was. *)
LEMMA FramedBetween ==
  ASSUME NEW w, NEW c, NEW d, NEW ch, Framed(w, c, 0, ch)
  PROVE  Framed(w, d, 0, ch)
BY DEF Framed, Follows, EndsAt
-----------------------------------------------------------------------------
(* A step that leaves no read under way promises nothing about the line.   *)
LEMMA NoReadFrames ==
  ASSUME rx' \notin {"pending", "done"}
  PROVE  Frames'
BY DEF Frames, HeaderReads, OpenIfPending, ChunkCounted, LineFramed, Reading

(* The next read of dev_rx_proc goes on where the last one ended           *)
(* (dbg-io.c:1123-1156).                                                   *)
LEMMA NextReadFramed ==
  ASSUME NEW s \in Streams, NEW left \in Nat, NEW want, NEW have,
         InStep /\ link = "open" => Framed(wire, s, left, chunk),
         NextRead(s, left, want, have), UNCHANGED <<deviceVars, clean>>
  PROVE  Frames'
<1>1. CASE rx' \notin {"pending", "done"}
  BY <1>1, NoReadFrames
<1>2. CASE rx' \in {"pending", "done"}
  <2>1. /\ link = "open" /\ got' = <<>> /\ stream_len' = left
        /\ curr' = IF left = 0 THEN None ELSE s
        /\ left = 0 => req' = 1
    BY <1>2 DEF NextRead, dev_rx_init
  <2>2. Len(got') = 0 /\ s # None
    BY <2>1, EmptySeq DEF Streams, None
  <2>3. /\ link' = link /\ wire' = wire /\ chunk' = chunk
        /\ InStep' <=> InStep
    BY DEF deviceVars, InStep
  <2>4. HeaderReads' /\ OpenIfPending'
    BY <2>1, <2>2, <2>3 DEF HeaderReads, OpenIfPending
  <2>5. ChunkCounted'
    BY <2>1, <2>2 DEF ChunkCounted
  <2>6. LineFramed'
    <3> SUFFICES ASSUME InStep PROVE LineFramed'
      BY <2>3 DEF LineFramed
    <3>1. Framed(wire, s, left, chunk)
      BY <2>1
    <3>2. left = 0 => Framed(wire, None, 0, chunk)
      BY <3>1, FramedBetween
    <3>3. left - Len(got') = left
      BY <2>2
    <3> QED
      BY <2>1, <2>2, <2>3, <3>1, <3>2, <3>3 DEF LineFramed
  <2> QED
    BY <2>4, <2>5, <2>6 DEF Frames
<1> QED
  BY <1>1, <1>2

(* After data, the line goes on with the rest of the chunk.                *)
LEMMA LineAfterData ==
  ASSUME FrameInv, NEW s \in Streams, WakeRx, curr = s
  PROVE  InStep /\ link = "open" => Framed(wire, s, Left, chunk)
<1>1. s # None
  BY DEF Streams, None
<1>2. Reading
  BY DEF Reading, WakeRx
<1> QED
  BY <1>1, <1>2 DEF FrameInv, Frames, LineFramed, Left
-----------------------------------------------------------------------------
(* Initially there is no read, and no connection that started in step.     *)
LEMMA InitFrames == Init => FrameInv
<1> SUFFICES ASSUME Init PROVE FrameInv
  OBVIOUS
<1>1. ~Reading /\ rx # "pending"
  BY DEF Init, Reading
<1>2. Numbered
  BY DEF Init, Numbered
<1> QED
  BY <1>1, <1>2, InitIInv
  DEF FrameInv, Frames, HeaderReads, OpenIfPending, ChunkCounted, LineFramed

(* A step that leaves the line, the chunk and the read alone.              *)
LEMMA SameFrames ==
  ASSUME Frames, UNCHANGED <<curr, stream_len, readVars, link, chunk, wire, clean>>
  PROVE  Frames'
BY DEF Frames, HeaderReads, OpenIfPending, ChunkCounted, LineFramed, Reading,
       InStep, readVars

(* The device writes what belongs at the end of the line.                  *)
LEMMA DeviceFrames ==
  ASSUME FrameInv, Device
  PROVE  Numbered' /\ Frames'
<1>1. TypeOK /\ Frames /\ Numbered
  BY DEF FrameInv, IInv
<1>2. ASSUME NEW s \in Streams, DevQueue(s) PROVE Numbered' /\ Frames'
  <2>1. UNCHANGED <<curr, stream_len, readVars, link, chunk, wire, clean, tx>>
    BY <1>2 DEF DevQueue, demuxVars, ghostVars
  <2> QED
    BY <1>1, <2>1, SameFrames DEF Numbered
<1>3. wire \in Seq(WireByte) /\ chunk \in [s : Streams, left : Nat]
      /\ stream_len \in Nat /\ got \in Seq(WireByte) /\ req \in Nat
  BY <1>1 DEF TypeOK, DeviceTypes, DemuxTypes, ReadTypes
<1>4. Len(got) \in Nat /\ (got # <<>> => got[1] \in WireByte)
  BY <1>3, LenProperties, EmptySeq, ElementOfSeq
<1>5. ASSUME got # <<>> PROVE got[1].left \in Nat
  BY <1>4, <1>5 DEF WireByte
<1>6. ASSUME Reading, curr # None PROVE stream_len - Len(got) \in Nat
  <2>1. Len(got) <= req /\ req <= stream_len
    BY <1>6 DEF FrameInv, IInv, ReadFits, Reading
  <2> QED
    BY <1>3, <1>4, <2>1
<1> DEFINE Longer(w, ch) ==
      \A c, n : n \in Nat /\ Framed(wire, c, n, chunk) => Framed(w, c, n, ch)
<1>7. ASSUME Longer(wire', chunk'),
             UNCHANGED <<curr, stream_len, readVars, link, clean>>
      PROVE  Frames'
  <2>1. HeaderReads' /\ OpenIfPending' /\ ChunkCounted'
    BY <1>1, <1>7 DEF Frames, HeaderReads, OpenIfPending, ChunkCounted, Reading,
                      InStep, readVars
  <2>2. LineFramed'
    <3> SUFFICES ASSUME InStep, Reading, link = "open" PROVE LineFramed'
      BY <1>7 DEF LineFramed, InStep, Reading, readVars
    <3>1. curr # None => Framed(wire', curr, stream_len - Len(got), chunk')
      BY <1>1, <1>6, <1>7 DEF Frames, LineFramed
    <3>2. curr = None /\ got = <<>> => Framed(wire', None, 0, chunk')
      BY <1>1, <1>7 DEF Frames, LineFramed
    <3>3. curr = None /\ got # <<>> => Framed(wire', got[1].s, got[1].left, chunk')
      BY <1>1, <1>5, <1>7 DEF Frames, LineFramed
    <3> QED
      BY <1>7, <3>1, <3>2, <3>3 DEF LineFramed, readVars
  <2> QED
    BY <2>1, <2>2 DEF Frames
<1>8. ASSUME NEW s \in Streams, NEW k \in ChunkLens, DevStartChunk(s, k)
      PROVE  Numbered' /\ Frames'
  <2>1. /\ chunk.left = 0 /\ chunk' = [s |-> s, left |-> k]
        /\ wire' = Append(wire, HdrByte(s, k)) /\ k \in Nat
        /\ UNCHANGED <<curr, stream_len, readVars, link, clean, tx>>
    BY <1>8, ConstantsAssumption DEF DevStartChunk, demuxVars, ghostVars
  <2>2. Longer(wire', chunk')
    BY <1>3, <2>1, FramedHeader
  <2> QED
    BY <1>1, <1>7, <2>1, <2>2 DEF Numbered
<1>9. ASSUME DevByte PROVE Numbered' /\ Frames'
  <2> DEFINE s == chunk.s
             m == tx[s].m
             o == tx[s].o
  <2>1. s \in Streams /\ m \in Nat \ {0} /\ o \in Nat
    BY <1>1, <1>3 DEF Numbered, TypeOK, DeviceTypes
  <2>2. /\ chunk.left > 0 /\ chunk' = [chunk EXCEPT !.left = @ - 1]
        /\ wire' = Append(wire, DataByte(chunk.s, m, o, chunk.left - 1))
        /\ UNCHANGED <<curr, stream_len, readVars, link, clean>>
    BY <1>9 DEF DevByte, demuxVars, ghostVars
  <2>3. Longer(wire', chunk')
    <3> HIDE DEF m, o
    <3> QED
      BY <1>3, <2>1, <2>2, FramedData
  <2>4. Numbered'
    <3> DEFINE t == IF o + 1 = Total(s, sent[s][m]) THEN [m |-> m + 1, o |-> 0]
                                                    ELSE [m |-> m, o |-> o + 1]
    <3>1. tx' = [tx EXCEPT ![s] = t] /\ t.m \in Nat \ {0}
      BY <1>9, <2>1 DEF DevByte
    <3>2. tx \in [Streams -> [m : Nat, o : Nat]]
      BY <1>1 DEF TypeOK, DeviceTypes
    <3> HIDE DEF t, s
    <3> QED
      BY <1>1, <3>1, <3>2 DEF Numbered
  <2> QED
    BY <1>7, <2>2, <2>3, <2>4
<1> QED
  BY <1>2, <1>8, <1>9 DEF Device

LEMMA CableFrames ==
  ASSUME FrameInv, Unplug \/ Plug
  PROVE  Numbered' /\ Frames'
<1>1. TypeOK /\ Frames /\ Numbered
  BY DEF FrameInv, IInv
<1>2. CASE Unplug
  <2>1. Numbered'
    <3>1. \A s \in Streams : Len(sent[s]) + 1 \in Nat \ {0}
      <4> TAKE s \in Streams
      <4>1. sent[s] \in Seq(Message)
        BY <1>1 DEF TypeOK, DeviceTypes
      <4> QED
        BY <4>1, LenProperties
    <3> QED
      BY <1>2, <3>1 DEF Unplug, DeviceLost, Numbered
  <2>2. /\ link' = "absent" /\ rx' = IF rx = "pending" THEN "failed" ELSE rx
        /\ UNCHANGED <<req, got, curr, stream_len, clean>>
    BY <1>2 DEF Unplug, DeviceLost, demuxVars, ghostVars
  <2> QED
    BY <1>1, <2>1, <2>2
    DEF Frames, HeaderReads, OpenIfPending, ChunkCounted, LineFramed, Reading, InStep
<1>3. CASE Plug
  <2>1. /\ link = "absent" /\ link' = "present"
        /\ UNCHANGED <<rx, req, got, curr, stream_len, clean, tx>>
    BY <1>3 DEF Plug, demuxVars, ghostVars, readVars
  <2> QED
    BY <1>1, <2>1
    DEF Frames, HeaderReads, OpenIfPending, ChunkCounted, LineFramed, Reading,
        InStep, Numbered
<1> QED
  BY <1>2, <1>3

(* The driver hands on the next byte of the line.                          *)
LEMMA DriverFrames ==
  ASSUME FrameInv, Driver
  PROVE  Numbered' /\ Frames'
<1>1. TypeOK /\ ReadFits /\ Frames /\ Numbered
  BY DEF FrameInv, IInv
<1>2. CASE DriverComplete
  <2>1. /\ rx = "pending" /\ rx' = "done"
        /\ UNCHANGED <<req, got, curr, stream_len, clean, link, wire, chunk, tx>>
    BY <1>2 DEF DriverComplete, demuxVars, deviceVars, ghostVars
  <2> QED
    BY <1>1, <2>1
    DEF Frames, HeaderReads, OpenIfPending, ChunkCounted, LineFramed, Reading,
        InStep, Numbered
<1>3. CASE DriverByte
  <2> DEFINE b == Head(wire)
  <2>1. /\ rx = "pending" /\ wire # <<>> /\ Len(got) < req
        /\ got' = Append(got, b) /\ wire' = Tail(wire)
        /\ UNCHANGED <<rx, req, curr, stream_len, clean, link, chunk, tx>>
    BY <1>3 DEF DriverByte, demuxVars, deviceVars, ghostVars
  <2>2. wire \in Seq(WireByte) /\ got \in Seq(WireByte)
        /\ stream_len \in Nat /\ req \in Nat
    BY <1>1 DEF TypeOK, DeviceTypes, ReadTypes, DemuxTypes
  <2>3. b \in WireByte /\ Len(got) \in Nat /\ (got = <<>> <=> Len(got) = 0)
    BY <2>1, <2>2, HeadTailProperties, LenProperties, EmptySeq
  <2>4. /\ Len(got') = Len(got) + 1 /\ got' # <<>> /\ got'[Len(got) + 1] = b
        /\ \A i \in 1 .. Len(got) : got'[i] = got[i]
    BY <2>1, <2>2, <2>3, AppendProperties, EmptySeq
  <2>5. HeaderReads' /\ OpenIfPending' /\ Numbered'
    BY <1>1, <2>1 DEF Frames, HeaderReads, OpenIfPending, Reading, Numbered
  <2>6. Reading /\ link = "open" /\ (InStep' <=> InStep) /\ (Reading' <=> Reading)
    BY <1>1, <2>1 DEF Frames, OpenIfPending, Reading, InStep
  <2> HIDE DEF b
  <2>7. ChunkCounted' /\ LineFramed'
    <3> SUFFICES ASSUME InStep PROVE ChunkCounted' /\ LineFramed'
      BY <2>6 DEF ChunkCounted, LineFramed
    <3>1. CASE curr = None
      <4>1. req = 1 /\ got = <<>> /\ Len(got') = 1 /\ got'[1] = b
        BY <1>1, <2>1, <2>3, <2>4, <2>6, <3>1 DEF Frames, HeaderReads
      <4>2. Framed(wire, None, 0, chunk)
        BY <1>1, <2>6, <3>1, <4>1 DEF Frames, LineFramed
      <4>3. Follows(None, 0, b) /\ Framed(wire', b.s, b.left, chunk)
        BY <2>1, <2>2, <4>2, FramedTail DEF b
      <4>4. IsHdr(b)
        BY <4>3 DEF Follows
      <4>5. ChunkCounted'
        BY <2>1, <3>1, <4>1, <4>4 DEF ChunkCounted
      <4>6. LineFramed'
        BY <2>1, <2>4, <3>1, <4>1, <4>3 DEF LineFramed
      <4> QED
        BY <4>5, <4>6
    <3>2. CASE curr # None
      <4> DEFINE n == stream_len - Len(got)
      <4>1. req <= stream_len /\ n \in Nat \ {0}
        BY <1>1, <2>1, <2>2, <2>3, <3>2 DEF ReadFits
      <4>2. Framed(wire, curr, n, chunk)
        BY <1>1, <2>6, <3>2 DEF Frames, LineFramed
      <4>3. Follows(curr, n, b) /\ Framed(wire', b.s, b.left, chunk)
        <5> HIDE DEF n
        <5> QED
          BY <2>1, <2>2, <4>1, <4>2, FramedTail DEF b
      <4>4. b.s = curr /\ b.left = n - 1
        BY <4>1, <4>3 DEF Follows
      <4>5. stream_len - Len(got') = n - 1
        BY <2>2, <2>3, <2>4
      <4>6. LineFramed'
        BY <2>1, <2>4, <3>2, <4>3, <4>4, <4>5 DEF LineFramed
      <4>7. ASSUME NEW i \in 1 .. Len(got')
            PROVE  Follows(curr, stream_len - i + 1, got'[i])
        <5>1. CASE i = Len(got) + 1
          <6>1. stream_len - i + 1 = n /\ got'[i] = b
            BY <2>2, <2>3, <2>4, <5>1
          <6> QED
            BY <4>3, <6>1
        <5>2. CASE i # Len(got) + 1
          <6>1. i \in 1 .. Len(got) /\ got'[i] = got[i]
            BY <2>3, <2>4, <5>2
          <6> QED
            BY <1>1, <2>6, <3>2, <6>1 DEF Frames, ChunkCounted
        <5> QED
          BY <5>1, <5>2
      <4>8. stream_len > 0
        BY <2>2, <2>3, <4>1
      <4>9. ChunkCounted'
        <5> HIDE DEF n
        <5> QED
          BY <2>1, <3>2, <4>7, <4>8 DEF ChunkCounted
      <4> QED
        BY <4>6, <4>9
    <3> QED
      BY <3>1, <3>2
  <2> QED
    BY <2>5, <2>7 DEF Frames
<1> QED
  BY <1>2, <1>3 DEF Driver
-----------------------------------------------------------------------------
(* main_loop_wait: the header of a chunk is read as what it is.            *)
LEMMA ChunkHeaderFrames ==
  ASSUME FrameInv, RxChunkHeader
  PROVE  Frames'
<1>1. TypeOK /\ Frames
  BY DEF FrameInv, IInv
<1>2. /\ curr = None /\ got # <<>> /\ rx = "done" /\ Reading
      /\ UNCHANGED <<deviceVars, clean>>
  BY DEF RxChunkHeader, WakeRx, Reading, ghostVars
<1>3. Len(got) \in Nat \ {0} /\ got[1] \in WireByte
  BY <1>1, <1>2, LenProperties, EmptySeq, ElementOfSeq DEF TypeOK, ReadTypes
<1>4. PICK h \in ChunkReadings(got[1]) :
        \/ h.s # None /\ NextRead(h.s, h.left, btr[h.s], Len(buf[h.s]))
        \/ h.s = None /\ rx' = "none"
  BY DEF RxChunkHeader, Fall
<1>5. h.s \in Streams \cup {None} /\ h.left \in Nat
  <2>1. ChunkLens \subseteq Nat
    BY ConstantsAssumption
  <2>2. CASE IsHdr(got[1])
    BY <1>3, <2>2 DEF ChunkReadings, WireByte
  <2>3. CASE ~IsHdr(got[1])
    BY <2>1, <2>3 DEF ChunkReadings
  <2> QED
    BY <2>2, <2>3
<1>6. CASE h.s = None /\ rx' = "none"
  BY <1>6, NoReadFrames
<1>7. CASE h.s # None /\ NextRead(h.s, h.left, btr[h.s], Len(buf[h.s]))
  <2>1. ASSUME InStep, link = "open" PROVE Framed(wire, h.s, h.left, chunk)
    <3>1. IsHdr(got[1])
      BY <1>1, <1>2, <1>3, <2>1 DEF Frames, ChunkCounted
    <3>2. h.s = got[1].s /\ h.left = got[1].left
      BY <3>1 DEF ChunkReadings
    <3> QED
      BY <1>1, <1>2, <2>1, <3>2 DEF Frames, LineFramed
  <2>2. h.s \in Streams
    BY <1>5, <1>7
  <2> QED
    BY <1>2, <1>5, <1>7, <2>1, <2>2, NextReadFramed
<1> QED
  BY <1>4, <1>6, <1>7

(* And the bytes of a stream are counted off the chunk.                    *)
LEMMA DataFrames ==
  ASSUME FrameInv, NEW s \in Streams, WakeRx, curr = s,
         \/ Deliver(s) \/ RxPartial(s) \/ RxOverrun(s)
         \/ \E n : AwaitMessage(s, n)
  PROVE  Frames'
<1>1. Left \in Nat
  BY LeftNat DEF FrameInv
<1>2. InStep /\ link = "open" => Framed(wire, s, Left, chunk)
  BY LineAfterData
<1>3. UNCHANGED <<deviceVars, clean>>
  BY DEF Deliver, RxPartial, RxOverrun, AwaitMessage, ghostVars
<1>4. CASE RxOverrun(s)
  BY <1>4, NoReadFrames DEF RxOverrun, Fall
<1>5. ASSUME NEW want, NEW have, NextRead(s, Left, want, have)
      PROVE  Frames'
  BY <1>1, <1>2, <1>3, <1>5, NextReadFramed
<1>6. CASE Deliver(s) \/ RxPartial(s) \/ \E n : AwaitMessage(s, n)
  BY <1>5, <1>6 DEF Deliver, RxPartial, AwaitMessage
<1> QED
  BY <1>4, <1>6

LEMMA HandlerFrames ==
  ASSUME FrameInv, DbglHeader \/ DbglMessage \/ CrspHeader \/ CrspMessage
  PROVE  Frames'
<1>1. "dbgl" \in Streams /\ "crsp" \in Streams
  BY DEF Streams
<1>2. CASE DbglHeader \/ DbglMessage
  <2>1. WakeRx /\ curr = "dbgl"
    BY <1>2 DEF DbglHeader, DbglMessage, HandlerCalled
  <2>2. Deliver("dbgl") \/ \E n : AwaitMessage("dbgl", n)
    BY <1>2 DEF DbglHeader, DbglMessage
  <2> QED
    BY <1>1, <2>1, <2>2, DataFrames
<1>3. CASE CrspHeader \/ CrspMessage
  <2>1. WakeRx /\ curr = "crsp"
    BY <1>3 DEF CrspHeader, CrspMessage, HandlerCalled
  <2>2. Deliver("crsp") \/ (\E n : AwaitMessage("crsp", n)) \/ rx' = "none"
    BY <1>3 DEF CrspHeader, CrspMessage
  <2> QED
    BY <1>1, <2>1, <2>2, DataFrames, NoReadFrames
<1> QED
  BY <1>2, <1>3

(* The events that bring no data; a read that timed out is posted again.   *)
LEMMA WakeFrames ==
  ASSUME FrameInv, WakeNotIdle \/ WakeTimeout \/ WakeTx \/ RxFailed \/ RxTimeout
  PROVE  Frames'
<1>1. Frames
  BY DEF FrameInv
<1>2. CASE WakeNotIdle \/ WakeTimeout \/ WakeTx
  <2>1. UNCHANGED <<curr, stream_len, readVars, link, chunk, wire, clean>>
    BY <1>2 DEF WakeNotIdle, WakeTimeout, WakeTx, demuxVars, deviceVars, ghostVars
  <2> QED
    BY <1>1, <2>1, SameFrames
<1>3. CASE RxFailed
  BY <1>3, NoReadFrames DEF RxFailed, Fall
<1>4. CASE RxTimeout
  <2>1. /\ Reading /\ got = <<>> /\ got' = <<>> /\ req' = req
        /\ \/ link = "open" /\ rx' = "pending"
           \/ rx' = "none"
        /\ UNCHANGED <<curr, stream_len, link, chunk, wire, clean>>
    BY <1>4 DEF RxTimeout, dev_rx_init, Reading, demuxVars, deviceVars, ghostVars
  <2> QED
    BY <1>1, <2>1, NoReadFrames
    DEF Frames, HeaderReads, OpenIfPending, ChunkCounted, LineFramed, Reading, InStep
<1> QED
  BY <1>2, <1>3, <1>4

LEMMA MainLoopFrames ==
  ASSUME FrameInv, MainLoopWait
  PROVE  Numbered' /\ Frames'
<1>1. Numbered /\ UNCHANGED deviceVars
  BY DEF FrameInv, MainLoopWait, WakeNotIdle, WakeTimeout, WakeTx, RxFailed,
         RxTimeout, RxChunkHeader, RxPartial, RxOverrun, DbglHeader, DbglMessage,
         CrspHeader, CrspMessage, AwaitMessage, Deliver
<1>2. Numbered'
  BY <1>1 DEF Numbered, deviceVars
<1>3. ASSUME NEW s \in Streams, RxPartial(s) \/ RxOverrun(s) PROVE Frames'
  BY <1>3, DataFrames DEF RxPartial, RxOverrun
<1>4. Frames'
  BY <1>3, WakeFrames, ChunkHeaderFrames, HandlerFrames DEF MainLoopWait
<1> QED
  BY <1>2, <1>4

(* dev_check: an opened line is empty, and between two chunks if any       *)
(* stream is to be in step.                                                *)
LEMMA DevCheckFrames ==
  ASSUME FrameInv, DevCheck
  PROVE  Numbered' /\ Frames'
<1>1. TypeOK /\ Frames /\ Numbered
  BY DEF FrameInv, IInv
<1>2. CASE CheckOpens
  <2>1. /\ link' = "open" /\ curr' = None /\ rx' = "pending" /\ req' = 1
        /\ got' = <<>> /\ wire' = <<>> /\ chunk' = chunk /\ tx' = tx
        /\ InStep' => chunk.left = 0
    BY <1>2 DEF CheckOpens, InStep
  <2>2. Len(got') = 0
    BY <2>1, EmptySeq
  <2>3. InStep' => Framed(<<>>, None, 0, chunk)
    BY <2>1, EmptySeq DEF Framed, EndsAt
  <2> QED
    BY <1>1, <2>1, <2>2, <2>3
    DEF Frames, HeaderReads, OpenIfPending, ChunkCounted, LineFramed, Numbered
<1>3. CASE CheckOpensThenLost
  <2>1. \A s \in Streams : Len(sent[s]) + 1 \in Nat \ {0}
    <3> TAKE s \in Streams
    <3>1. sent[s] \in Seq(Message)
      BY <1>1 DEF TypeOK, DeviceTypes
    <3> QED
      BY <3>1, LenProperties
  <2>2. Numbered'
    BY <1>3, <2>1 DEF CheckOpensThenLost, DeviceLost, Numbered
  <2> QED
    BY <1>3, <2>2, NoReadFrames DEF CheckOpensThenLost
<1>4. CASE CheckCloses
  BY <1>1, <1>4, NoReadFrames DEF CheckCloses, Numbered
<1>5. CASE CheckOpenFails \/ CheckConnected
  <2>1. UNCHANGED <<curr, stream_len, readVars, link, chunk, wire, clean, tx>>
    BY <1>5 DEF CheckOpenFails, CheckConnected, demuxVars, deviceVars, ghostVars
  <2> QED
    BY <1>1, <2>1, SameFrames DEF Numbered
<1> QED
  BY <1>2, <1>3, <1>4, <1>5 DEF DevCheck

LEMMA FrameStep ==
  ASSUME FrameInv, [Next]_vars
  PROVE  FrameInv'
<1>1. IInv'
  BY DeviceStep, CableStep, DriverStep, MainLoopWaitStep, DevCheckStep,
     StutterStep DEF Next, FrameInv
<1>2. CASE UNCHANGED vars
  <2>1. UNCHANGED <<curr, stream_len, readVars, link, chunk, wire, clean, tx>>
    BY <1>2 DEF vars, demuxVars, deviceVars, ghostVars
  <2> QED
    BY <1>1, <2>1, SameFrames DEF FrameInv, Numbered
<1>3. CASE Next
  BY <1>1, <1>3, DeviceFrames, CableFrames, DriverFrames, MainLoopFrames,
     DevCheckFrames DEF Next, FrameInv
<1> QED
  BY <1>2, <1>3

(* Between the device, the line and the demultiplexer no byte of a chunk   *)
(* is lost or counted twice: the bytes in hand, those on the line and      *)
(* those the device still has to send are one chunk after another          *)
(* (dev_rx_proc and dev_check, dbg-io.c:1056-1156, 1418-1460).             *)
THEOREM Framing == Spec => []FrameInv
<1>1. FrameInv /\ [Next]_vars => FrameInv'
  BY FrameStep
<1> QED
  BY <1>1, InitFrames, PTL DEF Spec

(* dev_rx_proc keeps its place in the chunks: on a connection that started *)
(* between two of them, it reads a chunk header exactly when one is next,  *)
(* and dw_stream_len counts what the chunk has left on the line - whatever *)
(* the device sends, how it cuts it, and where reads time out              *)
(* (dbg-io.c:1064-1156).                                                   *)
THEOREM NeverLosesPlace == Spec => []ChunkInSync
<1>1. FrameInv => ChunkInSync
  <2> SUFFICES ASSUME FrameInv, InStep, link = "open", Reading
               PROVE  LET next == got \o wire
                      IN IF next = <<>>
                         THEN IF curr = None THEN chunk.left = 0
                              ELSE chunk.s = curr /\ chunk.left = stream_len
                         ELSE IF curr = None THEN IsHdr(next[1])
                              ELSE /\ ~IsHdr(next[1])
                                   /\ next[1].s = curr
                                   /\ next[1].left + 1 = stream_len
    BY DEF ChunkInSync, InStep, Reading
  <2> DEFINE next == got \o wire
  <2>1. got \in Seq(WireByte) /\ wire \in Seq(WireByte) /\ stream_len \in Nat
    BY DEF FrameInv, IInv, TypeOK, ReadTypes, DeviceTypes, DemuxTypes
  <2>2. /\ ChunkCounted /\ LineFramed
    BY DEF FrameInv, Frames
  <2>3. CASE got = <<>>
    <3>1. next = wire /\ Len(got) = 0 /\ stream_len - Len(got) = stream_len
      BY <2>1, <2>3, ConcatEmptySeq, EmptySeq
    <3>2. curr = None => Framed(wire, None, 0, chunk)
      BY <2>2, <2>3 DEF LineFramed
    <3>3. curr # None => Framed(wire, curr, stream_len, chunk) /\ stream_len > 0
      BY <2>2, <3>1 DEF LineFramed, ChunkCounted
    <3> HIDE DEF next
    <3>4. CASE curr = None
      BY <3>1, <3>2, <3>4 DEF Framed, Follows, EndsAt, next
    <3>5. CASE curr # None
      BY <2>1, <3>1, <3>3, <3>5 DEF Framed, Follows, EndsAt, next
    <3> QED
      BY <3>4, <3>5
  <2>4. CASE got # <<>>
    <3>1. Len(got) \in Nat \ {0} /\ next # <<>> /\ next[1] = got[1]
      BY <2>1, <2>4, LenProperties, EmptySeq, ConcatProperties
    <3>2. 1 \in 1 .. Len(got) /\ stream_len - 1 + 1 = stream_len
      BY <2>1, <3>1
    <3>3. curr = None => IsHdr(got[1])
      BY <2>2, <3>2 DEF ChunkCounted
    <3>4. curr # None => Follows(curr, stream_len, got[1]) /\ stream_len > 0
      BY <2>2, <3>2 DEF ChunkCounted
    <3> HIDE DEF next
    <3>5. got[1] \in WireByte
      BY <2>1, <3>2, ElementOfSeq
    <3>6. got[1].left \in Nat
      BY <3>5 DEF WireByte
    <3>7. curr # None => ~IsHdr(got[1]) /\ got[1].s = curr /\ got[1].left + 1 = stream_len
      BY <2>1, <3>4 DEF Follows
    <3> QED
      BY <3>1, <3>3, <3>7 DEF next
  <2> QED
    BY <2>3, <2>4
<1> QED
  BY <1>1, Framing, PTL
-----------------------------------------------------------------------------
(***************************************************************************)
(* What the handlers of dev_rx_proc take for messages are the messages of  *)
(* the device, for every value of the constants of DevRx.                  *)
(*                                                                         *)
(* DeliveredIntact speaks of what a handler has been given; it follows     *)
(* from where every byte before that is.  On a stream that started in      *)
(* step, the buffer holds the first bytes of the message that is next, and *)
(* dw_btr is the length of its header until that is in, and the length of  *)
(* the message from then on (Buffers); the read in progress is for the     *)
(* bytes after those, and for none of the next message (ReadInStep); the   *)
(* line goes on where the read is, up to where the device is (LineInOrder, *)
(* with DeviceInv).                                                        *)
(*                                                                         *)
(* The first part is about the device alone, and about the line.  InOrder  *)
(* says of one stream that its bytes on a line go on from one place in its *)
(* messages to another without a gap, wherever the bytes of the other      *)
(* stream and the chunk headers fall in between; one lemma for each way    *)
(* the line changes.  DeviceInv is the invariant of the device: it is at a *)
(* byte of a message it has queued, or at the end of all (TxPlaced), and a *)
(* chunk it has opened never promises more bytes than it has queued        *)
(* (Backed), so that DevByte always has a byte to send.  The count needs   *)
(* the places where the messages end, which are sums over what was sent;   *)
(* they are the existentially quantified function e.                       *)
(*                                                                         *)
(* The theorems assume that the firmware sends proper messages             *)
(* (MessagesProper): with a response that has no payload, or one as long   *)
(* as the header, they are false, which is what the run                    *)
(* DevRxEmptyResponse shows; a log message is never as short as its        *)
(* header.                                                                 *)
(***************************************************************************)

(* What the firmware sends: log messages with at least a byte of text and  *)
(* overflow reports, responses with a payload that is not as long as the   *)
(* header (those are misread, see EmptyResponseCompletes of DevRx).        *)
MessagesProper ==
  /\ \A msg \in Messages["dbgl"] :
        \/ msg.mark = "OVFL"
        \/ msg.mark = "LOG" /\ msg.size > HdrSize["dbgl"]
  /\ \A msg \in Messages["crsp"] :
        msg.mark = "RSP" /\ msg.size \notin {0, HdrSize["crsp"]}

(* A place in a stream; the end of a message is the start of the next one. *)
Place(b) == [m |-> b.m, o |-> b.o]
Settle(s, sq, m, o) ==
  IF m \in 1 .. Len(sq) /\ o = Total(s, sq[m]) THEN [m |-> m + 1, o |-> 0]
                                               ELSE [m |-> m, o |-> o]

IsData(s, b) == b.s = s /\ ~IsHdr(b)

(* The bytes of stream s on the line w, taken together, go on from place p *)
(* to place t, where the device is: each is where the last one of its      *)
(* stream before it ended, however the streams are interleaved.            *)
NoneBetween(s, w, i, j) == \A k \in i + 1 .. j - 1 : ~IsData(s, w[k])
Here(w, j, t) == IF j = Len(w) + 1 THEN t ELSE Place(w[j])
InOrder(s, sq, w, p, t) ==
  \A j \in 1 .. Len(w) + 1 :
    j = Len(w) + 1 \/ IsData(s, w[j]) =>
      /\ NoneBetween(s, w, 0, j) => Here(w, j, t) = p
      /\ \A i \in 1 .. j - 1 :
           IsData(s, w[i]) /\ NoneBetween(s, w, i, j)
             => Here(w, j, t) = Settle(s, sq, w[i].m, w[i].o + 1)
-----------------------------------------------------------------------------
(* The order of one stream on the line.                                    *)

LEMMA InOrderEmpty ==
  ASSUME NEW s, NEW sq, NEW p
  PROVE  InOrder(s, sq, <<>>, p, p)
<1>1. Len(<<>>) = 0
  BY EmptySeq
<1> QED
  BY <1>1 DEF InOrder, Here

(* A byte of the other stream, or a header, makes no difference.           *)
LEMMA InOrderOther ==
  ASSUME NEW s, NEW sq, NEW w \in Seq(WireByte), NEW p, NEW t,
         InOrder(s, sq, w, p, t), NEW b \in WireByte, ~IsData(s, b)
  PROVE  InOrder(s, sq, Append(w, b), p, t)
<1> DEFINE v == Append(w, b)
           n == Len(w)
<1>1. /\ n \in Nat /\ Len(v) = n + 1 /\ v[n + 1] = b
      /\ \A i \in 1 .. n : v[i] = w[i]
  BY LenProperties, AppendProperties
<1> HIDE DEF v, n
<1> SUFFICES ASSUME NEW j \in 1 .. Len(v) + 1, j = Len(v) + 1 \/ IsData(s, v[j])
             PROVE  /\ NoneBetween(s, v, 0, j) => Here(v, j, t) = p
                    /\ \A i \in 1 .. j - 1 :
                         IsData(s, v[i]) /\ NoneBetween(s, v, i, j)
                           => Here(v, j, t) = Settle(s, sq, v[i].m, v[i].o + 1)
  BY DEF InOrder, v
<1>2. PICK l \in 1 .. n + 1 :
        /\ l = n + 1 \/ IsData(s, w[l])
        /\ Here(v, j, t) = Here(w, l, t)
        /\ l <= j /\ (j # l => l = n + 1 /\ j = n + 2)
  <2>1. CASE j = n + 2
    BY <1>1, <2>1 DEF Here, n
  <2>2. CASE j # n + 2
    <3>1. j \in 1 .. n
      BY <1>1, <2>2
    <3> QED
      BY <1>1, <3>1 DEF Here, n
  <2> QED
    BY <2>1, <2>2
<1>3. ASSUME NEW i \in 0 .. l - 1, NoneBetween(s, v, i, j)
      PROVE  NoneBetween(s, w, i, l)
  <2> SUFFICES ASSUME NEW k \in i + 1 .. l - 1 PROVE ~IsData(s, w[k])
    BY DEF NoneBetween
  <2>1. k \in i + 1 .. j - 1 /\ w[k] = v[k]
    BY <1>1, <1>2
  <2> QED
    BY <1>3, <2>1 DEF NoneBetween
<1>4. ASSUME NoneBetween(s, v, 0, j) PROVE Here(v, j, t) = p
  <2>0. 0 \in 0 .. l - 1
    BY <1>1
  <2>1. NoneBetween(s, w, 0, l)
    BY <1>3, <1>4, <2>0
  <2>2. l \in 1 .. Len(w) + 1 /\ (l = Len(w) + 1 \/ IsData(s, w[l]))
    BY <1>2 DEF n
  <2>3. Here(w, l, t) = p
    BY <2>1, <2>2 DEF InOrder
  <2> QED
    BY <1>2, <2>3
<1>5. ASSUME NEW i \in 1 .. j - 1, IsData(s, v[i]), NoneBetween(s, v, i, j)
      PROVE  Here(v, j, t) = Settle(s, sq, v[i].m, v[i].o + 1)
  <2>1. i # n + 1
    BY <1>1, <1>5
  <2>2. i \in 1 .. l - 1 /\ v[i] = w[i]
    BY <1>1, <1>2, <2>1
  <2>3. NoneBetween(s, w, i, l)
    BY <1>1, <1>2, <1>3, <1>5, <2>2
  <2> QED
    BY <1>2, <1>5, <2>2, <2>3 DEF InOrder, n
<1> QED
  BY <1>4, <1>5

(* The device puts the next byte of the stream onto the line.              *)
LEMMA InOrderAppend ==
  ASSUME NEW s, NEW sq, NEW w \in Seq(WireByte), NEW p, NEW t,
         InOrder(s, sq, w, p, t), NEW b \in WireByte, IsData(s, b), Place(b) = t
  PROVE  InOrder(s, sq, Append(w, b), p, Settle(s, sq, b.m, b.o + 1))
<1> DEFINE v == Append(w, b)
           n == Len(w)
           u == Settle(s, sq, b.m, b.o + 1)
<1>1. /\ n \in Nat /\ Len(v) = n + 1 /\ v[n + 1] = b
      /\ \A i \in 1 .. n : v[i] = w[i]
  BY LenProperties, AppendProperties
<1> HIDE DEF v, n, u
<1> SUFFICES ASSUME NEW j \in 1 .. Len(v) + 1, j = Len(v) + 1 \/ IsData(s, v[j])
             PROVE  /\ NoneBetween(s, v, 0, j) => Here(v, j, u) = p
                    /\ \A i \in 1 .. j - 1 :
                         IsData(s, v[i]) /\ NoneBetween(s, v, i, j)
                           => Here(v, j, u) = Settle(s, sq, v[i].m, v[i].o + 1)
  BY DEF InOrder, v, u
<1>2. CASE j = n + 2
  <2>1. Here(v, j, u) = u
    BY <1>1, <1>2 DEF Here
  <2>2. ASSUME NEW i \in 0 .. n PROVE ~NoneBetween(s, v, i, j)
    <3>1. n + 1 \in i + 1 .. j - 1 /\ IsData(s, v[n + 1])
      BY <1>1, <1>2
    <3> QED
      BY <3>1 DEF NoneBetween
  <2>3. ASSUME NEW i \in 1 .. j - 1, NoneBetween(s, v, i, j) PROVE v[i] = b
    <3>1. i \notin 0 .. n
      BY <2>2, <2>3
    <3> QED
      BY <1>1, <1>2, <3>1
  <2>4. ~NoneBetween(s, v, 0, j)
    BY <1>1, <2>2
  <2> QED
    BY <2>1, <2>3, <2>4 DEF u
<1>3. CASE j # n + 2
  <2>1. j \in 1 .. n + 1
    BY <1>1, <1>3
  <2>2. Here(v, j, u) = Here(w, j, t)
    BY <1>1, <1>3, <2>1 DEF Here, n
  <2>3. j = n + 1 \/ IsData(s, w[j])
    BY <1>1, <1>3, <2>1
  <2>4. ASSUME NEW i \in 0 .. j - 1, NoneBetween(s, v, i, j)
        PROVE  NoneBetween(s, w, i, j)
    <3> SUFFICES ASSUME NEW k \in i + 1 .. j - 1 PROVE ~IsData(s, w[k])
      BY DEF NoneBetween
    <3>1. w[k] = v[k]
      BY <1>1, <2>1
    <3> QED
      BY <2>4, <3>1 DEF NoneBetween
  <2>5. ASSUME NoneBetween(s, v, 0, j) PROVE Here(v, j, u) = p
    <3>1. NoneBetween(s, w, 0, j)
      BY <2>1, <2>4, <2>5
    <3> QED
      BY <2>1, <2>2, <2>3, <3>1 DEF InOrder, n
  <2>6. ASSUME NEW i \in 1 .. j - 1, IsData(s, v[i]), NoneBetween(s, v, i, j)
        PROVE  Here(v, j, u) = Settle(s, sq, v[i].m, v[i].o + 1)
    <3>1. v[i] = w[i] /\ NoneBetween(s, w, i, j)
      BY <1>1, <2>1, <2>4, <2>6
    <3> QED
      BY <2>1, <2>2, <2>3, <2>6, <3>1 DEF InOrder, n
  <2> QED
    BY <2>5, <2>6
<1> QED
  BY <1>2, <1>3

(* The first byte of the line is where the stream goes on; what is left    *)
(* goes on after it.                                                       *)
LEMMA InOrderTail ==
  ASSUME NEW s, NEW sq, NEW w \in Seq(WireByte), w # <<>>, NEW p, NEW t,
         InOrder(s, sq, w, p, t)
  PROVE  /\ ~IsData(s, Head(w)) => InOrder(s, sq, Tail(w), p, t)
         /\ IsData(s, Head(w)) =>
              /\ Place(Head(w)) = p
              /\ InOrder(s, sq, Tail(w), Settle(s, sq, Head(w).m, Head(w).o + 1), t)
<1> DEFINE v == Tail(w)
           n == Len(w)
           b == Head(w)
           q == IF IsData(s, b) THEN Settle(s, sq, b.m, b.o + 1) ELSE p
<1>1. /\ n \in Nat \ {0} /\ b = w[1] /\ Len(v) = n - 1
      /\ \A i \in 1 .. Len(v) : v[i] = w[i + 1]
  BY HeadTailProperties, LenProperties, EmptySeq
<1> HIDE DEF v, n, b
<1>2. IsData(s, b) => Place(b) = p
  <2>1. NoneBetween(s, w, 0, 1) /\ Here(w, 1, t) = Place(w[1])
    BY <1>1 DEF NoneBetween, Here, n
  <2>2. 1 \in 1 .. Len(w) + 1
    BY <1>1 DEF n
  <2> QED
    BY <1>1, <2>1, <2>2 DEF InOrder
<1>3. InOrder(s, sq, v, q, t)
  <2> SUFFICES ASSUME NEW j \in 1 .. Len(v) + 1, j = Len(v) + 1 \/ IsData(s, v[j])
               PROVE  /\ NoneBetween(s, v, 0, j) => Here(v, j, t) = q
                      /\ \A i \in 1 .. j - 1 :
                           IsData(s, v[i]) /\ NoneBetween(s, v, i, j)
                             => Here(v, j, t) = Settle(s, sq, v[i].m, v[i].o + 1)
    BY DEF InOrder
  <2>1. /\ j + 1 \in 1 .. n + 1 /\ Here(v, j, t) = Here(w, j + 1, t)
        /\ j + 1 = n + 1 \/ IsData(s, w[j + 1])
    BY <1>1 DEF Here, n
  <2>2. ASSUME NEW i \in 0 .. j - 1, NoneBetween(s, v, i, j)
        PROVE  NoneBetween(s, w, i + 1, j + 1)
    <3> SUFFICES ASSUME NEW k \in (i + 1) + 1 .. (j + 1) - 1 PROVE ~IsData(s, w[k])
      BY DEF NoneBetween
    <3>1. k - 1 \in i + 1 .. j - 1 /\ w[k] = v[k - 1]
      BY <1>1
    <3> QED
      BY <2>2, <3>1 DEF NoneBetween
  <2>3. ASSUME NoneBetween(s, v, 0, j) PROVE Here(v, j, t) = q
    <3>1. NoneBetween(s, w, 1, j + 1)
      BY <1>1, <2>2, <2>3
    <3>2. CASE IsData(s, b)
      <4>1. 1 \in 1 .. (j + 1) - 1 /\ IsData(s, w[1])
        BY <1>1, <3>2
      <4>2. Here(w, j + 1, t) = Settle(s, sq, w[1].m, w[1].o + 1)
        BY <2>1, <3>1, <4>1 DEF InOrder, n
      <4> QED
        BY <1>1, <2>1, <3>2, <4>2
    <3>3. CASE ~IsData(s, b)
      <4>1. NoneBetween(s, w, 0, j + 1)
        <5> SUFFICES ASSUME NEW k \in 0 + 1 .. (j + 1) - 1 PROVE ~IsData(s, w[k])
          BY DEF NoneBetween
        <5>1. CASE k = 1
          BY <1>1, <3>3, <5>1
        <5>2. CASE k # 1
          <6>1. k \in 1 + 1 .. (j + 1) - 1
            BY <5>2
          <6> QED
            BY <3>1, <6>1 DEF NoneBetween
        <5> QED
          BY <5>1, <5>2
      <4>2. Here(w, j + 1, t) = p
        BY <2>1, <4>1 DEF InOrder, n
      <4> QED
        BY <2>1, <3>3, <4>2
    <3> QED
      BY <3>2, <3>3
  <2>4. ASSUME NEW i \in 1 .. j - 1, IsData(s, v[i]), NoneBetween(s, v, i, j)
        PROVE  Here(v, j, t) = Settle(s, sq, v[i].m, v[i].o + 1)
    <3>1. i + 1 \in 1 .. (j + 1) - 1 /\ v[i] = w[i + 1]
      BY <1>1
    <3>2. NoneBetween(s, w, i + 1, j + 1)
      BY <2>2, <2>4
    <3> QED
      BY <2>1, <2>4, <3>1, <3>2 DEF InOrder, n
  <2> QED
    BY <2>3, <2>4
<1> QED
  BY <1>2, <1>3 DEF v, b

(* Another message in the device's queue does not move what was sent.      *)
LEMMA SettleLonger ==
  ASSUME NEW s, NEW sq \in Seq(Message), NEW x \in Message,
         NEW m \in 1 .. Len(sq), NEW o
  PROVE  Settle(s, Append(sq, x), m, o) = Settle(s, sq, m, o)
<1>1. Append(sq, x)[m] = sq[m] /\ m \in 1 .. Len(Append(sq, x))
  BY AppendProperties, LenProperties
<1> QED
  BY <1>1 DEF Settle

LEMMA InOrderLonger ==
  ASSUME NEW s, NEW sq \in Seq(Message), NEW x \in Message,
         NEW w \in Seq(WireByte), NEW p, NEW t, InOrder(s, sq, w, p, t),
         \A i \in 1 .. Len(w) : IsData(s, w[i]) => w[i].m \in 1 .. Len(sq)
  PROVE  InOrder(s, Append(sq, x), w, p, t)
<1>1. Len(w) \in Nat
  BY LenProperties
<1>2. ASSUME NEW i \in 1 .. Len(w), IsData(s, w[i])
      PROVE  Settle(s, Append(sq, x), w[i].m, w[i].o + 1)
               = Settle(s, sq, w[i].m, w[i].o + 1)
  BY <1>2, SettleLonger
<1> QED
  BY <1>1, <1>2 DEF InOrder

-----------------------------------------------------------------------------
(* The device.                                                             *)

SentKnown == \A s \in Streams : \A i \in 1 .. Len(sent[s]) : sent[s][i] \in Messages[s]

(* It is at a byte of a message, or at the end of the last one.            *)
TxPlaced ==
  \A s \in Streams :
    /\ tx[s].m \in 1 .. Len(sent[s]) + 1
    /\ tx[s].m = Len(sent[s]) + 1 => tx[s].o = 0
    /\ tx[s].m # Len(sent[s]) + 1 => tx[s].o < Total(s, sent[s][tx[s].m])

(* What it may still cut into chunks, or has promised in one, is what it   *)
(* has queued and not transmitted: e[s][k] is where message k ends.        *)
InChunk(s) == IF chunk.s = s THEN chunk.left ELSE 0
CountedBy(e) ==
  \A s \in Streams :
    /\ \A k \in 1 .. Len(sent[s]) : e[s][k] = e[s][k - 1] + Total(s, sent[s][k])
    /\ backlog[s] + InChunk(s) + e[s][tx[s].m - 1] + tx[s].o = e[s][Len(sent[s])]
Backed == \E e \in [Streams -> [Nat -> Nat]] : CountedBy(e)

(* Only bytes of messages that were queued are under way.                  *)
FromSent(b) == ~IsHdr(b) => b.m \in 1 .. Len(sent[b.s])
OnlySent ==
  /\ \A i \in 1 .. Len(wire) : FromSent(wire[i])
  /\ \A i \in 1 .. Len(got) : FromSent(got[i])

DeviceInv == SentKnown /\ TxPlaced /\ Backed /\ OnlySent

(* A message is at least as long as its header, and longer unless it is an *)
(* overflow report.                                                        *)
LEMMA TotalBounds ==
  ASSUME MessagesProper, NEW s \in Streams, NEW msg \in Messages[s]
  PROVE  /\ msg \in Message /\ HdrSize[s] \in Nat \ {0}
         /\ Total(s, msg) \in Nat /\ Total(s, msg) >= HdrSize[s]
         /\ s = "dbgl" /\ msg.mark # "LOG" => msg.mark = "OVFL" /\ Total(s, msg) = HdrSize[s]
         /\ s = "dbgl" /\ msg.mark = "LOG" => Total(s, msg) = msg.size /\ msg.size > HdrSize[s]
         /\ s = "crsp" => /\ msg.mark = "RSP" /\ Total(s, msg) = HdrSize[s] + msg.size
                          /\ msg.size \notin {0, HdrSize[s]}
<1>1. msg \in Message /\ HdrSize[s] \in Nat \ {0}
  BY ConstantsAssumption
<1>2. msg.size \in Nat
  BY <1>1 DEF Message
<1>3. CASE s = "crsp"
  BY <1>1, <1>2, <1>3 DEF Total, MessagesProper
<1>4. CASE s = "dbgl"
  BY <1>1, <1>2, <1>4 DEF Total, MessagesProper
<1> QED
  BY <1>3, <1>4 DEF Streams

LEMMA SentTotal ==
  ASSUME MessagesProper, TypeOK, SentKnown, NEW s \in Streams,
         NEW m \in 1 .. Len(sent[s])
  PROVE  /\ Total(s, sent[s][m]) \in Nat \ {0} /\ Total(s, sent[s][m]) >= HdrSize[s]
         /\ HdrSize[s] \in Nat \ {0} /\ Len(sent[s]) \in Nat
<1>1. sent[s][m] \in Messages[s] /\ sent[s] \in Seq(Message)
  BY DEF SentKnown, TypeOK, DeviceTypes
<1>2. /\ Total(s, sent[s][m]) \in Nat /\ Total(s, sent[s][m]) >= HdrSize[s]
      /\ HdrSize[s] \in Nat \ {0}
  BY <1>1, TotalBounds
<1> QED
  BY <1>1, <1>2, LenProperties

(* What the device transmits in a chunk is there (DevByte of DevRx reads   *)
(* sent[s][m]): it never opened a chunk for more than it had.              *)
LEMMA ChunkBacked ==
  ASSUME TypeOK, DeviceInv, NEW s \in Streams, InChunk(s) > 0
  PROVE  tx[s].m \in 1 .. Len(sent[s])
<1> DEFINE n == Len(sent[s])
           c == InChunk(s)
           m == tx[s].m
<1>1. c \in Nat \ {0} /\ backlog[s] \in Nat /\ sent[s] \in Seq(Message)
  BY DEF TypeOK, DeviceTypes, InChunk
<1>2. n \in Nat
  BY <1>1, LenProperties
<1>3. /\ m \in 1 .. n + 1
      /\ m = n + 1 => tx[s].o = 0
  BY DEF DeviceInv, TxPlaced
<1>4. PICK e \in [Streams -> [Nat -> Nat]] : CountedBy(e)
  BY DEF DeviceInv, Backed
<1>5. backlog[s] + c + e[s][m - 1] + tx[s].o = e[s][n]
  BY <1>4 DEF CountedBy
<1>6. e[s][n] \in Nat
  BY <1>2, <1>4
<1> HIDE DEF n, c, m
<1>7. m # n + 1
  <2> SUFFICES ASSUME m = n + 1 PROVE FALSE
    OBVIOUS
  <2>1. m - 1 = n /\ tx[s].o = 0
    BY <1>2, <1>3
  <2>2. backlog[s] + c + e[s][n] + 0 = e[s][n]
    BY <1>5, <2>1
  <2>3. \A a, x \in Nat : \A d \in Nat \ {0} : a + d + x + 0 # x
    OBVIOUS
  <2> QED
    BY <1>1, <1>6, <2>2, <2>3
<1>8. m \in 1 .. n
  BY <1>2, <1>3, <1>7
<1> QED
  BY <1>8 DEF m, n

LEMMA DeviceInvSame ==
  ASSUME DeviceInv, UNCHANGED <<sent, tx, backlog, chunk, wire>>,
         got' = got \/ got' = <<>>
  PROVE  DeviceInv'
<1>1. SentKnown' /\ TxPlaced' /\ Backed'
  BY DEF DeviceInv, SentKnown, TxPlaced, Backed, CountedBy, InChunk
<1>2. OnlySent'
  <2>1. Len(<<>>) = 0
    BY EmptySeq
  <2> QED
    BY <2>1 DEF DeviceInv, OnlySent, FromSent
<1> QED
  BY <1>1, <1>2 DEF DeviceInv

LEMMA DevQueueInv ==
  ASSUME MessagesProper, TypeOK, DeviceInv, NEW s \in Streams, DevQueue(s)
  PROVE  DeviceInv'
<1> DEFINE n == Len(sent[s])
<1>1. PICK msg \in Messages[s] :
        /\ sent' = [sent EXCEPT ![s] = Append(@, msg)]
        /\ backlog' = [backlog EXCEPT ![s] = @ + Total(s, msg)]
  BY DEF DevQueue
<1>2. UNCHANGED <<tx, chunk, wire, got>>
  BY DEF DevQueue, readVars
<1>3. /\ msg \in Message /\ Total(s, msg) \in Nat \ {0}
      /\ HdrSize[s] \in Nat \ {0}
  BY TotalBounds
<1>4. /\ sent \in [Streams -> Seq(Message)] /\ backlog \in [Streams -> Nat]
      /\ tx \in [Streams -> [m : Nat, o : Nat]] /\ chunk \in [s : Streams, left : Nat]
      /\ wire \in Seq(WireByte) /\ got \in Seq(WireByte)
  BY DEF TypeOK, DeviceTypes, ReadTypes
<1>5. \A r \in Streams : Len(sent[r]) \in Nat
  BY <1>4, LenProperties
<1>6. /\ sent'[s] = Append(sent[s], msg) /\ Len(sent'[s]) = n + 1 /\ n \in Nat
      /\ \A i \in 1 .. n : sent'[s][i] = sent[s][i]
      /\ sent'[s][n + 1] = msg
      /\ \A r \in Streams : r # s => sent'[r] = sent[r]
  BY <1>1, <1>3, <1>4, <1>5, AppendProperties
<1> HIDE DEF n
<1>7. SentKnown'
  <2> SUFFICES ASSUME NEW r \in Streams, NEW i \in 1 .. Len(sent'[r])
               PROVE  sent'[r][i] \in Messages[r]
    BY DEF SentKnown
  <2>1. CASE r # s
    BY <1>6, <2>1 DEF DeviceInv, SentKnown
  <2>2. CASE r = s /\ i = n + 1
    BY <1>6, <2>2
  <2>3. CASE r = s /\ i # n + 1
    <3>1. i \in 1 .. n
      BY <1>6, <2>3
    <3> QED
      BY <1>6, <2>3, <3>1 DEF DeviceInv, SentKnown, n
  <2> QED
    BY <2>1, <2>2, <2>3
<1>8. TxPlaced'
  <2> SUFFICES ASSUME NEW r \in Streams
        PROVE  /\ tx[r].m \in 1 .. Len(sent'[r]) + 1
               /\ tx[r].m = Len(sent'[r]) + 1 => tx[r].o = 0
               /\ tx[r].m # Len(sent'[r]) + 1 => tx[r].o < Total(r, sent'[r][tx[r].m])
    BY <1>2 DEF TxPlaced
  <2>1. /\ tx[r].m \in 1 .. Len(sent[r]) + 1
        /\ tx[r].m = Len(sent[r]) + 1 => tx[r].o = 0
        /\ tx[r].m # Len(sent[r]) + 1 => tx[r].o < Total(r, sent[r][tx[r].m])
    BY DEF DeviceInv, TxPlaced
  <2>2. CASE r # s
    BY <1>6, <2>1, <2>2
  <2>3. CASE r = s
    <3>1. CASE tx[r].m = n + 1
      BY <1>3, <1>6, <2>1, <2>3, <3>1 DEF n
    <3>2. CASE tx[r].m # n + 1
      <4>1. tx[r].m \in 1 .. n
        BY <1>6, <2>1, <2>3, <3>2 DEF n
      <4>2. sent'[r][tx[r].m] = sent[r][tx[r].m]
        BY <1>6, <2>3, <4>1
      <4> QED
        BY <1>6, <2>1, <2>3, <4>1, <4>2 DEF n
    <3> QED
      BY <3>1, <3>2
  <2> QED
    BY <2>2, <2>3
<1>9. Backed'
  <2>1. PICK e \in [Streams -> [Nat -> Nat]] : CountedBy(e)
    BY DEF DeviceInv, Backed
  <2>2. e[s] \in [Nat -> Nat] /\ n \in Nat
    BY <1>6, <2>1
  <2>3. e[s][n] \in Nat /\ e[s][n] + Total(s, msg) \in Nat /\ n + 1 \in Nat
    BY <1>3, <2>2
  <2>4. PICK f \in [Streams -> [Nat -> Nat]] :
          /\ \A r \in Streams : r # s => f[r] = e[r]
          /\ \A k \in 0 .. n : f[s][k] = e[s][k]
          /\ f[s][n + 1] = e[s][n] + Total(s, msg)
    <3> DEFINE g == [e[s] EXCEPT ![n + 1] = e[s][n] + Total(s, msg)]
               f == [e EXCEPT ![s] = g]
    <3>1. g \in [Nat -> Nat] /\ g[n + 1] = e[s][n] + Total(s, msg)
          /\ \A k \in 0 .. n : g[k] = e[s][k]
      BY <2>2, <2>3
    <3> HIDE DEF g
    <3>2. f \in [Streams -> [Nat -> Nat]] /\ f[s] = g
          /\ \A r \in Streams : r # s => f[r] = e[r]
      BY <2>1, <3>1
    <3> HIDE DEF f
    <3> QED
      BY <3>1, <3>2
  <2>5. CountedBy(f)'
    <3> SUFFICES ASSUME NEW r \in Streams
          PROVE /\ \A k \in 1 .. Len(sent'[r]) :
                     f[r][k] = f[r][k - 1] + Total(r, sent'[r][k])
                /\ backlog'[r] + InChunk(r) + f[r][tx[r].m - 1] + tx[r].o
                     = f[r][Len(sent'[r])]
      BY <1>2 DEF CountedBy, InChunk
    <3>1. /\ \A k \in 1 .. Len(sent[r]) : e[r][k] = e[r][k - 1] + Total(r, sent[r][k])
          /\ backlog[r] + InChunk(r) + e[r][tx[r].m - 1] + tx[r].o = e[r][Len(sent[r])]
      BY <2>1 DEF CountedBy
    <3>2. CASE r # s
      <4>1. sent'[r] = sent[r] /\ f[r] = e[r] /\ backlog'[r] = backlog[r]
        BY <1>1, <1>4, <1>6, <2>4, <3>2
      <4> QED
        BY <3>1, <4>1
    <3>3. CASE r = s
      <4>1. ASSUME NEW k \in 1 .. n + 1
            PROVE  f[s][k] = f[s][k - 1] + Total(s, sent'[s][k])
        <5>1. CASE k = n + 1
          <6>1. k - 1 = n /\ n \in 0 .. n
            BY <1>6, <5>1
          <6> QED
            BY <1>6, <2>4, <5>1, <6>1
        <5>2. CASE k # n + 1
          <6>1. k \in 1 .. n /\ k \in 0 .. n /\ k - 1 \in 0 .. n
            BY <2>2, <5>2
          <6>2. f[s][k] = e[s][k] /\ f[s][k - 1] = e[s][k - 1]
                /\ sent'[s][k] = sent[s][k]
            BY <1>6, <2>4, <6>1
          <6> QED
            BY <3>1, <3>3, <6>1, <6>2 DEF n
        <5> QED
          BY <5>1, <5>2
      <4>1a. tx[s].m \in 1 .. n + 1
        BY DEF DeviceInv, TxPlaced, n
      <4>1b. tx[s].m - 1 \in 0 .. n /\ tx[s].m - 1 \in Nat
        BY <2>2, <4>1a
      <4>2. /\ tx[s].m - 1 \in 0 .. n /\ tx[s].m - 1 \in Nat /\ tx[s].o \in Nat
            /\ InChunk(s) \in Nat /\ backlog[s] \in Nat
        BY <1>4, <4>1b DEF InChunk
      <4>3. f[s][tx[s].m - 1] = e[s][tx[s].m - 1] /\ e[s][tx[s].m - 1] \in Nat
        BY <2>2, <2>4, <4>2
      <4>4. backlog'[s] = backlog[s] + Total(s, msg)
        BY <1>1, <1>4
      <4>5. backlog'[s] + InChunk(s) + f[s][tx[s].m - 1] + tx[s].o = f[s][n + 1]
        <5>1. backlog[s] + InChunk(s) + e[s][tx[s].m - 1] + tx[s].o = e[s][n]
          BY <3>1, <3>3 DEF n
        <5>2. e[s][n] \in Nat
          BY <2>3
        <5> QED
          BY <1>3, <2>4, <4>2, <4>3, <4>4, <5>1, <5>2
      <4> QED
        BY <1>6, <3>3, <4>1, <4>5
    <3> QED
      BY <3>2, <3>3
  <2> QED
    BY <2>5 DEF Backed
<1>10. OnlySent'
  <2>1. ASSUME NEW b \in WireByte, FromSent(b) PROVE FromSent(b)'
    <3>1. b.s \in Streams
      BY DEF WireByte
    <3> QED
      BY <1>5, <1>6, <2>1, <3>1 DEF FromSent, n
  <2>2. (\A i \in 1 .. Len(wire) : wire[i] \in WireByte)
        /\ (\A i \in 1 .. Len(got) : got[i] \in WireByte)
    BY <1>4, ElementOfSeq
  <2> QED
    BY <1>2, <2>1, <2>2 DEF DeviceInv, OnlySent
<1> QED
  BY <1>7, <1>8, <1>9, <1>10 DEF DeviceInv

LEMMA DevStartChunkInv ==
  ASSUME TypeOK, DeviceInv, NEW s \in Streams, NEW k \in ChunkLens,
         DevStartChunk(s, k)
  PROVE  DeviceInv'
<1>1. /\ chunk.left = 0 /\ k <= backlog[s] /\ k \in Nat
      /\ chunk' = [s |-> s, left |-> k]
      /\ backlog' = [backlog EXCEPT ![s] = @ - k]
      /\ wire' = Append(wire, HdrByte(s, k))
      /\ UNCHANGED <<sent, tx, got>>
  BY ConstantsAssumption DEF DevStartChunk, readVars
<1>2. /\ backlog \in [Streams -> Nat] /\ wire \in Seq(WireByte)
      /\ chunk \in [s : Streams, left : Nat]
  BY DEF TypeOK, DeviceTypes
<1>3. SentKnown' /\ TxPlaced'
  BY <1>1 DEF DeviceInv, SentKnown, TxPlaced
<1>4. \A r \in Streams : backlog'[r] + InChunk(r)' = backlog[r] + InChunk(r)
  <2> TAKE r \in Streams
  <2>1. CASE r = s
    BY <1>1, <1>2, <2>1 DEF InChunk
  <2>2. CASE r # s
    BY <1>1, <1>2, <2>2 DEF InChunk
  <2> QED
    BY <2>1, <2>2
<1>5. Backed'
  <2>1. PICK e \in [Streams -> [Nat -> Nat]] : CountedBy(e)
    BY DEF DeviceInv, Backed
  <2>2. CountedBy(e)'
    BY <1>1, <1>4, <2>1 DEF CountedBy
  <2> QED
    BY <2>2 DEF Backed
<1>6. OnlySent'
  <2> DEFINE b == HdrByte(s, k)
  <2>1. b \in WireByte /\ IsHdr(b)
    BY <1>1 DEF HdrByte, WireByte, IsHdr
  <2> HIDE DEF b
  <2>2. /\ Len(wire') = Len(wire) + 1 /\ wire'[Len(wire) + 1] = b
        /\ Len(wire) \in Nat
        /\ \A i \in 1 .. Len(wire) : wire'[i] = wire[i]
    BY <1>1, <1>2, <2>1, AppendProperties, LenProperties DEF b
  <2>3. ASSUME NEW i \in 1 .. Len(wire') PROVE FromSent(wire'[i])
    <3>1. CASE i = Len(wire) + 1
      BY <2>1, <2>2, <3>1 DEF FromSent
    <3>2. CASE i # Len(wire) + 1
      <4>1. i \in 1 .. Len(wire) /\ wire'[i] = wire[i]
        BY <2>2, <3>2
      <4> QED
        BY <4>1 DEF DeviceInv, OnlySent
    <3> QED
      BY <3>1, <3>2
  <2> QED
    BY <1>1, <2>3 DEF DeviceInv, OnlySent, FromSent
<1> QED
  BY <1>3, <1>5, <1>6 DEF DeviceInv

(* The place after a byte of a message that was queued.                    *)
LEMMA DevByteMoves ==
  ASSUME MessagesProper, TypeOK, DeviceInv, DevByte, NEW s \in Streams, s = chunk.s
  PROVE  /\ tx[s].m \in 1 .. Len(sent[s]) /\ tx[s].o \in Nat
         /\ tx[s].o < Total(s, sent[s][tx[s].m])
         /\ tx'[s] = Settle(s, sent[s], tx[s].m, tx[s].o + 1)
         /\ \A r \in Streams : r # s => tx'[r] = tx[r]
<1>1. /\ chunk.left > 0 /\ tx \in [Streams -> [m : Nat, o : Nat]]
      /\ chunk.left \in Nat
  BY DEF DevByte, TypeOK, DeviceTypes
<1>2. tx[s].m \in 1 .. Len(sent[s]) /\ tx[s].o \in Nat
  BY <1>1, ChunkBacked DEF InChunk
<1>3. Len(sent[s]) \in Nat
  BY <1>2, SentTotal DEF DeviceInv
<1>4. tx[s].o < Total(s, sent[s][tx[s].m])
  BY <1>2, <1>3 DEF DeviceInv, TxPlaced
<1>5. tx' = [tx EXCEPT ![s] =
               IF tx[s].o + 1 = Total(s, sent[s][tx[s].m])
               THEN [m |-> tx[s].m + 1, o |-> 0]
               ELSE [m |-> tx[s].m, o |-> tx[s].o + 1]]
  BY DEF DevByte
<1> QED
  BY <1>1, <1>2, <1>4, <1>5 DEF Settle

LEMMA DevByteInv ==
  ASSUME MessagesProper, TypeOK, DeviceInv, DevByte
  PROVE  DeviceInv'
<1> SUFFICES ASSUME NEW s \in Streams, s = chunk.s PROVE DeviceInv'
  BY DEF TypeOK, DeviceTypes
<1> DEFINE m == tx[s].m
           o == tx[s].o
           n == Len(sent[s])
           total == Total(s, sent[s][m])
           b == DataByte(s, m, o, chunk.left - 1)
<1>1. /\ chunk.left > 0 /\ chunk' = [chunk EXCEPT !.left = @ - 1]
      /\ wire' = Append(wire, b)
      /\ UNCHANGED <<sent, backlog, got>>
  BY DEF DevByte, readVars
<1>2. /\ chunk \in [s : Streams, left : Nat] /\ wire \in Seq(WireByte)
      /\ backlog \in [Streams -> Nat]
  BY DEF TypeOK, DeviceTypes
<1>3. /\ m \in 1 .. n /\ o \in Nat /\ o < total
      /\ tx'[s] = Settle(s, sent[s], m, o + 1)
      /\ \A r \in Streams : r # s => tx'[r] = tx[r]
  BY DevByteMoves
<1>4. total \in Nat /\ n \in Nat
  BY <1>3, SentTotal DEF DeviceInv
<1>5. tx'[s] = IF o + 1 = total THEN [m |-> m + 1, o |-> 0] ELSE [m |-> m, o |-> o + 1]
  BY <1>3 DEF Settle
<1>6. /\ InChunk(s) = InChunk(s)' + 1 /\ InChunk(s)' \in Nat
      /\ \A r \in Streams : r # s => InChunk(r)' = InChunk(r)
  BY <1>1, <1>2 DEF InChunk
<1>7. b \in WireByte /\ FromSent(b)
  BY <1>1, <1>2, <1>3 DEF DataByte, WireByte, FromSent, IsHdr
<1> HIDE DEF m, o, n, total, b
<1>8. SentKnown'
  BY <1>1 DEF DeviceInv, SentKnown
<1>9. TxPlaced'
  <2> SUFFICES ASSUME NEW r \in Streams
        PROVE  /\ tx'[r].m \in 1 .. Len(sent[r]) + 1
               /\ tx'[r].m = Len(sent[r]) + 1 => tx'[r].o = 0
               /\ tx'[r].m # Len(sent[r]) + 1 => tx'[r].o < Total(r, sent[r][tx'[r].m])
    BY <1>1 DEF TxPlaced
  <2>1. CASE r # s
    BY <1>3, <2>1 DEF DeviceInv, TxPlaced
  <2>2. CASE r = s /\ o + 1 # total
    <3>1. tx'[s].m = m /\ tx'[s].o = o + 1
      BY <1>5, <2>2
    <3>2. m \in 1 .. n + 1 /\ m # n + 1 /\ o + 1 < total
      BY <1>3, <1>4, <2>2
    <3> QED
      BY <2>2, <3>1, <3>2 DEF n, total
  <2>3. CASE r = s /\ o + 1 = total
    <3>1. tx'[s].m = m + 1 /\ tx'[s].o = 0
      BY <1>5, <2>3
    <3>2. m + 1 \in 1 .. n + 1
      BY <1>3, <1>4
    <3>3. ASSUME m + 1 # n + 1 PROVE 0 < Total(s, sent[s][m + 1])
      <4>1. m + 1 \in 1 .. Len(sent[s])
        BY <1>4, <3>2, <3>3 DEF n
      <4>2. Total(s, sent[s][m + 1]) \in Nat \ {0}
        BY <4>1, SentTotal DEF DeviceInv
      <4> QED
        BY <4>2
    <3> QED
      BY <2>3, <3>1, <3>2, <3>3 DEF n
  <2> QED
    BY <2>1, <2>2, <2>3
<1>10. Backed'
  <2>1. PICK e \in [Streams -> [Nat -> Nat]] : CountedBy(e)
    BY DEF DeviceInv, Backed
  <2>2. CountedBy(e)'
    <3> SUFFICES ASSUME NEW r \in Streams
          PROVE backlog[r] + InChunk(r)' + e[r][tx'[r].m - 1] + tx'[r].o
                  = e[r][Len(sent[r])]
      BY <1>1, <2>1 DEF CountedBy
    <3>1. backlog[r] + InChunk(r) + e[r][tx[r].m - 1] + tx[r].o = e[r][Len(sent[r])]
      BY <2>1 DEF CountedBy
    <3>2. CASE r # s
      BY <1>3, <1>6, <3>1, <3>2
    <3>3. CASE r = s
      <4>1. m - 1 \in Nat /\ m \in Nat
        BY <1>3, <1>4
      <4>2. PICK a \in Nat, c \in Nat, x \in Nat, y \in Nat, z \in Nat :
              /\ a = backlog[s] /\ c = InChunk(s)'
              /\ x = e[s][m - 1] /\ y = e[s][n] /\ z = e[s][m]
        BY <1>2, <1>4, <1>6, <4>1
      <4>3. a + (c + 1) + x + o = y
        BY <1>6, <3>1, <3>3, <4>2 DEF m, o, n
      <4>4. CASE o + 1 # total
        <5>1. tx'[s].m = m /\ tx'[s].o = o + 1
          BY <1>5, <4>4
        <5>2. a + c + x + (o + 1) = y
          BY <1>3, <4>3
        <5> QED
          BY <3>3, <4>2, <5>1, <5>2 DEF n
      <4>5. CASE o + 1 = total
        <5>1. tx'[s].m = m + 1 /\ tx'[s].o = 0 /\ (m + 1) - 1 = m
          BY <1>3, <1>4, <1>5, <4>5
        <5>2. z = x + (o + 1)
          BY <1>3, <2>1, <4>2, <4>5 DEF CountedBy, n, total
        <5>3. a + c + z + 0 = y
          BY <1>3, <4>3, <5>2
        <5>4. backlog[s] + InChunk(s)' + e[s][tx'[s].m - 1] + tx'[s].o = e[s][n]
          BY <4>2, <5>1, <5>3
        <5> QED
          BY <3>3, <5>4 DEF n
      <4> QED
        BY <4>4, <4>5
    <3> QED
      BY <3>2, <3>3
  <2> QED
    BY <2>2 DEF Backed
<1>11. OnlySent'
  <2>1. /\ Len(wire') = Len(wire) + 1 /\ wire'[Len(wire) + 1] = b
        /\ Len(wire) \in Nat
        /\ \A i \in 1 .. Len(wire) : wire'[i] = wire[i]
    BY <1>1, <1>2, <1>7, AppendProperties, LenProperties
  <2>2. ASSUME NEW i \in 1 .. Len(wire') PROVE FromSent(wire'[i])
    <3>1. CASE i = Len(wire) + 1
      BY <1>7, <2>1, <3>1
    <3>2. CASE i # Len(wire) + 1
      <4>1. i \in 1 .. Len(wire) /\ wire'[i] = wire[i]
        BY <2>1, <3>2
      <4> QED
        BY <4>1 DEF DeviceInv, OnlySent
    <3> QED
      BY <3>1, <3>2
  <2> QED
    BY <1>1, <2>2 DEF DeviceInv, OnlySent, FromSent
<1> QED
  BY <1>8, <1>9, <1>10, <1>11 DEF DeviceInv

(* A device that is lost starts over, at the end of what it had queued.    *)
LEMMA DeviceLostInv ==
  ASSUME TypeOK, DeviceInv, DeviceLost, got' = got \/ got' = <<>>
  PROVE  DeviceInv'
<1>1. /\ sent' = sent /\ wire' = <<>>
      /\ chunk' = [chunk EXCEPT !.left = 0]
      /\ backlog' = [r \in Streams |-> 0]
      /\ tx' = [r \in Streams |-> [m |-> Len(sent[r]) + 1, o |-> 0]]
  BY DEF DeviceLost
<1>2. \A r \in Streams : Len(sent[r]) \in Nat
  BY LenProperties DEF TypeOK, DeviceTypes
<1>3. \A r \in Streams : /\ tx'[r].m = Len(sent[r]) + 1 /\ tx'[r].o = 0
                         /\ backlog'[r] = 0 /\ InChunk(r)' = 0
  BY <1>1 DEF TypeOK, DeviceTypes, InChunk
<1>4. SentKnown' /\ TxPlaced'
  BY <1>1, <1>2, <1>3 DEF DeviceInv, SentKnown, TxPlaced
<1>5. Backed'
  <2>1. PICK e \in [Streams -> [Nat -> Nat]] : CountedBy(e)
    BY DEF DeviceInv, Backed
  <2>2. CountedBy(e)'
    <3> SUFFICES ASSUME NEW r \in Streams
          PROVE backlog'[r] + InChunk(r)' + e[r][tx'[r].m - 1] + tx'[r].o
                  = e[r][Len(sent[r])]
      BY <1>1, <2>1 DEF CountedBy
    <3>0. Len(sent[r]) \in Nat /\ tx'[r].m = Len(sent[r]) + 1
      BY <1>2, <1>3
    <3>1. e[r][Len(sent[r])] \in Nat /\ tx'[r].m - 1 = Len(sent[r])
      <4>1. tx'[r].m - 1 = Len(sent[r])
        BY <3>0
      <4>2. e[r][Len(sent[r])] \in Nat
        BY <2>1, <3>0
      <4> QED
        BY <4>1, <4>2
    <3>2. 0 + 0 + e[r][Len(sent[r])] + 0 = e[r][Len(sent[r])]
      BY <3>1
    <3> QED
      BY <1>3, <3>1, <3>2
  <2> QED
    BY <2>2 DEF Backed
<1>6. OnlySent'
  <2>1. Len(<<>>) = 0
    BY EmptySeq
  <2> QED
    BY <1>1, <2>1 DEF DeviceInv, OnlySent, FromSent
<1> QED
  BY <1>4, <1>5, <1>6 DEF DeviceInv

LEMMA DriverByteInv ==
  ASSUME TypeOK, DeviceInv, DriverByte
  PROVE  DeviceInv'
<1>1. /\ wire # <<>> /\ got' = Append(got, Head(wire)) /\ wire' = Tail(wire)
      /\ UNCHANGED <<sent, tx, backlog, chunk>>
  BY DEF DriverByte
<1>2. wire \in Seq(WireByte) /\ got \in Seq(WireByte)
  BY DEF TypeOK, DeviceTypes, ReadTypes
<1>3. /\ Len(wire) \in Nat \ {0} /\ Head(wire) = wire[1] /\ Head(wire) \in WireByte
      /\ Len(wire') = Len(wire) - 1
      /\ \A i \in 1 .. Len(wire') : wire'[i] = wire[i + 1]
  BY <1>1, <1>2, HeadTailProperties, LenProperties, EmptySeq
<1>4. /\ Len(got') = Len(got) + 1 /\ got'[Len(got) + 1] = Head(wire)
      /\ Len(got) \in Nat
      /\ \A i \in 1 .. Len(got) : got'[i] = got[i]
  BY <1>1, <1>2, <1>3, AppendProperties, LenProperties
<1>5. SentKnown' /\ TxPlaced' /\ Backed'
  BY <1>1 DEF DeviceInv, SentKnown, TxPlaced, Backed, CountedBy, InChunk
<1>6. ASSUME NEW i \in 1 .. Len(wire') PROVE FromSent(wire'[i])
  <2>1. i + 1 \in 1 .. Len(wire) /\ wire'[i] = wire[i + 1]
    BY <1>3
  <2> QED
    BY <2>1 DEF DeviceInv, OnlySent
<1>7. ASSUME NEW i \in 1 .. Len(got') PROVE FromSent(got'[i])
  <2>1. CASE i = Len(got) + 1
    <3>1. 1 \in 1 .. Len(wire) /\ got'[i] = wire[1]
      BY <1>3, <1>4, <2>1
    <3> QED
      BY <3>1 DEF DeviceInv, OnlySent
  <2>2. CASE i # Len(got) + 1
    <3>1. i \in 1 .. Len(got) /\ got'[i] = got[i]
      BY <1>4, <2>2
    <3> QED
      BY <3>1 DEF DeviceInv, OnlySent
  <2> QED
    BY <2>1, <2>2
<1>8. OnlySent'
  BY <1>1, <1>6, <1>7 DEF OnlySent, FromSent
<1> QED
  BY <1>5, <1>8 DEF DeviceInv

(* The device's part of the invariant.                                     *)
LEMMA NextDeviceInv ==
  ASSUME MessagesProper, TypeOK, DeviceInv, Next
  PROVE  DeviceInv'
<1>1. CASE Device
  BY <1>1, DevQueueInv, DevStartChunkInv, DevByteInv DEF Device
<1>2. CASE Unplug \/ Plug
  BY <1>2, DeviceLostInv, DeviceInvSame DEF Unplug, Plug, readVars
<1>3. CASE Driver
  BY <1>3, DriverByteInv, DeviceInvSame DEF Driver, DriverComplete, deviceVars
<1>4. CASE MainLoopWait
  <2>1. UNCHANGED deviceVars
    BY <1>4 DEF MainLoopWait, WakeNotIdle, WakeTimeout, WakeTx, RxFailed, RxTimeout,
       RxChunkHeader, RxPartial, RxOverrun, DbglHeader, DbglMessage, CrspHeader,
       CrspMessage, AwaitMessage, Deliver
  <2>2. got' = got \/ got' = <<>>
    BY <1>4 DEF MainLoopWait, WakeNotIdle, WakeTimeout, WakeTx, RxFailed, RxTimeout,
       RxChunkHeader, RxPartial, RxOverrun, DbglHeader, DbglMessage, CrspHeader,
       CrspMessage, AwaitMessage, Deliver, NextRead, dev_rx_init, Fall, readVars
  <2> QED
    BY <2>1, <2>2, DeviceInvSame DEF deviceVars
<1>5. CASE DevCheck
  <2>1. CASE CheckOpens
    <3>1. /\ wire' = <<>> /\ got' = <<>> /\ UNCHANGED <<sent, tx, backlog, chunk>>
      BY <2>1 DEF CheckOpens
    <3>2. SentKnown' /\ TxPlaced' /\ Backed'
      BY <3>1 DEF DeviceInv, SentKnown, TxPlaced, Backed, CountedBy, InChunk
    <3>3. OnlySent'
      BY <3>1, EmptySeq DEF OnlySent
    <3> QED
      BY <3>2, <3>3 DEF DeviceInv
  <2>2. CASE CheckOpensThenLost
    BY <2>2, DeviceLostInv DEF CheckOpensThenLost
  <2>3. CASE CheckOpenFails \/ CheckCloses \/ CheckConnected
    BY <2>3, DeviceInvSame
    DEF CheckOpenFails, CheckCloses, CheckConnected, deviceVars, readVars
  <2> QED
    BY <1>5, <2>1, <2>2, <2>3 DEF DevCheck
<1> QED
  BY <1>1, <1>2, <1>3, <1>4, <1>5 DEF Next
-----------------------------------------------------------------------------

(* The IO process, on a stream that started in step.                       *)

(* Buffer b holds the first bytes of message e, and n is what it is known  *)
(* to need: a header, then the whole message.                              *)
Known(s, sq, e, b) == IF Len(b) < HdrSize[s] THEN HdrSize[s] ELSE Total(s, sq[e])
Pieces(s, e, b) == \A i \in 1 .. Len(b) : b[i] = [s |-> s, m |-> e, o |-> i - 1]
Holds(s, sq, e, b, n) ==
  /\ Pieces(s, e, b)
  /\ b # <<>> => e \in 1 .. Len(sq)
  /\ n = Known(s, sq, e, b)
  /\ Len(b) < n

Buffers == \A s \in Streams : clean[s] => Holds(s, sent[s], expect[s], buf[s], btr[s])

(* The read in progress is for the bytes that come next, and stays within  *)
(* the message.                                                            *)
ReadInStep ==
  Reading /\ curr # None /\ clean[curr] =>
    /\ req >= 1
    /\ Len(buf[curr]) + req <= btr[curr]
    /\ \A i \in 1 .. Len(got) :
         got[i].m = expect[curr] /\ got[i].o = Len(buf[curr]) + i - 1

(* And the line goes on where the buffer and the read end.                 *)
InHand(s) == IF curr = s THEN Len(got) ELSE 0
Front(s) == Settle(s, sent[s], expect[s], Len(buf[s]) + InHand(s))
LineInOrder ==
  Reading /\ link = "open" =>
    \A s \in Streams : clean[s] => InOrder(s, sent[s], wire, Front(s), tx[s])

MessageInv ==
  /\ FrameInv /\ DeviceInv
  /\ Buffers /\ ReadInStep /\ LineInOrder
  /\ DeliveredIntact /\ HangsOnlyOutOfStep

LEMMA MessageTypes ==
  ASSUME MessageInv
  PROVE  /\ TypeOK /\ DeviceInv /\ FrameInv
         /\ got \in Seq(WireByte) /\ Len(got) \in Nat
         /\ wire \in Seq(WireByte) /\ stream_len \in Nat /\ req \in Nat
         /\ \A s \in Streams :
              /\ s # None /\ HdrSize[s] \in Nat \ {0}
              /\ buf[s] \in Seq(ByteOrigin) /\ Len(buf[s]) \in Nat /\ btr[s] \in Nat
              /\ sent[s] \in Seq(Message) /\ Len(sent[s]) \in Nat
              /\ expect[s] \in Nat
<1>1. TypeOK
  BY DEF MessageInv, FrameInv, IInv
<1>2. /\ got \in Seq(WireByte) /\ wire \in Seq(WireByte)
      /\ stream_len \in Nat /\ req \in Nat
  BY <1>1 DEF TypeOK, ReadTypes, DeviceTypes, DemuxTypes
<1>3. \A s \in Streams :
        /\ s # None /\ HdrSize[s] \in Nat \ {0}
        /\ buf[s] \in Seq(ByteOrigin) /\ btr[s] \in Nat
        /\ sent[s] \in Seq(Message) /\ expect[s] \in Nat
  BY <1>1, ConstantsAssumption
  DEF TypeOK, DemuxTypes, DeviceTypes, GhostTypes, Streams, None
<1> QED
  BY <1>1, <1>2, <1>3, LenProperties DEF MessageInv

(* What a stream in step is known to need never exceeds the message.       *)
LEMMA KnownBounds ==
  ASSUME MessagesProper, MessageInv, NEW s \in Streams, clean[s],
         expect[s] \in 1 .. Len(sent[s])
  PROVE  /\ btr[s] <= Total(s, sent[s][expect[s]])
         /\ Total(s, sent[s][expect[s]]) \in Nat \ {0}
         /\ HdrSize[s] <= Total(s, sent[s][expect[s]])
         /\ Len(buf[s]) < HdrSize[s] => btr[s] = HdrSize[s]
         /\ Len(buf[s]) >= HdrSize[s] => btr[s] = Total(s, sent[s][expect[s]])
<1> DEFINE total == Total(s, sent[s][expect[s]])
<1>1. /\ total \in Nat \ {0} /\ total >= HdrSize[s] /\ HdrSize[s] \in Nat \ {0}
      /\ Len(buf[s]) \in Nat
  BY SentTotal, MessageTypes DEF DeviceInv
<1>2. btr[s] = IF Len(buf[s]) < HdrSize[s] THEN HdrSize[s] ELSE total
  BY DEF MessageInv, Buffers, Holds, Known
<1> HIDE DEF total
<1>3. /\ btr[s] <= total
      /\ Len(buf[s]) < HdrSize[s] => btr[s] = HdrSize[s]
      /\ Len(buf[s]) >= HdrSize[s] => btr[s] = total
  BY <1>1, <1>2
<1> QED
  BY <1>1, <1>3 DEF total

(* What a read brought goes on where the buffer ended (dbg-io.c:1103-1121).*)
LEMMA ReceivedInStep ==
  ASSUME MessageInv, NEW s \in Streams, clean[s], WakeRx, curr = s
  PROVE  /\ Received(s) \in Seq(ByteOrigin)
         /\ Len(Received(s)) = Len(buf[s]) + Len(got)
         /\ Len(got) >= 1 /\ Len(Received(s)) <= btr[s]
         /\ Pieces(s, expect[s], Received(s))
         /\ expect[s] \in 1 .. Len(sent[s])
<1> DEFINE r == Received(s)
           n == Len(buf[s])
<1>1. /\ TypeOK /\ got \in Seq(WireByte) /\ Len(got) \in Nat
      /\ stream_len \in Nat /\ req \in Nat
      /\ s # None /\ buf[s] \in Seq(ByteOrigin) /\ n \in Nat /\ btr[s] \in Nat
  BY MessageTypes
<1>2. Reading /\ Len(got) >= 1 /\ InStep
  <2>1. Reading /\ got # <<>> /\ InStep
    BY DEF WakeRx, Reading, InStep
  <2> QED
    BY <1>1, <2>1, EmptySeq
<1>3. Origins(got) \in Seq(ByteOrigin) /\ Len(Origins(got)) = Len(got)
  BY <1>1, OriginsSeq
<1>4. /\ r \in Seq(ByteOrigin) /\ Len(r) = n + Len(got)
      /\ \A i \in 1 .. n + Len(got) :
           r[i] = IF i <= n THEN buf[s][i] ELSE Origins(got)[i - n]
  <2>1. r = buf[s] \o Origins(got)
    BY DEF Received
  <2> HIDE DEF r
  <2>2. /\ r \in Seq(ByteOrigin) /\ Len(r) = Len(buf[s]) + Len(Origins(got))
        /\ \A i \in 1 .. Len(buf[s]) + Len(Origins(got)) :
             r[i] = IF i <= Len(buf[s]) THEN buf[s][i]
                                        ELSE Origins(got)[i - Len(buf[s])]
    BY <1>1, <1>3, <2>1, ConcatProperties
  <2> QED
    BY <1>3, <2>2
<1>5. Len(got) <= req /\ req <= stream_len /\ n + req <= btr[s]
  <2>1. Len(got) <= req /\ req <= stream_len
    BY <1>1, <1>2 DEF MessageInv, FrameInv, IInv, ReadFits, Reading
  <2>2. n + req <= btr[s]
    BY <1>1, <1>2 DEF MessageInv, ReadInStep
  <2> QED
    BY <2>1, <2>2
<1>6. n + Len(got) <= btr[s]
  BY <1>1, <1>5
<1>7. ASSUME NEW k \in 1 .. Len(got)
      PROVE  /\ ~IsHdr(got[k]) /\ got[k].s = s
             /\ got[k].m = expect[s] /\ got[k].o = n + k - 1
  <2>1. Follows(s, stream_len - k + 1, got[k])
    BY <1>1, <1>2 DEF MessageInv, FrameInv, Frames, ChunkCounted
  <2>2. stream_len - k + 1 # 0
    BY <1>1, <1>5
  <2>3. ~IsHdr(got[k]) /\ got[k].s = s
    BY <2>1, <2>2 DEF Follows
  <2>4. got[k].m = expect[s] /\ got[k].o = n + k - 1
    BY <1>1, <1>2 DEF MessageInv, ReadInStep
  <2> QED
    BY <2>3, <2>4
<1>8. expect[s] \in 1 .. Len(sent[s])
  <2>1. 1 \in 1 .. Len(got)
    BY <1>1, <1>2
  <2>2. FromSent(got[1])
    BY <2>1 DEF MessageInv, DeviceInv, OnlySent
  <2> QED
    BY <1>7, <2>1, <2>2 DEF FromSent
<1> HIDE DEF r, n
<1>9. ASSUME NEW i \in 1 .. Len(r)
      PROVE  r[i] = [s |-> s, m |-> expect[s], o |-> i - 1]
  <2>1. i \in 1 .. n + Len(got)
    BY <1>4
  <2>2. CASE i <= n
    <3>1. i \in 1 .. n /\ r[i] = buf[s][i]
      BY <1>1, <1>4, <2>1, <2>2
    <3> QED
      BY <3>1 DEF MessageInv, Buffers, Holds, Pieces, n
  <2>3. CASE ~(i <= n)
    <3> DEFINE k == i - n
    <3>1. k \in 1 .. Len(got) /\ r[i] = Origins(got)[k] /\ n + k - 1 = i - 1
      BY <1>1, <1>4, <2>1, <2>3
    <3> HIDE DEF k
    <3>2. Origins(got)[k] = [s |-> got[k].s, m |-> got[k].m, o |-> got[k].o]
      BY <3>1 DEF Origins, Origin
    <3> QED
      BY <1>7, <3>1, <3>2
  <2> QED
    BY <2>2, <2>3
<1>10. Pieces(s, expect[s], r)
  BY <1>9 DEF Pieces
<1> QED
  BY <1>2, <1>4, <1>6, <1>8, <1>10 DEF r, n

(* So the header a handler reads is the one the device sent.               *)
LEMMA HeaderIsExact ==
  ASSUME MessageInv, NEW s \in Streams, clean[s], HandlerCalled(s), HeaderRead(s),
         NEW h \in Readings(s, Received(s))
  PROVE  h = sent[s][expect[s]]
<1> DEFINE r == Received(s)
<1>1. /\ Pieces(s, expect[s], r) /\ expect[s] \in 1 .. Len(sent[s])
  BY ReceivedInStep DEF HandlerCalled
<1>2. Len(r) = HdrSize[s] /\ HdrSize[s] \in Nat \ {0}
  BY MessageTypes DEF HeaderRead
<1> HIDE DEF r
<1>3. 1 \in 1 .. Len(r)
  BY <1>2
<1>4. r[1].m = expect[s]
  <2>1. r[1] = [s |-> s, m |-> expect[s], o |-> 1 - 1]
    BY <1>1, <1>3 DEF Pieces
  <2> QED
    BY <2>1
<1>5. StartsWith(s, expect[s], r)
  BY <1>1, <1>2 DEF StartsWith, Pieces
<1>6. Readings(s, r) = {sent[s][expect[s]]}
  BY <1>1, <1>4, <1>5 DEF Readings
<1> QED
  BY <1>6 DEF r

(* The next read goes on in step when the buffer, the length known and the *)
(* next message do.                                                        *)
LEMMA NextReadInStep ==
  ASSUME MessageInv, NEW s \in Streams, NEW left \in Nat, NEW want \in Nat,
         NEW have \in Nat, NextRead(s, left, want, have), rx = "done",
         curr \in {s, None}, UNCHANGED <<deviceVars, clean>>,
         want = btr'[s], have = Len(buf'[s]),
         \A r \in Streams : r # s => expect'[r] = expect[r] /\ buf'[r] = buf[r],
         clean[s] => /\ have < want
                     /\ Settle(s, sent[s], expect'[s], have) = Front(s)
  PROVE  ReadInStep' /\ LineInOrder'
<1>1. /\ got' = <<>> /\ Len(got') = 0 /\ curr' = (IF left = 0 THEN None ELSE s)
      /\ req' = IF left = 0 THEN 1 ELSE Request(left, want, have)
      /\ rx' \in {"pending", "done"} => link = "open"
  BY EmptySeq DEF NextRead, dev_rx_init
<1>2. s # None /\ Reading
  BY DEF Streams, None, Reading
<1>3. ReadInStep'
  <2> SUFFICES ASSUME curr' = s, clean[s], left # 0
               PROVE  /\ req' >= 1
                      /\ Len(buf'[s]) + req' <= btr'[s]
    BY <1>1 DEF ReadInStep
  <2>1. req' = IF left <= want - have THEN left ELSE want - have
    BY <1>1 DEF Request, Min2
  <2> QED
    BY <2>1
<1>4. LineInOrder'
  <2> SUFFICES ASSUME Reading', NEW r \in Streams, clean[r]
               PROVE  InOrder(r, sent[r], wire, Front(r)', tx[r])
    BY DEF LineInOrder, deviceVars
  <2>1. InOrder(r, sent[r], wire, Front(r), tx[r])
    BY <1>1, <1>2 DEF MessageInv, LineInOrder, Reading
  <2>2. Front(r)' = Settle(r, sent[r], expect'[r], Len(buf'[r]) + InHand(r)')
    BY DEF Front, deviceVars
  <2>3. InHand(r)' = 0
    BY <1>1 DEF InHand
  <2>4. Front(r)' = Front(r)
    <3>1. CASE r = s
      <4>1. Len(buf'[r]) + InHand(r)' = have
        BY <2>3, <3>1
      <4> QED
        BY <2>2, <3>1, <4>1
    <3>2. CASE r # s
      <4>1. InHand(r) = 0 /\ buf'[r] = buf[r] /\ expect'[r] = expect[r]
        BY <3>2, MessageTypes DEF InHand
      <4> QED
        BY <2>2, <2>3, <4>1 DEF Front
    <3> QED
      BY <3>1, <3>2
  <2> QED
    BY <2>1, <2>4
<1> QED
  BY <1>3, <1>4

-----------------------------------------------------------------------------
StreamInv == /\ Buffers /\ ReadInStep /\ LineInOrder
             /\ DeliveredIntact /\ HangsOnlyOutOfStep

LEMMA MessageParts == MessageInv <=> FrameInv /\ DeviceInv /\ StreamInv
BY DEF MessageInv, StreamInv

LEMMA PromisesSame ==
  ASSUME MessageInv, UNCHANGED <<delivered, sent, clean>>,
         pc' \in {"wait", "check"} \/ pc' = pc
  PROVE  DeliveredIntact' /\ HangsOnlyOutOfStep'
BY DEF MessageInv, DeliveredIntact, IsMessage, HangsOnlyOutOfStep

LEMMA BuffersSame ==
  ASSUME MessageInv, UNCHANGED <<clean, sent, expect, buf, btr>>
  PROVE  Buffers'
BY DEF MessageInv, Buffers

LEMMA ReadSame ==
  ASSUME MessageInv, UNCHANGED <<clean, expect, buf, btr, curr, req, got>>,
         Reading' => Reading
  PROVE  ReadInStep'
BY DEF MessageInv, ReadInStep

LEMMA FrontSame ==
  ASSUME UNCHANGED <<expect, buf, curr, got>>, NEW s \in Streams,
         sent'[s] = sent[s]
  PROVE  Front(s)' = Front(s)
BY DEF Front, InHand

(* A step that puts no read under way.                                     *)
LEMMA NoReadInStep ==
  ASSUME rx' \notin {"pending", "done"}
  PROVE  ReadInStep' /\ LineInOrder'
BY DEF ReadInStep, LineInOrder, Reading

(* A step that leaves the streams alone.                                   *)
LEMMA StreamsSame ==
  ASSUME MessageInv,
         UNCHANGED <<demuxVars, ghostVars, sent, tx, wire, req, got>>,
         Reading' => Reading, link' = "open" => link = "open",
         pc' \in {"wait", "check"} \/ pc' = pc
  PROVE  StreamInv'
<1>1. UNCHANGED <<clean, sent, expect, delivered, buf, btr, curr, req, got, tx, wire>>
  BY DEF demuxVars, ghostVars
<1>2. LineInOrder'
  <2>1. ASSUME NEW s \in Streams PROVE Front(s)' = Front(s)
    BY <1>1, FrontSame
  <2> QED
    BY <1>1, <2>1 DEF MessageInv, LineInOrder
<1> QED
  BY <1>1, <1>2, PromisesSame, BuffersSame, ReadSame DEF StreamInv
-----------------------------------------------------------------------------
(* The environment.                                                        *)

LEMMA HoldsLonger ==
  ASSUME NEW s \in Streams, NEW sq \in Seq(Message), NEW x \in Message, NEW e,
         NEW b \in Seq(ByteOrigin), NEW n, Holds(s, sq, e, b, n)
  PROVE  Holds(s, Append(sq, x), e, b, n)
<1>1. /\ Len(sq) \in Nat /\ Len(Append(sq, x)) = Len(sq) + 1
      /\ \A i \in 1 .. Len(sq) : Append(sq, x)[i] = sq[i]
      /\ HdrSize[s] \in Nat \ {0}
  BY AppendProperties, LenProperties, ConstantsAssumption
<1>2. b # <<>> => e \in 1 .. Len(sq) /\ e \in 1 .. Len(Append(sq, x))
  BY <1>1 DEF Holds
<1>3. Len(b) >= HdrSize[s] => b # <<>>
  BY <1>1, EmptySeq
<1>4. Len(b) \in Nat
  BY LenProperties
<1>5. Known(s, Append(sq, x), e, b) = Known(s, sq, e, b)
  <2>1. CASE Len(b) < HdrSize[s]
    BY <2>1 DEF Known
  <2>2. CASE ~(Len(b) < HdrSize[s])
    <3>1. Append(sq, x)[e] = sq[e]
      BY <1>1, <1>2, <1>3, <1>4, <2>2
    <3> QED
      BY <2>2, <3>1 DEF Known
  <2> QED
    BY <2>1, <2>2
<1> QED
  BY <1>2, <1>5 DEF Holds

(* Before the first byte of a message the buffer and the read are empty.   *)
LEMMA NothingOfUnsent ==
  ASSUME MessageInv, Reading, NEW s \in Streams, clean[s],
         expect[s] \notin 1 .. Len(sent[s])
  PROVE  Len(buf[s]) + InHand(s) = 0
<1>1. /\ got \in Seq(WireByte) /\ Len(got) \in Nat /\ s # None
      /\ stream_len \in Nat /\ buf[s] \in Seq(ByteOrigin)
  BY MessageTypes
<1>2. Len(buf[s]) = 0
  BY EmptySeq DEF MessageInv, Buffers, Holds
<1>3. ASSUME curr = s PROVE Len(got) = 0
  <2> SUFFICES ASSUME Len(got) # 0 PROVE FALSE
    OBVIOUS
  <2>1. 1 \in 1 .. Len(got) /\ InStep
    BY <1>1 DEF InStep
  <2>2. got[1].m = expect[s]
    BY <1>1, <1>3, <2>1 DEF MessageInv, ReadInStep
  <2>3. Follows(s, stream_len - 1 + 1, got[1]) /\ stream_len > 0
    BY <1>1, <1>3, <2>1 DEF MessageInv, FrameInv, Frames, ChunkCounted
  <2>4. ~IsHdr(got[1]) /\ got[1].s = s
    BY <1>1, <2>3 DEF Follows
  <2>5. FromSent(got[1])
    BY <2>1 DEF MessageInv, DeviceInv, OnlySent
  <2> QED
    BY <2>2, <2>4, <2>5 DEF FromSent
<1> QED
  BY <1>2, <1>3 DEF InHand

LEMMA DevQueueStreams ==
  ASSUME MessagesProper, MessageInv, NEW s \in Streams, DevQueue(s)
  PROVE  StreamInv'
<1>1. PICK msg \in Messages[s] : sent' = [sent EXCEPT ![s] = Append(@, msg)]
  BY DEF DevQueue
<1>2. /\ TypeOK /\ wire \in Seq(WireByte) /\ got \in Seq(WireByte)
      /\ \A r \in Streams : /\ sent[r] \in Seq(Message) /\ Len(sent[r]) \in Nat
                            /\ buf[r] \in Seq(ByteOrigin)
  BY MessageTypes
<1>3. msg \in Message /\ Total(s, msg) \in Nat \ {0}
  BY TotalBounds
<1>4. /\ sent'[s] = Append(sent[s], msg) /\ Len(sent'[s]) = Len(sent[s]) + 1
      /\ \A i \in 1 .. Len(sent[s]) : sent'[s][i] = sent[s][i]
      /\ sent'[s][Len(sent[s]) + 1] = msg
      /\ \A r \in Streams : r # s => sent'[r] = sent[r]
  BY <1>1, <1>2, <1>3, AppendProperties DEF TypeOK, DeviceTypes
<1>5. UNCHANGED <<pc, clean, expect, delivered, buf, btr, curr, rx, req, got, tx, wire,
                  link>>
  BY DEF DevQueue, loopVars, demuxVars, readVars, ghostVars
<1>6. Buffers'
  <2> SUFFICES ASSUME NEW r \in Streams, clean[r]
               PROVE  Holds(r, sent'[r], expect[r], buf[r], btr[r])
    BY <1>5 DEF Buffers
  <2>1. Holds(r, sent[r], expect[r], buf[r], btr[r])
    BY DEF MessageInv, Buffers
  <2>2. CASE r # s
    BY <1>4, <2>1, <2>2
  <2>3. CASE r = s
    <3>1. Holds(s, Append(sent[s], msg), expect[s], buf[s], btr[s])
      BY <1>2, <1>3, <2>1, <2>3, HoldsLonger
    <3> QED
      BY <1>4, <2>3, <3>1
  <2> QED
    BY <2>2, <2>3
<1>7. ReadInStep'
  BY <1>5, ReadSame DEF Reading
<1>8. LineInOrder'
  <2> SUFFICES ASSUME Reading, link = "open", NEW r \in Streams, clean[r]
               PROVE  InOrder(r, sent'[r], wire, Front(r)', tx[r])
    BY <1>5 DEF LineInOrder, Reading
  <2>1. InOrder(r, sent[r], wire, Front(r), tx[r])
    BY DEF MessageInv, LineInOrder
  <2>2. CASE r # s
    BY <1>4, <1>5, <2>1, <2>2, FrontSame
  <2>3. CASE r = s
    <3>1. Front(s)' = Front(s)
      <4> DEFINE o == Len(buf[s]) + InHand(s)
      <4>1. Front(s)' = Settle(s, sent'[s], expect[s], o)
        BY <1>5 DEF Front, InHand
      <4>2. CASE expect[s] \in 1 .. Len(sent[s])
        BY <1>2, <1>3, <1>4, <4>1, <4>2, SettleLonger DEF Front
      <4>3. CASE expect[s] \notin 1 .. Len(sent[s])
        <5>1. o = 0
          BY <2>3, <4>3, NothingOfUnsent
        <5>2. expect[s] \in 1 .. Len(sent'[s]) => sent'[s][expect[s]] = msg
          BY <1>2, <1>4, <4>3
        <5> HIDE DEF o
        <5>3. Settle(s, sent'[s], expect[s], o) = [m |-> expect[s], o |-> 0]
          BY <1>3, <5>1, <5>2 DEF Settle
        <5>4. Settle(s, sent[s], expect[s], o) = [m |-> expect[s], o |-> 0]
          BY <4>3, <5>1 DEF Settle
        <5> QED
          BY <4>1, <5>3, <5>4 DEF Front, o
      <4> QED
        BY <4>2, <4>3
    <3>2. \A i \in 1 .. Len(wire) : IsData(s, wire[i]) => wire[i].m \in 1 .. Len(sent[s])
      BY DEF MessageInv, DeviceInv, OnlySent, FromSent, IsData
    <3>3. InOrder(s, sent'[s], wire, Front(s), tx[s])
      BY <1>2, <1>3, <1>4, <2>1, <2>3, <3>2, InOrderLonger
    <3> QED
      BY <2>3, <3>1, <3>3
  <2> QED
    BY <2>2, <2>3
<1>9. DeliveredIntact'
  <2> SUFFICES ASSUME NEW r \in Streams, delivered[r].msg # 0
               PROVE  IsMessage(r, delivered[r].msg, delivered[r].bytes)'
    BY <1>5 DEF DeliveredIntact
  <2>1. IsMessage(r, delivered[r].msg, delivered[r].bytes)
    BY DEF MessageInv, DeliveredIntact
  <2>2. CASE r # s
    BY <1>4, <1>5, <2>1, <2>2 DEF IsMessage
  <2>3. CASE r = s
    <3>1. /\ delivered[r].msg \in 1 .. Len(sent[r])
          /\ delivered[r].msg \in 1 .. Len(sent'[r])
          /\ sent'[r][delivered[r].msg] = sent[r][delivered[r].msg]
      BY <1>2, <1>4, <2>1, <2>3 DEF IsMessage
    <3> QED
      BY <1>5, <2>1, <3>1 DEF IsMessage
  <2> QED
    BY <2>2, <2>3
<1>10. HangsOnlyOutOfStep'
  BY <1>5 DEF MessageInv, HangsOnlyOutOfStep
<1> QED
  BY <1>6, <1>7, <1>8, <1>9, <1>10 DEF StreamInv

LEMMA DevStartChunkStreams ==
  ASSUME MessageInv, NEW s \in Streams, NEW k \in ChunkLens, DevStartChunk(s, k)
  PROVE  StreamInv'
<1>1. /\ wire' = Append(wire, HdrByte(s, k)) /\ k \in Nat
      /\ UNCHANGED <<pc, clean, sent, expect, delivered, buf, btr, curr, rx, req, got, tx,
                     link>>
  BY ConstantsAssumption
  DEF DevStartChunk, loopVars, demuxVars, readVars, ghostVars
<1> DEFINE b == HdrByte(s, k)
<1>2. b \in WireByte /\ IsHdr(b)
  BY <1>1 DEF HdrByte, WireByte, IsHdr
<1>3. wire \in Seq(WireByte)
  BY MessageTypes
<1> HIDE DEF b
<1>4. LineInOrder'
  <2> SUFFICES ASSUME Reading, link = "open", NEW r \in Streams, clean[r]
               PROVE  InOrder(r, sent[r], Append(wire, b), Front(r)', tx[r])
    BY <1>1 DEF LineInOrder, Reading, b
  <2>1. InOrder(r, sent[r], wire, Front(r), tx[r])
    BY DEF MessageInv, LineInOrder
  <2>2. ~IsData(r, b)
    BY <1>2 DEF IsData
  <2>3. Front(r)' = Front(r)
    BY <1>1, FrontSame
  <2> QED
    BY <1>2, <1>3, <2>1, <2>2, <2>3, InOrderOther
<1> QED
  BY <1>1, <1>4, PromisesSame, BuffersSame, ReadSame DEF StreamInv, Reading

LEMMA DevByteStreams ==
  ASSUME MessagesProper, MessageInv, DevByte
  PROVE  StreamInv'
<1> SUFFICES ASSUME NEW s \in Streams, s = chunk.s PROVE StreamInv'
  BY MessageTypes DEF TypeOK, DeviceTypes
<1> DEFINE b == DataByte(s, tx[s].m, tx[s].o, chunk.left - 1)
<1>1. /\ wire' = Append(wire, b) /\ chunk.left > 0
      /\ UNCHANGED <<pc, clean, sent, expect, delivered, buf, btr, curr, rx, req, got, link>>
  BY DEF DevByte, loopVars, demuxVars, readVars, ghostVars
<1>2. /\ TypeOK /\ DeviceInv /\ wire \in Seq(WireByte) /\ Len(sent[s]) \in Nat
  BY MessageTypes
<1>3. /\ tx[s].m \in 1 .. Len(sent[s]) /\ tx[s].o \in Nat
      /\ tx'[s] = Settle(s, sent[s], tx[s].m, tx[s].o + 1)
      /\ \A r \in Streams : r # s => tx'[r] = tx[r]
  BY <1>2, DevByteMoves
<1>4. chunk.left - 1 \in Nat /\ tx[s] \in [m : Nat, o : Nat]
  BY <1>1, <1>2 DEF TypeOK, DeviceTypes
<1>5. /\ b \in WireByte /\ ~IsHdr(b) /\ b.s = s
      /\ b.m = tx[s].m /\ b.o = tx[s].o
  BY <1>2, <1>3, <1>4 DEF DataByte, WireByte, IsHdr
<1> HIDE DEF b
<1>6. Place(b) = tx[s]
  BY <1>4, <1>5 DEF Place
<1>7. LineInOrder'
  <2> SUFFICES ASSUME Reading, link = "open", NEW r \in Streams, clean[r]
               PROVE  InOrder(r, sent[r], Append(wire, b), Front(r)', tx'[r])
    BY <1>1 DEF LineInOrder, Reading
  <2>1. InOrder(r, sent[r], wire, Front(r), tx[r])
    BY DEF MessageInv, LineInOrder
  <2>2. Front(r)' = Front(r)
    BY <1>1, FrontSame
  <2>3. CASE r # s
    <3>1. ~IsData(r, b)
      BY <1>5, <2>3 DEF IsData
    <3> QED
      BY <1>2, <1>3, <1>5, <2>1, <2>2, <2>3, <3>1, InOrderOther
  <2>4. CASE r = s
    <3>1. IsData(r, b)
      BY <1>5, <2>4 DEF IsData
    <3>2. InOrder(r, sent[r], Append(wire, b), Front(r),
                  Settle(r, sent[r], b.m, b.o + 1))
      BY <1>2, <1>5, <1>6, <2>1, <2>4, <3>1, InOrderAppend
    <3> QED
      BY <1>3, <1>5, <2>2, <2>4, <3>2
  <2> QED
    BY <2>3, <2>4
<1> QED
  BY <1>1, <1>7, PromisesSame, BuffersSame, ReadSame DEF StreamInv, Reading

(* The cable: the line that remains is not open.                           *)
LEMMA CableStreams ==
  ASSUME MessageInv, Unplug \/ Plug
  PROVE  StreamInv'
<1>1. /\ link' # "open" /\ (rx' \in {"pending", "done"} => rx \in {"pending", "done"})
      /\ UNCHANGED <<pc, clean, sent, expect, delivered, buf, btr, curr, req, got>>
  BY DEF Unplug, Plug, DeviceLost, loopVars, demuxVars, readVars, ghostVars
<1>2. LineInOrder'
  BY <1>1 DEF LineInOrder
<1> QED
  BY <1>1, <1>2, PromisesSame, BuffersSame, ReadSame DEF StreamInv, Reading

(* The driver hands on the byte that follows: within the message, because  *)
(* no more was asked for.                                                  *)
LEMMA DriverStreams ==
  ASSUME MessagesProper, MessageInv, Driver
  PROVE  StreamInv'
<1>1. CASE DriverComplete
  BY <1>1, StreamsSame DEF DriverComplete, Reading, deviceVars, loopVars
<1>2. CASE DriverByte
  <2> DEFINE b == Head(wire)
  <2>1. /\ wire # <<>> /\ Len(got) < req /\ rx = "pending"
        /\ got' = Append(got, b) /\ wire' = Tail(wire)
        /\ UNCHANGED <<pc, clean, sent, expect, delivered, buf, btr, curr, rx, req, link, tx>>
    BY <1>2 DEF DriverByte, loopVars, demuxVars, ghostVars
  <2>2. /\ wire \in Seq(WireByte) /\ got \in Seq(WireByte) /\ Len(got) \in Nat
        /\ req \in Nat /\ stream_len \in Nat
        /\ \A s \in Streams : Len(buf[s]) \in Nat /\ btr[s] \in Nat /\ s # None
    BY MessageTypes
  <2>3. b \in WireByte /\ b = wire[1] /\ 1 \in 1 .. Len(wire)
    BY <2>1, <2>2, HeadTailProperties, LenProperties, EmptySeq
  <2>4. /\ Len(got') = Len(got) + 1 /\ got'[Len(got) + 1] = b
        /\ \A i \in 1 .. Len(got) : got'[i] = got[i]
    BY <2>1, <2>2, <2>3, AppendProperties
  <2>5. Reading /\ link = "open"
    BY <2>1 DEF MessageInv, FrameInv, Frames, OpenIfPending, Reading
  <2>6. FromSent(b)
    BY <2>3 DEF MessageInv, DeviceInv, OnlySent
  <2> HIDE DEF b
  (* Of which stream the byte can be. *)
  <2>7. ASSUME InStep, curr = None PROVE IsHdr(b)
    <3>1. got = <<>>
      BY <2>1, <2>2, <2>5, <2>7, EmptySeq DEF MessageInv, FrameInv, Frames, HeaderReads
    <3>2. Framed(wire, None, 0, chunk)
      BY <2>5, <2>7, <3>1 DEF MessageInv, FrameInv, Frames, LineFramed
    <3> QED
      BY <2>1, <2>3, <3>2 DEF Framed, Follows
  <2>8. ASSUME InStep, curr # None PROVE ~IsHdr(b) /\ b.s = curr
    <3> DEFINE n == stream_len - Len(got)
    <3>1. req <= stream_len
      BY <2>5, <2>8 DEF MessageInv, FrameInv, IInv, ReadFits, Reading
    <3>2. n # 0
      BY <2>1, <2>2, <3>1
    <3>3. Framed(wire, curr, n, chunk)
      BY <2>5, <2>8 DEF MessageInv, FrameInv, Frames, LineFramed
    <3> HIDE DEF n
    <3> QED
      BY <2>1, <2>3, <3>2, <3>3 DEF Framed, Follows
  (* For a stream in step it is the next byte. *)
  <2>9. ASSUME NEW s \in Streams, clean[s]
        PROVE  /\ IsData(s, b) => curr = s /\ b.m = expect[s]
                                  /\ b.o = Len(buf[s]) + Len(got)
               /\ InOrder(s, sent[s], wire', Front(s)', tx[s])
    <3>0. InStep
      BY <2>9 DEF InStep
    <3>1. InOrder(s, sent[s], wire, Front(s), tx[s])
      BY <2>5, <2>9 DEF MessageInv, LineInOrder
    <3>2. CASE ~IsData(s, b)
      <4>1. InOrder(s, sent[s], wire', Front(s), tx[s])
        BY <2>1, <2>2, <3>1, <3>2, InOrderTail DEF b
      <4>2. curr # s
        BY <2>2, <2>8, <3>0, <3>2 DEF IsData
      <4>3. Front(s)' = Front(s)
        BY <2>1, <4>2 DEF Front, InHand
      <4> QED
        BY <3>2, <4>1, <4>3
    <3>3. CASE IsData(s, b)
      <4> DEFINE o == Len(buf[s]) + Len(got)
      <4>1. curr = s
        BY <2>7, <2>8, <3>0, <3>3 DEF IsData
      <4>2. /\ Place(b) = Front(s)
            /\ InOrder(s, sent[s], wire', Settle(s, sent[s], b.m, b.o + 1), tx[s])
        BY <2>1, <2>2, <3>1, <3>3, InOrderTail DEF b
      <4>3. Front(s) = Settle(s, sent[s], expect[s], o)
        BY <4>1 DEF Front, InHand
      <4>4. o < btr[s] /\ o \in Nat
        <5>1. Len(buf[s]) + req <= btr[s]
          BY <2>2, <2>5, <2>9, <4>1 DEF MessageInv, ReadInStep
        <5> QED
          BY <2>1, <2>2, <5>1
      <4>5. ASSUME expect[s] \in 1 .. Len(sent[s])
            PROVE  o # Total(s, sent[s][expect[s]])
        <5>1. /\ btr[s] <= Total(s, sent[s][expect[s]])
              /\ Total(s, sent[s][expect[s]]) \in Nat
          BY <2>9, <4>5, KnownBounds
        <5> HIDE DEF o
        <5> QED
          BY <2>2, <4>4, <5>1
      <4> HIDE DEF o
      <4>6. Front(s) = [m |-> expect[s], o |-> o]
        BY <4>3, <4>5 DEF Settle
      <4>7. b.m = expect[s] /\ b.o = o
        BY <4>2, <4>6 DEF Place
      <4>8. Front(s)' = Settle(s, sent[s], expect[s], o + 1)
        <5>1. Len(buf[s]) + Len(got') = o + 1
          <6>1. \A x, y \in Nat : x + (y + 1) = (x + y) + 1
            OBVIOUS
          <6>2. Len(buf[s]) \in Nat /\ Len(got) \in Nat
            BY <2>2
          <6> QED
            BY <2>4, <6>1, <6>2 DEF o
        <5> QED
          BY <2>1, <4>1, <5>1 DEF Front, InHand
      <4> QED
        BY <4>1, <4>2, <4>7, <4>8 DEF o
    <3> QED
      BY <3>2, <3>3
  <2>10. LineInOrder'
    BY <2>1, <2>9 DEF LineInOrder
  <2>11. ReadInStep'
    <3> SUFFICES ASSUME curr \in Streams, clean[curr], NEW i \in 1 .. Len(got')
                 PROVE  /\ req >= 1 /\ Len(buf[curr]) + req <= btr[curr]
                        /\ got'[i].m = expect[curr]
                        /\ got'[i].o = Len(buf[curr]) + i - 1
      <4>1. Len(got') >= 1 /\ 1 \in 1 .. Len(got')
        BY <2>2, <2>4
      <4>2. curr \in Streams \cup {None}
        BY MessageTypes DEF TypeOK, DemuxTypes
      <4> QED
        BY <2>1, <4>1, <4>2 DEF ReadInStep
    <3>1. /\ req >= 1 /\ Len(buf[curr]) + req <= btr[curr]
          /\ \A j \in 1 .. Len(got) :
               got[j].m = expect[curr] /\ got[j].o = Len(buf[curr]) + j - 1
      BY <2>2, <2>5 DEF MessageInv, ReadInStep
    <3>2. CASE i = Len(got) + 1
      <4>1. IsData(curr, b)
        BY <2>2, <2>8 DEF InStep, IsData
      <4>2. b.m = expect[curr] /\ b.o = Len(buf[curr]) + Len(got)
        BY <2>9, <4>1
      <4>3. Len(buf[curr]) + i - 1 = Len(buf[curr]) + Len(got)
        BY <2>2, <3>2
      <4> QED
        BY <2>4, <3>1, <3>2, <4>2, <4>3
    <3>3. CASE i # Len(got) + 1
      <4>1. i \in 1 .. Len(got)
        BY <2>2, <2>4, <3>3
      <4> QED
        BY <2>4, <3>1, <4>1
    <3> QED
      BY <3>2, <3>3
  <2> QED
    BY <2>1, <2>10, <2>11, PromisesSame, BuffersSame DEF StreamInv
<1> QED
  BY <1>1, <1>2 DEF Driver

-----------------------------------------------------------------------------
(* main_loop_wait.                                                         *)

LEMMA WakeStreams ==
  ASSUME MessageInv, WakeNotIdle \/ WakeTimeout \/ WakeTx \/ RxFailed \/ RxTimeout
  PROVE  StreamInv'
<1>1. UNCHANGED <<demuxVars, deviceVars, ghostVars>> /\ pc' = "check"
  BY DEF WakeNotIdle, WakeTimeout, WakeTx, RxFailed, RxTimeout
<1>2. UNCHANGED <<req, got>> /\ (Reading' => Reading)
  BY DEF WakeNotIdle, WakeTimeout, WakeTx, RxFailed, RxTimeout, Fall, dev_rx_init,
         readVars, Reading
<1> QED
  BY <1>1, <1>2, StreamsSame DEF deviceVars

LEMMA ChunkHeaderStreams ==
  ASSUME MessageInv, RxChunkHeader
  PROVE  StreamInv'
<1>1. /\ curr = None /\ got # <<>> /\ rx = "done" /\ pc' = "check"
      /\ UNCHANGED <<btr, buf, deviceVars, clean, expect, delivered>>
  BY DEF RxChunkHeader, WakeRx, ghostVars
<1>2. UNCHANGED sent
  BY <1>1 DEF deviceVars
<1>3. PICK h \in ChunkReadings(got[1]) :
        \/ h.s # None /\ NextRead(h.s, h.left, btr[h.s], Len(buf[h.s]))
        \/ rx' = "none"
  BY DEF RxChunkHeader, Fall
<1>4. h.s \in Streams \cup {None} /\ h.left \in Nat
  <2>1. got[1] \in WireByte
    <3>1. got \in Seq(WireByte) /\ Len(got) \in Nat
      BY MessageTypes
    <3>2. Len(got) # 0
      BY <1>1, <3>1, EmptySeq
    <3> QED
      BY <3>1, <3>2, ElementOfSeq
  <2>2. ChunkLens \subseteq Nat
    BY ConstantsAssumption
  <2>3. CASE IsHdr(got[1])
    BY <2>1, <2>3 DEF ChunkReadings, WireByte
  <2>4. CASE ~IsHdr(got[1])
    BY <2>2, <2>4 DEF ChunkReadings
  <2> QED
    BY <2>3, <2>4
<1>5. ReadInStep' /\ LineInOrder'
  <2>1. CASE rx' = "none"
    BY <2>1, NoReadInStep
  <2>2. CASE h.s # None /\ NextRead(h.s, h.left, btr[h.s], Len(buf[h.s]))
    <3> SUFFICES ASSUME NEW s \in Streams, NEW left \in Nat, curr # s,
                        NextRead(s, left, btr[s], Len(buf[s]))
                 PROVE  ReadInStep' /\ LineInOrder'
      BY <1>1, <1>4, <2>2
    <3>1. btr[s] \in Nat /\ Len(buf[s]) \in Nat
      BY MessageTypes
    <3>2. clean[s] => Len(buf[s]) < btr[s]
      BY DEF MessageInv, Buffers, Holds
    <3>3. Settle(s, sent[s], expect'[s], Len(buf[s])) = Front(s)
      BY <1>1, <3>1 DEF Front, InHand
    <3> QED
      BY <1>1, <3>1, <3>2, <3>3, NextReadInStep
  <2> QED
    BY <1>3, <2>1, <2>2
<1> QED
  BY <1>1, <1>2, <1>5, PromisesSame, BuffersSame DEF StreamInv

(* A stream whose handler keeps the buffer: it holds a bit more of the     *)
(* same message.                                                           *)
LEMMA KeepStreams ==
  ASSUME MessageInv, NEW s \in Streams, WakeRx, curr = s, pc' = "check",
         NEW n \in Nat,
         buf' = [buf EXCEPT ![s] = Received(s)],
         btr' = [btr EXCEPT ![s] = n],
         NextRead(s, Left, n, Len(Received(s))),
         UNCHANGED <<deviceVars, ghostVars>>,
         clean[s] => /\ Len(Received(s)) < n
                     /\ n = Known(s, sent[s], expect[s], Received(s))
  PROVE  StreamInv'
<1> DEFINE r == Received(s)
<1>1. TypeOK /\ r \in Seq(ByteOrigin) /\ Len(r) \in Nat /\ Left \in Nat
  BY MessageTypes, ReceivedSeq, LeftNat DEF MessageInv, FrameInv
<1>2. /\ buf'[s] = r /\ btr'[s] = n
      /\ \A t \in Streams : t # s => buf'[t] = buf[t] /\ btr'[t] = btr[t]
  BY <1>1 DEF TypeOK, DemuxTypes
<1>3. UNCHANGED <<clean, expect, delivered, sent>>
  BY DEF ghostVars, deviceVars
<1>4. clean[s] => /\ Len(r) = Len(buf[s]) + Len(got) /\ Pieces(s, expect[s], r)
                  /\ expect[s] \in 1 .. Len(sent[s])
  BY ReceivedInStep
<1> HIDE DEF r
<1>5. Buffers'
  <2> SUFFICES ASSUME NEW t \in Streams, clean[t]
               PROVE  Holds(t, sent[t], expect[t], buf'[t], btr'[t])
    BY <1>3 DEF Buffers
  <2>1. CASE t = s
    BY <1>2, <1>4, <2>1 DEF Holds, r
  <2>2. CASE t # s
    BY <1>2, <2>2 DEF MessageInv, Buffers
  <2> QED
    BY <2>1, <2>2
<1>6. ReadInStep' /\ LineInOrder'
  <2>1. clean[s] => Settle(s, sent[s], expect'[s], Len(r)) = Front(s)
    BY <1>3, <1>4 DEF Front, InHand
  <2>2. clean[s] => Len(r) < n
    BY DEF r
  <2>3. NextRead(s, Left, n, Len(r)) /\ rx = "done"
    BY DEF WakeRx, r
  <2> QED
    BY <1>1, <1>2, <1>3, <2>1, <2>2, <2>3, NextReadInStep
<1> QED
  BY <1>3, <1>5, <1>6, PromisesSame DEF StreamInv

(* A stream whose handler has a message: it is the next one, whole.        *)
LEMMA DeliverStreams ==
  ASSUME MessagesProper, MessageInv, NEW s \in Streams, HandlerCalled(s), Deliver(s),
         clean[s] => btr[s] = Total(s, sent[s][expect[s]])
  PROVE  StreamInv'
<1> DEFINE r == Received(s)
           e == expect[s]
<1>1. WakeRx /\ curr = s /\ Len(r) = btr[s]
  BY DEF HandlerCalled
<1>2. /\ TypeOK /\ r \in Seq(ByteOrigin) /\ Len(r) \in Nat /\ Left \in Nat
      /\ HdrSize[s] \in Nat \ {0} /\ e \in Nat
  BY <1>1, MessageTypes, ReceivedSeq, LeftNat DEF MessageInv, FrameInv
<1>3. clean[s] => /\ Len(r) = Len(buf[s]) + Len(got) /\ Pieces(s, e, r)
                  /\ e \in 1 .. Len(sent[s])
  BY <1>1, ReceivedInStep
<1> HIDE DEF r
<1>4. /\ pc' = "check" /\ UNCHANGED <<clean, deviceVars>>
      /\ delivered' = [delivered EXCEPT ![s] =
                         [msg |-> IF clean[s] THEN e ELSE 0, bytes |-> r]]
      /\ expect' = [expect EXCEPT ![s] = e + 1]
      /\ buf' = [buf EXCEPT ![s] = <<>>]
      /\ btr' = [btr EXCEPT ![s] = HdrSize[s]]
      /\ NextRead(s, Left, HdrSize[s], 0)
  BY DEF Deliver, r
<1>5. /\ buf'[s] = <<>> /\ btr'[s] = HdrSize[s] /\ expect'[s] = e + 1
      /\ delivered'[s] = [msg |-> IF clean[s] THEN e ELSE 0, bytes |-> r]
      /\ \A t \in Streams : t # s => /\ buf'[t] = buf[t] /\ btr'[t] = btr[t]
                                     /\ expect'[t] = expect[t]
                                     /\ delivered'[t] = delivered[t]
  BY <1>2, <1>4 DEF TypeOK, DemuxTypes, GhostTypes
<1>6. sent' = sent /\ Len(<<>>) = 0
  BY <1>4, EmptySeq DEF deviceVars
<1>7. Buffers'
  <2> SUFFICES ASSUME NEW t \in Streams, clean[t]
               PROVE  Holds(t, sent[t], expect'[t], buf'[t], btr'[t])
    BY <1>4, <1>6 DEF Buffers
  <2>1. CASE t = s
    BY <1>2, <1>5, <1>6, <2>1 DEF Holds, Pieces, Known
  <2>2. CASE t # s
    BY <1>5, <2>2 DEF MessageInv, Buffers
  <2> QED
    BY <2>1, <2>2
<1>8. ReadInStep' /\ LineInOrder'
  <2>1. ASSUME clean[s] PROVE Settle(s, sent[s], expect'[s], 0) = Front(s)
    <3>1. Len(sent[s]) \in Nat /\ e \in 1 .. Len(sent[s])
      BY <1>3, <2>1, MessageTypes
    <3>2. Front(s) = [m |-> e + 1, o |-> 0]
      <4>1. Len(buf[s]) + InHand(s) = Total(s, sent[s][e])
        BY <1>1, <1>3, <2>1 DEF InHand
      <4> QED
        BY <3>1, <4>1 DEF Front, Settle
    <3>3. e + 1 \in 1 .. Len(sent[s]) => Total(s, sent[s][e + 1]) # 0
      BY <1>2, SentTotal DEF MessageInv, DeviceInv
    <3>4. Settle(s, sent[s], e + 1, 0) = [m |-> e + 1, o |-> 0]
      <4> HIDE DEF e
      <4> QED
        BY <3>3 DEF Settle
    <3> QED
      BY <1>5, <3>2, <3>4
  <2>2. NextRead(s, Left, HdrSize[s], 0) /\ rx = "done" /\ 0 < HdrSize[s]
    BY <1>1, <1>2, <1>4 DEF WakeRx
  <2> QED
    BY <1>1, <1>2, <1>4, <1>5, <1>6, <2>1, <2>2, NextReadInStep
<1>9. DeliveredIntact'
  <2> SUFFICES ASSUME NEW t \in Streams, delivered'[t].msg # 0
               PROVE  IsMessage(t, delivered'[t].msg, delivered'[t].bytes)
    BY <1>6 DEF DeliveredIntact, IsMessage
  <2>1. CASE t = s
    <3>1. clean[s] /\ delivered'[t].msg = e /\ delivered'[t].bytes = r
      BY <1>5, <2>1
    <3> QED
      BY <1>1, <1>3, <2>1, <3>1 DEF IsMessage, Pieces
  <2>2. CASE t # s
    BY <1>5, <2>2 DEF MessageInv, DeliveredIntact
  <2> QED
    BY <2>1, <2>2
<1>10. HangsOnlyOutOfStep'
  BY <1>4 DEF HangsOnlyOutOfStep
<1> QED
  BY <1>7, <1>8, <1>9, <1>10 DEF StreamInv

LEMMA PartialStreams ==
  ASSUME MessagesProper, MessageInv, NEW s \in Streams, RxPartial(s)
  PROVE  StreamInv'
<1>1. /\ WakeRx /\ curr = s /\ Len(Received(s)) < btr[s] /\ pc' = "check"
      /\ buf' = [buf EXCEPT ![s] = Received(s)] /\ btr' = btr
      /\ NextRead(s, Left, btr[s], Len(Received(s)))
      /\ UNCHANGED <<deviceVars, ghostVars>>
  BY DEF RxPartial
<1>2. btr[s] \in Nat /\ HdrSize[s] \in Nat /\ Len(buf[s]) \in Nat /\ Len(got) \in Nat
  BY MessageTypes
<1>3. btr' = [btr EXCEPT ![s] = btr[s]]
  BY <1>1, MessageTypes DEF TypeOK, DemuxTypes
<1>4. ASSUME clean[s] PROVE btr[s] = Known(s, sent[s], expect[s], Received(s))
  <2>1. /\ expect[s] \in 1 .. Len(sent[s])
        /\ Len(Received(s)) = Len(buf[s]) + Len(got)
    BY <1>1, <1>4, ReceivedInStep
  <2>2. /\ Len(buf[s]) < HdrSize[s] => btr[s] = HdrSize[s]
        /\ Len(buf[s]) >= HdrSize[s] => btr[s] = Total(s, sent[s][expect[s]])
    BY <1>4, <2>1, KnownBounds
  <2>3. CASE Len(Received(s)) < HdrSize[s]
    <3>1. Len(buf[s]) < HdrSize[s]
      BY <1>2, <2>1, <2>3
    <3> QED
      BY <2>2, <2>3, <3>1 DEF Known
  <2>4. CASE ~(Len(Received(s)) < HdrSize[s])
    <3>1. Len(buf[s]) >= HdrSize[s]
      <4>1. btr[s] # HdrSize[s]
        BY <1>1, <1>2, <2>1, <2>4
      <4> QED
        BY <1>2, <2>2, <4>1
    <3> QED
      BY <2>2, <2>4, <3>1 DEF Known
  <2> QED
    BY <2>3, <2>4
<1> QED
  BY <1>1, <1>2, <1>3, <1>4, KeepStreams

(* A stream in step never receives more than it asked for.                 *)
LEMMA OverrunStreams ==
  ASSUME MessageInv, NEW s \in Streams, RxOverrun(s)
  PROVE  StreamInv'
<1>1. /\ WakeRx /\ curr = s /\ Len(Received(s)) > btr[s] /\ pc' = "check"
      /\ buf' = [buf EXCEPT ![s] = Received(s)] /\ btr' = btr
      /\ rx' = "none" /\ UNCHANGED <<clean, sent, expect, delivered>>
  BY DEF RxOverrun, Fall, deviceVars, ghostVars
<1>2. ~clean[s]
  <2>1. Len(Received(s)) \in Nat /\ btr[s] \in Nat
    BY MessageTypes, ReceivedSeq
  <2>2. clean[s] => Len(Received(s)) <= btr[s]
    BY <1>1, ReceivedInStep
  <2> QED
    BY <1>1, <2>1, <2>2
<1>3. Buffers'
  <2>1. \A t \in Streams : t # s => buf'[t] = buf[t]
    BY <1>1, MessageTypes DEF TypeOK, DemuxTypes
  <2> QED
    BY <1>1, <1>2, <2>1 DEF MessageInv, Buffers
<1>4. ReadInStep' /\ LineInOrder'
  BY <1>1, NoReadInStep
<1> QED
  BY <1>1, <1>3, <1>4, PromisesSame DEF StreamInv

LEMMA AwaitStreams ==
  ASSUME MessagesProper, MessageInv, NEW s \in Streams, HandlerCalled(s), HeaderRead(s),
         NEW n \in Nat, AwaitMessage(s, n),
         clean[s] => n = Total(s, sent[s][expect[s]]) /\ n > HdrSize[s]
  PROVE  StreamInv'
<1>1. /\ WakeRx /\ curr = s /\ Len(Received(s)) = HdrSize[s]
      /\ HdrSize[s] \in Nat
  BY MessageTypes DEF HandlerCalled, HeaderRead
<1>2. /\ pc' = "check"
      /\ buf' = [buf EXCEPT ![s] = Received(s)]
      /\ btr' = [btr EXCEPT ![s] = n]
      /\ NextRead(s, Left, n, Len(Received(s)))
      /\ UNCHANGED <<deviceVars, ghostVars>>
  BY DEF AwaitMessage
<1>3. clean[s] => n = Known(s, sent[s], expect[s], Received(s))
  BY <1>1 DEF Known
<1> QED
  BY <1>1, <1>2, <1>3, KeepStreams

(* A complete message: its length was learnt from the header.              *)
LEMMA WholeMessage ==
  ASSUME MessagesProper, MessageInv, NEW s \in Streams, clean[s],
         HandlerCalled(s), ~HeaderRead(s)
  PROVE  btr[s] = Total(s, sent[s][expect[s]])
<1>1. /\ Len(Received(s)) = btr[s] /\ Len(Received(s)) # HdrSize[s]
      /\ WakeRx /\ curr = s
  BY DEF HandlerCalled, HeaderRead
<1>2. /\ Len(buf[s]) < HdrSize[s] => btr[s] = HdrSize[s]
      /\ Len(buf[s]) >= HdrSize[s] => btr[s] = Total(s, sent[s][expect[s]])
  BY <1>1, ReceivedInStep, KnownBounds
<1>3. Len(buf[s]) \in Nat /\ HdrSize[s] \in Nat
  BY MessageTypes
<1> QED
  BY <1>1, <1>2, <1>3

(* What a stream in step may find in a header, and what it has then.       *)
LEMMA HeaderTells ==
  ASSUME MessagesProper, MessageInv, NEW s \in Streams, clean[s],
         HandlerCalled(s), HeaderRead(s), NEW h \in Readings(s, Received(s))
  PROVE  /\ h = sent[s][expect[s]] /\ h \in Messages[s]
         /\ btr[s] = HdrSize[s]
<1>1. h = sent[s][expect[s]] /\ expect[s] \in 1 .. Len(sent[s])
  BY HeaderIsExact, ReceivedInStep DEF HandlerCalled
<1>2. h \in Messages[s]
  BY <1>1 DEF MessageInv, DeviceInv, SentKnown
<1> QED
  BY <1>1, <1>2 DEF HandlerCalled, HeaderRead

LEMMA DbglStreams ==
  ASSUME MessagesProper, MessageInv, DbglHeader \/ DbglMessage
  PROVE  StreamInv'
<1> DEFINE s == "dbgl"
<1>0. s \in Streams /\ HandlerCalled(s)
  BY DEF Streams, DbglHeader, DbglMessage
<1>1. CASE DbglMessage
  BY <1>0, <1>1, WholeMessage, DeliverStreams DEF DbglMessage
<1>2. CASE DbglHeader
  <2>1. PICK h \in Readings(s, Received(s)) :
          \/ h.mark = "OVFL" /\ Deliver(s)
          \/ h.mark = "LOG"  /\ AwaitMessage(s, h.size)
          \/ h.mark \notin {"OVFL", "LOG"} /\ AwaitMessage(s, btr[s])
    BY <1>2 DEF DbglHeader
  <2>2. HeaderRead(s)
    BY <1>2 DEF DbglHeader
  <2>3. h.size \in Nat /\ btr[s] \in Nat
    BY <1>0, MessageTypes, ReadingsAreMessages
  <2>4. clean[s] => /\ h = sent[s][expect[s]] /\ h \in Messages[s]
                    /\ btr[s] = HdrSize[s]
    BY <1>0, <2>2, HeaderTells
  <2>5. clean[s] => /\ h.mark # "LOG" => h.mark = "OVFL" /\ Total(s, h) = HdrSize[s]
                    /\ h.mark = "LOG" => Total(s, h) = h.size /\ h.size > HdrSize[s]
    BY <1>0, <2>4, TotalBounds
  <2>6. CASE h.mark = "OVFL" /\ Deliver(s)
    <3>1. clean[s] => btr[s] = Total(s, sent[s][expect[s]])
      BY <2>4, <2>5, <2>6
    <3> QED
      BY <1>0, <2>6, <3>1, DeliverStreams
  <2>7. CASE h.mark = "LOG" /\ AwaitMessage(s, h.size)
    <3>1. clean[s] => h.size = Total(s, sent[s][expect[s]]) /\ h.size > HdrSize[s]
      BY <2>4, <2>5, <2>7
    <3> QED
      BY <1>0, <2>2, <2>3, <2>7, <3>1, AwaitStreams
  <2>8. CASE h.mark \notin {"OVFL", "LOG"} /\ AwaitMessage(s, btr[s])
    <3>1. ~clean[s]
      BY <2>5, <2>8
    <3> QED
      BY <1>0, <2>2, <2>3, <2>8, <3>1, AwaitStreams
  <2> QED
    BY <2>1, <2>6, <2>7, <2>8
<1> QED
  BY <1>1, <1>2

(* Only a stream out of step can come to the while (1) of the handler.     *)
LEMMA CrspStreams ==
  ASSUME MessagesProper, MessageInv, CrspHeader \/ CrspMessage
  PROVE  StreamInv'
<1> DEFINE s == "crsp"
<1>0. s \in Streams /\ HandlerCalled(s)
  BY DEF Streams, CrspHeader, CrspMessage
<1>1. CASE CrspMessage
  BY <1>0, <1>1, WholeMessage, DeliverStreams DEF CrspMessage
<1>2. CASE CrspHeader
  <2>1. PICK h \in Readings(s, Received(s)) :
          \/ /\ h.mark = "RSP" /\ h.size # HdrSize[s]
             /\ AwaitMessage(s, HdrSize[s] + h.size)
          \/ /\ h.mark = "RSP" /\ h.size = HdrSize[s] /\ Deliver(s)
          \/ /\ h.mark # "RSP" /\ pc' = "hung" /\ rx' = "none"
             /\ buf' = [buf EXCEPT ![s] = Received(s)]
             /\ UNCHANGED <<btr, deviceVars, ghostVars>>
    BY <1>2 DEF CrspHeader
  <2>2. HeaderRead(s)
    BY <1>2 DEF CrspHeader
  <2>3. h.size \in Nat /\ HdrSize[s] \in Nat
    BY <1>0, MessageTypes, ReadingsAreMessages
  <2>4. clean[s] => h = sent[s][expect[s]] /\ h \in Messages[s]
    BY <1>0, <2>2, HeaderTells
  <2>5. clean[s] => /\ h.mark = "RSP" /\ Total(s, h) = HdrSize[s] + h.size
                    /\ h.size \notin {0, HdrSize[s]}
    BY <1>0, <2>4, TotalBounds
  <2>6. CASE h.size # HdrSize[s] /\ AwaitMessage(s, HdrSize[s] + h.size)
    <3> DEFINE n == HdrSize[s] + h.size
    <3>1. n \in Nat /\ (h.size # 0 => n > HdrSize[s])
      BY <2>3
    <3>2. clean[s] => n = Total(s, sent[s][expect[s]]) /\ n > HdrSize[s]
      BY <2>4, <2>5, <3>1
    <3>3. AwaitMessage(s, n)
      BY <2>6
    <3> HIDE DEF n
    <3> QED
      BY <1>0, <2>2, <3>1, <3>2, <3>3, AwaitStreams
  <2>7. CASE h.size = HdrSize[s] /\ Deliver(s)
    <3>1. ~clean[s]
      BY <2>5, <2>7
    <3> QED
      BY <1>0, <2>7, <3>1, DeliverStreams
  <2>8. CASE /\ h.mark # "RSP" /\ pc' = "hung" /\ rx' = "none"
             /\ buf' = [buf EXCEPT ![s] = Received(s)]
             /\ UNCHANGED <<btr, deviceVars, ghostVars>>
    <3>1. ~clean[s] /\ UNCHANGED <<clean, sent, expect, delivered>>
      BY <2>5, <2>8 DEF deviceVars, ghostVars
    <3>2. HangsOnlyOutOfStep' /\ DeliveredIntact'
      BY <3>1 DEF HangsOnlyOutOfStep, MessageInv, DeliveredIntact, IsMessage
    <3>3. Buffers'
      <4>1. \A t \in Streams : t # s => buf'[t] = buf[t]
        BY <2>8, MessageTypes DEF TypeOK, DemuxTypes
      <4> QED
        BY <2>8, <3>1, <4>1 DEF MessageInv, Buffers
    <3>4. ReadInStep' /\ LineInOrder'
      BY <2>8, NoReadInStep
    <3> QED
      BY <3>2, <3>3, <3>4 DEF StreamInv
  <2> QED
    BY <2>1, <2>6, <2>7, <2>8
<1> QED
  BY <1>1, <1>2

LEMMA MainLoopStreams ==
  ASSUME MessagesProper, MessageInv, MainLoopWait
  PROVE  StreamInv'
BY WakeStreams, ChunkHeaderStreams, PartialStreams, OverrunStreams, DbglStreams,
   CrspStreams DEF MainLoopWait
-----------------------------------------------------------------------------
(* dev_check: a stream is in step when the device is opened between two of *)
(* its messages, with nothing of an earlier one in its buffer.             *)
LEMMA OpensStreams ==
  ASSUME MessagesProper, MessageInv, CheckOpens
  PROVE  StreamInv'
<1>1. /\ pc' = "wait" /\ curr' = None /\ got' = <<>> /\ wire' = <<>>
      /\ clean' = [s \in Streams |-> /\ buf[s] = <<>> /\ btr[s] = HdrSize[s]
                                     /\ chunk.left = 0 /\ tx[s].o = 0]
      /\ expect' = [s \in Streams |-> tx[s].m]
      /\ UNCHANGED <<btr, buf, delivered, sent, tx>>
  BY DEF CheckOpens
<1>2. ASSUME NEW s \in Streams, clean'[s]
      PROVE  /\ buf[s] = <<>> /\ Len(buf[s]) = 0 /\ btr[s] = HdrSize[s]
             /\ tx[s].o = 0 /\ expect'[s] = tx[s].m /\ HdrSize[s] \in Nat \ {0}
  BY <1>1, <1>2, MessageTypes, EmptySeq
<1>3. Buffers'
  BY <1>1, <1>2 DEF Buffers, Holds, Pieces, Known
<1>4. ReadInStep'
  BY <1>1 DEF ReadInStep
<1>5. LineInOrder'
  <2> SUFFICES ASSUME NEW s \in Streams, clean'[s]
               PROVE  InOrder(s, sent[s], <<>>, Front(s)', tx[s])
    BY <1>1 DEF LineInOrder
  <2>1. tx[s] = [m |-> tx[s].m, o |-> 0]
    <3>1. tx[s] \in [m : Nat, o : Nat]
      BY MessageTypes DEF TypeOK, DeviceTypes
    <3> QED
      BY <1>2, <3>1
  <2>2. Front(s)' = Settle(s, sent[s], tx[s].m, 0)
    <3>1. InHand(s)' = 0
      BY <1>1, MessageTypes DEF InHand
    <3>2. Len(buf'[s]) + InHand(s)' = 0
      BY <1>1, <1>2, <3>1
    <3> QED
      BY <1>1, <1>2, <3>2 DEF Front
  <2>3. tx[s].m \in 1 .. Len(sent[s]) => Total(s, sent[s][tx[s].m]) # 0
    BY SentTotal, MessageTypes DEF DeviceInv
  <2>4. Settle(s, sent[s], tx[s].m, 0) = [m |-> tx[s].m, o |-> 0]
    BY <2>3 DEF Settle
  <2> QED
    BY <2>1, <2>2, <2>4, InOrderEmpty
<1>6. DeliveredIntact' /\ HangsOnlyOutOfStep'
  BY <1>1 DEF MessageInv, DeliveredIntact, IsMessage, HangsOnlyOutOfStep
<1> QED
  BY <1>3, <1>4, <1>5, <1>6 DEF StreamInv

LEMMA DevCheckStreams ==
  ASSUME MessagesProper, MessageInv, DevCheck
  PROVE  StreamInv'
<1>1. CASE CheckOpens
  BY <1>1, OpensStreams
<1>2. CASE CheckOpensThenLost \/ CheckCloses
  <2>1. /\ pc' = "wait" /\ rx' = "none"
        /\ UNCHANGED <<btr, buf, clean, sent, expect, delivered>>
    BY <1>2 DEF CheckOpensThenLost, CheckCloses, DeviceLost, ghostVars, demuxVars
  <2> QED
    BY <2>1, NoReadInStep, PromisesSame, BuffersSame DEF StreamInv
<1>3. CASE CheckOpenFails \/ CheckConnected
  <2>1. UNCHANGED <<demuxVars, ghostVars, readVars, deviceVars>> /\ pc' = "wait"
    BY <1>3 DEF CheckOpenFails, CheckConnected
  <2> QED
    BY <2>1, StreamsSame DEF readVars, deviceVars, Reading
<1> QED
  BY <1>1, <1>2, <1>3 DEF DevCheck

LEMMA InitMessages ==
  ASSUME Init PROVE MessageInv
<1>1. FrameInv
  BY InitFrames
<1>2. /\ pc = "wait" /\ rx = "none" /\ wire = <<>> /\ got = <<>>
      /\ \A s \in Streams :
           /\ sent[s] = <<>> /\ Len(sent[s]) = 0 /\ tx[s] = [m |-> 1, o |-> 0]
           /\ backlog[s] = 0 /\ InChunk(s) = 0
           /\ delivered[s].msg = 0 /\ ~clean[s]
  BY EmptySeq DEF Init, InChunk
<1>3. SentKnown /\ TxPlaced
  BY <1>2 DEF SentKnown, TxPlaced
<1>4. Backed
  <2> DEFINE e == [s \in Streams |-> [k \in Nat |-> 0]]
  <2>1. e \in [Streams -> [Nat -> Nat]]
    OBVIOUS
  <2>2. CountedBy(e)
    <3> SUFFICES ASSUME NEW s \in Streams
          PROVE /\ \A k \in 1 .. Len(sent[s]) :
                     e[s][k] = e[s][k - 1] + Total(s, sent[s][k])
                /\ backlog[s] + InChunk(s) + e[s][tx[s].m - 1] + tx[s].o
                     = e[s][Len(sent[s])]
      BY DEF CountedBy
    <3>1. e[s][0] = 0 /\ tx[s].m - 1 = 0 /\ tx[s].o = 0
      BY <1>2
    <3>2. \A k \in 1 .. Len(sent[s]) : FALSE
      BY <1>2
    <3> HIDE DEF e
    <3> QED
      BY <1>2, <3>1, <3>2
  <2> QED
    BY <2>1, <2>2 DEF Backed
<1>5. OnlySent
  BY <1>2, EmptySeq DEF OnlySent
<1>6. Buffers /\ ReadInStep /\ LineInOrder /\ DeliveredIntact /\ HangsOnlyOutOfStep
  BY <1>2 DEF Buffers, ReadInStep, LineInOrder, Reading, DeliveredIntact,
     HangsOnlyOutOfStep
<1> QED
  BY <1>1, <1>3, <1>4, <1>5, <1>6 DEF MessageInv, DeviceInv

LEMMA MessageStep ==
  ASSUME MessagesProper, MessageInv, [Next]_vars
  PROVE  MessageInv'
<1>1. FrameInv'
  BY FrameStep DEF MessageInv
<1>2. CASE Next
  <2>1. DeviceInv'
    BY <1>2, MessageTypes, NextDeviceInv
  <2>2. StreamInv'
    BY <1>2, DevQueueStreams, DevStartChunkStreams, DevByteStreams, CableStreams,
       DriverStreams, MainLoopStreams, DevCheckStreams DEF Next, Device
  <2> QED
    BY <1>1, <2>1, <2>2 DEF MessageInv, StreamInv
<1>3. CASE UNCHANGED vars
  <2>1. /\ UNCHANGED <<demuxVars, ghostVars, deviceVars, readVars>> /\ pc' = pc
    BY <1>3 DEF vars, loopVars
  <2>2. DeviceInv'
    BY <2>1, DeviceInvSame, MessageTypes DEF deviceVars, readVars
  <2>3. StreamInv'
    BY <2>1, StreamsSame DEF readVars, deviceVars, Reading
  <2> QED
    BY <1>1, <2>2, <2>3 DEF MessageInv, StreamInv
<1> QED
  BY <1>2, <1>3
-----------------------------------------------------------------------------
(* The demultiplexer and the device agree on every byte: what a stream's   *)
(* buffer holds, what the read in progress has brought, what is on the     *)
(* line and what the device sends next follow on one another, on every     *)
(* stream that started in step (dev_rx_proc and its handlers,              *)
(* dbg-io.c:1056-1335, and dev_check, 1418-1460).                          *)
THEOREM InStepInvariant ==
  ASSUME MessagesProper
  PROVE  Spec => []MessageInv
<1>1. Init => MessageInv
  BY InitMessages
<1>2. MessageInv /\ [Next]_vars => MessageInv'
  BY MessageStep
<1> QED
  BY <1>1, <1>2, PTL DEF Spec

(* A read asks for a chunk header, or for at least a byte of the message   *)
(* it belongs to, and then for nothing beyond the chunk or the message     *)
(* (dbg-io.c:1123-1156).                                                   *)
THEOREM RequestsInBounds ==
  ASSUME MessagesProper
  PROVE  Spec => []RequestInBounds
<1>1. MessageInv => RequestInBounds
  <2> SUFFICES ASSUME MessageInv, Reading PROVE RequestInBounds
    BY DEF RequestInBounds, Reading
  <2>1. curr = None => req = 1
    BY DEF MessageInv, FrameInv, Frames, HeaderReads
  <2>2. ASSUME curr # None, clean[curr]
        PROVE  req \in 1 .. stream_len /\ Len(buf[curr]) + req <= btr[curr]
    <3>1. req >= 1 /\ Len(buf[curr]) + req <= btr[curr]
      BY <2>2 DEF MessageInv, ReadInStep
    <3>2. req <= stream_len
      BY <2>2 DEF MessageInv, FrameInv, IInv, ReadFits, Reading
    <3> QED
      BY <3>1, <3>2, MessageTypes
  <2> QED
    BY <2>1, <2>2 DEF RequestInBounds
<1> QED
  BY <1>1, InStepInvariant, PTL

(* What a handler takes for its next message is that message, whole and in *)
(* order, on every stream that started in step - however the device cuts   *)
(* and interleaves the streams and wherever reads time out                 *)
(* (dbg-io.c:1200-1335).                                                   *)
THEOREM MessagesIntact ==
  ASSUME MessagesProper
  PROVE  Spec => []DeliveredIntact
<1>1. MessageInv => DeliveredIntact
  BY DEF MessageInv
<1> QED
  BY <1>1, InStepInvariant, PTL

(* dev_rx_stream_handler_crsp comes to its while (1) (dbg-io.c:1302) only  *)
(* on a connection that did not start between two responses.               *)
THEOREM HangsOnlyIfOutOfStep ==
  ASSUME MessagesProper
  PROVE  Spec => []HangsOnlyOutOfStep
<1>1. MessageInv => HangsOnlyOutOfStep
  BY DEF MessageInv
<1> QED
  BY <1>1, InStepInvariant, PTL
==============================================================================
