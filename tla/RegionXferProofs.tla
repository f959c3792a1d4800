--------------------------- MODULE RegionXferProofs ---------------------------
(***************************************************************************)
(* Theorems about RegionXfer, for any files, memories, checksum and bounds *)
(* that its assumptions allow.                                             *)
(*                                                                         *)
(* Control, the inductive invariant of the first part, says which callback *)
(* goes with which open file and with what under way.  The second part     *)
(* adds, for the image of a region that is written, what the device holds  *)
(* or will hold when the writes under way have arrived (ImageParts).       *)
(***************************************************************************)
EXTENDS RegionXfer, TLAPS, SequenceTheorems, FiniteSetTheorems

(* crc16 returns a WORD.                                                   *)
CrcIsNumber == \A d \in Seq(Nat) : Crc(d) \in Nat

(* The types, in the groups that the actions change together.              *)
Ops == {"read", "write"}
Command ==
  {c \in [op : Ops, addr : Nat, len : Nat, data : Seq(Nat)] :
     /\ c.len = 2 => c.data \in Seq(Half)
     /\ c.op = "write" => c.len = Len(c.data)}
Response == [op : Ops, data : Seq(Nat)]
MemfCmd ==
  {c \in [open : BOOLEAN, regions : Seq(Region), regions_it : Nat,
          auto : BOOLEAN, blocks : Seq(Block), blocks_it : Nat] :
     c.regions_it <= Len(c.regions) /\ c.blocks_it <= Len(c.blocks)}
Image == [addr : Nat, size : Nat, data : Seq(Nat)]
ReadCbs == {None, "read_get_len", "read_get_data", "write_get_len", "write_get_data"}
WriteCbs == {None, "write_set_data", "write_set_crc"}

FlagTypes ==
  /\ halted \in BOOLEAN /\ conn \in BOOLEAN /\ rsp.open \in BOOLEAN
  /\ read_cb \in ReadCbs /\ write_cb \in WriteCbs
FileTypes == cmd \in MemfCmd /\ region \in Image
LineTypes == toDev \in Seq(Command) /\ toIo \in Seq(Response)
MemTypes ==
  /\ mem \in [DOMAIN mem -> Nat]
  /\ \A x \in DOMAIN mem : x \in Nat /\ 0 .. x \subseteq DOMAIN mem
BoundTypes == cmds \in Nat /\ plain \in Nat /\ losses \in Nat /\ refusals \in Nat

Types == FlagTypes /\ FileTypes /\ LineTypes /\ MemTypes /\ BoundTypes

(* The whole region, from its checksum to the end, is never shorter than   *)
(* its first four half-words and four more; an image that is being written *)
(* has a checksum.                                                         *)
Sized ==
  /\ read_cb \in {"read_get_data", "write_get_data"} => region.size >= 8
  /\ write_cb = "write_set_data" => region.data # <<>>

(* The device is there until it is lost; a process that ended waits for    *)
(* nothing.                                                                *)
Linked == losses = 0 => conn
Ended == halted => read_cb = None /\ write_cb = None

(* A region that is about to be written is read after everything that was  *)
(* sent before: what follows the read on the line writes nothing, and what *)
(* the device answered is what it holds.                                   *)
Harmless(c) == c.op = "read" \/ c.len = 0

Fresh ==
  losses = 0 /\ read_cb = "write_get_data" =>
    /\ \A i \in DOMAIN toDev : toDev[i].op = "read" =>
         /\ toDev[i].addr = region.addr /\ toDev[i].len = region.size
         /\ \A j \in DOMAIN toDev : j > i => Harmless(toDev[j])
    /\ \A i \in DOMAIN toIo :
         toIo[i].op = "read" /\ Len(toIo[i].data) = region.size =>
           /\ \A k \in 1 .. region.size :
                /\ region.addr + k - 1 \in DOMAIN mem
                /\ mem[region.addr + k - 1] = toIo[i].data[k]
           /\ \A j \in DOMAIN toDev : Harmless(toDev[j])

(* A region that is being written lies in the target's memory.             *)
InMemory ==
  losses = 0 /\ write_cb # None =>
    \A k \in 1 .. region.size : region.addr + k - 1 \in DOMAIN mem

(* Every block of every file is a DWORD, as is every block of the file     *)
(* being worked off.                                                       *)
DwordBlocks ==
  \A f \in Files : \A i \in DOMAIN f :
    \A k \in DOMAIN f[i].blocks : f[i].blocks[k].size = 2
Dwords ==
  /\ \A i \in DOMAIN cmd.regions :
       \A k \in DOMAIN cmd.regions[i].blocks : cmd.regions[i].blocks[k].size = 2
  /\ \A k \in DOMAIN cmd.blocks : cmd.blocks[k].size = 2
-----------------------------------------------------------------------------
(* The values of the model. *)

(* The two half-words of a DWORD.                                          *)
LEMMA Halves ==
  ASSUME NEW w \in Word
  PROVE  Hi(w) \in Half /\ Lo(w) \in Half
<1>1. Base \in Nat /\ Base > 0
  BY ConstantsAssumption
<1>2. w \in Nat /\ w < Base * Base
  BY <1>1 DEF Word
<1>3. w \div Base >= 0 /\ w \div Base \in Int /\ w \div Base < Base
  BY <1>1, <1>2
<1>4. w % Base \in 0 .. Base - 1
  BY <1>1, <1>2
<1> QED
  BY <1>1, <1>3, <1>4 DEF Hi, Lo, Half

LEMMA FunctionIsSeq ==
  ASSUME NEW n \in Nat, NEW S, NEW f \in [1 .. n -> S]
  PROVE  f \in Seq(S) /\ Len(f) = n
OBVIOUS

LEMMA WordOfNat ==
  ASSUME NEW n \in Nat
  PROVE  n % (Base * Base) \in Word
<1>1. Base * Base \in Nat /\ Base * Base > 0
  BY ConstantsAssumption
<1> QED
  BY <1>1 DEF Word

(* What can be sent to the device is a command.                            *)
LEMMA ReadIsCommand ==
  ASSUME NEW a \in Nat, NEW n \in Nat
  PROVE  /\ ReadCmd(a, n) \in Command /\ ReadCmd(a, n).op = "read"
         /\ ReadCmd(a, n).addr = a /\ ReadCmd(a, n).len = n
<1>1. <<>> \in Seq(Nat) /\ <<>> \in Seq(Half)
  BY EmptySeq
<1> QED
  BY <1>1 DEF ReadCmd, Command, Ops

LEMMA WriteIsCommand ==
  ASSUME NEW a \in Nat, NEW hs \in Seq(Nat), Len(hs) = 2 => hs \in Seq(Half)
  PROVE  /\ WriteCmd(a, hs) \in Command /\ WriteCmd(a, hs).op = "write"
         /\ WriteCmd(a, hs).addr = a /\ WriteCmd(a, hs).len = Len(hs)
         /\ WriteCmd(a, hs).data = hs
<1>1. Len(hs) \in Nat
  BY LenProperties
<1> QED
  BY <1>1 DEF WriteCmd, Command, Ops

LEMMA PlainIsCommand ==
  /\ WriteCmd(0, <<>>) \in Command /\ WriteCmd(0, <<>>).op = "write"
  /\ WriteCmd(0, <<>>).len = 0
<1>1. <<>> \in Seq(Nat) /\ Len(<<>>) = 0
  BY EmptySeq
<1>2. Len(<<>>) = 2 => <<>> \in Seq(Half)
  BY <1>1
<1> QED
  BY <1>1, <1>2, WriteIsCommand, Zenon

LEMMA CommandTypes ==
  ASSUME NEW c \in Command
  PROVE  /\ c.op \in Ops /\ c.addr \in Nat /\ c.len \in Nat /\ c.data \in Seq(Nat)
         /\ c.op = "write" => c.len = Len(c.data)
BY DEF Command

LEMMA CommandOp ==
  /\ \A c \in Command : c.op \in Ops
  /\ \A r \in Response : r.op \in Ops /\ r.data \in Seq(Nat)
BY DEF Command, Response

(* A block that is sent, its half-words and what may lie behind them.      *)
LEMMA BlockIsCommand ==
  ASSUME NEW b \in Block, NEW w \in Word, NEW beyond \in Half
  PROVE  /\ <<Hi(w), Lo(w)>> \in Seq(Nat) /\ Len(<<Hi(w), Lo(w)>>) = 2
         /\ BlockData(b, <<Hi(w), Lo(w)>>, beyond) \in Seq(Nat)
         /\ Len(BlockData(b, <<Hi(w), Lo(w)>>, beyond)) = b.size
         /\ WriteCmd(b.addr, BlockData(b, <<Hi(w), Lo(w)>>, beyond)) \in Command
<1> DEFINE hs == <<Hi(w), Lo(w)>>
           s == BlockData(b, hs, beyond)
<1>1. Hi(w) \in Half /\ Lo(w) \in Half
  BY Halves
<1>2. Half \subseteq Nat
  BY ConstantsAssumption DEF Half
<1>3. Len(hs) = 2 /\ hs[1] \in Half /\ hs[2] \in Half
  BY <1>1
<1>11. hs \in Seq(Nat)
  <2>1. Hi(w) \in Nat /\ Lo(w) \in Nat
    BY <1>1, <1>2
  <2> QED
    BY <2>1
<1>4. b.size \in Nat /\ b.addr \in Nat
  BY DEF Block
<1>5. s = [j \in 1 .. b.size |-> IF j <= 2 THEN hs[j] ELSE beyond]
  BY DEF BlockData
<1>6. \A j \in 1 .. b.size : (IF j <= 2 THEN hs[j] ELSE beyond) \in Half
  <2> TAKE j \in 1 .. b.size
  <2>1. j <= 2 => j = 1 \/ j = 2
    BY <1>4
  <2> QED
    BY <2>1, <1>3
<1>7. s \in Seq(Half)
  <2>1. s \in [1 .. b.size -> Half]
    BY <1>5, <1>6
  <2> QED
    BY <2>1, <1>4
<1>8. Len(s) = b.size
  BY <1>4, <1>5
<1>9. s \in Seq(Nat)
  <2>1. s \in [1 .. b.size -> Nat]
    BY <1>2, <1>5, <1>6
  <2> QED
    BY <2>1, <1>4
<1> HIDE DEF s
<1>10. WriteCmd(b.addr, s) \in Command
  BY <1>4, <1>7, <1>9, WriteIsCommand
<1> QED
  BY <1>3, <1>8, <1>9, <1>10, <1>11 DEF s

(* Part of the memory, and a sequence written over.                        *)
LEMMA SpanTypes ==
  ASSUME MemTypes, NEW a \in Nat, NEW n \in Nat, a + n - 1 \in DOMAIN mem
  PROVE  /\ Span(mem, a, n) \in Seq(Nat) /\ Len(Span(mem, a, n)) = n
         /\ \A k \in 1 .. n : a + k - 1 \in DOMAIN mem
                              /\ Span(mem, a, n)[k] = mem[a + k - 1]
<1>1. 0 .. a + n - 1 \subseteq DOMAIN mem
  BY DEF MemTypes
<1>2. \A k \in 1 .. n : a + k - 1 \in 0 .. a + n - 1
  OBVIOUS
<1>3. \A k \in 1 .. n : a + k - 1 \in DOMAIN mem /\ mem[a + k - 1] \in Nat
  BY <1>1, <1>2 DEF MemTypes
<1>4. Span(mem, a, n) \in [1 .. n -> Nat]
  BY <1>3 DEF Span
<1>5. Span(mem, a, n) \in Seq(Nat) /\ Len(Span(mem, a, n)) = n
  <2>1. DOMAIN Span(mem, a, n) = 1 .. n
    BY <1>4
  <2> QED
    BY <1>4, <2>1, LenProperties
<1> QED
  BY <1>3, <1>5 DEF Span

LEMMA OverwriteTypes ==
  ASSUME NEW m, NEW a \in Int, NEW hs \in Seq(Nat),
         m \in [DOMAIN m -> Nat], DOMAIN m \subseteq Int
  PROVE  /\ Overwrite(m, a, hs) \in [DOMAIN m -> Nat]
         /\ DOMAIN Overwrite(m, a, hs) = DOMAIN m
<1>1. Len(hs) \in Nat /\ \A k \in 1 .. Len(hs) : hs[k] \in Nat
  BY LenProperties, ElementOfSeq
<1>2. \A x \in DOMAIN m : x \in a .. a + Len(hs) - 1 => x - a + 1 \in 1 .. Len(hs)
  BY <1>1
<1> QED
  BY <1>1, <1>2 DEF Overwrite

LEMMA OverwriteSeq ==
  ASSUME NEW d \in Seq(Nat), NEW a \in Int, NEW hs \in Seq(Nat)
  PROVE  Overwrite(d, a, hs) \in Seq(Nat) /\ Len(Overwrite(d, a, hs)) = Len(d)
<1>1. Len(d) \in Nat /\ DOMAIN d = 1 .. Len(d) /\ d \in [1 .. Len(d) -> Nat]
  BY LenProperties, ElementOfSeq
<1>2. d \in [DOMAIN d -> Nat] /\ DOMAIN d \subseteq Int
  BY <1>1
<1>3. Overwrite(d, a, hs) \in [1 .. Len(d) -> Nat]
  BY <1>1, <1>2, OverwriteTypes
<1> QED
  BY <1>1, <1>3, FunctionIsSeq
-----------------------------------------------------------------------------
(* The helpers of the actions. *)

(* Something is sent that is of this kind.                                 *)
Sends(op) == \E c \in Command : c.op = op /\ dev_tx(c)

LEMMA SendTypes ==
  ASSUME LineTypes, \/ NothingSent
                    \/ \E op \in Ops : Sends(op)
                    \/ \E c \in Command : dev_tx(c)
  PROVE  toDev' \in Seq(Command)
<1>1. toDev \in Seq(Command)
  BY DEF LineTypes
<1>2. \A c \in Command : Append(toDev, c) \in Seq(Command)
  BY <1>1, AppendProperties
<1> QED
  BY <1>1, <1>2 DEF dev_tx, NothingSent, Sends

LEMMA AnsweredTypes ==
  ASSUME LineTypes, NEW op, Answered(op)
  PROVE  /\ toIo' \in Seq(Response) /\ Head(toIo).op = op /\ op \in Ops
         /\ Data \in Seq(Nat) /\ UNCHANGED <<conn, mem, boundVars>> /\ ~halted
<1>1. toIo \in Seq(Response) /\ toIo # <<>>
  BY DEF LineTypes, Answered
<1>2. Head(toIo) \in Response /\ Tail(toIo) \in Seq(Response)
  BY <1>1, HeadTailProperties
<1>3. Head(toIo).op \in Ops /\ Data \in Seq(Nat)
  BY <1>2, CommandOp DEF Data
<1> QED
  BY <1>2, <1>3 DEF Answered

(* A file is opened, and closed;                                           *)
LEMMA OpenedTypes ==
  /\ \A f \in Files : Opened(f) \in MemfCmd /\ Opened(f).open
  /\ NoFile \in MemfCmd /\ NoFile.open = FALSE /\ NoReport.open = FALSE
<1>1. <<>> \in Seq(Region) /\ <<>> \in Seq(Block) /\ Len(<<>>) = 0
  BY EmptySeq
<1>2. NoFile \in MemfCmd /\ NoFile.open = FALSE /\ NoReport.open = FALSE
  BY <1>1 DEF NoFile, NoReport, MemfCmd
<1>3. ASSUME NEW f \in Files
      PROVE  Opened(f) \in MemfCmd /\ Opened(f).open
  <2>1. f \in Seq(Region) /\ 0 <= Len(f)
    BY FilesAssumption, LenProperties
  <2>2. /\ NoFile.regions_it = 0 /\ NoFile.blocks_it = 0
        /\ NoFile.blocks = <<>>
    BY DEF NoFile
  <2> QED
    BY <1>1, <1>2, <2>1, <2>2 DEF Opened, MemfCmd
<1> QED
  BY <1>2, <1>3

(* its next region is one, and is taken.                                   *)
LEMMA TakenTypes ==
  ASSUME NEW c \in MemfCmd, HasRegion(c)
  PROVE  /\ Taken(c) \in MemfCmd /\ Taken(c).open = c.open
         /\ NextOf(c) \in Region /\ NextOf(c).addr \in Nat
         /\ NextOf(c).bad \in BOOLEAN /\ NextOf(c).auto \in BOOLEAN
         /\ Taken(c).regions = c.regions /\ Taken(c).blocks = NextOf(c).blocks
<1>1. /\ c.regions \in Seq(Region) /\ Len(c.regions) \in Nat
      /\ c.regions_it \in Nat /\ c.regions_it < Len(c.regions)
  BY LenProperties DEF MemfCmd, HasRegion
<1>2. c.regions_it + 1 \in 1 .. Len(c.regions)
  BY <1>1
<1>3. NextOf(c) \in Region
  BY <1>1, <1>2, ElementOfSeq DEF NextOf
<1>4. NextOf(c).blocks \in Seq(Block) /\ 0 <= Len(NextOf(c).blocks)
  BY <1>3, LenProperties DEF Region
<1>5. NextOf(c).addr \in Nat /\ NextOf(c).bad \in BOOLEAN /\ NextOf(c).auto \in BOOLEAN
  BY <1>3 DEF Region
<1>6. c.regions_it + 1 \in Nat /\ c.regions_it + 1 <= Len(c.regions)
  BY <1>1
<1> HIDE DEF NextOf
<1>7. Taken(c) \in MemfCmd
  BY <1>1, <1>4, <1>5, <1>6 DEF Taken, MemfCmd
<1>8. Taken(c).open = c.open /\ Taken(c).regions = c.regions
      /\ Taken(c).blocks = NextOf(c).blocks
  BY DEF Taken, MemfCmd
<1> QED
  BY <1>3, <1>5, <1>7, <1>8

(* The next block of the file is one.                                      *)
LEMMA NextBlock ==
  ASSUME FileTypes, cmd.blocks_it < Len(cmd.blocks)
  PROVE  /\ cmd.blocks_it + 1 \in DOMAIN cmd.blocks
         /\ cmd.blocks[cmd.blocks_it + 1] \in Block
         /\ [cmd EXCEPT !.blocks_it = @ + 1] \in MemfCmd
         /\ [cmd EXCEPT !.blocks_it = @ + 1].open = cmd.open
         /\ [cmd EXCEPT !.blocks_it = @ + 1].blocks = cmd.blocks
         /\ [cmd EXCEPT !.blocks_it = @ + 1].regions = cmd.regions
<1>1. cmd \in MemfCmd
  BY DEF FileTypes
<1>2. /\ cmd.blocks \in Seq(Block) /\ Len(cmd.blocks) \in Nat
      /\ DOMAIN cmd.blocks = 1 .. Len(cmd.blocks) /\ cmd.blocks_it \in Nat
  BY <1>1, LenProperties DEF MemfCmd
<1>3. cmd.blocks_it + 1 \in 1 .. Len(cmd.blocks) /\ cmd.blocks_it + 1 \in Nat
      /\ cmd.blocks_it + 1 <= Len(cmd.blocks)
  BY <1>2
<1>4. [cmd EXCEPT !.blocks_it = @ + 1] \in MemfCmd
  BY <1>1, <1>3 DEF MemfCmd
<1> QED
  BY <1>1, <1>2, <1>3, <1>4, ElementOfSeq DEF MemfCmd

(* An image, with its data or its address exchanged.                       *)
LEMMA ImageTypes ==
  ASSUME NEW reg \in Image
  PROVE  /\ reg.addr \in Nat /\ reg.size \in Nat /\ reg.data \in Seq(Nat)
         /\ \A a \in Nat : [reg EXCEPT !.addr = a] \in Image
         /\ \A n \in Nat : /\ [reg EXCEPT !.size = n] \in Image
                           /\ [reg EXCEPT !.size = n].size = n
                           /\ [reg EXCEPT !.size = n].addr = reg.addr
         /\ \A d \in Seq(Nat) : /\ [reg EXCEPT !.data = d] \in Image
                                /\ [reg EXCEPT !.data = d].data = d
                                /\ [reg EXCEPT !.data = d].size = reg.size
                                /\ [reg EXCEPT !.data = d].addr = reg.addr
BY DEF Image

(* What the two *_next_region do: they end the chain or send a read.       *)
LEMMA ReadNext ==
  ASSUME NEW c \in MemfCmd, c.open, NEW report, NEW reg \in Image,
         region_read_next_region(c, report, reg)
  PROVE  /\ cmd' \in MemfCmd /\ region' \in Image
         /\ rsp'.open \in BOOLEAN /\ rsp'.open = cmd'.open
         /\ \/ read_cb' = None /\ NothingSent
            \/ read_cb' = "read_get_len" /\ Sends("read") /\ cmd'.open
<1>1. CASE ~HasRegion(c)
  BY <1>1, OpenedTypes DEF region_read_next_region
<1>2. CASE HasRegion(c)
  <2>1. /\ Taken(c) \in MemfCmd /\ Taken(c).open /\ NextOf(c).addr \in Nat
        /\ NextOf(c).bad \in BOOLEAN
    BY <1>2, TakenTypes
  <2>2. cmd' = Taken(c) /\ rsp'.open = TRUE
    BY <1>2 DEF region_read_next_region
  <2>3. CASE NextOf(c).bad
    BY <1>2, <2>1, <2>2, <2>3 DEF region_read_next_region
  <2>4. CASE ~NextOf(c).bad
    <3>1. /\ read_cb' = "read_get_len" /\ dev_tx(ReadCmd(NextOf(c).addr + 2, 2))
          /\ region' = [reg EXCEPT !.addr = NextOf(c).addr]
      BY <1>2, <2>4 DEF region_read_next_region
    <3>2. NextOf(c).addr + 2 \in Nat
      BY <2>1
    <3>3. Sends("read")
      BY <3>1, <3>2, ReadIsCommand DEF Sends
    <3> QED
      BY <2>1, <2>2, <3>1, <3>3, ImageTypes
  <2> QED
    BY <2>1, <2>3, <2>4
<1> QED
  BY <1>1, <1>2

LEMMA WriteNext ==
  ASSUME NEW c \in MemfCmd, c.open, region \in Image, region_write_next_region(c)
  PROVE  /\ cmd' \in MemfCmd /\ region' \in Image
         /\ \/ read_cb' = None /\ NothingSent
            \/ read_cb' = "write_get_len" /\ Sends("read") /\ cmd'.open
<1>1. CASE ~HasRegion(c)
  BY <1>1, OpenedTypes DEF region_write_next_region
<1>2. CASE HasRegion(c)
  <2>1. /\ Taken(c) \in MemfCmd /\ Taken(c).open /\ NextOf(c).addr \in Nat
        /\ NextOf(c).bad \in BOOLEAN /\ NextOf(c).auto \in BOOLEAN
    BY <1>2, TakenTypes
  <2>2. cmd' = Taken(c)
    BY <1>2 DEF region_write_next_region
  <2>3. CASE NextOf(c).auto \/ NextOf(c).bad
    BY <1>2, <2>1, <2>2, <2>3 DEF region_write_next_region
  <2>4. CASE ~(NextOf(c).auto \/ NextOf(c).bad)
    <3>1. /\ read_cb' = "write_get_len" /\ dev_tx(ReadCmd(NextOf(c).addr + 2, 2))
          /\ region' = [region EXCEPT !.addr = NextOf(c).addr]
      BY <1>2, <2>4 DEF region_write_next_region
    <3>2. NextOf(c).addr + 2 \in Nat
      BY <2>1
    <3>3. Sends("read")
      BY <3>1, <3>2, ReadIsCommand DEF Sends
    <3> QED
      BY <2>1, <2>2, <3>1, <3>3, ImageTypes
  <2> QED
    BY <2>1, <2>3, <2>4
<1> QED
  BY <1>1, <1>2

(* The words an "inc" may result in.                                       *)
LEMMA NewWordTypes ==
  ASSUME region.addr \in Nat, NEW b \in Block, NEW d \in Seq(Nat)
  PROVE  NewWords(b, d) \subseteq Word
<1>1. b.val \in Word /\ b.val \in Nat /\ Base \in Nat
  BY ConstantsAssumption DEF Block, Word
<1>2. ASSUME NEW w \in OldWords(b, d)
      PROVE  w \in Nat
  <2> DEFINE k == b.addr - region.addr + 1
  <2>1. CASE {k, k + 1} \subseteq DOMAIN d
    <3>1. w = d[k] * Base + d[k + 1]
      BY <1>2, <2>1 DEF OldWords, WordAt
    <3>2. d[k] \in Nat /\ d[k + 1] \in Nat
      BY <2>1, LenProperties, ElementOfSeq
    <3> DEFINE h == d[k]
               l == d[k + 1]
    <3> HIDE DEF h, l
    <3>3. w = h * Base + l /\ h \in Nat /\ l \in Nat
      BY <3>1, <3>2 DEF h, l
    <3>4. h * Base \in Nat
      BY <1>1, <3>3
    <3> QED
      BY <3>3, <3>4
  <2>2. CASE ~({k, k + 1} \subseteq DOMAIN d)
    BY <1>1, <1>2, <2>2 DEF OldWords, Word
  <2> QED
    BY <2>1, <2>2
<1>3. \A w \in OldWords(b, d) : (w + b.val) % (Base * Base) \in Word
  BY <1>1, <1>2, WordOfNat
<1> QED
  BY <1>1, <1>3 DEF NewWords

(* The next block, or the checksum, of a region that is written.           *)
LEMMA WriteBlock ==
  ASSUME CrcIsNumber, FileTypes, NEW d \in Seq(Nat), d # <<>>, WriteNextBlock(d)
  PROVE  /\ cmd' \in MemfCmd /\ cmd'.open = cmd.open
         /\ region' \in Image /\ region'.data # <<>> /\ Len(region'.data) = Len(d)
         /\ region'.addr = region.addr /\ region'.size = region.size
         /\ UNCHANGED halted \/ (halted' = TRUE /\ write_cb' = None)
         /\ \/ write_cb' = None /\ NothingSent
            \/ write_cb' \in {"write_set_data", "write_set_crc"} /\ Sends("write")
<1> USE DEF FileTypes
<1>1. Tail(d) \in Seq(Nat) /\ Len(Tail(d)) = Len(d) - 1 /\ Len(d) \in Nat /\ Len(d) > 0
  BY HeadTailProperties, EmptySeq, LenProperties
<1>2. region.addr \in Nat
  BY ImageTypes
<1>3. CASE cmd.blocks_it = Len(cmd.blocks)
  <2> DEFINE crc == NewCrc(d)
             image == <<crc>> \o Tail(d)
  <2>7. crc \in Nat
    BY <1>1 DEF NewCrc, CrcIsNumber
  <2> HIDE DEF crc
  <2>1. <<crc>> \in Seq(Nat) /\ Len(<<crc>>) = 1
    BY <2>7
  <2>2. image \in Seq(Nat) /\ Len(image) = Len(d)
    BY <1>1, <2>1, ConcatProperties
  <2>3. image # <<>>
    BY <1>1, <2>2, EmptySeq
  <2>4. WriteCmd(region.addr, <<crc>>) \in Command
        /\ WriteCmd(region.addr, <<crc>>).op = "write"
    <3>1. Len(<<crc>>) = 2 => <<crc>> \in Seq(Half)
      BY <2>1
    <3> QED
      BY <1>2, <2>1, <3>1, WriteIsCommand, Zenon
  <2>8. ~(cmd.blocks_it < Len(cmd.blocks))
    BY <1>3, LenProperties DEF MemfCmd
  <2>5. /\ region' = [region EXCEPT !.data = image] /\ UNCHANGED cmd /\ UNCHANGED halted
        /\ dev_tx(WriteCmd(region.addr, <<crc>>)) /\ write_cb' = "write_set_crc"
    BY <2>8 DEF WriteNextBlock, crc
  <2>6. Sends("write")
    BY <2>4, <2>5 DEF Sends
  <2> HIDE DEF image
  <2> QED
    BY <2>2, <2>3, <2>5, <2>6, ImageTypes
<1>4. CASE cmd.blocks_it < Len(cmd.blocks)
  <2> DEFINE b == cmd.blocks[cmd.blocks_it + 1]
             next == [cmd EXCEPT !.blocks_it = @ + 1]
  <2>1. b \in Block /\ next \in MemfCmd /\ next.open = cmd.open
        /\ b.addr \in Nat /\ b.bad \in BOOLEAN /\ b.empty \in BOOLEAN
    BY <1>4, NextBlock DEF Block
  <2>2. cmd.blocks_it # Len(cmd.blocks)
    BY <1>4, LenProperties DEF MemfCmd
  <2>3. CASE b.bad
    <3>1. /\ write_cb' = None /\ NothingSent /\ UNCHANGED cmd /\ UNCHANGED halted
          /\ region' = [region EXCEPT !.data = d]
      BY <2>2, <2>3 DEF WriteNextBlock, NextOfBlocks
    <3> QED
      BY <3>1, ImageTypes
  <2>5. CASE ~b.bad /\ b.empty
    <3>1. /\ write_cb' = None /\ NothingSent /\ cmd' = next /\ halted' = TRUE
          /\ region' = [region EXCEPT !.data = d]
      BY <2>2, <2>5 DEF WriteNextBlock, NextOfBlocks, OneBlockOn
    <3> QED
      BY <2>1, <3>1, ImageTypes
  <2>4. CASE ~b.bad /\ ~b.empty
    <3>1. /\ cmd' = next /\ write_cb' = "write_set_data" /\ UNCHANGED halted
          /\ \E w \in NewWords(b, d), beyond \in Half :
               /\ region' = [region EXCEPT !.data = InImage(d, b, <<Hi(w), Lo(w)>>)]
               /\ dev_tx(WriteCmd(b.addr, BlockData(b, <<Hi(w), Lo(w)>>, beyond)))
      BY <2>2, <2>4 DEF WriteNextBlock, NextOfBlocks, OneBlockOn
    <3> HIDE DEF b, next
    <3>2. PICK w \in NewWords(b, d), beyond \in Half :
            /\ region' = [region EXCEPT !.data = InImage(d, b, <<Hi(w), Lo(w)>>)]
            /\ dev_tx(WriteCmd(b.addr, BlockData(b, <<Hi(w), Lo(w)>>, beyond)))
      BY <3>1
    <3>3. w \in Word
      BY <1>2, <2>1, NewWordTypes
    <3> DEFINE hs == <<Hi(w), Lo(w)>>
               image == InImage(d, b, hs)
               c == WriteCmd(b.addr, BlockData(b, hs, beyond))
    <3>4. hs \in Seq(Nat) /\ c \in Command
      BY <2>1, <3>3, BlockIsCommand
    <3>5. c.op = "write"
      BY DEF WriteCmd
    <3>6. b.addr - region.addr + 1 \in Int
      BY <1>2, <2>1
    <3> HIDE DEF hs
    <3>7. image \in Seq(Nat) /\ Len(image) = Len(d)
      BY <3>4, <3>6, OverwriteSeq DEF InImage
    <3>8. image # <<>>
      BY <1>1, <3>7, EmptySeq
    <3>9. region' = [region EXCEPT !.data = image] /\ dev_tx(c)
      BY <3>2 DEF hs
    <3> HIDE DEF image, c
    <3>10. Sends("write")
      BY <3>4, <3>5, <3>9 DEF Sends
    <3> QED
      BY <2>1, <3>1, <3>7, <3>8, <3>9, <3>10, ImageTypes
  <2> QED
    BY <2>1, <2>3, <2>4, <2>5
<1> QED
  BY <1>3, <1>4 DEF WriteNextBlock

(* The length of a region is at least that of its first half-words.        *)
LEMMA LengthTypes ==
  ASSUME FileTypes, LineTypes, NEW cb, NEW next, GetLen(cb, next)
  PROVE  /\ region' \in Image /\ region'.size >= 8 /\ region'.addr = region.addr
         /\ dev_tx(ReadCmd(region'.addr, region'.size))
         /\ ReadCmd(region'.addr, region'.size) \in Command
         /\ read_cb' = next
<1>1. Data \in Seq(Nat)
  BY AnsweredTypes DEF GetLen
<1>2. PICK w \in Lengths : /\ region' = [region EXCEPT !.size = (w + 16) \div 2]
                           /\ dev_tx(ReadCmd(region.addr, (w + 16) \div 2))
  BY DEF GetLen
<1>3. w \in Nat
  <2>1. Base \in Nat
    BY ConstantsAssumption
  <2>2. CASE Len(Data) = 2
    <3>1. Data[1] \in Nat /\ Data[2] \in Nat
      BY <1>1, <2>2
    <3>2. w = Data[1] * Base + Data[2]
      BY <2>2 DEF Lengths, WordAt
    <3> QED
      BY <2>1, <3>1, <3>2
  <2>3. CASE Len(Data) # 2
    BY <2>1, <2>3 DEF Lengths, Word
  <2> QED
    BY <2>2, <2>3
<1>4. (w + 16) \div 2 \in Nat /\ (w + 16) \div 2 >= 8
  BY <1>3
<1>5. region \in Image /\ region.addr \in Nat
  BY ImageTypes DEF FileTypes
<1> DEFINE n == (w + 16) \div 2
<1> HIDE DEF n
<1>6. region' \in Image /\ region'.size = n /\ region'.addr = region.addr
  BY <1>2, <1>4, <1>5, ImageTypes DEF n
<1>7. read_cb' = next
  BY DEF GetLen
<1> QED
  BY <1>2, <1>4, <1>5, <1>6, <1>7, ReadIsCommand DEF n

(* The device takes the first command and answers it.                      *)
Answers ==
  /\ toDev # <<>> /\ toDev' = Tail(toDev)
  /\ \E r \in Response : r.op = Head(toDev).op /\ toIo' = Append(toIo, r)
  /\ UNCHANGED <<conn, xferVars, cmds, plain, losses>>

LEMMA AnswerSteps ==
  ASSUME LineTypes, NEW data \in Seq(Nat), toDev # <<>>, Answer(data)
  PROVE  Answers /\ LineTypes'
<1>1. Head(toDev) \in Command /\ Tail(toDev) \in Seq(Command)
  BY HeadTailProperties DEF LineTypes
<1> DEFINE r == [op |-> Head(toDev).op, data |-> data]
<1>2. Head(toDev).op \in Ops
  BY <1>1, CommandOp
<1>3. r \in Response /\ r.op = Head(toDev).op
  BY <1>2 DEF Response
<1>4. Append(toIo, r) \in Seq(Response)
  BY <1>3, AppendProperties DEF LineTypes
<1> QED
  BY <1>1, <1>3, <1>4 DEF Answer, Answers, LineTypes

LEMMA DeviceStep ==
  ASSUME Types, Device
  PROVE  Answers /\ LineTypes' /\ MemTypes' /\ DOMAIN mem' = DOMAIN mem /\ refusals' \in Nat
<1> USE DEF Types
<1>1. toDev # <<>>
  BY DEF Device, DevReads, DevRefuses, DevWrites
<1>2. Head(toDev) \in Command
  BY <1>1, HeadTailProperties DEF LineTypes
<1> DEFINE c == Head(toDev)
<1>3. c.addr \in Nat /\ c.len \in Nat /\ c.data \in Seq(Nat)
  BY <1>2, CommandTypes
<1>4. refusals \in Nat /\ <<>> \in Seq(Nat)
  BY EmptySeq DEF BoundTypes
<1>5. CASE DevReads
  <2>1. (IF c.addr + c.len - 1 \in DOMAIN mem
         THEN Span(mem, c.addr, c.len) ELSE <<>>) \in Seq(Nat)
    BY <1>3, <1>4, SpanTypes
  <2>2. Answer(IF c.addr + c.len - 1 \in DOMAIN mem
               THEN Span(mem, c.addr, c.len) ELSE <<>>)
    BY <1>5 DEF DevReads
  <2>3. Answers /\ LineTypes'
    BY <1>1, <2>1, <2>2, AnswerSteps
  <2>4. UNCHANGED <<mem, refusals>>
    BY <1>5 DEF DevReads
  <2> QED
    BY <1>4, <2>3, <2>4 DEF MemTypes
<1>6. CASE DevRefuses
  <2>1. Answer(<<>>) /\ UNCHANGED mem /\ refusals' = refusals + 1
    BY <1>6 DEF DevRefuses
  <2>2. Answers /\ LineTypes'
    BY <1>1, <1>4, <2>1, AnswerSteps
  <2>3. MemTypes' /\ DOMAIN mem' = DOMAIN mem
    BY <2>1 DEF MemTypes
  <2>4. refusals' \in Nat
    BY <1>4, <2>1
  <2> QED
    BY <2>2, <2>3, <2>4
<1>7. CASE DevWrites
  <2>1. mem' = Overwrite(mem, c.addr, c.data) /\ refusals' = refusals
    BY <1>7 DEF DevWrites
  <2>2. mem \in [DOMAIN mem -> Nat] /\ DOMAIN mem \subseteq Int /\ c.addr \in Int
    BY <1>3 DEF MemTypes
  <2>3. mem' \in [DOMAIN mem -> Nat] /\ DOMAIN mem' = DOMAIN mem
    BY <1>3, <2>1, <2>2, OverwriteTypes
  <2>4. MemTypes'
    BY <2>3 DEF MemTypes
  <2>5. Answer(<<>>)
    BY <1>7 DEF DevWrites
  <2>6. Answers /\ LineTypes'
    BY <1>1, <1>4, <2>5, AnswerSteps
  <2> QED
    BY <1>4, <2>1, <2>3, <2>4, <2>6
<1> QED
  BY <1>5, <1>6, <1>7 DEF Device
-----------------------------------------------------------------------------
(* What is under way, counted. *)

Places(q, op) == {i \in DOMAIN q : q[i].op = op}

LEMMA PendingEmpty ==
  ASSUME NEW op
  PROVE  Pending(<<>>, op) = 0
<1>1. Places(<<>>, op) = {}
  BY EmptySeq, LenProperties DEF Places
<1> QED
  BY <1>1, FS_EmptySet DEF Pending, Places

LEMMA PendingNat ==
  ASSUME NEW S, NEW q \in Seq(S), NEW op
  PROVE  Pending(q, op) \in Nat /\ IsFiniteSet(Places(q, op))
<1>1. IsFiniteSet(DOMAIN q)
  BY LenProperties, FS_Interval
<1>2. IsFiniteSet(Places(q, op))
  BY <1>1, FS_Subset DEF Places
<1> QED
  BY <1>2, FS_CardinalityType DEF Pending, Places

LEMMA PendingAppend ==
  ASSUME NEW S, NEW q \in Seq(S), NEW c \in S, NEW op
  PROVE  /\ c.op = op => Pending(Append(q, c), op) = Pending(q, op) + 1
         /\ c.op # op => Pending(Append(q, c), op) = Pending(q, op)
<1>1. /\ DOMAIN Append(q, c) = 1 .. Len(q) + 1
      /\ DOMAIN q = 1 .. Len(q) /\ Len(q) \in Nat
  BY AppendProperties, LenProperties
<1>2. /\ \A i \in DOMAIN q : Append(q, c)[i] = q[i]
      /\ Append(q, c)[Len(q) + 1] = c
  BY AppendProperties, LenProperties
<1>3. \A i : i \in DOMAIN Append(q, c) <=> i \in DOMAIN q \/ i = Len(q) + 1
  BY <1>1
<1>4. Len(q) + 1 \notin Places(q, op)
  BY <1>1 DEF Places
<1>5. c.op = op => Places(Append(q, c), op) = Places(q, op) \cup {Len(q) + 1}
  BY <1>2, <1>3 DEF Places
<1>6. c.op # op => Places(Append(q, c), op) = Places(q, op)
  BY <1>2, <1>3 DEF Places
<1>7. Cardinality(Places(q, op) \cup {Len(q) + 1}) = Cardinality(Places(q, op)) + 1
  BY <1>4, PendingNat, FS_AddElement
<1> QED
  BY <1>5, <1>6, <1>7 DEF Pending, Places

LEMMA PendingTail ==
  ASSUME NEW S, NEW q \in Seq(S), q # <<>>, NEW op
  PROVE  /\ Head(q).op = op => Pending(q, op) = Pending(Tail(q), op) + 1
         /\ Head(q).op # op => Pending(q, op) = Pending(Tail(q), op)
<1>1. /\ Tail(q) \in Seq(S) /\ Len(q) \in Nat /\ Len(q) > 0 /\ Len(Tail(q)) = Len(q) - 1
      /\ DOMAIN q = 1 .. Len(q) /\ DOMAIN Tail(q) = 1 .. Len(q) - 1
      /\ Head(q) = q[1]
  BY HeadTailProperties, LenProperties, EmptySeq
<1>2. \A i \in DOMAIN Tail(q) : i + 1 \in DOMAIN q /\ Tail(q)[i] = q[i + 1]
  BY <1>1, HeadTailProperties
<1> DEFINE up == [i \in Places(Tail(q), op) |-> i + 1]
           rest == Places(q, op) \ {1}
<1>3. up \in [Places(Tail(q), op) -> rest]
  BY <1>1, <1>2 DEF Places
<1>4. \A i, j \in Places(Tail(q), op) : up[i] = up[j] => i = j
  BY <1>1 DEF Places
<1>5. \A j \in rest : \E i \in Places(Tail(q), op) : up[i] = j
  <2> TAKE j \in rest
  <2>1. j - 1 \in DOMAIN Tail(q) /\ (j - 1) + 1 = j
    BY <1>1 DEF Places
  <2>2. j - 1 \in Places(Tail(q), op)
    BY <1>2, <2>1 DEF Places
  <2> QED
    BY <2>1, <2>2
<1>6. IsFiniteSet(Places(q, op)) /\ IsFiniteSet(Places(Tail(q), op))
  BY <1>1, PendingNat
<1>7. IsFiniteSet(rest)
  BY <1>6, FS_Subset
<1> HIDE DEF up, rest
<1>8. ExistsBijection(Places(Tail(q), op), rest)
  <2>1. up \in Bijection(Places(Tail(q), op), rest)
    BY <1>3, <1>4, <1>5 DEF Bijection, Injection, Surjection, IsInjective
  <2> QED
    BY <2>1 DEF ExistsBijection
<1>9. Cardinality(rest) = Cardinality(Places(Tail(q), op))
  BY <1>6, <1>8, FS_Bijection
<1>10. Head(q).op = op => 1 \in Places(q, op)
  BY <1>1 DEF Places
<1>11. Head(q).op # op => rest = Places(q, op)
  BY <1>1 DEF Places, rest
<1>12. 1 \in Places(q, op) => Cardinality(Places(q, op)) = Cardinality(rest) + 1
  <2>1. Cardinality(Places(q, op)) \in Nat /\ Cardinality(rest) \in Nat
    BY <1>6, <1>7, FS_CardinalityType
  <2>2. 1 \in Places(q, op) => Cardinality(rest) = Cardinality(Places(q, op)) - 1
    BY <1>6, FS_RemoveElement DEF rest
  <2> QED
    BY <2>1, <2>2
<1> QED
  BY <1>9, <1>10, <1>11, <1>12 DEF Pending, Places

(* What is under way when the line changes.                                *)
LEMMA UnderWayNat ==
  ASSUME LineTypes, NEW o
  PROVE  UnderWay(o) \in Nat /\ Pending(toDev, o) \in Nat /\ Pending(toIo, o) \in Nat
BY PendingNat DEF UnderWay, LineTypes

LEMMA UnderWaySent ==
  ASSUME LineTypes, conn, toIo' = toIo, NEW o, NEW op, Sends(op)
  PROVE  UnderWay(o)' = UnderWay(o) + (IF o = op THEN 1 ELSE 0)
<1>1. PICK c \in Command : c.op = op /\ toDev' = Append(toDev, c)
  BY DEF Sends, dev_tx
<1>2. Pending(toDev, o)' = Pending(toDev, o) + (IF o = op THEN 1 ELSE 0)
  <2>1. Pending(Append(toDev, c), o) = Pending(toDev, o) + (IF o = op THEN 1 ELSE 0)
    BY <1>1, PendingAppend, UnderWayNat DEF LineTypes
  <2> QED
    BY <1>1, <2>1 DEF Pending
<1>3. Pending(toIo, o)' = Pending(toIo, o)
  BY DEF Pending
<1> QED
  BY <1>2, <1>3, UnderWayNat DEF UnderWay

LEMMA UnderWayAnswered ==
  ASSUME LineTypes, NEW o, NEW op, Answered(op)
  PROVE  /\ UnderWay(op) > 0
         /\ NothingSent => UnderWay(o)' = UnderWay(o) - (IF o = op THEN 1 ELSE 0)
         /\ \A s : conn /\ Sends(s) =>
              UnderWay(o)' = UnderWay(o) - (IF o = op THEN 1 ELSE 0)
                                         + (IF o = s THEN 1 ELSE 0)
<1>1. toIo \in Seq(Response) /\ toIo # <<>> /\ toIo' = Tail(toIo) /\ Head(toIo).op = op
  BY DEF Answered, LineTypes
<1>2. Tail(toIo) \in Seq(Response)
  BY <1>1, HeadTailProperties
<1>3. /\ Pending(Tail(toIo), o) \in Nat /\ Pending(Tail(toIo), op) \in Nat
      /\ Pending(toIo, o) = Pending(Tail(toIo), o) + (IF o = op THEN 1 ELSE 0)
      /\ Pending(toIo, op) = Pending(Tail(toIo), op) + 1
  <2>1. Pending(Tail(toIo), o) \in Nat /\ Pending(Tail(toIo), op) \in Nat
    BY <1>2, PendingNat
  <2>2. Pending(toIo, op) = Pending(Tail(toIo), op) + 1
    BY <1>1, PendingTail
  <2>3. o # op => Pending(toIo, o) = Pending(Tail(toIo), o)
    BY <1>1, PendingTail
  <2> QED
    BY <2>1, <2>2, <2>3
<1>4. Pending(toIo, o)' = Pending(toIo, o) - (IF o = op THEN 1 ELSE 0)
  <2>1. Pending(toIo, o)' = Pending(Tail(toIo), o)
    BY <1>1 DEF Pending
  <2> QED
    BY <1>3, <2>1
<1>5. UnderWay(op) > 0
  BY <1>3, UnderWayNat DEF UnderWay
<1>6. NothingSent => Pending(toDev, o)' = Pending(toDev, o)
  BY DEF NothingSent, Pending
<1>7. ASSUME NEW s, conn, Sends(s)
      PROVE  Pending(toDev, o)' = Pending(toDev, o) + (IF o = s THEN 1 ELSE 0)
  <2>1. PICK c \in Command : c.op = s /\ toDev' = Append(toDev, c)
    BY <1>7 DEF Sends, dev_tx
  <2>2. Pending(Append(toDev, c), o) = Pending(toDev, o) + (IF o = s THEN 1 ELSE 0)
    BY <2>1, PendingAppend, UnderWayNat DEF LineTypes
  <2> QED
    BY <2>1, <2>2 DEF Pending
<1> HIDE DEF UnderWay
<1>8. NothingSent => UnderWay(o)' = UnderWay(o) - (IF o = op THEN 1 ELSE 0)
  BY <1>4, <1>6, UnderWayNat DEF UnderWay
<1>9. \A s : conn /\ Sends(s) =>
        UnderWay(o)' = UnderWay(o) - (IF o = op THEN 1 ELSE 0) + (IF o = s THEN 1 ELSE 0)
  BY <1>4, <1>7, UnderWayNat DEF UnderWay
<1> QED
  BY <1>5, <1>8, <1>9

LEMMA UnderWayDevice ==
  ASSUME LineTypes, Answers, NEW o
  PROVE  UnderWay(o)' = UnderWay(o)
<1>1. PICK r \in Response : r.op = Head(toDev).op /\ toIo' = Append(toIo, r)
  BY DEF Answers
<1>2. toDev # <<>> /\ toDev' = Tail(toDev)
  BY DEF Answers
<1>3. Pending(toDev, o) = Pending(Tail(toDev), o) + (IF Head(toDev).op = o THEN 1 ELSE 0)
      /\ Pending(Tail(toDev), o) \in Nat
  <2>1. Tail(toDev) \in Seq(Command)
    BY <1>2, HeadTailProperties DEF LineTypes
  <2>2. Pending(Tail(toDev), o) \in Nat
    BY <2>1, PendingNat
  <2> QED
    BY <1>2, <2>2, PendingTail DEF LineTypes
<1>4. Pending(Append(toIo, r), o) = Pending(toIo, o) + (IF Head(toDev).op = o THEN 1 ELSE 0)
  BY <1>1, PendingAppend, UnderWayNat DEF LineTypes
<1>5. Pending(toDev, o)' = Pending(Tail(toDev), o)
  BY <1>2 DEF Pending
<1>6. Pending(toIo, o)' = Pending(Append(toIo, r), o)
  BY <1>1 DEF Pending
<1> QED
  BY <1>3, <1>4, <1>5, <1>6, UnderWayNat DEF UnderWay

LEMMA UnderWayUnchanged ==
  ASSUME UNCHANGED <<toDev, toIo>>, NEW o
  PROVE  UnderWay(o)' = UnderWay(o)
BY DEF UnderWay, Pending

(* A callback ran: nothing is awaited any more and nothing was sent, or a  *)
(* write was sent, or a read is awaited that was sent.                     *)
LEMMA WaitsAnswered ==
  ASSUME LineTypes, Linked, WaitsForAnswer,
         \/ Answered("read") /\ read_cb # None
         \/ Answered("write") /\ read_cb = None,
         \/ read_cb' = None /\ write_cb' = None /\ NothingSent
         \/ read_cb' = None /\ Sends("write")
         \/ read_cb' # None /\ write_cb' = None /\ Sends("read")
  PROVE  WaitsForAnswer'
<1>1. ~halted /\ losses' = losses
  BY DEF Answered, boundVars
<1>2. SUFFICES ASSUME losses = 0, ~halted
               PROVE  /\ UnderWay("read")' = IF read_cb' = None THEN 0 ELSE 1
                      /\ write_cb' # None => UnderWay("write")' > 0
  BY <1>1 DEF WaitsForAnswer
<1>3. /\ conn /\ UnderWay("read") = IF read_cb = None THEN 0 ELSE 1
      /\ UnderWay("read") \in Nat /\ UnderWay("write") \in Nat
      /\ Answered("write") => UnderWay("write") > 0
  BY <1>2, UnderWayNat, UnderWayAnswered DEF Linked, WaitsForAnswer
<1>4. CASE Answered("read") /\ read_cb # None
  <2>1. /\ NothingSent => UnderWay("read")' = UnderWay("read") - 1
        /\ Sends("read") => UnderWay("read")' = UnderWay("read")
        /\ Sends("write") => /\ UnderWay("read")' = UnderWay("read") - 1
                             /\ UnderWay("write")' = UnderWay("write") + 1
    BY <1>3, <1>4, UnderWayAnswered
  <2> QED
    BY <1>3, <1>4, <2>1
<1>5. CASE Answered("write") /\ read_cb = None
  <2>1. /\ NothingSent => UnderWay("read")' = UnderWay("read")
        /\ Sends("read") => UnderWay("read")' = UnderWay("read") + 1
        /\ Sends("write") => /\ UnderWay("read")' = UnderWay("read")
                             /\ UnderWay("write")' = UnderWay("write")
    BY <1>3, <1>5, UnderWayAnswered
  <2> QED
    BY <1>3, <1>5, <2>1
<1> QED
  BY <1>4, <1>5
-----------------------------------------------------------------------------
(* The control of a transfer: what every action leaves. *)

Control ==
  Types /\ Sized /\ Linked /\ Ended /\ OneTransfer /\ WaitsForAnswer

LEMMA UnchangedTypes ==
  ASSUME Types
  PROVE  /\ UNCHANGED <<halted, conn, rsp, read_cb, write_cb>> => FlagTypes'
         /\ UNCHANGED <<cmd, region>> => FileTypes'
         /\ UNCHANGED <<toDev, toIo>> => LineTypes'
         /\ UNCHANGED mem => MemTypes'
         /\ UNCHANGED <<cmds, plain, losses, refusals>> => BoundTypes'
BY DEF Types, FlagTypes, FileTypes, LineTypes, MemTypes, BoundTypes

LEMMA UnchangedSizes ==
  Sized /\ UNCHANGED <<region, read_cb, write_cb>> => Sized'
BY DEF Sized

LEMMA UnchangedControl ==
  ASSUME OneTransfer, UNCHANGED <<cmd, rsp, read_cb, write_cb>>
  PROVE  OneTransfer'
BY DEF OneTransfer, Reading, Writing

LEMMA StaysLinked ==
  /\ Linked /\ UNCHANGED <<conn, losses>> => Linked'
  /\ Ended /\ UNCHANGED <<halted, read_cb, write_cb>> => Ended'
BY DEF Linked, Ended

(* The answers of the device.                                              *)
LEMMA ControlIo ==
  ASSUME CrcIsNumber, Control, Io
  PROVE  Control'
<1> USE DEF Control, Types
<1>1. region \in Image /\ region.size \in Nat /\ region.data \in Seq(Nat)
  BY ImageTypes DEF FileTypes
<1>2. CASE AnswerIgnored
  <2>1. /\ toIo' \in Seq(Response)
        /\ UNCHANGED <<conn, mem, cmds, plain, losses, refusals, halted, cmd, rsp,
                       region, read_cb, write_cb, toDev>>
    BY <1>2, AnsweredTypes DEF AnswerIgnored, xferVars, boundVars
  <2>2. LineTypes'
    BY <2>1 DEF LineTypes
  <2>3. PICK op \in Ops : Answered(op) /\ (op = "read" => read_cb = None)
    BY <1>2 DEF AnswerIgnored, Ops
  <2>4. WaitsForAnswer'
    <3>1. SUFFICES ASSUME losses = 0, ~halted
                   PROVE  /\ UnderWay("read")' = IF read_cb = None THEN 0 ELSE 1
                          /\ write_cb # None => UnderWay("write")' > 0
      BY <2>1 DEF WaitsForAnswer
    <3>2. /\ UnderWay("read") = IF read_cb = None THEN 0 ELSE 1
          /\ write_cb # None => UnderWay("write") > 0
      BY <3>1 DEF WaitsForAnswer
    <3>3. /\ UnderWay("read")' = UnderWay("read") - (IF op = "read" THEN 1 ELSE 0)
          /\ UnderWay("write")' = UnderWay("write") - (IF op = "write" THEN 1 ELSE 0)
          /\ UnderWay(op) > 0
      <4>1. NothingSent
        BY <2>1 DEF NothingSent
      <4> QED
        BY <2>3, <4>1, UnderWayAnswered
    <3>4. op # "read"
      BY <2>3, <3>2, <3>3
    <3>5. write_cb = None
      BY <1>2, <2>3, <3>4 DEF AnswerIgnored, Answered, Ops
    <3> QED
      BY <3>2, <3>3, <3>4, <3>5, UnderWayNat
  <2> QED
    BY <2>1, <2>2, <2>4, UnchangedTypes, UnchangedSizes, UnchangedControl, StaysLinked
<1>3. ASSUME NEW cb, NEW next, GetLen(cb, next),
             \/ cb = "read_get_len" /\ next = "read_get_data"
             \/ cb = "write_get_len" /\ next = "write_get_data"
      PROVE  Control'
  <2>1. /\ toIo' \in Seq(Response) /\ UNCHANGED <<conn, mem, cmds, plain, losses, refusals>>
        /\ UNCHANGED <<halted, cmd, rsp, write_cb>> /\ read_cb = cb
        /\ Answered("read") /\ ~halted
    BY <1>3, AnsweredTypes DEF GetLen, boundVars
  <2>2. /\ region' \in Image /\ region'.size >= 8 /\ read_cb' = next
        /\ Sends("read")
    <3>1. ReadCmd(region'.addr, region'.size).op = "read"
      BY DEF ReadCmd
    <3> QED
      BY <1>3, <3>1, LengthTypes DEF Sends
  <2>3. LineTypes'
    BY <2>1, <2>2, SendTypes DEF LineTypes, Ops
  <2>4. FileTypes'
    BY <2>1, <2>2 DEF FileTypes
  <2>5. FlagTypes'
    BY <1>3, <2>1, <2>2 DEF FlagTypes, ReadCbs
  <2>6. write_cb' = None /\ cb # None
    BY <1>3, <2>1 DEF OneTransfer, None
  <2>7. Sized' /\ Ended'
    BY <2>1, <2>2, <2>6 DEF Sized, Ended, None
  <2>8. OneTransfer'
    BY <1>3, <2>1, <2>2, <2>6 DEF OneTransfer, Reading, Writing
  <2>9. WaitsForAnswer'
    <3>1. read_cb # None /\ read_cb' # None
      BY <1>3, <2>1, <2>2, <2>6 DEF None
    <3> QED
      BY <2>1, <2>2, <2>6, <3>1, WaitsAnswered
  <2> QED
    BY <2>1, <2>3, <2>4, <2>5, <2>7, <2>8, <2>9, UnchangedTypes, StaysLinked
<1>4. CASE region_read_get_data_cb
  <2>1. /\ toIo' \in Seq(Response) /\ Data \in Seq(Nat)
        /\ UNCHANGED <<conn, mem, cmds, plain, losses, refusals>>
        /\ UNCHANGED <<halted, write_cb>> /\ read_cb = "read_get_data"
        /\ Answered("read") /\ ~halted
    BY <1>4, AnsweredTypes DEF region_read_get_data_cb, boundVars
  <2>2. cmd \in MemfCmd /\ cmd.open /\ rsp.open /\ write_cb = None
    BY <2>1 DEF OneTransfer, Reading, FileTypes, None
  <2>3. /\ cmd' \in MemfCmd /\ region' \in Image /\ rsp'.open \in BOOLEAN
        /\ cmd'.open = rsp'.open
        /\ \/ read_cb' = None /\ NothingSent
           \/ read_cb' = "read_get_len" /\ Sends("read") /\ cmd'.open
    <3>1. CASE Len(Data) # region.size
      BY <1>1, <1>4, <2>2, <3>1 DEF region_read_get_data_cb, FlagTypes
    <3>2. CASE Len(Data) = region.size
      <4>1. PICK reg \in Image : \E report : region_read_next_region(cmd, report, reg)
        <5> DEFINE reg == [region EXCEPT !.data = Data]
        <5>1. reg \in Image
          BY <1>1, <2>1, ImageTypes
        <5>2. \E report : region_read_next_region(cmd, report, reg)
          BY <1>4, <3>2 DEF region_read_get_data_cb
        <5> QED
          BY <5>1, <5>2
      <4> QED
        BY <2>2, <4>1, ReadNext
    <3> QED
      BY <3>1, <3>2
  <2>4. LineTypes'
    BY <2>1, <2>3, SendTypes DEF LineTypes, Ops
  <2>5. FlagTypes'
    BY <2>1, <2>3 DEF FlagTypes, ReadCbs
  <2>6. Sized' /\ Ended'
    BY <2>1, <2>2, <2>3 DEF Sized, Ended, None
  <2>7. OneTransfer'
    BY <2>1, <2>2, <2>3 DEF OneTransfer, Reading, Writing, None
  <2>8. WaitsForAnswer'
    <3>1. read_cb # None /\ (read_cb' = "read_get_len" => read_cb' # None)
      BY <2>1 DEF None
    <3> QED
      BY <2>1, <2>2, <2>3, <3>1, WaitsAnswered
  <2> QED
    BY <2>1, <2>3, <2>4, <2>5, <2>6, <2>7, <2>8, UnchangedTypes, StaysLinked DEF FileTypes
<1>5. ASSUME NEW d \in Seq(Nat), d # <<>>, WriteNextBlock(d), toIo' \in Seq(Response),
             read_cb' = None, UNCHANGED <<conn, mem, cmds, plain, losses, refusals>>,
             UNCHANGED rsp, cmd.open, ~rsp.open, ~halted,
             \/ Answered("read") /\ read_cb # None
             \/ Answered("write") /\ read_cb = None
      PROVE  Control'
  <2>1. /\ cmd' \in MemfCmd /\ region' \in Image /\ region'.data # <<>>
        /\ write_cb' \in WriteCbs /\ cmd'.open
        /\ UNCHANGED halted \/ (halted' = TRUE /\ write_cb' = None)
        /\ \/ write_cb' = None /\ NothingSent
           \/ Sends("write")
    BY <1>5, WriteBlock DEF WriteCbs
  <2>2. LineTypes'
    BY <1>5, <2>1, SendTypes DEF LineTypes, Ops
  <2>3. FlagTypes'
    BY <1>5, <2>1 DEF FlagTypes, ReadCbs
  <2>4. Sized' /\ Ended'
    BY <1>5, <2>1 DEF Sized, Ended, None
  <2>5. OneTransfer'
    BY <1>5, <2>1 DEF OneTransfer, Reading, Writing, None
  <2>6. WaitsForAnswer'
    BY <1>5, <2>1, WaitsAnswered
  <2> QED
    BY <1>5, <2>1, <2>2, <2>3, <2>4, <2>5, <2>6, UnchangedTypes, StaysLinked DEF FileTypes
<1>6. CASE region_write_get_data_cb
  <2>1. /\ toIo' \in Seq(Response) /\ Data \in Seq(Nat) /\ read_cb' = None
        /\ UNCHANGED <<conn, mem, cmds, plain, losses, refusals>> /\ UNCHANGED rsp
        /\ read_cb = "write_get_data" /\ Answered("read") /\ ~halted
    BY <1>6, AnsweredTypes DEF region_write_get_data_cb, boundVars
  <2>4. cmd.open /\ ~rsp.open /\ read_cb # None /\ write_cb = None
    BY <2>1 DEF OneTransfer, Writing, None
  <2>2. CASE Len(Data) # region.size
    <3>1. halted' = TRUE /\ NothingSent /\ UNCHANGED <<cmd, region, write_cb>>
      BY <1>6, <2>2 DEF region_write_get_data_cb
    <3>2. LineTypes'
      BY <2>1, <3>1, SendTypes DEF LineTypes
    <3>3. FlagTypes'
      BY <2>1, <3>1 DEF FlagTypes, ReadCbs
    <3>4. Sized' /\ Ended'
      BY <2>1, <2>4, <3>1 DEF Sized, Ended, None
    <3>5. OneTransfer'
      BY <2>1, <2>4, <3>1 DEF OneTransfer, Reading, Writing, None
    <3>6. WaitsForAnswer'
      BY <3>1 DEF WaitsForAnswer
    <3> QED
      BY <2>1, <3>1, <3>2, <3>3, <3>4, <3>5, <3>6, UnchangedTypes, StaysLinked
  <2>3. CASE Len(Data) = region.size
    <3>1. WriteNextBlock(Data)
      BY <1>6, <2>3 DEF region_write_get_data_cb
    <3>2. Data # <<>>
      BY <1>1, <2>1, <2>3, EmptySeq DEF Sized
    <3> QED
      BY <1>5, <2>1, <2>4, <3>1, <3>2
  <2> QED
    BY <2>2, <2>3
<1>7. CASE region_write_set_data_cb
  <2>1. /\ toIo' \in Seq(Response) /\ WriteNextBlock(region.data)
        /\ UNCHANGED <<conn, mem, cmds, plain, losses, refusals>>
        /\ UNCHANGED <<rsp, read_cb>> /\ write_cb = "write_set_data"
        /\ Answered("write") /\ ~halted
    BY <1>7, AnsweredTypes DEF region_write_set_data_cb, boundVars
  <2>2. /\ region.data # <<>> /\ read_cb' = None /\ read_cb = None
        /\ cmd.open /\ ~rsp.open
    BY <2>1 DEF Sized, OneTransfer, Writing, None
  <2> QED
    BY <1>1, <1>5, <2>1, <2>2
<1>8. CASE region_write_set_crc_cb
  <2>1. /\ toIo' \in Seq(Response) /\ write_cb' = None /\ region_write_next_region(cmd)
        /\ UNCHANGED <<conn, mem, cmds, plain, losses, refusals>>
        /\ UNCHANGED <<halted, rsp>> /\ write_cb = "write_set_crc"
        /\ Answered("write") /\ ~halted
    BY <1>8, AnsweredTypes DEF region_write_set_crc_cb, boundVars
  <2>2. cmd \in MemfCmd /\ cmd.open /\ ~rsp.open /\ read_cb = None
    BY <2>1 DEF OneTransfer, Writing, FileTypes, None
  <2>3. /\ cmd' \in MemfCmd /\ region' \in Image
        /\ \/ read_cb' = None /\ NothingSent
           \/ read_cb' = "write_get_len" /\ Sends("read") /\ cmd'.open
    BY <1>1, <2>1, <2>2, WriteNext
  <2>4. LineTypes'
    BY <2>1, <2>3, SendTypes DEF LineTypes, Ops
  <2>5. FlagTypes'
    BY <2>1, <2>3 DEF FlagTypes, ReadCbs, WriteCbs
  <2>6. Sized' /\ Ended'
    BY <2>1, <2>3 DEF Sized, Ended, None
  <2>7. OneTransfer'
    BY <2>1, <2>2, <2>3 DEF OneTransfer, Reading, Writing, None
  <2>8. WaitsForAnswer'
    BY <2>1, <2>2, <2>3, WaitsAnswered DEF None
  <2> QED
    BY <2>1, <2>3, <2>4, <2>5, <2>6, <2>7, <2>8, UnchangedTypes, StaysLinked DEF FileTypes
<1> QED
  BY <1>2, <1>3, <1>4, <1>6, <1>7, <1>8
     DEF Io, region_read_get_len_cb, region_write_get_len_cb, None

(* The device, and its cable.                                              *)
LEMMA ControlDevice ==
  ASSUME Control, Device \/ DevLost \/ DevBack
  PROVE  Control'
<1> USE DEF Control, Types
<1>1. CASE Device
  <2>1. Answers /\ LineTypes' /\ MemTypes' /\ refusals' \in Nat
    BY <1>1, DeviceStep
  <2>2. UNCHANGED <<conn, halted, cmd, rsp, region, read_cb, write_cb, cmds, plain, losses>>
    BY <2>1 DEF Answers, xferVars
  <2>3. BoundTypes'
    BY <2>1, <2>2 DEF BoundTypes
  <2>4. WaitsForAnswer'
    BY <2>1, <2>2, UnderWayDevice DEF WaitsForAnswer
  <2> QED
    BY <2>1, <2>2, <2>3, <2>4, UnchangedTypes, UnchangedSizes, UnchangedControl, StaysLinked
<1>2. CASE DevLost
  <2>1. /\ losses' = losses + 1 /\ conn' = FALSE /\ toDev' = <<>> /\ toIo' = <<>>
        /\ UNCHANGED <<mem, halted, cmd, rsp, region, read_cb, write_cb>>
        /\ UNCHANGED <<cmds, plain, refusals>>
    BY <1>2 DEF DevLost, xferVars
  <2>2. losses' \in Nat /\ losses' # 0
    BY <2>1 DEF BoundTypes
  <2>3. BoundTypes'
    BY <2>1, <2>2 DEF BoundTypes
  <2>4. LineTypes'
    BY <2>1, EmptySeq DEF LineTypes
  <2>5. FlagTypes'
    BY <2>1 DEF FlagTypes
  <2>6. Linked' /\ WaitsForAnswer'
    BY <2>2 DEF Linked, WaitsForAnswer
  <2> QED
    BY <2>1, <2>3, <2>4, <2>5, <2>6, UnchangedTypes, UnchangedSizes, UnchangedControl,
       StaysLinked
<1>3. CASE DevBack
  <2>1. /\ ~conn /\ conn' = TRUE
        /\ UNCHANGED <<toDev, toIo, mem, halted, cmd, rsp, region, read_cb, write_cb>>
        /\ UNCHANGED <<cmds, plain, losses, refusals>>
    BY <1>3 DEF DevBack, xferVars, boundVars
  <2>2. FlagTypes'
    BY <2>1 DEF FlagTypes
  <2>3. Linked' /\ WaitsForAnswer'
    BY <2>1 DEF Linked, WaitsForAnswer
  <2> QED
    BY <2>1, <2>2, <2>3, UnchangedTypes, UnchangedSizes, UnchangedControl, StaysLinked
<1> QED
  BY <1>1, <1>2, <1>3

(* A file command begins when no file is open: nothing is awaited and no   *)
(* report is open.                                                         *)
LEMMA FileIsClosed ==
  ASSUME Control, FileCommand
  PROVE  /\ ~halted /\ ~cmd.open /\ read_cb = None /\ write_cb = None /\ ~rsp.open
         /\ BoundTypes' /\ UNCHANGED <<conn, toIo, mem, plain, losses, refusals>>
<1>1. ~halted /\ ~cmd.open /\ cmds' = cmds + 1
      /\ UNCHANGED <<conn, toIo, mem, plain, losses, refusals>>
  BY DEF FileCommand
<1>2. read_cb = None /\ write_cb = None /\ ~rsp.open
  BY <1>1 DEF Control, Types, FlagTypes, OneTransfer, Reading, Writing, ReadCbs
<1>3. BoundTypes'
  BY <1>1 DEF Control, Types, BoundTypes
<1> QED
  BY <1>1, <1>2, <1>3

LEMMA WaitsStarted ==
  ASSUME Control, ~halted, read_cb = None, write_cb = None, write_cb' = None,
         UNCHANGED <<conn, toIo, losses>>,
         \/ read_cb' = None /\ NothingSent
         \/ read_cb' # None /\ Sends("read")
  PROVE  WaitsForAnswer'
<1> SUFFICES ASSUME losses = 0
             PROVE  UnderWay("read")' = IF read_cb' = None THEN 0 ELSE 1
  BY DEF WaitsForAnswer
<1>1. conn /\ UnderWay("read") = 0 /\ LineTypes
  BY DEF Control, Types, Linked, WaitsForAnswer
<1>2. NothingSent => UnderWay("read")' = UnderWay("read")
  BY UnderWayUnchanged DEF NothingSent
<1>3. Sends("read") => UnderWay("read")' = UnderWay("read") + 1
  BY <1>1, UnderWaySent
<1> QED
  BY <1>1, <1>2, <1>3

(* The user's commands.                                                    *)
LEMMA ControlUser ==
  ASSUME Control, User
  PROVE  Control'
<1> USE DEF Control, Types
<1>1. region \in Image
  BY DEF FileTypes
<1>2. ASSUME NEW f \in Files, cmd_io_bdm_fread_region(f)
      PROVE  Control'
  <2>1. /\ ~halted /\ read_cb = None /\ write_cb = None /\ BoundTypes'
        /\ UNCHANGED <<conn, toIo, mem, losses>> /\ UNCHANGED <<halted, write_cb>>
    BY <1>2, FileIsClosed DEF cmd_io_bdm_fread_region
  <2>2. Opened(f) \in MemfCmd /\ Opened(f).open
    BY OpenedTypes
  <2>3. region_read_next_region(Opened(f), <<>>, region)
    BY <1>2 DEF cmd_io_bdm_fread_region
  <2>4. /\ cmd' \in MemfCmd /\ region' \in Image /\ rsp'.open \in BOOLEAN
        /\ cmd'.open = rsp'.open
        /\ \/ read_cb' = None /\ NothingSent
           \/ read_cb' = "read_get_len" /\ Sends("read") /\ cmd'.open
    BY <1>1, <2>2, <2>3, ReadNext
  <2>5. LineTypes'
    BY <2>1, <2>4, SendTypes DEF LineTypes, Ops
  <2>6. FlagTypes' /\ FileTypes'
    BY <2>1, <2>4 DEF FlagTypes, ReadCbs, FileTypes
  <2>7. Sized' /\ Ended'
    BY <2>1, <2>4 DEF Sized, Ended, None
  <2>8. OneTransfer'
    BY <2>1, <2>4 DEF OneTransfer, Reading, Writing, None
  <2>9. WaitsForAnswer'
    <3>1. read_cb' = "read_get_len" => read_cb' # None
      BY DEF None
    <3> QED
      BY <2>1, <2>4, <3>1, WaitsStarted
  <2> QED
    BY <2>1, <2>5, <2>6, <2>7, <2>8, <2>9, UnchangedTypes, StaysLinked
<1>3. ASSUME NEW f \in Files, cmd_io_bdm_fwrite_region(f)
      PROVE  Control'
  <2>1. /\ ~halted /\ read_cb = None /\ write_cb = None /\ BoundTypes' /\ ~rsp.open
        /\ UNCHANGED <<conn, toIo, mem, losses>> /\ UNCHANGED <<halted, rsp, write_cb>>
    BY <1>3, FileIsClosed DEF cmd_io_bdm_fwrite_region
  <2>2. Opened(f) \in MemfCmd /\ Opened(f).open
    BY OpenedTypes
  <2>3. region_write_next_region(Opened(f))
    BY <1>3 DEF cmd_io_bdm_fwrite_region
  <2>4. /\ cmd' \in MemfCmd /\ region' \in Image
        /\ \/ read_cb' = None /\ NothingSent
           \/ read_cb' = "write_get_len" /\ Sends("read") /\ cmd'.open
    BY <1>1, <2>2, <2>3, WriteNext
  <2>5. LineTypes'
    BY <2>1, <2>4, SendTypes DEF LineTypes, Ops
  <2>6. FlagTypes' /\ FileTypes'
    BY <2>1, <2>4 DEF FlagTypes, ReadCbs, FileTypes
  <2>7. Sized' /\ Ended'
    BY <2>1, <2>4 DEF Sized, Ended, None
  <2>8. OneTransfer'
    BY <2>1, <2>4 DEF OneTransfer, Reading, Writing, None
  <2>9. WaitsForAnswer'
    <3>1. read_cb' = "write_get_len" => read_cb' # None
      BY DEF None
    <3> QED
      BY <2>1, <2>4, <3>1, WaitsStarted
  <2> QED
    BY <2>1, <2>5, <2>6, <2>7, <2>8, <2>9, UnchangedTypes, StaysLinked
<1>4. CASE NoSuchFile
  <2>1. /\ read_cb = None /\ write_cb = None /\ BoundTypes' /\ halted' = TRUE
        /\ UNCHANGED <<conn, toIo, mem, losses, cmd, rsp, region, read_cb, write_cb, toDev>>
    BY <1>4, FileIsClosed DEF NoSuchFile
  <2>2. FlagTypes'
    BY <2>1 DEF FlagTypes
  <2>3. Ended' /\ WaitsForAnswer'
    BY <2>1 DEF Ended, WaitsForAnswer
  <2> QED
    BY <2>1, <2>2, <2>3, UnchangedTypes, UnchangedSizes, UnchangedControl, StaysLinked
<1>5. CASE cmd_io_bdm_write_mem
  <2>1. /\ dev_tx(WriteCmd(0, <<>>)) /\ plain' = plain + 1
        /\ UNCHANGED <<halted, cmd, rsp, region, read_cb, write_cb, conn, toIo, mem>>
        /\ UNCHANGED <<cmds, losses, refusals>>
    BY <1>5 DEF cmd_io_bdm_write_mem, xferVars
  <2>2. Sends("write")
    BY <2>1, PlainIsCommand DEF Sends
  <2>3. LineTypes'
    BY <2>1, <2>2, SendTypes DEF LineTypes, Ops
  <2>4. BoundTypes'
    BY <2>1 DEF BoundTypes
  <2>5. WaitsForAnswer'
    <3>1. conn => /\ UnderWay("read")' = UnderWay("read")
                  /\ UnderWay("write")' = UnderWay("write") + 1
      BY <2>1, <2>2, UnderWaySent, UnderWayNat
    <3>2. UnderWay("write") \in Nat
      BY UnderWayNat
    <3> QED
      BY <2>1, <3>1, <3>2 DEF WaitsForAnswer, Linked
  <2> QED
    BY <2>1, <2>3, <2>4, <2>5, UnchangedTypes, UnchangedSizes, UnchangedControl, StaysLinked
<1> QED
  BY <1>2, <1>3, <1>4, <1>5 DEF User

LEMMA ControlStutter == Control /\ UNCHANGED vars => Control'
<1> SUFFICES ASSUME Control, UNCHANGED vars PROVE Control'
  OBVIOUS
<1> USE DEF Control, Types
<1>1. /\ UNCHANGED <<halted, cmd, rsp, region, read_cb, write_cb>>
      /\ UNCHANGED <<conn, toDev, toIo, mem, cmds, plain, losses, refusals>>
  BY DEF vars, xferVars, lineVars, boundVars
<1>2. WaitsForAnswer'
  BY <1>1, UnderWayUnchanged DEF WaitsForAnswer
<1> QED
  BY <1>1, <1>2, UnchangedTypes, UnchangedSizes, UnchangedControl, StaysLinked

LEMMA ControlInit == Init => Control
<1> SUFFICES ASSUME Init PROVE Control
  OBVIOUS
<1>1. <<>> \in Seq(Command) /\ <<>> \in Seq(Response) /\ <<>> \in Seq(Nat)
  BY EmptySeq
<1>2. FlagTypes
  BY OpenedTypes DEF Init, FlagTypes, ReadCbs, WriteCbs
<1>3. FileTypes
  BY <1>1, OpenedTypes DEF Init, FileTypes, Image
<1>4. LineTypes
  BY <1>1 DEF Init, LineTypes
<1>5. MemTypes
  BY MemoriesAssumption DEF Init, MemTypes
<1>6. BoundTypes
  BY DEF Init, BoundTypes
<1>7. Sized /\ Linked /\ Ended
  BY DEF Init, Sized, Linked, Ended, None
<1>8. OneTransfer
  BY OpenedTypes DEF Init, OneTransfer, Reading, Writing, None
<1>9. WaitsForAnswer
  BY PendingEmpty DEF Init, WaitsForAnswer, UnderWay
<1> QED
  BY <1>2, <1>3, <1>4, <1>5, <1>6, <1>7, <1>8, <1>9 DEF Control, Types

LEMMA ControlStep == CrcIsNumber /\ Control /\ [Next]_vars => Control'
BY ControlIo, ControlDevice, ControlUser, ControlStutter DEF Next

LEMMA ControlInvariant ==
  ASSUME CrcIsNumber
  PROVE  Spec => []Control
<1>1. Control /\ [Next]_vars => Control'
  BY ControlStep
<1> QED
  BY ControlInit, <1>1, PTL DEF Spec

(* Every variable of the plug-in, the line and the target has its type;    *)
(* what goes into a DWORD of the target fits its two half-words, because   *)
(* "inc" wraps.                                                            *)
THEOREM TypeCorrect ==
  ASSUME CrcIsNumber
  PROVE  Spec => []TypeOK
<1>1. Control => TypeOK
  <2> SUFFICES ASSUME Control PROVE TypeOK
    OBVIOUS
  <2> USE DEF Control, Types
  <2>1. /\ cmd.open \in BOOLEAN /\ cmd.regions_it \in 0 .. Len(cmd.regions)
        /\ cmd.auto \in BOOLEAN /\ cmd.blocks_it \in 0 .. Len(cmd.blocks)
    BY LenProperties DEF FileTypes, MemfCmd
  <2>2. region.addr \in Nat /\ region.size \in Nat /\ region.data \in Seq(Nat)
    BY ImageTypes DEF FileTypes
  <2>3. \A i \in DOMAIN toDev : toDev[i].len = 2 => toDev[i].data \in Seq(Half)
    <3>1. \A i \in DOMAIN toDev : toDev[i] \in Command
      BY ElementOfSeq, LenProperties DEF LineTypes
    <3> QED
      BY <3>1 DEF Command
  <2>4. read_cb \in Callbacks /\ write_cb \in Callbacks /\ halted \in BOOLEAN
        /\ conn \in BOOLEAN /\ rsp.open \in BOOLEAN
    BY DEF FlagTypes, ReadCbs, WriteCbs, Callbacks
  <2> QED
    BY <2>1, <2>2, <2>3, <2>4 DEF TypeOK, MemTypes, BoundTypes
<1> QED
  BY ControlInvariant, <1>1, PTL

(* One transfer at a time, a read or a write, whatever cut the former off. *)
THEOREM OneAtATime ==
  ASSUME CrcIsNumber
  PROVE  Spec => []OneTransfer
<1>1. Control => OneTransfer
  BY DEF Control
<1> QED
  BY ControlInvariant, <1>1, PTL

(* A transfer waits for exactly what is under way, although answers carry  *)
(* no tag and a user's writes are answered in between.                     *)
THEOREM NeverUnanswered ==
  ASSUME CrcIsNumber
  PROVE  Spec => []WaitsForAnswer
<1>1. Control => WaitsForAnswer
  BY DEF Control
<1> QED
  BY ControlInvariant, <1>1, PTL
-----------------------------------------------------------------------------
(* What the target will hold when everything sent has arrived. *)

(* A command that is appended decides where it covers;                     *)
LEMMA HoldsAppend ==
  ASSUME NEW q \in Seq(Command), NEW c \in Command, NEW m, NEW x, NEW v
  PROVE  /\ Covers(c, x) => WillHold(Append(q, c), m, x, c.data[x - c.addr + 1])
         /\ ~Covers(c, x) /\ WillHold(q, m, x, v) => WillHold(Append(q, c), m, x, v)
<1>1. /\ DOMAIN Append(q, c) = 1 .. Len(q) + 1
      /\ DOMAIN q = 1 .. Len(q) /\ Len(q) \in Nat
  BY AppendProperties, LenProperties
<1>2. /\ \A i \in DOMAIN q : Append(q, c)[i] = q[i]
      /\ Append(q, c)[Len(q) + 1] = c
  BY AppendProperties, LenProperties
<1>3. /\ \A i : i \in DOMAIN Append(q, c) <=> i \in DOMAIN q \/ i = Len(q) + 1
      /\ \A j \in DOMAIN Append(q, c) : ~(j > Len(q) + 1)
      /\ \A i \in DOMAIN q : Len(q) + 1 > i
  BY <1>1
<1> HIDE DEF Covers
<1>4. Covers(c, x) => WillHold(Append(q, c), m, x, c.data[x - c.addr + 1])
  BY <1>2, <1>3 DEF WillHold
<1>5. ASSUME ~Covers(c, x), WillHold(q, m, x, v)
      PROVE  WillHold(Append(q, c), m, x, v)
  <2>1. CASE m[x] = v /\ \A i \in DOMAIN q : ~Covers(q[i], x)
    BY <1>2, <1>3, <1>5, <2>1 DEF WillHold
  <2>2. CASE \E i \in DOMAIN q : /\ Covers(q[i], x) /\ q[i].data[x - q[i].addr + 1] = v
                                 /\ \A j \in DOMAIN q : j > i => ~Covers(q[j], x)
    <3>1. PICK i \in DOMAIN q : /\ Covers(q[i], x) /\ q[i].data[x - q[i].addr + 1] = v
                                /\ \A j \in DOMAIN q : j > i => ~Covers(q[j], x)
      BY <2>2
    <3>2. \A j \in DOMAIN Append(q, c) : j > i => ~Covers(Append(q, c)[j], x)
      BY <1>2, <1>3, <1>5, <3>1
    <3> QED
      BY <1>2, <1>3, <3>1, <3>2 DEF WillHold
  <2> QED
    BY <1>5, <2>1, <2>2 DEF WillHold
<1> QED
  BY <1>4, <1>5

(* a command that the device works off changes nothing of it.              *)
LEMMA HoldsTail ==
  ASSUME NEW q \in Seq(Command), q # <<>>, NEW m, NEW x \in Int, NEW v,
         WillHold(q, m, x, v)
  PROVE  /\ Head(q).op = "read" => WillHold(Tail(q), m, x, v)
         /\ Head(q).op = "write" /\ x \in DOMAIN m
              => WillHold(Tail(q), Overwrite(m, Head(q).addr, Head(q).data), x, v)
<1>1. /\ Tail(q) \in Seq(Command) /\ Len(q) \in Nat /\ Len(q) > 0
      /\ DOMAIN q = 1 .. Len(q) /\ DOMAIN Tail(q) = 1 .. Len(q) - 1
      /\ Head(q) = q[1] /\ Head(q) \in Command
  BY HeadTailProperties, LenProperties, EmptySeq
<1>2. \A i \in DOMAIN Tail(q) : i + 1 \in DOMAIN q /\ Tail(q)[i] = q[i + 1]
  BY <1>1, HeadTailProperties
<1>3. \A j \in DOMAIN q : j # 1 => j - 1 \in DOMAIN Tail(q) /\ Tail(q)[j - 1] = q[j]
  BY <1>1, <1>2
<1> DEFINE c == q[1]
           n == Overwrite(m, c.addr, c.data)
<1>4. /\ c.op = "read" => ~Covers(c, x)
      /\ c.op = "write" /\ x \in DOMAIN m =>
           n[x] = IF Covers(c, x) THEN c.data[x - c.addr + 1] ELSE m[x]
  BY <1>1, CommandTypes DEF Covers, Overwrite
<1>5. 1 \in DOMAIN q
  BY <1>1
<1>6. CASE m[x] = v /\ \A i \in DOMAIN q : ~Covers(q[i], x)
  <2>1. \A i \in DOMAIN Tail(q) : ~Covers(Tail(q)[i], x)
    BY <1>2, <1>6
  <2>2. ~Covers(c, x)
    BY <1>5, <1>6
  <2> QED
    BY <1>1, <1>4, <1>6, <2>1, <2>2 DEF WillHold
<1>7. CASE \E i \in DOMAIN q : /\ Covers(q[i], x) /\ q[i].data[x - q[i].addr + 1] = v
                               /\ \A j \in DOMAIN q : j > i => ~Covers(q[j], x)
  <2>1. PICK i \in DOMAIN q : /\ Covers(q[i], x) /\ q[i].data[x - q[i].addr + 1] = v
                              /\ \A j \in DOMAIN q : j > i => ~Covers(q[j], x)
    BY <1>7
  <2>2. CASE i = 1
    <3>1. \A j \in DOMAIN Tail(q) : ~Covers(Tail(q)[j], x)
      <4> TAKE j \in DOMAIN Tail(q)
      <4>1. j + 1 \in DOMAIN q /\ j + 1 > 1 /\ Tail(q)[j] = q[j + 1]
        BY <1>1, <1>2
      <4> QED
        BY <2>1, <2>2, <4>1
    <3>2. Covers(c, x) /\ c.data[x - c.addr + 1] = v
      BY <2>1, <2>2
    <3> QED
      BY <1>1, <1>4, <3>1, <3>2 DEF WillHold
  <2>3. CASE i # 1
    <3>1. i - 1 \in DOMAIN Tail(q) /\ Tail(q)[i - 1] = q[i]
      BY <1>3, <2>3
    <3>2. \A j \in DOMAIN Tail(q) : j > i - 1 => ~Covers(Tail(q)[j], x)
      <4> TAKE j \in DOMAIN Tail(q)
      <4>1. j + 1 \in DOMAIN q /\ Tail(q)[j] = q[j + 1] /\ (j > i - 1 => j + 1 > i)
        BY <1>1, <1>2
      <4> QED
        BY <2>1, <4>1
    <3> HIDE DEF Covers
    <3>3. \A k : WillHold(Tail(q), k, x, v)
      BY <2>1, <3>1, <3>2 DEF WillHold
    <3> QED
      BY <3>3
  <2> QED
    BY <2>2, <2>3
<1> QED
  BY <1>6, <1>7 DEF WillHold

(* Commands that write nothing.                                            *)
LEMMA HarmlessCovers ==
  ASSUME NEW c \in Command, Harmless(c), NEW x
  PROVE  ~Covers(c, x)
<1>1. c.op = "write" => c.len = 0 /\ c.addr \in Nat
  BY CommandTypes DEF Harmless
<1>2. c.op = "write" => c.addr .. c.addr + c.len - 1 = {}
  BY <1>1
<1> QED
  BY <1>2 DEF Covers

LEMMA HarmlessHold ==
  ASSUME NEW q \in Seq(Command), \A j \in DOMAIN q : Harmless(q[j]), NEW m, NEW x
  PROVE  WillHold(q, m, x, m[x])
<1>1. \A j \in DOMAIN q : q[j] \in Command
  BY LenProperties, ElementOfSeq
<1>2. \A j \in DOMAIN q : ~Covers(q[j], x)
  BY <1>1, HarmlessCovers
<1> QED
  BY <1>2 DEF WillHold

(* An image that will be what the target holds is still so when the same   *)
(* half-words are written to both.                                         *)
LEMMA HoldsWritten ==
  ASSUME NEW q \in Seq(Command), NEW m, NEW base \in Nat, NEW a \in Nat,
         NEW hs \in Seq(Nat), WriteCmd(a, hs) \in Command,
         NEW d \in Seq(Nat), NEW k \in 1 .. Len(d),
         WillHold(q, m, base + k - 1, d[k])
  PROVE  WillHold(Append(q, WriteCmd(a, hs)), m, base + k - 1,
                  Overwrite(d, a - base + 1, hs)[k])
<1> DEFINE c == WriteCmd(a, hs)
           x == base + k - 1
<1>1. k \in Int /\ x \in Int /\ k \in DOMAIN d /\ Len(hs) \in Nat
  BY LenProperties
<1>2. c.op = "write" /\ c.addr = a /\ c.len = Len(hs) /\ c.data = hs
  BY DEF WriteCmd
<1>3. Covers(c, x) <=> k \in a - base + 1 .. a - base + 1 + Len(hs) - 1
  BY <1>1, <1>2 DEF Covers
<1>4. x - c.addr + 1 = k - (a - base + 1) + 1
  BY <1>1, <1>2
<1>5. Overwrite(d, a - base + 1, hs)[k] =
        IF Covers(c, x) THEN c.data[x - c.addr + 1] ELSE d[k]
  BY <1>1, <1>2, <1>3, <1>4 DEF Overwrite
<1> HIDE DEF c, x
<1>6. WillHold(Append(q, c), m, x, IF Covers(c, x) THEN c.data[x - c.addr + 1] ELSE d[k])
  <2>1. CASE Covers(c, x)
    BY <2>1, HoldsAppend DEF c
  <2>2. CASE ~Covers(c, x)
    BY <2>2, HoldsAppend DEF c, x
  <2> QED
    BY <2>1, <2>2
<1> QED
  BY <1>5, <1>6 DEF c, x
(* A block that is a DWORD is sent as it is put into the image.            *)
LEMMA DwordIsSent ==
  ASSUME NEW b \in Block, b.size = 2, NEW w \in Word, NEW beyond
  PROVE  BlockData(b, <<Hi(w), Lo(w)>>, beyond) = <<Hi(w), Lo(w)>>
<1> DEFINE hs == <<Hi(w), Lo(w)>>
<1>1. \A j \in 1 .. 2 : (IF j <= 2 THEN hs[j] ELSE beyond) = hs[j]
  OBVIOUS
<1>2. hs = [j \in 1 .. 2 |-> hs[j]]
  OBVIOUS
<1> QED
  BY <1>1, <1>2 DEF BlockData

(* A checksum that is renewed is the first half-word written over.         *)
LEMMA NewChecksum ==
  ASSUME NEW d \in Seq(Nat), d # <<>>, NEW crc \in Nat
  PROVE  <<crc>> \o Tail(d) = Overwrite(d, 1, <<crc>>)
<1>1. /\ Tail(d) \in Seq(Nat) /\ Len(Tail(d)) = Len(d) - 1
      /\ Len(d) \in Nat /\ Len(d) > 0 /\ DOMAIN d = 1 .. Len(d)
      /\ \A k \in 1 .. Len(d) - 1 : Tail(d)[k] = d[k + 1]
  BY HeadTailProperties, LenProperties, EmptySeq
<1>2. <<crc>> \in Seq(Nat) /\ Len(<<crc>>) = 1 /\ <<crc>>[1] = crc
  OBVIOUS
<1> DEFINE l == <<crc>> \o Tail(d)
           r == Overwrite(d, 1, <<crc>>)
<1>3. /\ l \in Seq(Nat) /\ Len(l) = Len(d)
      /\ l[1] = crc
      /\ \A k \in 1 .. Len(d) : k # 1 => l[k] = d[k]
  <2>1. l \in Seq(Nat) /\ Len(l) = 1 + (Len(d) - 1)
        /\ \A k \in 1 .. Len(l) : l[k] = IF k <= 1 THEN <<crc>>[k] ELSE Tail(d)[k - 1]
    BY <1>1, <1>2, ConcatProperties
  <2>2. Len(l) = Len(d)
    BY <1>1, <2>1
  <2>3. l[1] = crc
    BY <1>1, <1>2, <2>1, <2>2
  <2>4. ASSUME NEW k \in 1 .. Len(d), k # 1
        PROVE  l[k] = d[k]
    <3>1. ~(k <= 1) /\ k - 1 \in 1 .. Len(d) - 1 /\ (k - 1) + 1 = k
      BY <1>1, <2>4
    <3> QED
      BY <1>1, <2>1, <2>2, <3>1
  <2> QED
    BY <2>1, <2>2, <2>3, <2>4
<1>4. r \in Seq(Nat) /\ Len(r) = Len(d)
  <2>1. 1 \in Int
    OBVIOUS
  <2> HIDE DEF l
  <2> QED
    BY <1>2, <2>1, OverwriteSeq, Zenon
<1>5. \A k \in 1 .. Len(d) : r[k] = IF k = 1 THEN crc ELSE d[k]
  BY <1>1, <1>2 DEF Overwrite
<1> HIDE DEF l, r
<1>6. \A k \in 1 .. Len(d) : l[k] = r[k]
  BY <1>3, <1>5
<1>7. l = r
  BY <1>3, <1>4, <1>6, SeqEqual
<1> QED
  BY <1>7 DEF l, r

(* The image after the next block, or the checksum, was written.           *)
LEMMA ImageWritten ==
  ASSUME CrcIsNumber, FileTypes, LineTypes, Dwords, conn, mem' = mem,
         NEW d \in Seq(Nat), d # <<>>, Len(d) = region.size, WriteNextBlock(d),
         \A k \in 1 .. Len(d) : WillHold(toDev, mem, region.addr + k - 1, d[k]),
         write_cb' # None
  PROVE  /\ Len(region'.data) = region'.size
         /\ \A k \in 1 .. region'.size :
              WillHold(toDev', mem', region'.addr + k - 1, region'.data[k])
<1>1. /\ region \in Image /\ region.addr \in Nat /\ region.size \in Nat
      /\ toDev \in Seq(Command)
  BY ImageTypes DEF FileTypes, LineTypes
<1>2. region'.addr = region.addr /\ region'.size = region.size
      /\ Len(region'.data) = Len(d)
  BY WriteBlock
<1>3. \E a \in Nat, hs \in Seq(Nat) :
        /\ WriteCmd(a, hs) \in Command /\ toDev' = Append(toDev, WriteCmd(a, hs))
        /\ region'.data = Overwrite(d, a - region.addr + 1, hs)
  <2>1. CASE cmd.blocks_it = Len(cmd.blocks)
    <3> DEFINE crc == NewCrc(d)
    <3>1. crc \in Nat
      BY HeadTailProperties DEF NewCrc, CrcIsNumber
    <3>2. region' = [region EXCEPT !.data = <<crc>> \o Tail(d)]
          /\ dev_tx(WriteCmd(region.addr, <<crc>>))
      BY <2>1 DEF WriteNextBlock
    <3> HIDE DEF crc
    <3>3. <<crc>> \in Seq(Nat) /\ Len(<<crc>>) = 1
      BY <3>1
    <3>4. WriteCmd(region.addr, <<crc>>) \in Command
      <4>1. Len(<<crc>>) = 2 => <<crc>> \in Seq(Half)
        BY <3>3
      <4> QED
        BY <1>1, <3>3, <4>1, WriteIsCommand, Zenon
    <3>5. toDev' = Append(toDev, WriteCmd(region.addr, <<crc>>))
      BY <3>2 DEF dev_tx
    <3>6. region'.data = Overwrite(d, 1, <<crc>>)
      <4>1. <<crc>> \o Tail(d) = Overwrite(d, 1, <<crc>>)
        BY <3>1, NewChecksum
      <4>2. Overwrite(d, 1, <<crc>>) \in Seq(Nat)
        BY <3>3, OverwriteSeq
      <4> QED
        BY <1>1, <3>2, <4>1, <4>2, ImageTypes
    <3>7. region.addr - region.addr + 1 = 1
      BY <1>1
    <3> QED
      BY <1>1, <3>3, <3>4, <3>5, <3>6, <3>7
  <2>2. CASE cmd.blocks_it < Len(cmd.blocks)
    <3> DEFINE b == cmd.blocks[cmd.blocks_it + 1]
    <3>1. b \in Block /\ b.addr \in Nat /\ b.size = 2
      BY <2>2, NextBlock DEF Block, Dwords
    <3>2. cmd.blocks_it # Len(cmd.blocks)
      BY <2>2, LenProperties DEF FileTypes, MemfCmd
    <3>3. PICK w \in NewWords(b, d), beyond \in Half :
            /\ region' = [region EXCEPT !.data = InImage(d, b, <<Hi(w), Lo(w)>>)]
            /\ dev_tx(WriteCmd(b.addr, BlockData(b, <<Hi(w), Lo(w)>>, beyond)))
      BY <3>2 DEF WriteNextBlock, NextOfBlocks
    <3> HIDE DEF b
    <3>4. w \in Word
      BY <1>1, <3>1, NewWordTypes
    <3> DEFINE hs == <<Hi(w), Lo(w)>>
    <3>5. hs \in Seq(Nat) /\ BlockData(b, hs, beyond) = hs
          /\ WriteCmd(b.addr, BlockData(b, hs, beyond)) \in Command
      BY <3>1, <3>4, BlockIsCommand, DwordIsSent
    <3>6. region' = [region EXCEPT !.data = Overwrite(d, b.addr - region.addr + 1, hs)]
          /\ toDev' = Append(toDev, WriteCmd(b.addr, BlockData(b, hs, beyond)))
      BY <3>3 DEF InImage, dev_tx
    <3> HIDE DEF hs
    <3>7. WriteCmd(b.addr, hs) \in Command /\ toDev' = Append(toDev, WriteCmd(b.addr, hs))
      BY <3>5, <3>6
    <3>8. b.addr - region.addr + 1 \in Int
      BY <1>1, <3>1
    <3>9. Overwrite(d, b.addr - region.addr + 1, hs) \in Seq(Nat)
      BY <3>5, <3>8, OverwriteSeq
    <3>10. region'.data = Overwrite(d, b.addr - region.addr + 1, hs)
      BY <1>1, <3>6, <3>9, ImageTypes
    <3> QED
      BY <3>1, <3>5, <3>7, <3>10
  <2> QED
    BY <2>1, <2>2 DEF WriteNextBlock
<1>4. PICK a \in Nat, hs \in Seq(Nat) :
        /\ WriteCmd(a, hs) \in Command /\ toDev' = Append(toDev, WriteCmd(a, hs))
        /\ region'.data = Overwrite(d, a - region.addr + 1, hs)
  BY <1>3
<1>5. \A k \in 1 .. Len(d) :
        WillHold(Append(toDev, WriteCmd(a, hs)), mem, region.addr + k - 1,
                 Overwrite(d, a - region.addr + 1, hs)[k])
  BY <1>1, <1>4, HoldsWritten
<1> QED
  BY <1>2, <1>4, <1>5

(* The blocks of the file being worked off are those of a file.            *)
DwordsOf(c) ==
  /\ \A i \in DOMAIN c.regions :
       \A k \in DOMAIN c.regions[i].blocks : c.regions[i].blocks[k].size = 2
  /\ \A k \in DOMAIN c.blocks : c.blocks[k].size = 2

LEMMA TakenDwords ==
  ASSUME NEW c \in MemfCmd, DwordsOf(c)
  PROVE  HasRegion(c) => DwordsOf(Taken(c))
<1> SUFFICES ASSUME HasRegion(c) PROVE DwordsOf(Taken(c))
  OBVIOUS
<1>1. c.regions_it + 1 \in DOMAIN c.regions
  BY LenProperties DEF MemfCmd, HasRegion
<1>2. \A k \in DOMAIN NextOf(c).blocks : NextOf(c).blocks[k].size = 2
  BY <1>1 DEF DwordsOf, NextOf
<1> QED
  BY <1>2, TakenTypes DEF DwordsOf

LEMMA OpenedDwords ==
  /\ DwordsOf(NoFile)
  /\ DwordBlocks => \A f \in Files : DwordsOf(Opened(f))
<1>1. DOMAIN <<>> = {}
  BY EmptySeq, LenProperties
<1>2. NoFile.regions = <<>> /\ NoFile.blocks = <<>>
  BY DEF NoFile
<1>3. \A f \in Files : Opened(f).regions = f /\ Opened(f).blocks = <<>>
  BY DEF Opened, NoFile
<1> QED
  BY <1>1, <1>2, <1>3 DEF DwordsOf, DwordBlocks

LEMMA DwordsStep ==
  ASSUME DwordBlocks, Control, Dwords, [Next]_vars
  PROVE  Dwords'
<1> USE DEF Control, Types
<1>1. cmd \in MemfCmd /\ DwordsOf(cmd)
  BY DEF FileTypes, Dwords, DwordsOf
<1>2. SUFFICES DwordsOf(cmd')
  BY DEF Dwords, DwordsOf
<1>3. CASE UNCHANGED cmd
  BY <1>1, <1>3
<1>4. ASSUME NEW c \in MemfCmd, DwordsOf(c),
             \/ \E report, reg : region_read_next_region(c, report, reg)
             \/ region_write_next_region(c)
      PROVE  DwordsOf(cmd')
  <2>1. \/ cmd' = NoFile
        \/ HasRegion(c) /\ cmd' = Taken(c)
    <3>1. CASE \E report, reg : region_read_next_region(c, report, reg)
      <4>1. PICK report, reg : region_read_next_region(c, report, reg)
        BY <3>1
      <4> QED
        BY <4>1 DEF region_read_next_region
    <3>2. CASE region_write_next_region(c)
      BY <3>2 DEF region_write_next_region
    <3> QED
      BY <1>4, <3>1, <3>2
  <2> QED
    BY <1>4, <2>1, TakenDwords, OpenedDwords
<1>5. ASSUME NEW d, WriteNextBlock(d)
      PROVE  DwordsOf(cmd')
  <2>1. CASE cmd.blocks_it < Len(cmd.blocks) /\ cmd' = [cmd EXCEPT !.blocks_it = @ + 1]
    BY <1>1, <2>1, NextBlock DEF DwordsOf
  <2> QED
    BY <1>3, <1>5, <2>1 DEF WriteNextBlock, OneBlockOn
<1>6. CASE Device \/ DevLost \/ DevBack
  <2>1. UNCHANGED cmd
    BY <1>6 DEF Device, DevReads, DevRefuses, DevWrites, DevLost, DevBack, Answer, xferVars
  <2> QED
    BY <1>3, <2>1
<1>7. CASE Io
  <2>1. CASE AnswerIgnored \/ region_read_get_len_cb \/ region_write_get_len_cb
    BY <1>3, <2>1 DEF AnswerIgnored, region_read_get_len_cb, region_write_get_len_cb,
       GetLen, xferVars
  <2>2. CASE region_read_get_data_cb
    BY <1>1, <1>3, <1>4, <2>2 DEF region_read_get_data_cb
  <2>3. CASE region_write_get_data_cb
    BY <1>3, <1>5, <2>3 DEF region_write_get_data_cb
  <2>4. CASE region_write_set_data_cb
    BY <1>5, <2>4 DEF region_write_set_data_cb
  <2>5. CASE region_write_set_crc_cb
    BY <1>1, <1>4, <2>5 DEF region_write_set_crc_cb
  <2> QED
    BY <1>7, <2>1, <2>2, <2>3, <2>4, <2>5 DEF Io
<1>8. CASE User
  <2>1. CASE NoSuchFile \/ cmd_io_bdm_write_mem
    BY <1>3, <2>1 DEF NoSuchFile, cmd_io_bdm_write_mem, xferVars
  <2>2. ASSUME NEW f \in Files, cmd_io_bdm_fread_region(f) \/ cmd_io_bdm_fwrite_region(f)
        PROVE  DwordsOf(cmd')
    <3>1. Opened(f) \in MemfCmd /\ DwordsOf(Opened(f))
      BY OpenedTypes, OpenedDwords
    <3> QED
      BY <1>4, <2>2, <3>1 DEF cmd_io_bdm_fread_region, cmd_io_bdm_fwrite_region
  <2> QED
    BY <1>8, <2>1, <2>2 DEF User
<1>9. CASE UNCHANGED vars
  BY <1>3, <1>9 DEF vars, xferVars
<1> QED
  BY <1>6, <1>7, <1>8, <1>9 DEF Next
-----------------------------------------------------------------------------
(* The image of a region that is written. *)

ImageParts == Fresh /\ InMemory /\ ImageMatches

(* Nothing is said of an image that is neither about to be written nor     *)
(* being written.                                                          *)
LEMMA NoImage ==
  ASSUME losses' = 0 => read_cb' # "write_get_data" /\ write_cb' = None
  PROVE  ImageParts'
BY DEF ImageParts, Fresh, InMemory, ImageMatches

(* What is not under way is not in either queue.                           *)
LEMMA PendingNone ==
  ASSUME NEW S, NEW q \in Seq(S), NEW op, Pending(q, op) = 0
  PROVE  \A i \in DOMAIN q : q[i].op # op
<1>1. Places(q, op) = {}
  BY PendingNat, FS_EmptySet DEF Pending, Places
<1> QED
  BY <1>1 DEF Places

(* A command that writes nothing leaves the memory as it is.               *)
LEMMA HarmlessStep ==
  ASSUME Types, Device, Harmless(Head(toDev)), NEW x \in DOMAIN mem
  PROVE  mem'[x] = mem[x]
<1> USE DEF Types
<1>1. CASE DevReads \/ DevRefuses
  BY <1>1 DEF DevReads, DevRefuses
<1>2. CASE DevWrites
  <2>1. toDev # <<>> /\ Head(toDev).op = "write"
        /\ mem' = Overwrite(mem, Head(toDev).addr, Head(toDev).data)
    BY <1>2 DEF DevWrites
  <2>2. Head(toDev) \in Command
    BY <2>1, HeadTailProperties DEF LineTypes
  <2>3. Len(Head(toDev).data) = 0 /\ Head(toDev).addr \in Nat
    BY <2>1, <2>2, CommandTypes DEF Harmless
  <2>4. x \notin Head(toDev).addr .. Head(toDev).addr + Len(Head(toDev).data) - 1
    <3>1. x \in Nat
      BY DEF MemTypes
    <3> QED
      BY <2>3, <3>1
  <2> QED
    BY <2>1, <2>4 DEF Overwrite
<1> QED
  BY <1>1, <1>2 DEF Device

(* What is true of every command is of the rest of them.                   *)
LEMMA TailCommands ==
  ASSUME LineTypes, toDev # <<>>, toDev' = Tail(toDev)
  PROVE  /\ Head(toDev) = toDev[1] /\ 1 \in DOMAIN toDev
         /\ \A j \in DOMAIN toDev' : /\ j + 1 \in DOMAIN toDev /\ toDev'[j] = toDev[j + 1]
                                     /\ j + 1 > 1 /\ j \in Nat
<1>1. /\ Len(toDev) \in Nat /\ Len(toDev) > 0
      /\ DOMAIN toDev = 1 .. Len(toDev) /\ DOMAIN Tail(toDev) = 1 .. Len(toDev) - 1
      /\ Head(toDev) = toDev[1]
  BY HeadTailProperties, LenProperties, EmptySeq DEF LineTypes
<1>2. \A j \in DOMAIN Tail(toDev) : j + 1 \in DOMAIN toDev /\ Tail(toDev)[j] = toDev[j + 1]
  BY <1>1, HeadTailProperties DEF LineTypes
<1> QED
  BY <1>1, <1>2

(* The device read the region, or something else.                          *)
LEMMA AnswerIsRegion ==
  ASSUME Control, Device, losses = 0, read_cb = "write_get_data",
         NEW r \in Response, toIo' = Append(toIo, r),
         r.op = "read", Len(r.data) = region.size,
         Head(toDev).op = "read" =>
           Head(toDev).addr = region.addr /\ Head(toDev).len = region.size
  PROVE  /\ mem' = mem
         /\ \A k \in 1 .. region.size :
              /\ region.addr + k - 1 \in DOMAIN mem
              /\ mem[region.addr + k - 1] = r.data[k]
<1> USE DEF Control, Types
<1>1. region.addr \in Nat /\ region.size \in Nat /\ region.size >= 8
  BY ImageTypes DEF FileTypes, Sized
<1>2. toIo \in Seq(Response) /\ Len(toIo) \in Nat
  BY LenProperties DEF LineTypes
<1>3. ASSUME NEW data, Answer(data)
      PROVE  r = [op |-> Head(toDev).op, data |-> data]
  <2> DEFINE s == [op |-> Head(toDev).op, data |-> data]
  <2>1. Append(toIo, r) = Append(toIo, s)
    BY <1>3 DEF Answer
  <2> HIDE DEF s
  <2>2. Append(toIo, r)[Len(toIo) + 1] = r /\ Append(toIo, s)[Len(toIo) + 1] = s
    BY <1>2
  <2> QED
    BY <2>1, <2>2 DEF s
<1>4. Len(<<>>) = 0
  BY EmptySeq
<1>5. CASE DevRefuses
  <2>1. r.data = <<>>
    BY <1>3, <1>5 DEF DevRefuses
  <2> QED
    BY <1>1, <1>4, <2>1
<1>6. CASE DevWrites
  BY <1>3, <1>6 DEF DevWrites
<1>7. CASE DevReads
  <2>1. /\ mem' = mem /\ Head(toDev).addr = region.addr /\ Head(toDev).len = region.size
    BY <1>7 DEF DevReads
  <2>2. r.data = IF region.addr + region.size - 1 \in DOMAIN mem
                 THEN Span(mem, region.addr, region.size) ELSE <<>>
    BY <1>3, <1>7, <2>1 DEF DevReads
  <2>3. region.addr + region.size - 1 \in DOMAIN mem
    BY <1>1, <1>4, <2>2
  <2> QED
    BY <1>1, <2>1, <2>2, <2>3, SpanTypes
<1> QED
  BY <1>5, <1>6, <1>7 DEF Device

LEMMA FreshDevice ==
  ASSUME Control, Fresh, Device
  PROVE  Fresh'
<1> USE DEF Control, Types
<1>1. Answers /\ DOMAIN mem' = DOMAIN mem
  BY DeviceStep
<1>2. /\ toDev # <<>> /\ toDev' = Tail(toDev)
      /\ UNCHANGED <<region, read_cb, losses>>
  BY <1>1 DEF Answers, xferVars
<1>3. PICK r \in Response : r.op = Head(toDev).op /\ toIo' = Append(toIo, r)
  BY <1>1 DEF Answers
<1> SUFFICES ASSUME losses = 0, read_cb = "write_get_data"
             PROVE  /\ \A i \in DOMAIN toDev' : toDev'[i].op = "read" =>
                         /\ toDev'[i].addr = region.addr /\ toDev'[i].len = region.size
                         /\ \A j \in DOMAIN toDev' : j > i => Harmless(toDev'[j])
                    /\ \A i \in DOMAIN toIo' :
                         toIo'[i].op = "read" /\ Len(toIo'[i].data) = region.size =>
                           /\ \A k \in 1 .. region.size :
                                /\ region.addr + k - 1 \in DOMAIN mem'
                                /\ mem'[region.addr + k - 1] = toIo'[i].data[k]
                           /\ \A j \in DOMAIN toDev' : Harmless(toDev'[j])
  BY <1>2 DEF Fresh, Harmless
<1>4. /\ \A i \in DOMAIN toDev : toDev[i].op = "read" =>
           /\ toDev[i].addr = region.addr /\ toDev[i].len = region.size
           /\ \A j \in DOMAIN toDev : j > i => Harmless(toDev[j])
      /\ \A i \in DOMAIN toIo :
           toIo[i].op = "read" /\ Len(toIo[i].data) = region.size =>
             /\ \A k \in 1 .. region.size :
                  /\ region.addr + k - 1 \in DOMAIN mem
                  /\ mem[region.addr + k - 1] = toIo[i].data[k]
             /\ \A j \in DOMAIN toDev : Harmless(toDev[j])
  BY DEF Fresh
<1>5. /\ Head(toDev) = toDev[1] /\ 1 \in DOMAIN toDev
      /\ \A j \in DOMAIN toDev' : /\ j + 1 \in DOMAIN toDev /\ toDev'[j] = toDev[j + 1]
                                  /\ j + 1 > 1 /\ j \in Nat
  BY <1>2, TailCommands
<1>6. \A i, j \in DOMAIN toDev' : j > i => j + 1 > i + 1
  BY <1>5
<1> HIDE DEF Control, Types, Harmless
<1>7. ASSUME NEW i \in DOMAIN toDev', toDev'[i].op = "read"
      PROVE  /\ toDev'[i].addr = region.addr /\ toDev'[i].len = region.size
             /\ \A j \in DOMAIN toDev' : j > i => Harmless(toDev'[j])
  BY <1>4, <1>5, <1>6, <1>7
<1>8. ASSUME NEW i \in DOMAIN toIo', toIo'[i].op = "read", Len(toIo'[i].data) = region.size
      PROVE  /\ \A k \in 1 .. region.size :
                  /\ region.addr + k - 1 \in DOMAIN mem'
                  /\ mem'[region.addr + k - 1] = toIo'[i].data[k]
             /\ \A j \in DOMAIN toDev' : Harmless(toDev'[j])
  <2>1. /\ DOMAIN toIo' = 1 .. Len(toIo) + 1 /\ DOMAIN toIo = 1 .. Len(toIo)
        /\ Len(toIo) \in Nat /\ toIo'[Len(toIo) + 1] = r
        /\ \A n \in DOMAIN toIo : toIo'[n] = toIo[n]
    BY <1>3, AppendProperties, LenProperties DEF Control, Types, LineTypes
  <2>2. CASE i \in DOMAIN toIo
    <3>1. /\ \A k \in 1 .. region.size :
               /\ region.addr + k - 1 \in DOMAIN mem
               /\ mem[region.addr + k - 1] = toIo'[i].data[k]
          /\ \A j \in DOMAIN toDev : Harmless(toDev[j])
      BY <1>4, <1>8, <2>1, <2>2
    <3>2. Harmless(Head(toDev))
      BY <1>5, <3>1
    <3>3. \A x \in DOMAIN mem : mem'[x] = mem[x]
      BY <3>2, HarmlessStep DEF Control
    <3>4. \A k \in 1 .. region.size : mem'[region.addr + k - 1] = toIo'[i].data[k]
      BY <3>1, <3>3
    <3> QED
      BY <1>1, <1>5, <3>1, <3>4
  <2>3. CASE i = Len(toIo) + 1
    <3>1. r.op = "read" /\ Len(r.data) = region.size /\ toIo'[i] = r
      BY <1>8, <2>1, <2>3
    <3>2. /\ Head(toDev).addr = region.addr /\ Head(toDev).len = region.size
          /\ \A j \in DOMAIN toDev : j > 1 => Harmless(toDev[j])
      BY <1>3, <1>4, <1>5, <3>1
    <3>3. /\ mem' = mem
          /\ \A k \in 1 .. region.size : /\ region.addr + k - 1 \in DOMAIN mem
                                         /\ mem[region.addr + k - 1] = r.data[k]
      BY <1>3, <3>1, <3>2, AnswerIsRegion
    <3>4. \A j \in DOMAIN toDev' : Harmless(toDev'[j])
      BY <1>5, <3>2
    <3> QED
      BY <3>1, <3>3, <3>4
  <2> QED
    BY <2>1, <2>2, <2>3
<1> QED
  BY <1>7, <1>8

LEMMA ImageDevice ==
  ASSUME Control, ImageParts, Device
  PROVE  ImageParts'
<1> USE DEF Control, Types
<1>1. Answers /\ DOMAIN mem' = DOMAIN mem
  BY DeviceStep
<1>2. /\ toDev # <<>> /\ toDev' = Tail(toDev)
      /\ UNCHANGED <<region, write_cb, losses>>
  BY <1>1 DEF Answers, xferVars
<1>3. Fresh'
  BY FreshDevice DEF ImageParts
<1>4. InMemory'
  BY <1>1, <1>2 DEF ImageParts, InMemory
<1>5. ImageMatches'
  <2>1. SUFFICES ASSUME losses = 0, write_cb # None
                 PROVE  /\ Len(region.data) = region.size
                        /\ \A k \in 1 .. region.size :
                             WillHold(Tail(toDev), mem', region.addr + k - 1, region.data[k])
    BY <1>2 DEF ImageMatches, WillHold, Covers
  <2>2. Len(region.data) = region.size
    BY <2>1 DEF ImageParts, ImageMatches
  <2>3. ASSUME NEW k \in 1 .. region.size
        PROVE  WillHold(Tail(toDev), mem', region.addr + k - 1, region.data[k])
    <3>1. WillHold(toDev, mem, region.addr + k - 1, region.data[k])
      BY <2>1 DEF ImageParts, ImageMatches
    <3>2. region.addr + k - 1 \in DOMAIN mem /\ region.addr + k - 1 \in Int
      BY <2>1, ImageTypes DEF ImageParts, InMemory, FileTypes
    <3>3. toDev \in Seq(Command)
      BY DEF LineTypes
    <3>4. CASE DevReads \/ DevRefuses
      <4>1. Head(toDev).op = "read" /\ mem' = mem
        BY <3>4 DEF DevReads, DevRefuses
      <4> QED
        BY <1>2, <3>1, <3>2, <3>3, <4>1, HoldsTail
    <3>5. CASE DevWrites
      <4>1. /\ Head(toDev).op = "write"
            /\ mem' = Overwrite(mem, Head(toDev).addr, Head(toDev).data)
        BY <3>5 DEF DevWrites
      <4> QED
        BY <1>2, <3>1, <3>2, <3>3, <4>1, HoldsTail
    <3> QED
      BY <3>4, <3>5 DEF Device
  <2> QED
    BY <2>2, <2>3
<1> QED
  BY <1>3, <1>4, <1>5 DEF ImageParts

(* An answer nobody waits for, or none, and nothing is sent.               *)
LEMMA ImageTaken ==
  ASSUME Control, ImageParts, UNCHANGED <<region, read_cb, write_cb, losses, toDev, mem>>,
         toIo' = toIo \/ (toIo # <<>> /\ toIo' = Tail(toIo))
  PROVE  ImageParts'
<1> USE DEF Control, Types
<1>1. \A i \in DOMAIN toIo' : \E n \in DOMAIN toIo : toIo'[i] = toIo[n]
  <2>1. CASE toIo' = toIo
    BY <2>1
  <2>2. CASE toIo # <<>> /\ toIo' = Tail(toIo)
    <3>1. \A i \in DOMAIN Tail(toIo) : i + 1 \in DOMAIN toIo /\ Tail(toIo)[i] = toIo[i + 1]
      BY <2>2, HeadTailProperties, LenProperties, EmptySeq DEF LineTypes
    <3> QED
      BY <2>2, <3>1
  <2> QED
    BY <2>1, <2>2
<1>2. Fresh'
  BY <1>1, Zenon DEF ImageParts, Fresh, Harmless
<1>3. InMemory' /\ ImageMatches'
  BY DEF ImageParts, InMemory, ImageMatches, WillHold, Covers
<1> QED
  BY <1>2, <1>3 DEF ImageParts

(* The region is asked for: nothing else is read by then.                  *)
LEMMA ImageAsked ==
  ASSUME Control, region_write_get_len_cb
  PROVE  ImageParts'
<1> USE DEF Control, Types
<1>1. GetLen("write_get_len", "write_get_data")
  BY DEF region_write_get_len_cb
<1>2. /\ Answered("read") /\ read_cb = "write_get_len" /\ read_cb' = "write_get_data"
      /\ UNCHANGED <<write_cb, mem, losses, conn, halted>> /\ ~halted
      /\ toIo # <<>> /\ Head(toIo).op = "read" /\ toIo' = Tail(toIo)
  BY <1>1 DEF GetLen, Answered, boundVars
<1>3. write_cb = None /\ read_cb # None
  BY <1>2 DEF OneTransfer, None
<1> DEFINE c == ReadCmd(region'.addr, region'.size)
<1>4. c \in Command /\ dev_tx(c)
  BY <1>1, LengthTypes
<1>5. c.op = "read" /\ c.addr = region'.addr /\ c.len = region'.size
  BY DEF ReadCmd
<1> HIDE DEF c
<1>6. SUFFICES ASSUME losses = 0 PROVE Fresh'
  <2>1. InMemory' /\ ImageMatches'
    BY <1>2, <1>3 DEF InMemory, ImageMatches
  <2>2. losses # 0 => Fresh'
    BY <1>2 DEF Fresh
  <2> QED
    BY <2>1, <2>2 DEF ImageParts
<1>7. toDev' = Append(toDev, c)
  BY <1>2, <1>4, <1>6 DEF Linked, dev_tx
<1>8. /\ \A i \in DOMAIN toDev : toDev[i].op # "read"
      /\ \A i \in DOMAIN toIo' : toIo'[i].op # "read"
  <2>1. UnderWay("read") = 1
    BY <1>2, <1>3, <1>6 DEF WaitsForAnswer
  <2>2. toIo \in Seq(Response) /\ Tail(toIo) \in Seq(Response) /\ toDev \in Seq(Command)
    BY <1>2, HeadTailProperties DEF LineTypes
  <2>3. /\ Pending(toDev, "read") \in Nat /\ Pending(Tail(toIo), "read") \in Nat
        /\ Pending(toIo, "read") = Pending(Tail(toIo), "read") + 1
    BY <1>2, <2>2, PendingNat, PendingTail
  <2>4. Pending(toDev, "read") = 0 /\ Pending(Tail(toIo), "read") = 0
    BY <2>1, <2>3 DEF UnderWay
  <2> QED
    BY <1>2, <2>2, <2>4, PendingNone
<1>9. /\ DOMAIN toDev' = 1 .. Len(toDev) + 1 /\ DOMAIN toDev = 1 .. Len(toDev)
      /\ Len(toDev) \in Nat /\ toDev'[Len(toDev) + 1] = c
      /\ \A n \in DOMAIN toDev : toDev'[n] = toDev[n]
  BY <1>4, <1>7, AppendProperties, LenProperties DEF LineTypes
<1>10. \A i \in DOMAIN toDev' : toDev'[i].op = "read" => i = Len(toDev) + 1
  BY <1>8, <1>9
<1>11. \A j \in DOMAIN toDev' : ~(j > Len(toDev) + 1)
  BY <1>9
<1> QED
  BY <1>5, <1>8, <1>9, <1>10, <1>11, Zenon DEF Fresh

(* A user's write covers nothing.                                          *)
LEMMA ImagePlain ==
  ASSUME Control, ImageParts, cmd_io_bdm_write_mem
  PROVE  ImageParts'
<1> USE DEF Control, Types
<1> DEFINE c == WriteCmd(0, <<>>)
<1>1. /\ UNCHANGED <<region, read_cb, write_cb, losses, conn, toIo, mem>> /\ dev_tx(c)
  BY DEF cmd_io_bdm_write_mem, xferVars
<1>2. c \in Command /\ Harmless(c) /\ c.op = "write"
  BY PlainIsCommand DEF Harmless
<1> HIDE DEF c
<1>3. CASE losses # 0
  BY <1>1, <1>3 DEF ImageParts, Fresh, InMemory, ImageMatches
<1>4. CASE losses = 0
  <2>1. toDev' = Append(toDev, c)
    BY <1>1, <1>4 DEF Linked, dev_tx
  <2>2. /\ DOMAIN toDev' = 1 .. Len(toDev) + 1 /\ DOMAIN toDev = 1 .. Len(toDev)
        /\ Len(toDev) \in Nat /\ toDev'[Len(toDev) + 1] = c
        /\ \A n \in DOMAIN toDev : toDev'[n] = toDev[n]
    BY <1>2, <2>1, AppendProperties, LenProperties DEF LineTypes
  <2>3. \A n \in DOMAIN toDev' : n \in DOMAIN toDev \/ n = Len(toDev) + 1
    BY <2>2
  <2>4. "read" # "write"
    OBVIOUS
  <2>5. /\ \A i \in DOMAIN toDev' : toDev'[i].op = "read" =>
             i \in DOMAIN toDev /\ toDev'[i] = toDev[i]
        /\ \A j \in DOMAIN toDev' : Harmless(toDev'[j]) \/
             (j \in DOMAIN toDev /\ toDev'[j] = toDev[j])
    <3>1. ASSUME NEW i \in DOMAIN toDev', toDev'[i].op = "read"
          PROVE  i \in DOMAIN toDev /\ toDev'[i] = toDev[i]
      BY <1>2, <2>2, <2>3, <2>4, <3>1
    <3> QED
      BY <1>2, <2>2, <2>3, <3>1, Zenon
  <2>6. Fresh'
    <3>1. SUFFICES
            ASSUME read_cb = "write_get_data"
            PROVE  /\ \A i \in DOMAIN toDev' : toDev'[i].op = "read" =>
                        /\ toDev'[i].addr = region.addr /\ toDev'[i].len = region.size
                        /\ \A j \in DOMAIN toDev' : j > i => Harmless(toDev'[j])
                   /\ \A i \in DOMAIN toIo :
                        toIo[i].op = "read" /\ Len(toIo[i].data) = region.size =>
                          /\ \A k \in 1 .. region.size :
                               /\ region.addr + k - 1 \in DOMAIN mem
                               /\ mem[region.addr + k - 1] = toIo[i].data[k]
                          /\ \A j \in DOMAIN toDev' : Harmless(toDev'[j])
      BY <1>1 DEF Fresh, Harmless
    <3>2. /\ \A i \in DOMAIN toDev : toDev[i].op = "read" =>
               /\ toDev[i].addr = region.addr /\ toDev[i].len = region.size
               /\ \A j \in DOMAIN toDev : j > i => Harmless(toDev[j])
          /\ \A i \in DOMAIN toIo :
               toIo[i].op = "read" /\ Len(toIo[i].data) = region.size =>
                 /\ \A k \in 1 .. region.size :
                      /\ region.addr + k - 1 \in DOMAIN mem
                      /\ mem[region.addr + k - 1] = toIo[i].data[k]
                 /\ \A j \in DOMAIN toDev : Harmless(toDev[j])
      BY <1>4, <3>1 DEF ImageParts, Fresh
    <3> HIDE DEF Control, Types
    <3> QED
      BY <2>5, <3>2, Zenon
  <2>7. InMemory'
    BY <1>1 DEF ImageParts, InMemory
  <2>8. ImageMatches'
    <3>1. SUFFICES
            ASSUME write_cb # None
            PROVE  /\ Len(region.data) = region.size
                   /\ \A k \in 1 .. region.size :
                        WillHold(Append(toDev, c), mem, region.addr + k - 1, region.data[k])
      BY <1>1, <2>1 DEF ImageMatches, WillHold, Covers
    <3>2. /\ Len(region.data) = region.size
          /\ \A k \in 1 .. region.size :
               WillHold(toDev, mem, region.addr + k - 1, region.data[k])
      BY <1>4, <3>1 DEF ImageParts, ImageMatches
    <3>3. \A x : ~Covers(c, x)
      BY <1>2, HarmlessCovers
    <3>4. toDev \in Seq(Command)
      BY DEF LineTypes
    <3> QED
      BY <1>2, <3>2, <3>3, <3>4, HoldsAppend
  <2> QED
    BY <2>6, <2>7, <2>8 DEF ImageParts
<1> QED
  BY <1>3, <1>4

(* The next block, or the checksum, goes into an image d of what the       *)
(* target will hold.                                                       *)
LEMMA ImageBlock ==
  ASSUME CrcIsNumber, Control, Dwords, read_cb' = None, UNCHANGED <<mem, losses>>,
         NEW d \in Seq(Nat), d # <<>>, WriteNextBlock(d),
         losses = 0 =>
           /\ Len(d) = region.size
           /\ \A k \in 1 .. Len(d) :
                /\ region.addr + k - 1 \in DOMAIN mem
                /\ WillHold(toDev, mem, region.addr + k - 1, d[k])
  PROVE  ImageParts'
<1> USE DEF Control, Types
<1>1. CASE losses # 0 \/ write_cb' = None
  BY <1>1, NoImage DEF None
<1>2. CASE losses = 0 /\ write_cb' # None
  <2>1. conn
    BY <1>2 DEF Linked
  <2>2. region'.addr = region.addr /\ region'.size = region.size
    BY WriteBlock
  <2>3. ImageMatches'
    <3>1. /\ Len(region'.data) = region'.size
          /\ \A k \in 1 .. region'.size :
               WillHold(toDev', mem', region'.addr + k - 1, region'.data[k])
      BY <1>2, <2>1, ImageWritten
    <3> QED
      BY <3>1 DEF ImageMatches, WillHold, Covers
  <2>4. InMemory'
    BY <1>2, <2>2 DEF InMemory
  <2>5. Fresh'
    BY DEF Fresh, None
  <2> QED
    BY <2>3, <2>4, <2>5 DEF ImageParts
<1> QED
  BY <1>1, <1>2

LEMMA ImageStep ==
  ASSUME CrcIsNumber, Control, Dwords, ImageParts, [Next]_vars
  PROVE  ImageParts'
<1> USE DEF Control, Types
<1>1. CASE Device
  BY <1>1, ImageDevice
<1>2. CASE DevLost
  <2>1. losses' # 0
    BY <1>2 DEF DevLost, BoundTypes
  <2> QED
    BY <2>1, NoImage
<1>3. CASE DevBack
  <2>1. /\ UNCHANGED <<region, read_cb, write_cb, losses, toDev, mem>> /\ toIo' = toIo
    BY <1>3 DEF DevBack, xferVars, boundVars
  <2> QED
    BY <2>1, ImageTaken
<1>4. CASE Io
  <2>1. CASE AnswerIgnored
    <3>1. /\ UNCHANGED <<region, read_cb, write_cb, losses, toDev, mem>>
          /\ toIo # <<>> /\ toIo' = Tail(toIo)
      BY <2>1 DEF AnswerIgnored, Answered, xferVars, boundVars
    <3> QED
      BY <3>1, ImageTaken
  <2>2. CASE region_read_get_len_cb
    <3>1. read_cb = "read_get_len" /\ read_cb' = "read_get_data" /\ write_cb' = write_cb
      BY <2>2 DEF region_read_get_len_cb, GetLen
    <3>2. write_cb' = None
      BY <3>1 DEF OneTransfer, None
    <3> QED
      BY <3>1, <3>2, NoImage
  <2>3. CASE region_read_get_data_cb
    <3>1. read_cb = "read_get_data" /\ write_cb' = write_cb
      BY <2>3 DEF region_read_get_data_cb
    <3>2. write_cb' = None
      BY <3>1 DEF OneTransfer, None
    <3>3. read_cb' \in {None, "read_get_len"}
      <4>1. ASSUME NEW report, NEW reg, region_read_next_region(cmd, report, reg)
            PROVE  read_cb' \in {None, "read_get_len"}
        BY <4>1 DEF region_read_next_region
      <4> QED
        BY <2>3, <4>1 DEF region_read_get_data_cb
    <3> QED
      BY <3>2, <3>3, NoImage DEF None
  <2>4. CASE region_write_get_len_cb
    BY <2>4, ImageAsked
  <2>5. CASE region_write_get_data_cb
    <3>1. /\ Answered("read") /\ read_cb = "write_get_data" /\ read_cb' = None
          /\ UNCHANGED <<mem, losses>> /\ Data \in Seq(Nat)
      BY <2>5, AnsweredTypes DEF region_write_get_data_cb, boundVars
    <3>2. CASE Len(Data) # region.size
      <4>1. write_cb' = None
        BY <2>5, <3>1, <3>2 DEF region_write_get_data_cb, OneTransfer, None
      <4> QED
        BY <3>1, <4>1, NoImage DEF None
    <3>3. CASE Len(Data) = region.size
      <4>1. WriteNextBlock(Data)
        BY <2>5, <3>3 DEF region_write_get_data_cb
      <4>2. Data # <<>>
        BY <3>1, <3>3, ImageTypes, EmptySeq DEF Sized, FileTypes
      <4>3. ASSUME losses = 0
            PROVE  /\ Len(Data) = region.size
                   /\ \A k \in 1 .. Len(Data) :
                        /\ region.addr + k - 1 \in DOMAIN mem
                        /\ WillHold(toDev, mem, region.addr + k - 1, Data[k])
        <5>1. toIo # <<>> /\ Head(toIo).op = "read"
          BY <3>1 DEF Answered
        <5>2. 1 \in DOMAIN toIo /\ Head(toIo) = toIo[1]
          BY <5>1, HeadTailProperties, LenProperties, EmptySeq DEF LineTypes
        <5>3. /\ \A k \in 1 .. region.size : /\ region.addr + k - 1 \in DOMAIN mem
                                             /\ mem[region.addr + k - 1] = Data[k]
              /\ \A j \in DOMAIN toDev : Harmless(toDev[j])
          BY <3>1, <3>3, <4>3, <5>1, <5>2 DEF ImageParts, Fresh, Data
        <5>4. \A x : WillHold(toDev, mem, x, mem[x])
          BY <5>3, HarmlessHold DEF LineTypes
        <5> QED
          BY <3>3, <5>3, <5>4
      <4> QED
        BY <3>1, <4>1, <4>2, <4>3, ImageBlock
    <3> QED
      BY <3>2, <3>3
  <2>6. CASE region_write_set_data_cb
    <3>1. /\ write_cb = "write_set_data" /\ read_cb' = read_cb /\ UNCHANGED <<mem, losses>>
          /\ WriteNextBlock(region.data)
      BY <2>6 DEF region_write_set_data_cb, Answered, boundVars
    <3>2. write_cb # None /\ read_cb' = None /\ region.data # <<>> /\ region.data \in Seq(Nat)
      BY <3>1, ImageTypes DEF OneTransfer, Sized, FileTypes, None
    <3>3. losses = 0 =>
            /\ Len(region.data) = region.size
            /\ \A k \in 1 .. Len(region.data) :
                 /\ region.addr + k - 1 \in DOMAIN mem
                 /\ WillHold(toDev, mem, region.addr + k - 1, region.data[k])
      BY <3>2 DEF ImageParts, InMemory, ImageMatches
    <3> QED
      BY <3>1, <3>2, <3>3, ImageBlock
  <2>7. CASE region_write_set_crc_cb
    <3>1. write_cb' = None /\ region_write_next_region(cmd)
      BY <2>7 DEF region_write_set_crc_cb
    <3>2. read_cb' # "write_get_data"
      BY <3>1 DEF region_write_next_region, None
    <3> QED
      BY <3>1, <3>2, NoImage
  <2> QED
    BY <1>4, <2>1, <2>2, <2>3, <2>4, <2>5, <2>6, <2>7 DEF Io
<1>5. CASE User
  <2>1. ASSUME NEW f \in Files, cmd_io_bdm_fread_region(f) \/ cmd_io_bdm_fwrite_region(f)
        PROVE  read_cb' # "write_get_data" /\ write_cb' = None
    <3>1. write_cb = None /\ write_cb' = write_cb
      BY <2>1, FileIsClosed DEF cmd_io_bdm_fread_region, cmd_io_bdm_fwrite_region
    <3>2. \/ region_read_next_region(Opened(f), <<>>, region)
          \/ region_write_next_region(Opened(f))
      BY <2>1 DEF cmd_io_bdm_fread_region, cmd_io_bdm_fwrite_region
    <3>3. read_cb' # "write_get_data"
      BY <3>2 DEF region_read_next_region, region_write_next_region, None
    <3> QED
      BY <3>1, <3>3
  <2>2. CASE NoSuchFile
    <3>1. read_cb' = None /\ write_cb' = None
      BY <2>2, FileIsClosed DEF NoSuchFile
    <3> QED
      BY <3>1, NoImage DEF None
  <2>3. CASE cmd_io_bdm_write_mem
    BY <2>3, ImagePlain
  <2> QED
    BY <1>5, <2>1, <2>2, <2>3, NoImage DEF User
<1>6. CASE UNCHANGED vars
  <2>1. /\ UNCHANGED <<region, read_cb, write_cb, losses, toDev, mem>> /\ toIo' = toIo
    BY <1>6 DEF vars, xferVars, lineVars, boundVars
  <2> QED
    BY <2>1, ImageTaken
<1> QED
  BY <1>1, <1>2, <1>3, <1>4, <1>5, <1>6 DEF Next

(* Of a file of DWORDs, what is put into the image of a region is what the *)
(* target will hold: the checksum that ends the write is that of the       *)
(* region on the target, for any lengths, blocks and answers, also ones    *)
(* that are cut off.  (A longer block overruns its neighbours.)            *)
THEOREM ImageIsTarget ==
  ASSUME CrcIsNumber, DwordBlocks
  PROVE  Spec => []ImageMatches
<1> DEFINE IInv == Control /\ Dwords /\ ImageParts
<1>1. Init => IInv
  <2> SUFFICES ASSUME Init PROVE IInv
    OBVIOUS
  <2>1. read_cb = None /\ write_cb = None
    BY DEF Init
  <2>2. Dwords
    BY OpenedDwords DEF Init, Dwords, DwordsOf
  <2>3. ImageParts
    BY <2>1 DEF ImageParts, Fresh, InMemory, ImageMatches, None
  <2> QED
    BY <2>2, <2>3, ControlInit
<1>2. IInv /\ [Next]_vars => IInv'
  BY ControlStep, DwordsStep, ImageStep
<1>3. IInv => ImageMatches
  BY DEF ImageParts
<1> QED
  BY <1>1, <1>2, <1>3, PTL DEF Spec
=============================================================================
