------------------------------ MODULE RegionXfer ------------------------------
(***************************************************************************)
(* The file commands of the AVR back-door plug-in: FRD reads regions of    *)
(* the target's memory into a report, FWR writes the blocks of a file into *)
(* regions and renews their checksum (bdm-dbg-io-avrb/io_avrb_dev_cmd.c,   *)
(* io_avrb_dev_resp.c, mem_file.c, region.c).                              *)
(*                                                                         *)
(* A transfer is a chain of callbacks: each sends one device command and   *)
(* leaves in mem_read_cb or mem_write_cb what to do with the answer.  The  *)
(* answers carry no tag, so any memory-write answer, also that of a plain  *)
(* WR8 or WR16 command, moves a file write on.                             *)
(*                                                                         *)
(* Addresses and sizes count half-words: a DWORD is two of them, high half *)
(* first.  A region begins with its checksum (1), a reserved half (1) and  *)
(* its length in bytes (2).                                                *)
(***************************************************************************)
EXTENDS Integers, Sequences, FiniteSets, SequencesExt

CONSTANTS
  Base,        \* values of a half-word (2^16 in the code)
  Files,       \* the files a user may name: sequences of Region
  Memories,    \* what the target's memory may hold at first
  Crc(_),      \* checksum of a sequence of half-words (crc16.c)
  MaxCmds,     \* bound: file commands
  MaxPlain,    \* bound: WR8 and WR16 commands
  MaxLosses,   \* bound: times the device is disconnected
  MaxRefusals  \* bound: reads the device does not answer as asked

ASSUME ConstantsAssumption ==
  /\ Base \in Nat \ {0}
  /\ MaxCmds \in Nat /\ MaxPlain \in Nat /\ MaxLosses \in Nat
  /\ MaxRefusals \in Nat

VARIABLES
  halted,    \* the process ended in a failed assertion or a NULL pointer
  cmd,       \* memf_cmd: the file being worked off
  rsp,       \* memf_rsp: the report of an FRD
  region,    \* the global region: address, size and image of its memory
  read_cb,   \* mem_read_cb
  write_cb,  \* mem_write_cb
  conn,      \* gt_flags.dev_conn is FL_SET and the device there
  toDev,     \* commands on their way to the device
  toIo,      \* answers on their way back
  mem,       \* the target's memory
  out,       \* the last report file written
  cmds, plain, losses, refusals  \* counters for the bounds

xferVars == <<halted, cmd, rsp, region, read_cb, write_cb, out>>
lineVars == <<conn, toDev, toIo, mem>>
boundVars == <<cmds, plain, losses, refusals>>
vars == <<xferVars, lineVars, boundVars>>

None == "none"
Half == 0 .. Base - 1
Word == 0 .. Base * Base - 1

(* What a file says of a region and of its blocks.  A block without an     *)
(* address is bad; one without "data" is empty, and its pointer NULL.      *)
Block == [addr : Nat, size : Nat, inc : BOOLEAN, val : Word, bad : BOOLEAN, empty : BOOLEAN]
Region == [addr : Nat, bad : BOOLEAN, auto : BOOLEAN, blocks : Seq(Block)]

ASSUME FilesAssumption == Files \subseteq Seq(Region)

(* The target's memory begins at 0 and has no gaps.                        *)
ASSUME MemoriesAssumption ==
  \A m \in Memories :
    /\ m \in [DOMAIN m -> Nat]
    /\ \A x \in DOMAIN m : x \in Nat /\ 0 .. x \subseteq DOMAIN m

(* memf_cmd: regions_it and blocks_it count what was taken already.  auto: *)
(* the current region has no "mem_blocks" (the pointer is NULL).           *)
NoFile == [open |-> FALSE, regions |-> <<>>, regions_it |-> 0, auto |-> FALSE,
           blocks |-> <<>>, blocks_it |-> 0]
NoReport == [open |-> FALSE, regions |-> <<>>]

Hi(w) == w \div Base
Lo(w) == w % Base
WordAt(d, k) == d[k] * Base + d[k + 1]

(* The half-words of memory m from address a. *)
Span(m, a, n) == [i \in 1 .. n |-> m[a + i - 1]]
Overwrite(m, a, hs) ==
  [x \in DOMAIN m |-> IF x \in a .. a + Len(hs) - 1 THEN hs[x - a + 1] ELSE m[x]]

ReadCmd(a, n) == [op |-> "read", addr |-> a, len |-> n, data |-> <<>>]
WriteCmd(a, hs) == [op |-> "write", addr |-> a, len |-> Len(hs), data |-> hs]
-----------------------------------------------------------------------------
Init ==
  /\ halted = FALSE
  /\ cmd = NoFile /\ rsp = NoReport
  /\ region = [addr |-> 0, size |-> 0, data |-> <<>>]
  /\ read_cb = None /\ write_cb = None
  /\ conn = TRUE /\ toDev = <<>> /\ toIo = <<>>
  /\ mem \in Memories
  /\ out = <<>>
  /\ cmds = 0 /\ plain = 0 /\ losses = 0 /\ refusals = 0
-----------------------------------------------------------------------------
(* The device works off its commands in order, one answer to each. *)
Answer(data) ==
  /\ toIo' = Append(toIo, [op |-> Head(toDev).op, data |-> data])
  /\ toDev' = Tail(toDev)
  /\ UNCHANGED <<conn, xferVars, cmds, plain, losses>>

DevReads ==
  /\ toDev # <<>> /\ Head(toDev).op = "read"
  /\ Answer(IF Head(toDev).addr + Head(toDev).len - 1 \in DOMAIN mem
            THEN Span(mem, Head(toDev).addr, Head(toDev).len) ELSE <<>>)
  /\ UNCHANGED <<mem, refusals>>

DevRefuses ==
  /\ toDev # <<>> /\ Head(toDev).op = "read"
  /\ refusals < MaxRefusals
  /\ refusals' = refusals + 1
  /\ Answer(<<>>)
  /\ UNCHANGED mem

DevWrites ==
  /\ toDev # <<>> /\ Head(toDev).op = "write"
  /\ mem' = Overwrite(mem, Head(toDev).addr, Head(toDev).data)
  /\ Answer(<<>>)
  /\ UNCHANGED refusals

DevLost ==
  /\ conn /\ losses < MaxLosses
  /\ losses' = losses + 1
  /\ conn' = FALSE
  /\ toDev' = <<>> /\ toIo' = <<>>
  /\ UNCHANGED <<mem, xferVars, cmds, plain, refusals>>

DevBack ==
  /\ ~conn
  /\ conn' = TRUE
  /\ UNCHANGED <<toDev, toIo, mem, xferVars, boundVars>>
-----------------------------------------------------------------------------
(* dev_tx: without a device the command is dropped, and nobody is told. *)
dev_tx(c) == toDev' = IF conn THEN Append(toDev, c) ELSE toDev
NothingSent == UNCHANGED toDev

(* Taking the next region of a file, in *_next_region. *)
HasRegion(c) == c.regions_it < Len(c.regions)
NextOf(c) == c.regions[c.regions_it + 1]
Taken(c) == [c EXCEPT !.regions_it = @ + 1, !.auto = NextOf(c).auto,
                      !.blocks = NextOf(c).blocks, !.blocks_it = 0]

(* region_read_next_region, with the report and the region as they are by  *)
(* then.  A region without an address ends the chain, and leaves the files *)
(* open.                                                                   *)
region_read_next_region(c, report, reg) ==
  \/ /\ ~HasRegion(c)
     /\ cmd' = NoFile /\ rsp' = NoReport /\ out' = report
     /\ read_cb' = None /\ NothingSent
     /\ region' = reg
  \/ /\ HasRegion(c)
     /\ cmd' = Taken(c) /\ rsp' = [open |-> TRUE, regions |-> report]
     /\ IF NextOf(c).bad
        THEN read_cb' = None /\ NothingSent /\ region' = reg
        ELSE /\ read_cb' = "read_get_len"
             /\ dev_tx(ReadCmd(NextOf(c).addr + 2, 2))
             /\ region' = [reg EXCEPT !.addr = NextOf(c).addr]
     /\ UNCHANGED out

WriteLeavesFileOpen(c) ==  \* mutant
  \/ /\ ~HasRegion(c)
     /\ read_cb' = None /\ NothingSent
     /\ UNCHANGED <<cmd, region>>
  \/ /\ HasRegion(c)
     /\ cmd' = Taken(c)
     /\ read_cb' = "write_get_len"
     /\ dev_tx(ReadCmd(NextOf(c).addr + 2, 2))
     /\ region' = [region EXCEPT !.addr = NextOf(c).addr]

(* region_write_next_region: nor does a region without blocks go on. *)
region_write_next_region(c) ==
  \/ /\ ~HasRegion(c)
     /\ cmd' = NoFile
     /\ read_cb' = None /\ NothingSent
     /\ UNCHANGED region
  \/ /\ HasRegion(c)
     /\ cmd' = Taken(c)
     /\ IF NextOf(c).auto \/ NextOf(c).bad
        THEN read_cb' = None /\ NothingSent /\ UNCHANGED region
        ELSE /\ read_cb' = "write_get_len"
             /\ dev_tx(ReadCmd(NextOf(c).addr + 2, 2))
             /\ region' = [region EXCEPT !.addr = NextOf(c).addr]

(* The user's commands.  While a file is open, both file commands return   *)
(* at once.  A report is open only together with a file (OneTransfer), so  *)
(* there is none to close first.                                           *)
SecondFileCommand ==  \* mutant
  /\ ~halted
  /\ cmds < MaxCmds
  /\ cmds' = cmds + 1
  /\ UNCHANGED <<conn, toIo, mem, plain, losses, refusals>>

FileCommand ==
  /\ ~halted /\ ~cmd.open
  /\ cmds < MaxCmds
  /\ cmds' = cmds + 1
  /\ UNCHANGED <<conn, toIo, mem, plain, losses, refusals>>

Opened(f) == [NoFile EXCEPT !.open = TRUE, !.regions = f]

cmd_io_bdm_fread_region(f) ==
  /\ FileCommand
  /\ region_read_next_region(Opened(f), <<>>, region)
  /\ UNCHANGED <<halted, write_cb>>

cmd_io_bdm_fwrite_region(f) ==
  /\ FileCommand
  /\ region_write_next_region(Opened(f))
  /\ UNCHANGED <<halted, rsp, write_cb, out>>

(* memf_cmd_init finds no file, or no "mem_regions" in it, and returns     *)
(* NULL; *_next_region looks into it.                                      *)
NoSuchFile ==
  /\ FileCommand
  /\ halted' = TRUE
  /\ UNCHANGED <<cmd, rsp, region, read_cb, write_cb, out, toDev>>

(* WR8 and WR16: the address and length of the packet stay zero. *)
cmd_io_bdm_write_mem ==
  /\ ~halted
  /\ plain < MaxPlain
  /\ plain' = plain + 1
  /\ dev_tx(WriteCmd(0, <<>>))
  /\ UNCHANGED <<xferVars, conn, toIo, mem, cmds, losses, refusals>>
-----------------------------------------------------------------------------
(* dev_response_processing *)
Answered(op) ==
  /\ ~halted
  /\ toIo # <<>> /\ Head(toIo).op = op
  /\ toIo' = Tail(toIo)
  /\ UNCHANGED <<conn, mem, boundVars>>

Data == Head(toIo).data

(* Nobody waits for the answer. *)
AnswerIgnored ==
  /\ \/ Answered("read") /\ read_cb = None
     \/ Answered("write") /\ write_cb = None
  /\ UNCHANGED <<xferVars, toDev>>

(* region_*_get_len_cb.  The length is taken from the buffer, whatever was *)
(* received: of a shorter answer, it is what lies there.                   *)
Lengths == IF Len(Data) = 2 THEN {WordAt(Data, 1)} ELSE Word

LengthNotRead(cb, next) ==  \* mutant
  /\ Answered("read") /\ read_cb = cb
  /\ region' = [region EXCEPT !.size = 8]
  /\ NothingSent
  /\ read_cb' = next
  /\ UNCHANGED <<halted, cmd, rsp, write_cb, out>>

GetLen(cb, next) ==
  /\ Answered("read") /\ read_cb = cb
  /\ \E w \in Lengths :
       /\ region' = [region EXCEPT !.size = (w + 16) \div 2]
       /\ dev_tx(ReadCmd(region.addr, (w + 16) \div 2))
  /\ read_cb' = next
  /\ UNCHANGED <<halted, cmd, rsp, write_cb, out>>

region_read_get_len_cb == GetLen("read_get_len", "read_get_data")
region_write_get_len_cb == GetLen("write_get_len", "write_get_data")

(* What a report says of a region: the blocks of the file, up to the first *)
(* malformed one, or one per DWORD.                                        *)
WellFormedBlocks(bs) ==
  LET k == SelectInSeq(bs, LAMBDA b : b.bad)
  IN IF k = 0 THEN bs ELSE SubSeq(bs, 1, k - 1)

AutoBlocks(reg) ==
  [i \in 1 .. (reg.size - 2) \div 2 |-> [addr |-> reg.addr + 2 + 2 * i, size |-> 2]]

Valid(d) == d[1] = Crc(Tail(d))                 \* region_check_crc

ReportedShort(reg, blocks, beyond) ==  \* mutant
  [addr |-> reg.addr, valid |-> Valid(reg.data),
   blocks |-> [i \in DOMAIN blocks |->
     LET off == blocks[i].addr - reg.addr
     IN [addr |-> blocks[i].addr,
         data |-> [j \in 1 .. blocks[i].size |->
                     IF off + j < Len(reg.data) THEN reg.data[off + j]
                                                ELSE beyond]]]]

Reported(reg, blocks, beyond) ==
  [addr |-> reg.addr, valid |-> Valid(reg.data),
   blocks |-> [i \in DOMAIN blocks |->
     LET off == blocks[i].addr - reg.addr
     IN [addr |-> blocks[i].addr,
         data |-> [j \in 1 .. blocks[i].size |->
                     IF off + j <= Len(reg.data) THEN reg.data[off + j]
                                                 ELSE beyond]]]]

region_read_get_data_cb ==
  /\ Answered("read") /\ read_cb = "read_get_data"
  /\ \/ /\ Len(Data) # region.size              \* "Protocol error"
        /\ read_cb' = None /\ NothingSent
        /\ UNCHANGED <<cmd, rsp, region, out>>
     \/ /\ Len(Data) = region.size
        /\ LET reg == [region EXCEPT !.data = Data]
               blocks == IF cmd.auto THEN AutoBlocks(reg)
                                     ELSE WellFormedBlocks(cmd.blocks)
           IN \E beyond \in Half :
                region_read_next_region(cmd,
                  Append(rsp.regions, Reported(reg, blocks, beyond)), reg)
  /\ UNCHANGED <<halted, write_cb>>

(* The body of region_write_set_data_cb: the next block goes into the      *)
(* image of the region and to the device; after the last one, the new      *)
(* checksum does.  The value of an empty block is read through its NULL    *)
(* pointer, which ends the process.                                        *)
OldWords(b, d) ==   \* beyond the image, it is whatever lies there
  LET k == b.addr - region.addr + 1
  IN IF {k, k + 1} \subseteq DOMAIN d THEN {WordAt(d, k)} ELSE Word

NewWordsWide(b, d) ==  \* mutant
  IF b.inc THEN {w + b.val : w \in OldWords(b, d)} ELSE {b.val}

NewWords(b, d) ==
  IF b.inc THEN {(w + b.val) % (Base * Base) : w \in OldWords(b, d)}
           ELSE {b.val}

(* The half-words of a block for the device; a block may claim to be       *)
(* longer than its DWORD.                                                  *)
BlockData(b, hs, beyond) ==
  [j \in 1 .. b.size |-> IF j <= 2 THEN hs[j] ELSE beyond]

NotInImage(d, b, hs) == d  \* mutant
InImage(d, b, hs) == Overwrite(d, b.addr - region.addr + 1, hs)

OldCrc(d) == d[1]  \* mutant
NewCrc(d) == Crc(Tail(d))                       \* region_set_crc

NextOfBlocks == cmd.blocks[cmd.blocks_it + 1]
OneBlockOn == cmd' = [cmd EXCEPT !.blocks_it = @ + 1]

WriteNextBlock(d) ==
  \/ /\ cmd.blocks_it = Len(cmd.blocks)
     /\ region' = [region EXCEPT !.data = <<NewCrc(d)>> \o Tail(d)]
     /\ dev_tx(WriteCmd(region.addr, <<NewCrc(d)>>))
     /\ write_cb' = "write_set_crc"
     /\ UNCHANGED <<halted, cmd>>
  \/ /\ cmd.blocks_it < Len(cmd.blocks) /\ NextOfBlocks.bad
     /\ region' = [region EXCEPT !.data = d]
     /\ write_cb' = None /\ NothingSent
     /\ UNCHANGED <<halted, cmd>>
  \/ /\ cmd.blocks_it < Len(cmd.blocks) /\ ~NextOfBlocks.bad /\ NextOfBlocks.empty
     /\ region' = [region EXCEPT !.data = d]
     /\ write_cb' = None /\ NothingSent
     /\ halted' = TRUE /\ OneBlockOn
  \/ /\ cmd.blocks_it < Len(cmd.blocks) /\ ~NextOfBlocks.bad /\ ~NextOfBlocks.empty
     /\ \E w \in NewWords(NextOfBlocks, d), beyond \in Half :
          /\ region' = [region EXCEPT !.data = InImage(d, NextOfBlocks, <<Hi(w), Lo(w)>>)]
          /\ dev_tx(WriteCmd(NextOfBlocks.addr, BlockData(NextOfBlocks, <<Hi(w), Lo(w)>>, beyond)))
     /\ write_cb' = "write_set_data"
     /\ OneBlockOn /\ UNCHANGED halted

(* A region of the wrong size fails an assertion of region_set_data. *)
region_write_get_data_cb ==
  /\ Answered("read") /\ read_cb = "write_get_data"
  /\ read_cb' = None
  /\ \/ /\ Len(Data) # region.size
        /\ halted' = TRUE
        /\ NothingSent
        /\ UNCHANGED <<cmd, region, write_cb>>
     \/ /\ Len(Data) = region.size
        /\ WriteNextBlock(Data)
  /\ UNCHANGED <<rsp, out>>

region_write_set_data_cb ==
  /\ Answered("write") /\ write_cb = "write_set_data"
  /\ WriteNextBlock(region.data)
  /\ UNCHANGED <<rsp, read_cb, out>>

region_write_set_crc_cb ==
  /\ Answered("write") /\ write_cb = "write_set_crc"
  /\ write_cb' = None
  /\ region_write_next_region(cmd)
  /\ UNCHANGED <<halted, rsp, out>>
-----------------------------------------------------------------------------
Device == DevReads \/ DevWrites \/ DevRefuses

Io ==
  \/ AnswerIgnored
  \/ region_read_get_len_cb \/ region_read_get_data_cb
  \/ region_write_get_len_cb \/ region_write_get_data_cb
  \/ region_write_set_data_cb \/ region_write_set_crc_cb

User ==
  \/ \E f \in Files : cmd_io_bdm_fread_region(f) \/ cmd_io_bdm_fwrite_region(f)
  \/ NoSuchFile
  \/ cmd_io_bdm_write_mem

Next == Device \/ DevLost \/ DevBack \/ Io \/ User

Spec == Init /\ [][Next]_vars

(* The device answers and the main loop takes the answers. *)
FairSpec == Spec /\ WF_vars(DevReads \/ DevWrites) /\ WF_vars(Io)
-----------------------------------------------------------------------------
(* Properties. *)

Callbacks == {None, "read_get_len", "read_get_data", "write_get_len",
              "write_get_data", "write_set_data", "write_set_crc"}

(* Every variable of the plug-in, the line and the target has its type;    *)
(* what goes into a block of the target fits its two half-words.           *)
TypeOK ==
  /\ halted \in BOOLEAN /\ conn \in BOOLEAN
  /\ cmd.open \in BOOLEAN /\ cmd.regions_it \in 0 .. Len(cmd.regions)
  /\ cmd.auto \in BOOLEAN /\ cmd.blocks_it \in 0 .. Len(cmd.blocks)
  /\ rsp.open \in BOOLEAN
  /\ region.addr \in Nat /\ region.size \in Nat /\ region.data \in Seq(Nat)
  /\ read_cb \in Callbacks /\ write_cb \in Callbacks
  /\ mem \in [DOMAIN mem -> Nat]
  /\ \A i \in DOMAIN toDev : toDev[i].len = 2 => toDev[i].data \in Seq(Half)
  /\ cmds \in Nat /\ plain \in Nat /\ losses \in Nat /\ refusals \in Nat

(* There is one transfer at a time, and it is either a read or a write: no *)
(* callback without an open file, never both, and a report exactly of a    *)
(* read.  FRD and FWR share the file, the region and the callbacks; all    *)
(* that keeps them apart is the test of memf_cmd when they start, also     *)
(* after a transfer was cut off anywhere.                                  *)
Reading == read_cb \in {"read_get_len", "read_get_data"}
Writing == read_cb \in {"write_get_len", "write_get_data"} \/ write_cb # None

OneTransfer ==
  /\ read_cb = None \/ write_cb = None
  /\ Reading => cmd.open /\ rsp.open
  /\ Writing => cmd.open /\ ~rsp.open
  /\ rsp.open => cmd.open

(* As long as the line holds, a transfer waits for exactly what is under   *)
(* way: one read if it waits for a read and none otherwise, and at least   *)
(* one write if it waits for a write (others may be a user's).             *)
Pending(q, op) == Cardinality({i \in DOMAIN q : q[i].op = op})
UnderWay(op) == Pending(toDev, op) + Pending(toIo, op)

WaitsForAnswer ==
  losses = 0 /\ ~halted =>
    /\ UnderWay("read") = IF read_cb = None THEN 0 ELSE 1
    /\ write_cb # None => UnderWay("write") > 0

(* A write that changes address x; and that address x holds v once the     *)
(* commands of q, the last one foremost, have been carried out on m.       *)
Covers(c, x) == c.op = "write" /\ x \in c.addr .. c.addr + c.len - 1

WillHold(q, m, x, v) ==
  \/ m[x] = v /\ \A i \in DOMAIN q : ~Covers(q[i], x)
  \/ \E i \in DOMAIN q :
       /\ Covers(q[i], x) /\ q[i].data[x - q[i].addr + 1] = v
       /\ \A j \in DOMAIN q : j > i => ~Covers(q[j], x)

(* io_avrb_dev_cmd.c:502 "Write data from entry to just read mem buf and   *)
(* to the device": once the writes under way have arrived, the region on   *)
(* the target is the image the checksum is computed from.                  *)
ImageMatches ==
  losses = 0 /\ write_cb # None =>
    /\ Len(region.data) = region.size
    /\ \A k \in 1 .. region.size :
         WillHold(toDev, mem, region.addr + k - 1, region.data[k])

(* A region of the target is out of step with its checksum only while a    *)
(* file write is at it: whatever mix of commands and answers, once no file *)
(* is open and the line is quiet, every region the files name is valid (if *)
(* the device answered the reads of the length as asked).                  *)
SizeIn(m, a) == (WordAt(m, a + 2) + 16) \div 2
RegionIn(m, a) == Span(m, a, SizeIn(m, a))
RegionValid(a) == Valid(RegionIn(mem, a))
Addresses == {r.addr : r \in UNION {{f[i] : i \in {j \in DOMAIN f : ~f[j].bad}} : f \in Files}}

ValidAtRest ==
  losses + refusals = 0 /\ ~cmd.open /\ toDev = <<>> => \A a \in Addresses : RegionValid(a)

(* What the checksum is for: a write that is cut off before the new        *)
(* checksum is written shows in the next report ("valid").  CRC-16 promises *)
(* that of a change within 16 bits only: a block that changes one half of  *)
(* its DWORD, as a small counter does, makes a valid region invalid.  (Of  *)
(* the changes of all 32 bits, one in 65536 leaves the checksum right.)    *)
TornWriteShows ==
  [][\A a \in Addresses :
       LET before == RegionIn(mem, a)
           after == RegionIn(mem', a)
       IN /\ after[1] = before[1] /\ Len(after) = Len(before)
          /\ Cardinality({k \in DOMAIN before : after[k] # before[k]}) = 1
          /\ Valid(before)
          => ~Valid(after)]_mem

(* A report says of the blocks of its file what the target holds when the  *)
(* report is written: the reads it was put together from are not outdated  *)
(* by a file write before it, whose last answers may still be under way.   *)
Expected(f) ==
  [i \in DOMAIN f |->
    [addr |-> f[i].addr, valid |-> RegionValid(f[i].addr),
     blocks |-> [k \in DOMAIN WellFormedBlocks(f[i].blocks) |->
       LET b == f[i].blocks[k]
       IN [addr |-> b.addr, data |-> Span(mem, b.addr, b.size)]]]]

ReportFaithful ==
  [][rsp.open /\ ~rsp'.open /\ refusals = 0 /\ (\A i \in DOMAIN cmd.regions : ~cmd.regions[i].auto)
       => out' = Expected(cmd.regions)]_vars

(* A transfer of a well-formed file comes to its end, so that the next one *)
(* may start, unless the device fails.  A file to be written is not        *)
(* well-formed if a block has no "data".                                   *)
WellFormed(f) ==
  \A i \in DOMAIN f : /\ ~f[i].bad /\ ~f[i].auto
                      /\ \A k \in DOMAIN f[i].blocks : ~f[i].blocks[k].bad
HasData(f) == \A i \in DOMAIN f : \A k \in DOMAIN f[i].blocks : ~f[i].blocks[k].empty

Completes ==
  cmd.open /\ WellFormed(cmd.regions) /\ (rsp.open \/ HasData(cmd.regions))
    ~> (~cmd.open \/ losses + refusals > 0)
=============================================================================
