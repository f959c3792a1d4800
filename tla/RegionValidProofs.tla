--------------------------- MODULE RegionValidProofs ---------------------------
(***************************************************************************)
(* ValidAtRest, for any files that fit the target: the parts of the        *)
(* invariant beyond those of RegionXferProofs follow each region of the    *)
(* target, also those that are not being written, to what it will hold     *)
(* when the commands on the line have been carried out.                    *)
(***************************************************************************)
EXTENDS RegionXferProofs, WellFoundedInduction

(* Files and memory that fit together: every region lies in the memory,    *)
(* regions do not overlap, and the blocks of a region lie in its contents, *)
(* behind the checksum and the length.                                     *)
Laid(m) ==
  /\ \A a \in Addresses : {a + 3, a + SizeIn(m, a) - 1} \subseteq DOMAIN m
  /\ \A a, b \in Addresses : a < b => a + SizeIn(m, a) <= b
  /\ \A f \in Files : \A i \in DOMAIN f : \A k \in DOMAIN f[i].blocks :
       ~f[i].bad /\ ~f[i].blocks[k].bad =>
         f[i].blocks[k].addr \in f[i].addr + 4 .. f[i].addr + SizeIn(m, f[i].addr) - 2

FilesFit ==
  \A m \in Memories : Laid(m) /\ \A a \in Addresses : Valid(RegionIn(m, a))

(* What no command on the line changes: where a region begins to be one.   *)
HeadsKept ==
  \A i \in DOMAIN toDev : \A a \in Addresses :
    ~Covers(toDev[i], a + 2) /\ ~Covers(toDev[i], a + 3)

(* The file that is open is one of the files; while it is written, the     *)
(* region is one of its regions, and the blocks are that region's.         *)
FromFile ==
  /\ cmd.open => cmd.regions \in Files
  /\ Writing =>
       /\ region.addr \in Addresses
       /\ \A k \in DOMAIN cmd.blocks : ~cmd.blocks[k].bad =>
            cmd.blocks[k].addr \in region.addr + 4 .. region.addr + SizeIn(mem, region.addr) - 2

(* The length of the region is read from where it is, and is the target's. *)
LengthRead ==
  read_cb = "write_get_len" =>
    /\ \A i \in DOMAIN toDev : toDev[i].op = "read" =>
         toDev[i].addr = region.addr + 2 /\ toDev[i].len = 2
    /\ \A i \in DOMAIN toIo : toIo[i].op = "read" =>
         Len(toIo[i].data) = 2 /\ WordAt(toIo[i].data, 1) = WordAt(mem, region.addr + 2)

Measured ==
  read_cb = "write_get_data" \/ write_cb # None => region.size = SizeIn(mem, region.addr)

(* The image that is finished has its checksum.                            *)
Summed == write_cb = "write_set_crc" => Valid(region.data)

(* Every region that is not just being written will be valid.              *)
Intact(q, m, a) ==
  \E d \in Seq(Nat) :
    /\ Len(d) = SizeIn(m, a) /\ Valid(d)
    /\ \A k \in 1 .. Len(d) : WillHold(q, m, a + k - 1, d[k])

AtWork(a) == cmd.open /\ ~rsp.open /\ a = region.addr
Untouched == \A a \in Addresses : Intact(toDev, mem, a) \/ AtWork(a)

Undisturbed == losses = 0 /\ refusals = 0
WholeParts ==
  /\ Laid(mem) /\ HeadsKept /\ FromFile /\ LengthRead /\ Measured /\ Summed /\ Untouched
Whole == Undisturbed => WholeParts
-----------------------------------------------------------------------------
(* A region lies in the memory.                                            *)
LEMMA LaidTypes ==
  ASSUME MemTypes, Laid(mem), NEW a \in Addresses
  PROVE  /\ a \in Nat /\ SizeIn(mem, a) \in Nat /\ SizeIn(mem, a) >= 8
         /\ a + 2 \in DOMAIN mem /\ a + 3 \in DOMAIN mem
         /\ \A k \in 1 .. SizeIn(mem, a) : a + k - 1 \in DOMAIN mem
<1>1. a \in Nat
  <2>1. PICK f \in Files : \E i \in DOMAIN f : a = f[i].addr
    BY DEF Addresses
  <2>2. PICK i \in DOMAIN f : a = f[i].addr
    BY <2>1
  <2>3. f[i] \in Region
    BY <2>2, FilesAssumption, ElementOfSeq, LenProperties
  <2> QED
    BY <2>2, <2>3 DEF Region
<1>2. 0 .. a + 3 \subseteq DOMAIN mem
  BY DEF Laid, MemTypes
<1>3. a + 2 \in DOMAIN mem /\ a + 3 \in DOMAIN mem
  BY <1>1, <1>2
<1> DEFINE h == mem[a + 2]
           l == mem[a + 3]
           n == SizeIn(mem, a)
<1>4. h \in Nat /\ l \in Nat
  BY <1>3 DEF MemTypes
<1>5. n = (h * Base + l + 16) \div 2
  <2>1. (a + 2) + 1 = a + 3
    BY <1>1
  <2> QED
    BY <2>1 DEF SizeIn, WordAt
<1>6. Base \in Nat
  BY ConstantsAssumption
<1> HIDE DEF h, l
<1>7. h * Base \in Nat
  BY <1>4, <1>6
<1>8. n \in Nat /\ n >= 8
  BY <1>4, <1>5, <1>7
<1>9. 0 .. a + n - 1 \subseteq DOMAIN mem
  BY DEF Laid, MemTypes
<1> HIDE DEF n
<1>10. \A k \in 1 .. n : a + k - 1 \in DOMAIN mem
  BY <1>1, <1>8, <1>9
<1> QED
  BY <1>1, <1>3, <1>8, <1>10 DEF n

(* The layout is that of the lengths in the memory.                        *)
LEMMA LaidSame ==
  ASSUME NEW m, NEW n, DOMAIN n = DOMAIN m, Laid(m),
         \A a \in Addresses : SizeIn(n, a) = SizeIn(m, a)
  PROVE  Laid(n)
<1>1. ASSUME NEW f \in Files, NEW i \in DOMAIN f, ~f[i].bad
      PROVE  f[i].addr \in Addresses
  BY <1>1 DEF Addresses
<1> HIDE DEF Addresses, SizeIn
<1> QED
  BY <1>1 DEF Laid

(* Something is sent that writes nothing, or nothing is.                   *)
Idle ==
  \/ NothingSent
  \/ \E c \in Command : (\A x : ~Covers(c, x)) /\ toDev' = Append(toDev, c)

LEMMA ReadIsIdle ==
  ASSUME conn, Sends("read")
  PROVE  Idle
BY DEF Sends, dev_tx, Idle, Covers

(* Untouched, in the next state.                                           *)
LEMMA UntouchedNext ==
  ASSUME \A a \in Addresses : Intact(toDev', mem', a) \/ AtWork(a)'
  PROVE  Untouched'
<1>1. ASSUME NEW a \in Addresses, Intact(toDev', mem', a) PROVE Intact(toDev, mem, a)'
  BY <1>1 DEF Intact, WillHold, Covers, SizeIn, WordAt
<1> QED
  BY <1>1 DEF Untouched

(* A command that covers nothing of a region leaves it intact.             *)
LEMMA IntactAppend ==
  ASSUME NEW q \in Seq(Command), NEW c \in Command, NEW m, NEW a,
         \A k \in 1 .. SizeIn(m, a) : ~Covers(c, a + k - 1), Intact(q, m, a)
  PROVE  Intact(Append(q, c), m, a)
<1>1. PICK d \in Seq(Nat) : /\ Len(d) = SizeIn(m, a) /\ Valid(d)
                            /\ \A k \in 1 .. Len(d) : WillHold(q, m, a + k - 1, d[k])
  BY DEF Intact
<1>2. \A k \in 1 .. Len(d) : WillHold(Append(q, c), m, a + k - 1, d[k])
  BY <1>1, HoldsAppend
<1> QED
  BY <1>1, <1>2 DEF Intact

LEMMA HeadsAppend ==
  ASSUME LineTypes, HeadsKept, NEW c \in Command, toDev' = Append(toDev, c),
         \A a \in Addresses : ~Covers(c, a + 2) /\ ~Covers(c, a + 3)
  PROVE  HeadsKept'
<1>1. /\ \A n \in DOMAIN toDev' : n \in DOMAIN toDev \/ n = Len(toDev) + 1
      /\ toDev'[Len(toDev) + 1] = c /\ \A n \in DOMAIN toDev : toDev'[n] = toDev[n]
  BY AppendProperties, LenProperties DEF LineTypes
<1>2. SUFFICES ASSUME NEW i \in DOMAIN toDev', NEW a \in Addresses
               PROVE  ~Covers(toDev'[i], a + 2) /\ ~Covers(toDev'[i], a + 3)
  BY DEF HeadsKept, Covers
<1> QED
  BY <1>1 DEF HeadsKept

LEMMA IdleKeeps ==
  ASSUME LineTypes, Idle, mem' = mem, HeadsKept
  PROVE  /\ HeadsKept'
         /\ \A a : Intact(toDev, mem, a) => Intact(toDev', mem', a)
<1>1. CASE NothingSent
  BY <1>1 DEF NothingSent, HeadsKept, Covers
<1>2. CASE \E c \in Command : (\A x : ~Covers(c, x)) /\ toDev' = Append(toDev, c)
  <2>1. PICK c \in Command : (\A x : ~Covers(c, x)) /\ toDev' = Append(toDev, c)
    BY <1>2
  <2> QED
    BY <2>1, IntactAppend, HeadsAppend DEF LineTypes
<1> QED
  BY <1>1, <1>2 DEF Idle
-----------------------------------------------------------------------------
(* The device. *)

(* Where a region begins, the device changes nothing.                      *)
LEMMA HeadStep ==
  ASSUME Control, Laid(mem), HeadsKept, Device, NEW a \in Addresses
  PROVE  WordAt(mem', a + 2) = WordAt(mem, a + 2) /\ SizeIn(mem', a) = SizeIn(mem, a)
<1> USE DEF Control, Types
<1>1. /\ a \in Nat /\ a + 2 \in DOMAIN mem /\ a + 3 \in DOMAIN mem
      /\ (a + 2) + 1 = a + 3
  BY LaidTypes
<1>2. mem'[a + 2] = mem[a + 2] /\ mem'[a + 3] = mem[a + 3]
  <2>1. CASE DevReads \/ DevRefuses
    BY <2>1 DEF DevReads, DevRefuses
  <2>2. CASE DevWrites
    <3> DEFINE c == Head(toDev)
    <3>1. /\ toDev # <<>> /\ c.op = "write" /\ mem' = Overwrite(mem, c.addr, c.data)
      BY <2>2 DEF DevWrites
    <3>2. c \in Command
      BY <3>1, HeadTailProperties DEF LineTypes
    <3>3. c = toDev[1] /\ 1 \in DOMAIN toDev
      BY <3>1, HeadTailProperties, LenProperties, EmptySeq DEF LineTypes
    <3>4. ~Covers(c, a + 2) /\ ~Covers(c, a + 3)
      BY <3>3 DEF HeadsKept
    <3>5. c.len = Len(c.data)
      BY <3>1, <3>2, CommandTypes
    <3> HIDE DEF c
    <3> QED
      BY <1>1, <3>1, <3>4, <3>5 DEF Covers, Overwrite
  <2> QED
    BY <2>1, <2>2 DEF Device
<1> QED
  BY <1>1, <1>2 DEF WordAt, SizeIn

LEMMA IntactDevice ==
  ASSUME Control, Laid(mem), HeadsKept, Device, NEW a \in Addresses,
         Intact(toDev, mem, a)
  PROVE  Intact(toDev', mem', a)
<1> USE DEF Control, Types
<1>1. toDev # <<>> /\ toDev' = Tail(toDev) /\ toDev \in Seq(Command)
  BY DeviceStep DEF Answers, LineTypes
<1>2. SizeIn(mem', a) = SizeIn(mem, a)
  BY HeadStep
<1>3. PICK d \in Seq(Nat) : /\ Len(d) = SizeIn(mem, a) /\ Valid(d)
                            /\ \A k \in 1 .. Len(d) : WillHold(toDev, mem, a + k - 1, d[k])
  BY DEF Intact
<1>4. ASSUME NEW k \in 1 .. Len(d)
      PROVE  WillHold(Tail(toDev), mem', a + k - 1, d[k])
  <2>1. a + k - 1 \in DOMAIN mem /\ a + k - 1 \in Int
    BY <1>3, LaidTypes
  <2>2. CASE DevReads \/ DevRefuses
    <3>1. Head(toDev).op = "read" /\ mem' = mem
      BY <2>2 DEF DevReads, DevRefuses
    <3> QED
      BY <1>1, <1>3, <2>1, <3>1, HoldsTail
  <2>3. CASE DevWrites
    <3>1. /\ Head(toDev).op = "write"
          /\ mem' = Overwrite(mem, Head(toDev).addr, Head(toDev).data)
      BY <2>3 DEF DevWrites
    <3> QED
      BY <1>1, <1>3, <2>1, <3>1, HoldsTail
  <2> QED
    BY <2>2, <2>3 DEF Device
<1> QED
  BY <1>1, <1>2, <1>3, <1>4 DEF Intact

(* What the device answers to a read of the length.                        *)
LEMMA LengthAnswered ==
  ASSUME Control, Laid(mem), region.addr \in Addresses, Device, refusals' = refusals,
         NEW r \in Response, toIo' = Append(toIo, r), r.op = "read",
         Head(toDev).op = "read" => Head(toDev).addr = region.addr + 2 /\ Head(toDev).len = 2
  PROVE  Len(r.data) = 2 /\ WordAt(r.data, 1) = WordAt(mem, region.addr + 2)
<1> USE DEF Control, Types
<1>1. toIo \in Seq(Response) /\ Len(toIo) \in Nat
  BY LenProperties DEF LineTypes
<1>2. ASSUME NEW data, Answer(data)
      PROVE  r = [op |-> Head(toDev).op, data |-> data]
  <2> DEFINE s == [op |-> Head(toDev).op, data |-> data]
  <2>1. Append(toIo, r) = Append(toIo, s)
    BY <1>2 DEF Answer
  <2> HIDE DEF s
  <2>2. Append(toIo, r)[Len(toIo) + 1] = r /\ Append(toIo, s)[Len(toIo) + 1] = s
    BY <1>1
  <2> QED
    BY <2>1, <2>2 DEF s
<1>3. CASE DevReads
  <2> DEFINE a == region.addr + 2
  <2>1. a \in Nat /\ a + 1 \in DOMAIN mem /\ a + 2 - 1 = a + 1
    BY LaidTypes
  <2>2. r.data = Span(mem, a, 2)
    BY <1>2, <1>3, <2>1 DEF DevReads
  <2> HIDE DEF a
  <2>3. Len(Span(mem, a, 2)) = 2 /\ Span(mem, a, 2)[1] = mem[a] /\ Span(mem, a, 2)[2] = mem[a + 1]
    <3>1. 1 \in 1 .. 2 /\ 2 \in 1 .. 2 /\ a + 1 - 1 = a /\ 2 \in Nat
      BY <2>1
    <3>2. /\ Len(Span(mem, a, 2)) = 2
          /\ \A k \in 1 .. 2 : Span(mem, a, 2)[k] = mem[a + k - 1]
      BY <2>1, <3>1, SpanTypes
    <3> QED
      BY <2>1, <3>1, <3>2
  <2> QED
    BY <2>2, <2>3 DEF WordAt, a
<1>4. CASE DevWrites
  BY <1>2, <1>4 DEF DevWrites
<1>5. CASE DevRefuses
  BY <1>5 DEF DevRefuses, BoundTypes
<1> QED
  BY <1>3, <1>4, <1>5 DEF Device

LEMMA WholeDevice ==
  ASSUME Control, Whole, Device
  PROVE  Whole'
<1> USE DEF Control, Types
<1>1. Answers /\ DOMAIN mem' = DOMAIN mem
  BY DeviceStep
<1>2. /\ toDev # <<>> /\ toDev' = Tail(toDev)
      /\ UNCHANGED <<cmd, rsp, region, read_cb, write_cb, losses>>
  BY <1>1 DEF Answers, xferVars
<1>3. SUFFICES ASSUME Undisturbed' PROVE WholeParts'
  BY DEF Whole
<1>4. Undisturbed /\ refusals' = refusals
  <2>1. refusals' # refusals => DevRefuses
    BY DEF Device, DevReads, DevWrites
  <2>2. DevRefuses => refusals' # 0
    BY DEF DevRefuses, BoundTypes
  <2> QED
    BY <1>2, <1>3, <2>1, <2>2 DEF Undisturbed
<1>5. /\ Laid(mem) /\ HeadsKept /\ FromFile /\ LengthRead /\ Measured /\ Summed /\ Untouched
  BY <1>4 DEF Whole, WholeParts
<1>6. \A a \in Addresses : /\ WordAt(mem', a + 2) = WordAt(mem, a + 2)
                           /\ SizeIn(mem', a) = SizeIn(mem, a)
  BY <1>5, HeadStep
<1>7. Laid(mem)'
  <2>1. Laid(mem')
    BY <1>1, <1>5, <1>6, LaidSame
  <2> QED
    BY <2>1 DEF Laid, SizeIn, WordAt
<1>8. /\ Head(toDev) = toDev[1] /\ 1 \in DOMAIN toDev
      /\ \A j \in DOMAIN toDev' : /\ j + 1 \in DOMAIN toDev /\ toDev'[j] = toDev[j + 1]
                                  /\ j + 1 > 1 /\ j \in Nat
  BY <1>2, TailCommands
<1>9. HeadsKept'
  <2>1. SUFFICES ASSUME NEW i \in DOMAIN toDev', NEW a \in Addresses
                 PROVE  ~Covers(toDev'[i], a + 2) /\ ~Covers(toDev'[i], a + 3)
    BY DEF HeadsKept, Covers
  <2> QED
    BY <1>5, <1>8, <2>1 DEF HeadsKept
<1>10. FromFile' /\ Measured' /\ Summed'
  <2>1. Writing => SizeIn(mem', region.addr) = SizeIn(mem, region.addr)
    BY <1>5, <1>6 DEF FromFile
  <2>2. FromFile'
    BY <1>2, <1>5, <2>1 DEF FromFile, Writing, SizeIn, WordAt
  <2>3. Measured'
    BY <1>2, <1>5, <2>1 DEF Measured, Writing, SizeIn, WordAt
  <2>4. Summed'
    BY <1>2, <1>5 DEF Summed, Valid
  <2> QED
    BY <2>2, <2>3, <2>4
<1>11. LengthRead'
  <2>1. SUFFICES ASSUME read_cb = "write_get_len"
                 PROVE  /\ \A i \in DOMAIN toDev' : toDev'[i].op = "read" =>
                             toDev'[i].addr = region.addr + 2 /\ toDev'[i].len = 2
                        /\ \A i \in DOMAIN toIo' : toIo'[i].op = "read" =>
                             /\ Len(toIo'[i].data) = 2
                             /\ WordAt(toIo'[i].data, 1) = WordAt(mem', region.addr + 2)
    BY <1>2 DEF LengthRead, WordAt
  <2>2. /\ \A i \in DOMAIN toDev : toDev[i].op = "read" =>
             toDev[i].addr = region.addr + 2 /\ toDev[i].len = 2
        /\ \A i \in DOMAIN toIo : toIo[i].op = "read" =>
             Len(toIo[i].data) = 2 /\ WordAt(toIo[i].data, 1) = WordAt(mem, region.addr + 2)
    BY <1>5, <2>1 DEF LengthRead
  <2>3. region.addr \in Addresses
    BY <1>5, <2>1 DEF FromFile, Writing
  <2>4. WordAt(mem', region.addr + 2) = WordAt(mem, region.addr + 2)
    BY <1>6, <2>3
  <2>5. PICK r \in Response : r.op = Head(toDev).op /\ toIo' = Append(toIo, r)
    BY <1>1 DEF Answers
  <2>6. /\ \A n \in DOMAIN toIo' : n \in DOMAIN toIo \/ n = Len(toIo) + 1
        /\ toIo'[Len(toIo) + 1] = r /\ \A n \in DOMAIN toIo : toIo'[n] = toIo[n]
    BY <2>5, AppendProperties, LenProperties DEF LineTypes
  <2>7. r.op = "read" => /\ Len(r.data) = 2
                         /\ WordAt(r.data, 1) = WordAt(mem, region.addr + 2)
    BY <1>4, <1>5, <1>8, <2>2, <2>3, <2>5, LengthAnswered
  <2>8. ASSUME NEW i \in DOMAIN toIo', toIo'[i].op = "read"
        PROVE  /\ Len(toIo'[i].data) = 2
               /\ WordAt(toIo'[i].data, 1) = WordAt(mem, region.addr + 2)
    BY <2>2, <2>6, <2>7, <2>8
  <2>9. ASSUME NEW i \in DOMAIN toDev', toDev'[i].op = "read"
        PROVE  toDev'[i].addr = region.addr + 2 /\ toDev'[i].len = 2
    BY <1>8, <2>2, <2>9
  <2> QED
    BY <2>4, <2>8, <2>9
<1>12. Untouched'
  <2>1. \A a \in Addresses : AtWork(a)' <=> AtWork(a)
    BY <1>2 DEF AtWork
  <2>2. \A a \in Addresses : Intact(toDev', mem', a) \/ AtWork(a)
    BY <1>5, IntactDevice DEF Untouched
  <2> QED
    BY <2>1, <2>2, UntouchedNext
<1> QED
  BY <1>7, <1>9, <1>10, <1>11, <1>12 DEF WholeParts
-----------------------------------------------------------------------------
(* The plug-in. *)

(* An answer nobody waits for; a command that writes nothing.              *)
LEMMA WholeTaken ==
  ASSUME Control, Whole, UNCHANGED <<cmd, rsp, region, read_cb, write_cb, mem>>,
         Undisturbed' => Undisturbed,
         \/ toIo' = toIo
         \/ toIo # <<>> /\ toIo' = Tail(toIo),
         \/ NothingSent
         \/ \E c \in Command : /\ c.op = "write" /\ \A x : ~Covers(c, x)
                               /\ toDev' = Append(toDev, c)
  PROVE  Whole'
<1> USE DEF Control, Types
<1> SUFFICES ASSUME Undisturbed' PROVE WholeParts'
  BY DEF Whole
<1>1. /\ Laid(mem) /\ HeadsKept /\ FromFile /\ LengthRead /\ Measured /\ Summed /\ Untouched
  BY DEF Whole, WholeParts
<1>2. Idle
  BY DEF Idle
<1>3. HeadsKept' /\ Laid(mem)'
  BY <1>1, <1>2, IdleKeeps DEF Laid, SizeIn, WordAt
<1>4. FromFile' /\ Measured' /\ Summed'
  BY <1>1 DEF FromFile, Measured, Summed, Writing, Valid, SizeIn, WordAt
<1>5. Untouched'
  <2>1. \A a \in Addresses : AtWork(a)' <=> AtWork(a)
    BY DEF AtWork
  <2>2. \A a \in Addresses : Intact(toDev', mem', a) \/ AtWork(a)
    BY <1>1, <1>2, IdleKeeps DEF Untouched
  <2> QED
    BY <2>1, <2>2, UntouchedNext
<1>6. \A i \in DOMAIN toIo' : \E n \in DOMAIN toIo : toIo'[i] = toIo[n]
  <2>1. CASE toIo' = toIo
    BY <2>1
  <2>2. CASE toIo # <<>> /\ toIo' = Tail(toIo)
    <3>1. \A i \in DOMAIN Tail(toIo) : i + 1 \in DOMAIN toIo /\ Tail(toIo)[i] = toIo[i + 1]
      BY <2>2, HeadTailProperties, LenProperties, EmptySeq DEF LineTypes
    <3> QED
      BY <2>2, <3>1
  <2> QED
    BY <2>1, <2>2
<1>7. \A i \in DOMAIN toDev' : toDev'[i].op = "read" =>
        i \in DOMAIN toDev /\ toDev'[i] = toDev[i]
  <2>1. CASE NothingSent
    BY <2>1 DEF NothingSent
  <2>2. CASE \E c \in Command : c.op = "write" /\ toDev' = Append(toDev, c)
    <3>1. PICK c \in Command : c.op = "write" /\ toDev' = Append(toDev, c)
      BY <2>2
    <3>2. /\ \A n \in DOMAIN toDev' : n \in DOMAIN toDev \/ n = Len(toDev) + 1
          /\ toDev'[Len(toDev) + 1] = c /\ \A n \in DOMAIN toDev : toDev'[n] = toDev[n]
      BY <3>1, AppendProperties, LenProperties DEF LineTypes
    <3>3. "read" # "write"
      OBVIOUS
    <3> QED
      BY <3>1, <3>2, <3>3
  <2> QED
    BY <2>1, <2>2
<1>8. LengthRead'
  <2>1. SUFFICES ASSUME read_cb = "write_get_len"
                 PROVE  /\ \A i \in DOMAIN toDev' : toDev'[i].op = "read" =>
                             toDev'[i].addr = region.addr + 2 /\ toDev'[i].len = 2
                        /\ \A i \in DOMAIN toIo' : toIo'[i].op = "read" =>
                             /\ Len(toIo'[i].data) = 2
                             /\ WordAt(toIo'[i].data, 1) = WordAt(mem, region.addr + 2)
    BY DEF LengthRead, WordAt
  <2>2. /\ \A i \in DOMAIN toDev : toDev[i].op = "read" =>
             toDev[i].addr = region.addr + 2 /\ toDev[i].len = 2
        /\ \A i \in DOMAIN toIo : toIo[i].op = "read" =>
             Len(toIo[i].data) = 2 /\ WordAt(toIo[i].data, 1) = WordAt(mem, region.addr + 2)
    BY <1>1, <2>1 DEF LengthRead
  <2>3. ASSUME NEW i \in DOMAIN toDev', toDev'[i].op = "read"
        PROVE  toDev'[i].addr = region.addr + 2 /\ toDev'[i].len = 2
    BY <1>7, <2>2, <2>3
  <2>4. ASSUME NEW i \in DOMAIN toIo', toIo'[i].op = "read"
        PROVE  /\ Len(toIo'[i].data) = 2
               /\ WordAt(toIo'[i].data, 1) = WordAt(mem, region.addr + 2)
    <3>1. PICK n \in DOMAIN toIo : toIo'[i] = toIo[n]
      BY <1>6
    <3> QED
      BY <2>2, <2>4, <3>1
  <2> QED
    BY <2>3, <2>4
<1> QED
  BY <1>3, <1>4, <1>5, <1>8 DEF WholeParts

(* A step after which nothing is being written, and that leaves every      *)
(* region intact or to its transfer.                                       *)
LEMMA WholeRead ==
  ASSUME Control, Whole, mem' = mem, Undisturbed' => Undisturbed, Undisturbed => Idle,
         ~Writing', cmd'.open => cmd'.regions \in Files,
         Undisturbed => \A a \in Addresses : Intact(toDev, mem, a) \/ AtWork(a)'
  PROVE  Whole'
<1> USE DEF Control, Types
<1> SUFFICES ASSUME Undisturbed' PROVE WholeParts'
  BY DEF Whole
<1>1. Laid(mem) /\ HeadsKept /\ Idle
  BY DEF Whole, WholeParts
<1>2. HeadsKept' /\ Laid(mem)'
  BY <1>1, IdleKeeps DEF Laid, SizeIn, WordAt
<1>3. FromFile' /\ LengthRead' /\ Measured' /\ Summed'
  BY DEF FromFile, LengthRead, Measured, Summed, Writing, None
<1>4. Untouched'
  <2>1. \A a \in Addresses : Intact(toDev', mem', a) \/ AtWork(a)'
    BY <1>1, IdleKeeps
  <2> QED
    BY <2>1, UntouchedNext
<1> QED
  BY <1>2, <1>3, <1>4 DEF WholeParts

(* The length is there, and the region is asked for.                       *)
LEMMA WholeAsked ==
  ASSUME Control, Whole, region_write_get_len_cb
  PROVE  Whole'
<1> USE DEF Control, Types
<1>1. GetLen("write_get_len", "write_get_data")
  BY DEF region_write_get_len_cb
<1>2. /\ Answered("read") /\ read_cb = "write_get_len" /\ read_cb' = "write_get_data"
      /\ UNCHANGED <<cmd, rsp, write_cb, mem, losses, refusals, conn>>
      /\ toIo # <<>> /\ Head(toIo).op = "read"
  BY <1>1 DEF GetLen, Answered, boundVars
<1> SUFFICES ASSUME Undisturbed' PROVE WholeParts'
  BY DEF Whole
<1>3. /\ Undisturbed /\ conn
      /\ Laid(mem) /\ HeadsKept /\ FromFile /\ LengthRead /\ Measured /\ Summed /\ Untouched
  BY <1>2 DEF Whole, WholeParts, Undisturbed, Linked
<1>4. Sends("read") /\ region'.addr = region.addr
  <2>1. ReadCmd(region'.addr, region'.size).op = "read"
    BY DEF ReadCmd
  <2> QED
    BY <1>1, <2>1, LengthTypes DEF Sends
<1>5. Idle
  BY <1>3, <1>4, ReadIsIdle
<1>6. region'.size = SizeIn(mem, region.addr)
  <2>1. Head(toIo) = toIo[1] /\ 1 \in DOMAIN toIo
    BY <1>2, HeadTailProperties, LenProperties, EmptySeq DEF LineTypes
  <2>2. Len(Data) = 2 /\ WordAt(Data, 1) = WordAt(mem, region.addr + 2)
    BY <1>2, <1>3, <2>1 DEF LengthRead, Data
  <2>3. Lengths = {WordAt(mem, region.addr + 2)}
    BY <2>2 DEF Lengths
  <2>4. region' = [region EXCEPT !.size = (WordAt(mem, region.addr + 2) + 16) \div 2]
    BY <1>1, <2>3 DEF GetLen
  <2>5. region' = [region EXCEPT !.size = SizeIn(mem, region.addr)]
    BY <2>4 DEF SizeIn
  <2> QED
    BY <2>5 DEF FileTypes, Image
<1>7. write_cb' = None
  BY <1>2 DEF OneTransfer, None
<1>8. HeadsKept' /\ Laid(mem)'
  BY <1>2, <1>3, <1>5, IdleKeeps DEF Laid, SizeIn, WordAt
<1>9. FromFile' /\ LengthRead' /\ Measured' /\ Summed'
  <2>1. Writing
    BY <1>2 DEF Writing
  <2>2. FromFile'
    BY <1>2, <1>3, <1>4, <2>1 DEF FromFile, SizeIn, WordAt
  <2>3. LengthRead'
    BY <1>2 DEF LengthRead
  <2>4. Measured'
    BY <1>2, <1>4, <1>6 DEF Measured, SizeIn, WordAt
  <2>5. Summed'
    BY <1>7 DEF Summed, None
  <2> QED
    BY <2>2, <2>3, <2>4, <2>5
<1>10. Untouched'
  <2>1. \A a \in Addresses : AtWork(a)' <=> AtWork(a)
    BY <1>2, <1>4 DEF AtWork
  <2>2. \A a \in Addresses : Intact(toDev', mem', a) \/ AtWork(a)
    BY <1>2, <1>3, <1>5, IdleKeeps DEF Untouched
  <2> QED
    BY <2>1, <2>2, UntouchedNext
<1> QED
  BY <1>8, <1>9, <1>10 DEF WholeParts
-----------------------------------------------------------------------------
(* A write of a block, or of the checksum, stays within the region, and    *)
(* off its length.                                                         *)
LEMMA BlockConfined ==
  ASSUME CrcIsNumber, Control, Dwords, conn, Laid(mem), FromFile, Writing,
         NEW d \in Seq(Nat), d # <<>>, WriteNextBlock(d), write_cb' # None
  PROVE  \E c \in Command :
           /\ toDev' = Append(toDev, c)
           /\ \A a \in Addresses :
                /\ ~Covers(c, a + 2) /\ ~Covers(c, a + 3)
                /\ a # region.addr => \A k \in 1 .. SizeIn(mem, a) : ~Covers(c, a + k - 1)
<1> USE DEF Control, Types
<1> DEFINE r == region.addr
           n == SizeIn(mem, region.addr)
<1>1. r \in Addresses /\ r \in Nat /\ n \in Nat /\ n >= 8
  BY LaidTypes DEF FromFile
<1>2. \E c \in Command :
        /\ toDev' = Append(toDev, c)
        /\ \/ c.addr = r /\ c.len = 1
           \/ c.addr \in r + 4 .. r + n - 2 /\ c.len = 2
  <2>1. CASE cmd.blocks_it = Len(cmd.blocks)
    <3> DEFINE crc == NewCrc(d)
    <3>1. crc \in Nat
      BY HeadTailProperties DEF NewCrc, CrcIsNumber
    <3>2. dev_tx(WriteCmd(region.addr, <<crc>>))
      BY <2>1 DEF WriteNextBlock
    <3> HIDE DEF crc
    <3>3. <<crc>> \in Seq(Nat) /\ Len(<<crc>>) = 1
      BY <3>1
    <3>4. Len(<<crc>>) = 2 => <<crc>> \in Seq(Half)
      BY <3>3
    <3>5. /\ WriteCmd(region.addr, <<crc>>) \in Command
          /\ WriteCmd(region.addr, <<crc>>).addr = r /\ WriteCmd(region.addr, <<crc>>).len = 1
      BY <1>1, <3>3, <3>4, WriteIsCommand, Zenon
    <3> QED
      BY <3>2, <3>5 DEF dev_tx
  <2>2. CASE cmd.blocks_it < Len(cmd.blocks)
    <3> DEFINE b == cmd.blocks[cmd.blocks_it + 1]
    <3>1. cmd.blocks_it + 1 \in DOMAIN cmd.blocks /\ b \in Block /\ b.size = 2
      BY <2>2, NextBlock DEF Block, Dwords
    <3>2. cmd.blocks_it # Len(cmd.blocks)
      BY <2>2, LenProperties DEF FileTypes, MemfCmd
    <3>3. ~b.bad
      BY <3>2 DEF WriteNextBlock, NextOfBlocks
    <3>4. b.addr \in r + 4 .. r + n - 2
      BY <3>1, <3>3 DEF FromFile
    <3>5. PICK w \in NewWords(b, d), beyond \in Half :
            dev_tx(WriteCmd(b.addr, BlockData(b, <<Hi(w), Lo(w)>>, beyond)))
      BY <3>2, <3>3 DEF WriteNextBlock, NextOfBlocks
    <3> HIDE DEF b
    <3>6. w \in Word
      BY <1>1, <3>1, NewWordTypes
    <3> DEFINE c == WriteCmd(b.addr, BlockData(b, <<Hi(w), Lo(w)>>, beyond))
    <3>7. c \in Command /\ c.addr = b.addr /\ c.len = 2
      BY <3>1, <3>6, BlockIsCommand DEF WriteCmd
    <3> HIDE DEF c
    <3>8. toDev' = Append(toDev, c)
      BY <3>5 DEF dev_tx, c
    <3> QED
      BY <3>4, <3>7, <3>8
  <2> QED
    BY <2>1, <2>2 DEF WriteNextBlock
<1>3. PICK c \in Command :
        /\ toDev' = Append(toDev, c)
        /\ \/ c.addr = r /\ c.len = 1
           \/ c.addr \in r + 4 .. r + n - 2 /\ c.len = 2
  BY <1>2
<1>4. ASSUME NEW a \in Addresses
      PROVE  /\ a \in Nat /\ SizeIn(mem, a) \in Nat /\ SizeIn(mem, a) >= 8
             /\ a < r => a + SizeIn(mem, a) <= r
             /\ r < a => r + n <= a
  BY <1>1, LaidTypes DEF Laid
<1> HIDE DEF r, n
<1>5. ASSUME NEW x \in Int, Covers(c, x)
      PROVE  x = r \/ x \in r + 4 .. r + n - 1
  <2> DEFINE y == c.addr
             l == c.len
  <2>1. x \in y .. y + l - 1
    BY <1>5 DEF Covers
  <2>2. (y = r /\ l = 1) \/ (y \in r + 4 .. r + n - 2 /\ l = 2)
    BY <1>3
  <2> HIDE DEF y, l
  <2> QED
    BY <1>1, <2>1, <2>2
<1>6. ASSUME NEW a \in Addresses
      PROVE  ~Covers(c, a + 2) /\ ~Covers(c, a + 3)
  <2>1. a + 2 \in Int /\ a + 3 \in Int
    BY <1>4
  <2>2. ~(a + 2 = r \/ a + 2 \in r + 4 .. r + n - 1)
    BY <1>1, <1>4
  <2>3. ~(a + 3 = r \/ a + 3 \in r + 4 .. r + n - 1)
    BY <1>1, <1>4
  <2> QED
    BY <1>5, <2>1, <2>2, <2>3
<1>7. ASSUME NEW a \in Addresses, a # r, NEW k \in 1 .. SizeIn(mem, a)
      PROVE  ~Covers(c, a + k - 1)
  <2>1. a + k - 1 \in Int /\ ~(a + k - 1 = r \/ a + k - 1 \in r + 4 .. r + n - 1)
    BY <1>1, <1>4, <1>7
  <2> QED
    BY <1>5, <2>1
<1> QED
  BY <1>3, <1>6, <1>7 DEF r

(* The image with its checksum.                                            *)
LEMMA ChecksumIsValid ==
  ASSUME CrcIsNumber, NEW d \in Seq(Nat), d # <<>>
  PROVE  Valid(<<NewCrc(d)>> \o Tail(d))
<1> DEFINE t == Tail(d)
           crc == Crc(t)
<1>1. t \in Seq(Nat) /\ crc \in Nat
  BY HeadTailProperties DEF CrcIsNumber
<1>2. NewCrc(d) = crc
  BY DEF NewCrc
<1> HIDE DEF crc, t
<1> DEFINE e == <<crc>> \o t
<1>3. Tail(e) = t /\ e[1] = crc
  BY <1>1
<1> HIDE DEF e
<1>4. e[1] = Crc(Tail(e))
  BY <1>3 DEF crc
<1> QED
  BY <1>2, <1>4 DEF Valid, e, t

LEMMA WholeBlock ==
  ASSUME CrcIsNumber, Control, Dwords, Whole,
         read_cb = "write_get_data" \/ write_cb # None, read_cb' = None,
         UNCHANGED <<mem, rsp, losses, refusals>>, cmd.open, ~rsp.open,
         NEW d \in Seq(Nat), d # <<>>, WriteNextBlock(d)
  PROVE  Whole'
<1> USE DEF Control, Types
<1>1. /\ region'.addr = region.addr /\ region'.size = region.size /\ cmd'.open = cmd.open
      /\ write_cb' = None => NothingSent
  BY WriteBlock DEF None
<1>2. cmd'.regions = cmd.regions /\ cmd'.blocks = cmd.blocks
  BY NextBlock DEF WriteNextBlock, OneBlockOn
<1>3. \A a \in Addresses : AtWork(a)' <=> AtWork(a)
  BY <1>1 DEF AtWork
<1>4. CASE write_cb' = None
  <2>1. Undisturbed => FromFile /\ Untouched
    BY DEF Whole, WholeParts
  <2>2. ~Writing' /\ (Undisturbed' => Undisturbed) /\ Idle
    BY <1>1, <1>4 DEF Writing, Undisturbed, None, Idle
  <2>3. Undisturbed' => WholeParts'
    <3> SUFFICES ASSUME Undisturbed' PROVE WholeParts'
      OBVIOUS
    <3>1. cmd'.open => cmd'.regions \in Files
      BY <1>1, <1>2, <2>1, <2>2 DEF FromFile
    <3>2. Undisturbed => \A a \in Addresses : Intact(toDev, mem, a) \/ AtWork(a)'
      BY <1>3, <2>1 DEF Untouched
    <3>3. Whole'
      BY <2>2, <3>1, <3>2, WholeRead
    <3> QED
      BY <3>3 DEF Whole
  <2> QED
    BY <2>3 DEF Whole
<1>5. CASE write_cb' # None
  <2> SUFFICES ASSUME Undisturbed' PROVE WholeParts'
    BY DEF Whole
  <2>1. /\ conn
        /\ Laid(mem) /\ HeadsKept /\ FromFile /\ LengthRead /\ Measured /\ Summed /\ Untouched
    BY DEF Whole, WholeParts, Undisturbed, Linked
  <2>2. Writing
    BY DEF Writing
  <2>3. PICK c \in Command :
          /\ toDev' = Append(toDev, c)
          /\ \A a \in Addresses :
               /\ ~Covers(c, a + 2) /\ ~Covers(c, a + 3)
               /\ a # region.addr => \A k \in 1 .. SizeIn(mem, a) : ~Covers(c, a + k - 1)
    BY <1>5, <2>1, <2>2, BlockConfined
  <2>4. HeadsKept' /\ Laid(mem)'
    BY <2>1, <2>3, HeadsAppend DEF Laid, SizeIn, WordAt
  <2>5. FromFile'
    BY <1>1, <1>2, <2>1, <2>2 DEF FromFile, SizeIn, WordAt
  <2>6. LengthRead' /\ Measured'
    BY <1>1, <2>1 DEF LengthRead, Measured, SizeIn, WordAt, None
  <2>7. Summed'
    <3>1. SUFFICES ASSUME write_cb' = "write_set_crc" PROVE Valid(region'.data)
      BY DEF Summed, Valid
    <3>2. region' = [region EXCEPT !.data = <<NewCrc(d)>> \o Tail(d)]
      BY <1>5, <3>1 DEF WriteNextBlock
    <3>3. region'.data = <<NewCrc(d)>> \o Tail(d)
      BY <3>2 DEF FileTypes, Image
    <3> QED
      BY <3>3, ChecksumIsValid
  <2>8. Untouched'
    <3>1. ASSUME NEW a \in Addresses PROVE Intact(toDev', mem', a) \/ AtWork(a)
      <4>1. CASE a = region.addr
        BY <4>1 DEF AtWork
      <4>2. CASE a # region.addr
        <5>1. Intact(toDev, mem, a)
          BY <2>1, <4>2 DEF Untouched, AtWork
        <5> QED
          BY <2>3, <4>2, <5>1, IntactAppend DEF LineTypes
      <4> QED
        BY <4>1, <4>2
    <3> QED
      BY <1>3, <3>1, UntouchedNext
  <2> QED
    BY <2>4, <2>5, <2>6, <2>7, <2>8 DEF WholeParts
<1> QED
  BY <1>4, <1>5

(* The next region of a file that is written.                              *)
LEMMA WholeNext ==
  ASSUME Control, Whole, NEW c \in MemfCmd, c.open, c.regions \in Files,
         ~rsp'.open, write_cb' = None, read_cb = None, ~halted,
         UNCHANGED <<mem, losses, refusals>>,
         \/ toIo' = toIo
         \/ toIo # <<>> /\ toIo' = Tail(toIo),
         region_write_next_region(c),
         Undisturbed => \A a \in Addresses : Intact(toDev, mem, a)
  PROVE  Whole'
<1> USE DEF Control, Types
<1>1. cmd'.open => cmd'.regions \in Files
  <2>1. CASE ~HasRegion(c)
    BY <2>1, OpenedTypes DEF region_write_next_region
  <2>2. CASE HasRegion(c)
    BY <2>2, TakenTypes DEF region_write_next_region
  <2> QED
    BY <2>1, <2>2
<1>2. Undisturbed' => Undisturbed
  BY DEF Undisturbed
<1>3. CASE ~HasRegion(c) \/ NextOf(c).auto \/ NextOf(c).bad
  <2>1. read_cb' = None /\ NothingSent
    BY <1>3 DEF region_write_next_region
  <2>2. Idle /\ ~Writing'
    BY <2>1 DEF Idle, Writing, None
  <2> QED
    BY <1>1, <1>2, <2>2, WholeRead
<1>4. CASE HasRegion(c) /\ ~NextOf(c).auto /\ ~NextOf(c).bad
  <2> SUFFICES ASSUME Undisturbed' PROVE WholeParts'
    BY DEF Whole
  <2>1. /\ Undisturbed /\ conn /\ Laid(mem) /\ HeadsKept
        /\ UnderWay("read") = 0
    BY <1>2 DEF Whole, WholeParts, Undisturbed, Linked, WaitsForAnswer
  <2> DEFINE r == NextOf(c).addr
             rd == ReadCmd(NextOf(c).addr + 2, 2)
  <2>2. r \in Nat /\ Taken(c).blocks = NextOf(c).blocks
    BY <1>4, TakenTypes
  <2>3. /\ cmd' = Taken(c) /\ read_cb' = "write_get_len" /\ toDev' = Append(toDev, rd)
        /\ region'.addr = r
    <3>1. /\ cmd' = Taken(c) /\ read_cb' = "write_get_len" /\ dev_tx(rd)
          /\ region' = [region EXCEPT !.addr = r]
      BY <1>4 DEF region_write_next_region
    <3> QED
      BY <2>1, <3>1 DEF dev_tx, FileTypes, Image
  <2>4. /\ rd \in Command /\ rd.op = "read" /\ rd.addr = r + 2 /\ rd.len = 2
    <3>1. r + 2 \in Nat
      BY <2>2
    <3> QED
      BY <3>1, ReadIsCommand
  <2>5. /\ r \in Addresses
        /\ \A k \in DOMAIN NextOf(c).blocks : ~NextOf(c).blocks[k].bad =>
             NextOf(c).blocks[k].addr \in r + 4 .. r + SizeIn(mem, r) - 2
    <3> DEFINE i == c.regions_it + 1
    <3>1. i \in DOMAIN c.regions /\ NextOf(c) = c.regions[i]
      BY <1>4, LenProperties DEF MemfCmd, HasRegion, NextOf
    <3>2. ~c.regions[i].bad /\ r = c.regions[i].addr
      BY <1>4, <3>1
    <3> HIDE DEF i
    <3> QED
      BY <2>1, <3>1, <3>2 DEF Addresses, Laid
  <2> HIDE DEF r, rd
  <2>6. Idle
    BY <2>3, <2>4 DEF Idle, Covers
  <2>7. HeadsKept' /\ Laid(mem)'
    BY <2>1, <2>6, IdleKeeps DEF Laid, SizeIn, WordAt
  <2>8. FromFile'
    BY <1>1, <2>2, <2>3, <2>5 DEF FromFile, SizeIn, WordAt
  <2>9. Measured' /\ Summed'
    BY <2>3 DEF Measured, Summed, None
  <2>10. Untouched'
    BY <2>1, <2>6, IdleKeeps, UntouchedNext
  <2>11. LengthRead'
    <3>1. toDev \in Seq(Command) /\ toIo \in Seq(Response)
      BY DEF LineTypes
    <3>2. Pending(toDev, "read") = 0 /\ Pending(toIo, "read") = 0
      BY <2>1, UnderWayNat DEF UnderWay
    <3>3. /\ \A i \in DOMAIN toDev : toDev[i].op # "read"
          /\ \A i \in DOMAIN toIo : toIo[i].op # "read"
      BY <3>1, <3>2, PendingNone
    <3>4. \A i \in DOMAIN toIo' : toIo'[i].op # "read"
      <4>1. CASE toIo' = toIo
        BY <3>3, <4>1
      <4>2. CASE toIo # <<>> /\ toIo' = Tail(toIo)
        <5>1. \A i \in DOMAIN Tail(toIo) : i + 1 \in DOMAIN toIo /\ Tail(toIo)[i] = toIo[i + 1]
          BY <3>1, <4>2, HeadTailProperties, LenProperties, EmptySeq
        <5> QED
          BY <3>3, <4>2, <5>1
      <4> QED
        BY <4>1, <4>2
    <3>5. /\ \A n \in DOMAIN toDev' : n \in DOMAIN toDev \/ n = Len(toDev) + 1
          /\ toDev'[Len(toDev) + 1] = rd /\ \A n \in DOMAIN toDev : toDev'[n] = toDev[n]
      BY <2>3, <2>4, <3>1, AppendProperties, LenProperties
    <3>6. \A i \in DOMAIN toDev' : toDev'[i].op = "read" => toDev'[i] = rd
      BY <3>3, <3>5
    <3> QED
      BY <2>3, <2>4, <3>4, <3>6 DEF LengthRead
  <2> QED
    BY <2>7, <2>8, <2>9, <2>10, <2>11 DEF WholeParts
<1> QED
  BY <1>3, <1>4
-----------------------------------------------------------------------------
(* The whole, step by step. *)

(* A file command begins when every region is intact.                      *)
LEMMA WholeStarted ==
  ASSUME Control, WholeParts, Whole, Undisturbed, FileCommand,
         Undisturbed' => Undisturbed, NEW f \in Files,
         cmd_io_bdm_fread_region(f) \/ cmd_io_bdm_fwrite_region(f)
  PROVE  Whole'
<1> USE DEF Control, Types
<1>1. /\ ~halted /\ ~cmd.open /\ read_cb = None /\ write_cb = None /\ ~rsp.open
      /\ UNCHANGED <<conn, toIo, mem, losses, refusals>>
  BY FileIsClosed
<1>2. \A a \in Addresses : Intact(toDev, mem, a)
  BY <1>1 DEF WholeParts, Untouched, AtWork
<1>3. /\ Opened(f) \in MemfCmd /\ Opened(f).open /\ Opened(f).regions = f
  BY OpenedTypes DEF Opened, NoFile
<1>4. CASE cmd_io_bdm_fread_region(f)
  <2>1. region_read_next_region(Opened(f), <<>>, region) /\ write_cb' = None
    BY <1>1, <1>4 DEF cmd_io_bdm_fread_region
  <2>2. \/ read_cb' = None /\ NothingSent
        \/ read_cb' = "read_get_len" /\ Sends("read") /\ cmd'.open
    BY <1>3, <2>1, ReadNext DEF FileTypes
  <2>3. Idle
    BY <2>2, ReadIsIdle DEF Linked, Undisturbed, Idle
  <2>4. ~Writing'
    BY <2>1, <2>2 DEF Writing, None
  <2>5. cmd'.open => cmd'.regions \in Files
    BY <1>3, <2>1, TakenTypes, OpenedTypes DEF region_read_next_region
  <2> QED
    BY <1>1, <1>2, <2>3, <2>4, <2>5, WholeRead
<1>5. CASE cmd_io_bdm_fwrite_region(f)
  <2>1. region_write_next_region(Opened(f)) /\ write_cb' = None /\ ~rsp'.open
    BY <1>1, <1>5 DEF cmd_io_bdm_fwrite_region
  <2> QED
    BY <1>1, <1>2, <1>3, <2>1, WholeNext
<1> QED
  BY <1>4, <1>5

(* A file that is read writes nothing.                                     *)
LEMMA WholeReport ==
  ASSUME Control, WholeParts, Whole, Undisturbed, Undisturbed' => Undisturbed,
         region_read_get_len_cb \/ region_read_get_data_cb
  PROVE  Whole'
<1> USE DEF Control, Types
<1>1. /\ mem' = mem /\ write_cb' = write_cb /\ conn
      /\ read_cb \in {"read_get_len", "read_get_data"}
  BY DEF region_read_get_len_cb, region_read_get_data_cb, GetLen, Answered, Undisturbed,
     Linked
<1>2. cmd \in MemfCmd /\ cmd.open /\ rsp.open /\ write_cb' = None
  BY <1>1 DEF OneTransfer, Reading, FileTypes, None
<1>3. \A a \in Addresses : Intact(toDev, mem, a)
  BY <1>2 DEF WholeParts, Untouched, AtWork
<1>4. cmd.regions \in Files
  BY <1>2 DEF WholeParts, FromFile
<1>5. CASE region_read_get_len_cb
  <2>1. GetLen("read_get_len", "read_get_data")
    BY <1>5 DEF region_read_get_len_cb
  <2>2. /\ cmd' = cmd /\ read_cb' = "read_get_data" /\ Sends("read")
    <3>1. ReadCmd(region'.addr, region'.size).op = "read"
      BY DEF ReadCmd
    <3>2. cmd' = cmd
      BY <2>1 DEF GetLen
    <3> QED
      BY <2>1, <3>1, <3>2, LengthTypes DEF Sends
  <2>3. Idle /\ ~Writing'
    BY <1>1, <1>2, <2>2, ReadIsIdle DEF Writing, None
  <2> QED
    BY <1>1, <1>3, <1>4, <2>2, <2>3, WholeRead
<1>6. CASE region_read_get_data_cb
  <2>1. \/ read_cb' = None /\ NothingSent /\ cmd' = cmd
        \/ \E reg \in Image : \E report : region_read_next_region(cmd, report, reg)
    <3>1. Data \in Seq(Nat) /\ region \in Image
      BY <1>6, AnsweredTypes DEF region_read_get_data_cb, FileTypes
    <3>2. CASE Len(Data) # region.size
      BY <1>6, <3>2 DEF region_read_get_data_cb
    <3>3. CASE Len(Data) = region.size
      <4> DEFINE reg == [region EXCEPT !.data = Data]
      <4>1. reg \in Image
        BY <3>1, ImageTypes
      <4>2. \E report : region_read_next_region(cmd, report, reg)
        BY <1>6, <3>3 DEF region_read_get_data_cb
      <4> QED
        BY <4>1, <4>2
    <3> QED
      BY <3>2, <3>3
  <2>2. /\ \/ read_cb' = None /\ NothingSent
           \/ read_cb' = "read_get_len" /\ Sends("read")
        /\ cmd'.open => cmd'.regions \in Files
    <3>1. CASE read_cb' = None /\ NothingSent /\ cmd' = cmd
      BY <1>4, <3>1
    <3>2. CASE \E reg \in Image : \E report : region_read_next_region(cmd, report, reg)
      <4>1. PICK reg \in Image : \E report : region_read_next_region(cmd, report, reg)
        BY <3>2
      <4>2. PICK report : region_read_next_region(cmd, report, reg)
        BY <4>1
      <4>3. cmd'.open => cmd'.regions \in Files
        BY <1>2, <1>4, <4>2, TakenTypes, OpenedTypes DEF region_read_next_region
      <4> QED
        BY <1>2, <4>2, <4>3, ReadNext
    <3> QED
      BY <2>1, <3>1, <3>2
  <2>3. Idle /\ ~Writing'
    BY <1>1, <1>2, <2>2, ReadIsIdle DEF Writing, None, Idle
  <2> QED
    BY <1>1, <1>3, <2>2, <2>3, WholeRead
<1> QED
  BY <1>5, <1>6

(* A region that is finished is intact.                                    *)
LEMMA WholeFinished ==
  ASSUME Control, ImageParts, WholeParts, Whole, Undisturbed, Undisturbed' => Undisturbed,
         region_write_set_crc_cb
  PROVE  Whole'
<1> USE DEF Control, Types
<1>1. /\ write_cb = "write_set_crc" /\ region_write_next_region(cmd) /\ write_cb' = None
      /\ UNCHANGED <<mem, losses, refusals, rsp>> /\ toIo # <<>> /\ toIo' = Tail(toIo)
      /\ ~halted
  BY DEF region_write_set_crc_cb, Answered, boundVars
<1>2. cmd \in MemfCmd /\ cmd.open /\ ~rsp.open /\ read_cb = None /\ write_cb # None
  BY <1>1 DEF OneTransfer, Writing, FileTypes, None
<1>3. ASSUME NEW a \in Addresses PROVE Intact(toDev, mem, a)
  <2>1. CASE a # region.addr
    BY <2>1 DEF WholeParts, Untouched, AtWork
  <2>2. CASE a = region.addr
    <3>1. /\ Len(region.data) = region.size
          /\ \A k \in 1 .. region.size :
               WillHold(toDev, mem, region.addr + k - 1, region.data[k])
      BY <1>2 DEF ImageParts, ImageMatches, Undisturbed
    <3>2. region.size = SizeIn(mem, region.addr) /\ Valid(region.data)
      BY <1>1, <1>2 DEF WholeParts, Measured, Summed
    <3>3. region.data \in Seq(Nat)
      BY ImageTypes DEF FileTypes
    <3> QED
      BY <2>2, <3>1, <3>2, <3>3 DEF Intact
  <2> QED
    BY <2>1, <2>2
<1>4. cmd.regions \in Files
  BY <1>2 DEF WholeParts, FromFile
<1> QED
  BY <1>1, <1>2, <1>3, <1>4, WholeNext

LEMMA WholeStep ==
  ASSUME CrcIsNumber, Control, Dwords, ImageParts, Whole, [Next]_vars
  PROVE  Whole'
<1> USE DEF Control, Types
<1>1. CASE Device
  BY <1>1, WholeDevice
<1>2. CASE DevLost \/ DevBack
  <2>1. losses' # 0
    BY <1>2 DEF DevLost, DevBack, boundVars, BoundTypes, Linked
  <2> QED
    BY <2>1 DEF Whole, Undisturbed
<1>3. CASE Io \/ User \/ UNCHANGED vars
  <2>1. UNCHANGED <<losses, refusals>>
    BY <1>3, FileIsClosed DEF Io, User, AnswerIgnored, region_read_get_len_cb,
       region_read_get_data_cb, region_write_get_len_cb, region_write_get_data_cb,
       region_write_set_data_cb, region_write_set_crc_cb, GetLen, Answered, boundVars,
       cmd_io_bdm_fread_region, cmd_io_bdm_fwrite_region, NoSuchFile,
       cmd_io_bdm_write_mem, vars
  <2>2. SUFFICES ASSUME Undisturbed PROVE Whole'
    BY <2>1 DEF Whole, Undisturbed
  <2>3. WholeParts /\ (Undisturbed' => Undisturbed)
    BY <2>2 DEF Whole
  <2>4. CASE AnswerIgnored \/ UNCHANGED vars
    <3>1. /\ UNCHANGED <<cmd, rsp, region, read_cb, write_cb, mem>> /\ NothingSent
          /\ \/ toIo' = toIo
             \/ toIo # <<>> /\ toIo' = Tail(toIo)
      BY <2>4 DEF AnswerIgnored, Answered, vars, xferVars, lineVars, boundVars, NothingSent
    <3> QED
      BY <2>3, <3>1, WholeTaken
  <2>5. CASE region_read_get_len_cb \/ region_read_get_data_cb
    BY <2>2, <2>3, <2>5, WholeReport
  <2>6. CASE region_write_get_len_cb
    BY <2>6, WholeAsked
  <2>7. CASE region_write_get_data_cb
    <3>1. /\ Answered("read") /\ read_cb = "write_get_data" /\ read_cb' = None
          /\ UNCHANGED <<mem, rsp>> /\ Data \in Seq(Nat)
      BY <2>7, AnsweredTypes DEF region_write_get_data_cb, boundVars
    <3>2. cmd.open /\ ~rsp.open /\ write_cb = None
      BY <3>1 DEF OneTransfer, Writing, None
    <3>3. CASE Len(Data) # region.size
      <4>1. NothingSent /\ UNCHANGED <<cmd, region, write_cb>>
        BY <2>7, <3>3 DEF region_write_get_data_cb
      <4>2. ~Writing' /\ Idle
        BY <3>1, <3>2, <4>1 DEF Writing, None, Idle
      <4>3. \A a \in Addresses : Intact(toDev, mem, a) \/ AtWork(a)'
        BY <2>3, <3>1, <4>1 DEF WholeParts, Untouched, AtWork
      <4>4. cmd'.open => cmd'.regions \in Files
        BY <2>3, <3>2, <4>1 DEF WholeParts, FromFile
      <4> QED
        BY <2>3, <3>1, <4>2, <4>3, <4>4, WholeRead
    <3>4. CASE Len(Data) = region.size
      <4>1. WriteNextBlock(Data)
        BY <2>7, <3>4 DEF region_write_get_data_cb
      <4>2. Data # <<>>
        BY <3>1, <3>4, ImageTypes, EmptySeq DEF Sized, FileTypes
      <4> QED
        BY <2>1, <3>1, <3>2, <4>1, <4>2, WholeBlock
    <3> QED
      BY <3>3, <3>4
  <2>8. CASE region_write_set_data_cb
    <3>1. /\ write_cb = "write_set_data" /\ UNCHANGED <<mem, rsp, read_cb>>
          /\ WriteNextBlock(region.data)
      BY <2>8 DEF region_write_set_data_cb, Answered, boundVars
    <3>2. /\ write_cb # None /\ read_cb' = None /\ cmd.open /\ ~rsp.open
          /\ region.data # <<>> /\ region.data \in Seq(Nat)
      BY <3>1, ImageTypes DEF OneTransfer, Writing, Sized, FileTypes, None
    <3> QED
      BY <2>1, <3>1, <3>2, WholeBlock
  <2>9. CASE region_write_set_crc_cb
    BY <2>2, <2>3, <2>9, WholeFinished
  <2>10. CASE \E f \in Files : cmd_io_bdm_fread_region(f) \/ cmd_io_bdm_fwrite_region(f)
    <3>1. PICK f \in Files : cmd_io_bdm_fread_region(f) \/ cmd_io_bdm_fwrite_region(f)
      BY <2>10
    <3>2. FileCommand
      BY <3>1 DEF cmd_io_bdm_fread_region, cmd_io_bdm_fwrite_region
    <3> QED
      BY <2>2, <2>3, <3>1, <3>2, WholeStarted
  <2>11. CASE NoSuchFile
    <3>1. /\ ~cmd.open /\ read_cb' = None /\ write_cb' = None /\ mem' = mem
          /\ NothingSent /\ cmd' = cmd
      BY <2>11, FileIsClosed DEF NoSuchFile, NothingSent
    <3>2. ~Writing' /\ Idle
      BY <3>1 DEF Writing, Idle, None
    <3>3. \A a \in Addresses : Intact(toDev, mem, a)
      BY <2>3, <3>1 DEF WholeParts, Untouched, AtWork
    <3> QED
      BY <2>3, <3>1, <3>2, <3>3, WholeRead
  <2>12. CASE cmd_io_bdm_write_mem
    <3> DEFINE c == WriteCmd(0, <<>>)
    <3>1. /\ UNCHANGED <<cmd, rsp, region, read_cb, write_cb, mem, toIo>> /\ dev_tx(c)
      BY <2>12 DEF cmd_io_bdm_write_mem, xferVars
    <3>2. c \in Command /\ c.op = "write" /\ Harmless(c)
      BY PlainIsCommand DEF Harmless
    <3> HIDE DEF c
    <3>3. \A x : ~Covers(c, x)
      BY <3>2, HarmlessCovers
    <3>4. toDev' = Append(toDev, c)
      BY <2>2, <3>1 DEF Undisturbed, Linked, dev_tx
    <3> QED
      BY <2>3, <3>1, <3>2, <3>3, <3>4, WholeTaken
  <2> QED
    BY <1>3, <2>4, <2>5, <2>6, <2>7, <2>8, <2>9, <2>10, <2>11, <2>12 DEF Io, User
<1> QED
  BY <1>1, <1>2, <1>3 DEF Next

(* In the beginning, every region is valid.                                *)
LEMMA WholeInit ==
  ASSUME FilesFit, Init
  PROVE  Whole
<1>1. Control
  BY ControlInit
<1>2. /\ mem \in Memories /\ toDev = <<>> /\ read_cb = None /\ write_cb = None
      /\ cmd = NoFile
  BY DEF Init
<1>3. Laid(mem) /\ \A a \in Addresses : Valid(RegionIn(mem, a))
  BY <1>2 DEF FilesFit
<1>4. DOMAIN toDev = {}
  BY <1>2, EmptySeq, LenProperties
<1>5. HeadsKept /\ LengthRead /\ Measured /\ Summed /\ FromFile
  BY <1>2, <1>4, OpenedTypes
     DEF HeadsKept, LengthRead, Measured, Summed, FromFile, Writing, None
<1>6. ASSUME NEW a \in Addresses PROVE Intact(toDev, mem, a)
  <2>1. /\ a \in Nat /\ SizeIn(mem, a) \in Nat /\ SizeIn(mem, a) >= 8 /\ MemTypes
        /\ \A k \in 1 .. SizeIn(mem, a) : a + k - 1 \in DOMAIN mem
    BY <1>1, <1>3, LaidTypes DEF Control, Types
  <2> DEFINE n == SizeIn(mem, a)
             d == Span(mem, a, n)
  <2>2. a + n - 1 \in DOMAIN mem
    BY <2>1
  <2> HIDE DEF n
  <2>3. d \in Seq(Nat) /\ Len(d) = n /\ \A k \in 1 .. n : d[k] = mem[a + k - 1]
    BY <2>1, <2>2, SpanTypes DEF n
  <2>4. Valid(d)
    BY <1>3 DEF RegionIn, n
  <2>5. \A k \in 1 .. Len(d) : WillHold(toDev, mem, a + k - 1, d[k])
    BY <1>4, <2>3 DEF WillHold
  <2> QED
    BY <2>3, <2>4, <2>5 DEF Intact, n
<1> QED
  BY <1>3, <1>5, <1>6 DEF Whole, WholeParts, Untouched

(* On a line that is quiet, what is intact is valid.                       *)
LEMMA IntactAtRest ==
  ASSUME Control, toDev = <<>>, NEW a, Intact(toDev, mem, a)
  PROVE  RegionValid(a)
<1>1. DOMAIN toDev = {}
  BY EmptySeq, LenProperties
<1>2. PICK d \in Seq(Nat) : /\ Len(d) = SizeIn(mem, a) /\ Valid(d)
                            /\ \A k \in 1 .. Len(d) : WillHold(toDev, mem, a + k - 1, d[k])
  BY DEF Intact
<1>3. \A k \in 1 .. Len(d) : d[k] = mem[a + k - 1]
  BY <1>1, <1>2 DEF WillHold
<1>4. d = [k \in 1 .. Len(d) |-> d[k]]
  BY <1>2, LenProperties
<1>5. d = RegionIn(mem, a)
  BY <1>2, <1>3, <1>4 DEF RegionIn, Span
<1> QED
  BY <1>2, <1>5 DEF RegionValid

(* Once no file is open and the line is quiet, every region of the target  *)
(* has its checksum again, whatever files were written in whatever mix     *)
(* with reads and plain writes, if the files fit the target.               *)
THEOREM TargetIsValid ==
  ASSUME CrcIsNumber, DwordBlocks, FilesFit
  PROVE  Spec => []ValidAtRest
<1> DEFINE IInv == Control /\ Dwords /\ ImageParts /\ Whole
<1>1. Init => IInv
  <2> SUFFICES ASSUME Init PROVE IInv
    OBVIOUS
  <2>1. read_cb = None /\ write_cb = None
    BY DEF Init
  <2>2. Dwords
    BY OpenedDwords DEF Init, Dwords, DwordsOf
  <2>3. ImageParts
    BY <2>1 DEF ImageParts, Fresh, InMemory, ImageMatches, None
  <2> QED
    BY <2>2, <2>3, ControlInit, WholeInit
<1>2. IInv /\ [Next]_vars => IInv'
  BY ControlStep, DwordsStep, ImageStep, WholeStep
<1>3. IInv => ValidAtRest
  <2> SUFFICES ASSUME IInv, losses + refusals = 0, ~cmd.open, toDev = <<>>,
                      NEW a \in Addresses
               PROVE  RegionValid(a)
    BY DEF ValidAtRest
  <2>1. Undisturbed
    BY DEF Control, Types, BoundTypes, Undisturbed
  <2>2. Intact(toDev, mem, a)
    BY <2>1 DEF Whole, WholeParts, Untouched, AtWork
  <2> QED
    BY <2>2, IntactAtRest
<1> QED
  BY <1>1, <1>2, <1>3, PTL DEF Spec
-----------------------------------------------------------------------------
(***************************************************************************)
(* ReportFaithful, for any files that lie in the target and any checksum:  *)
(* the report that FRD writes says of each region what the target holds    *)
(* when the file is written, although an FWR before it may have been sped  *)
(* up by an answer that was not its own, so that its writes are still      *)
(* under way when FRD begins.                                              *)
(*                                                                         *)
(* What is read is true for two reasons: a read is answered by the answer  *)
(* to itself, as no other is under way (OneRead); and by then nothing is   *)
(* written any more, as the writes of an earlier file are before it on the *)
(* line and FRD sends none (Quiet).  The rest follows the two callbacks of *)
(* FRD (AskedLength, AskedRegion) and the list they extend (SoFar).        *)
(***************************************************************************)

(* The files that are used lie in the target, whatever it holds.           *)
FilesLie == \A m \in Memories : Laid(m)

(* What holds of the regions also when the device fails: nothing sent      *)
(* moves them.                                                             *)
Settled == Laid(mem) /\ HeadsKept /\ FromFile

(* No more than one read is under way, and only if it is awaited.          *)
OneRead == UnderWay("read") <= IF read_cb = None THEN 0 ELSE 1

(* What the report is to say of a region of the file.                      *)
ReportOf(m, r) ==
  [addr |-> r.addr, valid |-> Valid(RegionIn(m, r.addr)),
   blocks |-> [k \in DOMAIN WellFormedBlocks(r.blocks) |->
     [addr |-> r.blocks[k].addr, data |-> Span(m, r.blocks[k].addr, r.blocks[k].size)]]]

NoAuto(c) == \A i \in DOMAIN c.regions : ~c.regions[i].auto
Reporting == Reading /\ refusals = 0 /\ NoAuto(cmd)

(* The region that is read is the one of the file that was taken last.     *)
AtRegion ==
  LET r == cmd.regions[cmd.regions_it]
  IN /\ cmd.regions_it > 0 /\ ~cmd.auto /\ ~r.bad
     /\ region.addr = r.addr /\ cmd.blocks = r.blocks

(* The report says of the regions before it what the target holds.         *)
SoFar == rsp.regions = [i \in 1 .. cmd.regions_it - 1 |-> ReportOf(mem, cmd.regions[i])]

(* The read under way is that of the length or of the region, and its      *)
(* answer is what the target holds.                                        *)
AskedLength ==
  /\ \A i \in DOMAIN toDev : toDev[i].op = "read" =>
       toDev[i].addr = region.addr + 2 /\ toDev[i].len = 2
  /\ \A i \in DOMAIN toIo : toIo[i].op = "read" =>
       Len(toIo[i].data) = 2 /\ WordAt(toIo[i].data, 1) = WordAt(mem, region.addr + 2)

AskedRegion ==
  /\ region.size = SizeIn(mem, region.addr)
  /\ \A i \in DOMAIN toDev : toDev[i].op = "read" =>
       toDev[i].addr = region.addr /\ toDev[i].len = region.size
  /\ \A i \in DOMAIN toIo : toIo[i].op = "read" =>
       toIo[i].data = RegionIn(mem, region.addr)

(* The writes of an earlier file are before the first read, and nothing is *)
(* written any more once it was answered.                                  *)
Behind == \A i, j \in DOMAIN toDev : toDev[i].op = "read" /\ j > i => Harmless(toDev[j])
Still == \A j \in DOMAIN toDev : Harmless(toDev[j])
Quiet ==
  /\ Behind
  /\ \/ cmd.regions_it > 1
     \/ read_cb = "read_get_data"
     \/ \E i \in DOMAIN toIo : toIo[i].op = "read"
     => Still

Report ==
  Reporting =>
    /\ AtRegion /\ SoFar /\ Quiet
    /\ read_cb = "read_get_len" => AskedLength
    /\ read_cb = "read_get_data" => AskedRegion
-----------------------------------------------------------------------------
(* The blocks a report says something of are the first ones of the file    *)
(* and well-formed.                                                        *)
LEMMA BlocksBefore ==
  ASSUME NEW bs \in Seq(Block), NEW k \in DOMAIN WellFormedBlocks(bs)
  PROVE  k \in DOMAIN bs /\ WellFormedBlocks(bs)[k] = bs[k] /\ ~bs[k].bad
<1> DEFINE S == {i \in 1 .. Len(bs) : bs[i].bad}
           f == IF S # {} THEN Min(S) ELSE 0
<1>1. Len(bs) \in Nat /\ DOMAIN bs = 1 .. Len(bs)
  BY LenProperties
<1>2. WellFormedBlocks(bs) = IF f = 0 THEN bs ELSE SubSeq(bs, 1, f - 1)
  BY DEF WellFormedBlocks, SelectInSeq
<1>3. CASE S = {}
  <2>1. WellFormedBlocks(bs) = bs
    BY <1>2, <1>3
  <2> QED
    BY <1>1, <1>3, <2>1
<1>4. CASE S # {}
  <2> DEFINE R == OpToRel(<, Nat)
  <2>1. IsWellFoundedOn(R, Nat)
    BY NatLessThanWellFounded, Zenon
  <2>2. \A a, b \in Nat : a < b => <<a, b>> \in R
    BY Zenon DEF OpToRel
  <2>3. S \subseteq Nat /\ \A i : i \in S <=> i \in 1 .. Len(bs) /\ bs[i].bad
    BY <1>1
  <2>4. f = Min(S)
    BY <1>4
  <2> HIDE DEF R, S, f
  <2>5. PICK x \in S : \A y \in S : ~(<<y, x>> \in R)
    BY <1>4, <2>1, <2>3, WFMin, Zenon
  <2>11. \A a, b \in Nat : ~(a < b) => b <= a
    OBVIOUS
  <2>6. \A y \in S : x <= y
    BY <2>2, <2>3, <2>5, <2>11
  <2>7. f \in S /\ \A y \in S : f <= y
    BY <2>4, <2>6, Zenon DEF Min
  <2>10. f \in 1 .. Len(bs) /\ \A i \in 1 .. f - 1 : i \in 1 .. Len(bs) /\ ~bs[i].bad
    BY <1>1, <2>3, <2>7
  <2>8. WellFormedBlocks(bs) = SubSeq(bs, 1, f - 1)
    BY <1>2, <2>10
  <2>9. /\ DOMAIN SubSeq(bs, 1, f - 1) = 1 .. f - 1
        /\ \A i \in 1 .. f - 1 : SubSeq(bs, 1, f - 1)[i] = bs[i]
    BY <1>1, <2>10
  <2> QED
    BY <1>1, <2>8, <2>9, <2>10
<1> QED
  BY <1>3, <1>4
-----------------------------------------------------------------------------
(* One read. *)

(* Without a device, nothing is sent.                                      *)
LEMMA SendsOrNot ==
  ASSUME NEW op, Sends(op)
  PROVE  NothingSent \/ conn
BY DEF Sends, dev_tx, NothingSent

(* A callback ran, or an answer is ignored that is not the awaited one.    *)
LEMMA OneReadAnswered ==
  ASSUME LineTypes, OneRead, NEW op, Answered(op),
         \/ NothingSent
         \/ Sends("write")
         \/ Sends("read") /\ read_cb' # None,
         \/ op = "read"
         \/ op = "write" /\ read_cb = None
         \/ NothingSent /\ read_cb' = read_cb
  PROVE  OneRead'
<1>1. /\ UnderWay("read") \in Nat
      /\ UnderWay(op) > 0
      /\ NothingSent => UnderWay("read")' = UnderWay("read") - (IF "read" = op THEN 1 ELSE 0)
      /\ \A s : conn /\ Sends(s) =>
           UnderWay("read")' = UnderWay("read") - (IF "read" = op THEN 1 ELSE 0)
                                                + (IF "read" = s THEN 1 ELSE 0)
  BY UnderWayNat, UnderWayAnswered
<1>2. UnderWay("read") <= IF read_cb = None THEN 0 ELSE 1
  BY DEF OneRead
<1>3. SUFFICES UnderWay("read")' <= IF read_cb' = None THEN 0 ELSE 1
  BY DEF OneRead
<1>4. "read" # "write"
  OBVIOUS
<1>5. CASE NothingSent
  BY <1>1, <1>2, <1>5
<1>6. CASE ~NothingSent /\ Sends("write")
  <2>1. UnderWay("read")' = UnderWay("read") - (IF "read" = op THEN 1 ELSE 0)
    BY <1>1, <1>4, <1>6, SendsOrNot
  <2> QED
    BY <1>1, <1>2, <1>6, <2>1
<1>7. CASE ~NothingSent /\ Sends("read") /\ read_cb' # None
  <2>1. UnderWay("read")' = UnderWay("read") - (IF "read" = op THEN 1 ELSE 0) + 1
    BY <1>1, <1>7, SendsOrNot
  <2> QED
    BY <1>1, <1>2, <1>7, <2>1
<1> QED
  BY <1>5, <1>6, <1>7

(* The user's commands: a file command starts when no read is awaited.     *)
LEMMA OneReadSent ==
  ASSUME LineTypes, OneRead, toIo' = toIo,
         \/ NothingSent /\ read_cb' = read_cb
         \/ Sends("write") /\ read_cb' = read_cb
         \/ read_cb = None /\ NothingSent
         \/ read_cb = None /\ Sends("read") /\ read_cb' # None
  PROVE  OneRead'
<1>1. UnderWay("read") \in Nat /\ UnderWay("read") <= IF read_cb = None THEN 0 ELSE 1
  BY UnderWayNat DEF OneRead
<1>2. SUFFICES UnderWay("read")' <= IF read_cb' = None THEN 0 ELSE 1
  BY DEF OneRead
<1>3. NothingSent => UnderWay("read")' = UnderWay("read")
  BY UnderWayUnchanged DEF NothingSent
<1>4. conn /\ Sends("read") => UnderWay("read")' = UnderWay("read") + 1
  BY UnderWaySent
<1>5. conn /\ Sends("write") => UnderWay("read")' = UnderWay("read")
  <2>1. "read" # "write"
    OBVIOUS
  <2> QED
    BY <1>1, <2>1, UnderWaySent
<1> QED
  BY <1>1, <1>3, <1>4, <1>5, SendsOrNot

(* What the answer is of a read is the only one there is.                  *)
LEMMA NoOtherRead ==
  ASSUME LineTypes, OneRead, Answered("read")
  PROVE  /\ \A i \in DOMAIN toDev : toDev[i].op # "read"
         /\ \A i \in DOMAIN toIo' : toIo'[i].op # "read"
<1>1. /\ toIo \in Seq(Response) /\ toDev \in Seq(Command) /\ toIo # <<>>
      /\ Head(toIo).op = "read" /\ toIo' = Tail(toIo)
  BY DEF LineTypes, Answered
<1>2. Tail(toIo) \in Seq(Response)
  BY <1>1, HeadTailProperties
<1>3. /\ Pending(toDev, "read") \in Nat /\ Pending(Tail(toIo), "read") \in Nat
      /\ Pending(toIo, "read") = Pending(Tail(toIo), "read") + 1
  BY <1>1, <1>2, PendingNat, PendingTail
<1>4. Pending(toDev, "read") + Pending(toIo, "read") <= 1
  BY <1>1, <1>3 DEF OneRead, UnderWay
<1>5. Pending(toDev, "read") = 0 /\ Pending(Tail(toIo), "read") = 0
  BY <1>3, <1>4
<1> QED
  BY <1>1, <1>2, <1>5, PendingNone

LEMMA NoRead ==
  ASSUME LineTypes, OneRead, read_cb = None
  PROVE  /\ \A i \in DOMAIN toDev : toDev[i].op # "read"
         /\ \A i \in DOMAIN toIo : toIo[i].op # "read"
<1>1. /\ toIo \in Seq(Response) /\ toDev \in Seq(Command)
      /\ Pending(toDev, "read") \in Nat /\ Pending(toIo, "read") \in Nat
  BY UnderWayNat DEF LineTypes
<1>2. Pending(toDev, "read") + Pending(toIo, "read") <= 0
  BY DEF OneRead, UnderWay
<1>3. Pending(toDev, "read") = 0 /\ Pending(toIo, "read") = 0
  BY <1>1, <1>2
<1> QED
  BY <1>1, <1>3, PendingNone

LEMMA OneReadStep ==
  ASSUME CrcIsNumber, Control, OneRead, [Next]_vars
  PROVE  OneRead'
<1> USE DEF Control, Types
<1>1. region \in Image /\ region.data \in Seq(Nat) /\ cmd \in MemfCmd
  BY ImageTypes DEF FileTypes
<1>2. CASE Device
  <2>1. Answers /\ read_cb' = read_cb
    BY <1>2, DeviceStep DEF Answers, xferVars
  <2> QED
    BY <2>1, UnderWayDevice DEF OneRead
<1>3. CASE DevLost
  <2>1. toDev' = <<>> /\ toIo' = <<>> /\ read_cb' = read_cb
    BY <1>3 DEF DevLost, xferVars
  <2>2. UnderWay("read")' = 0
    BY <2>1, PendingEmpty DEF UnderWay, Pending
  <2> QED
    BY <2>2 DEF OneRead
<1>4. CASE DevBack \/ UNCHANGED vars
  <2>1. UNCHANGED <<toDev, toIo, read_cb>>
    BY <1>4 DEF DevBack, vars, xferVars, lineVars
  <2> QED
    BY <2>1, UnderWayUnchanged DEF OneRead
<1>5. CASE AnswerIgnored
  <2>1. PICK op : Answered(op)
    BY <1>5 DEF AnswerIgnored
  <2>2. (op = "read" \/ op = "write") /\ NothingSent /\ read_cb' = read_cb
    BY <1>5, <2>1, AnsweredTypes DEF AnswerIgnored, Ops, NothingSent, xferVars
  <2> QED
    BY <2>1, <2>2, OneReadAnswered
<1>6. CASE region_read_get_len_cb \/ region_write_get_len_cb
  <2>1. PICK cb, next : GetLen(cb, next) /\ next # None
    BY <1>6 DEF region_read_get_len_cb, region_write_get_len_cb, None
  <2>2. Answered("read") /\ Sends("read") /\ read_cb' # None
    <3>1. ReadCmd(region'.addr, region'.size).op = "read"
      BY DEF ReadCmd
    <3> QED
      BY <2>1, <3>1, LengthTypes DEF Sends, GetLen
  <2> QED
    BY <2>2, OneReadAnswered
<1>7. CASE region_read_get_data_cb
  <2>1. Answered("read") /\ read_cb = "read_get_data" /\ Data \in Seq(Nat) /\ cmd.open
    BY <1>7, AnsweredTypes DEF region_read_get_data_cb, OneTransfer, Reading
  <2>2. NothingSent \/ (Sends("read") /\ read_cb' # None)
    <3>1. CASE Len(Data) # region.size
      <4>1. NothingSent
        BY <1>7, <3>1 DEF region_read_get_data_cb
      <4> QED
        BY <4>1
    <3>2. CASE Len(Data) = region.size
      <4> DEFINE reg == [region EXCEPT !.data = Data]
      <4>1. reg \in Image
        BY <1>1, <2>1, ImageTypes
      <4>2. PICK report : region_read_next_region(cmd, report, reg)
        BY <1>7, <3>2 DEF region_read_get_data_cb
      <4>3. \/ read_cb' = None /\ NothingSent
            \/ read_cb' = "read_get_len" /\ Sends("read") /\ cmd'.open
        BY <1>1, <2>1, <4>1, <4>2, ReadNext
      <4> QED
        BY <4>3 DEF None
    <3> QED
      BY <3>1, <3>2
  <2> QED
    BY <2>1, <2>2, OneReadAnswered
<1>8. CASE region_write_get_data_cb
  <2>1. Answered("read") /\ read_cb = "write_get_data" /\ Data \in Seq(Nat)
    BY <1>8, AnsweredTypes DEF region_write_get_data_cb
  <2>2. NothingSent \/ Sends("write")
    <3>1. CASE Len(Data) # region.size
      BY <1>8, <3>1 DEF region_write_get_data_cb
    <3>2. CASE Len(Data) = region.size
      <4>1. WriteNextBlock(Data)
        BY <1>8, <3>2 DEF region_write_get_data_cb
      <4>2. Data # <<>>
        BY <2>1, <3>2, ImageTypes, EmptySeq DEF Sized, FileTypes
      <4> QED
        BY <2>1, <4>1, <4>2, WriteBlock
    <3> QED
      BY <3>1, <3>2
  <2> QED
    BY <2>1, <2>2, OneReadAnswered
<1>9. CASE region_write_set_data_cb
  <2>1. /\ Answered("write") /\ write_cb = "write_set_data" /\ WriteNextBlock(region.data)
        /\ read_cb = None /\ region.data # <<>>
    BY <1>9 DEF region_write_set_data_cb, OneTransfer, Sized, None
  <2>2. NothingSent \/ Sends("write")
    BY <1>1, <2>1, WriteBlock
  <2> QED
    BY <2>1, <2>2, OneReadAnswered
<1>10. CASE region_write_set_crc_cb
  <2>1. /\ Answered("write") /\ write_cb = "write_set_crc" /\ region_write_next_region(cmd)
        /\ read_cb = None /\ cmd.open
    BY <1>10 DEF region_write_set_crc_cb, OneTransfer, Writing, None
  <2>3. \/ read_cb' = None /\ NothingSent
        \/ read_cb' = "write_get_len" /\ Sends("read") /\ cmd'.open
    BY <1>1, <2>1, WriteNext
  <2>2. NothingSent \/ (Sends("read") /\ read_cb' # None)
    BY <2>3 DEF None
  <2> QED
    BY <2>1, <2>2, OneReadAnswered
<1>11. CASE \E f \in Files : cmd_io_bdm_fread_region(f) \/ cmd_io_bdm_fwrite_region(f)
  <2>1. PICK f \in Files : cmd_io_bdm_fread_region(f) \/ cmd_io_bdm_fwrite_region(f)
    BY <1>11
  <2>2. read_cb = None /\ toIo' = toIo /\ Opened(f) \in MemfCmd /\ Opened(f).open
    BY <2>1, FileIsClosed, OpenedTypes
       DEF cmd_io_bdm_fread_region, cmd_io_bdm_fwrite_region
  <2>3. \/ read_cb' = None /\ NothingSent
        \/ Sends("read") /\ read_cb' # None
    <3>1. CASE cmd_io_bdm_fread_region(f)
      BY <1>1, <2>2, <3>1, ReadNext DEF cmd_io_bdm_fread_region, None
    <3>2. CASE cmd_io_bdm_fwrite_region(f)
      BY <1>1, <2>2, <3>2, WriteNext DEF cmd_io_bdm_fwrite_region, None
    <3> QED
      BY <2>1, <3>1, <3>2
  <2> QED
    BY <2>2, <2>3, OneReadSent
<1>12. CASE NoSuchFile
  <2>1. NothingSent /\ read_cb' = read_cb /\ toIo' = toIo
    BY <1>12, FileIsClosed DEF NoSuchFile, NothingSent
  <2> QED
    BY <2>1, OneReadSent
<1>13. CASE cmd_io_bdm_write_mem
  <2>1. dev_tx(WriteCmd(0, <<>>)) /\ read_cb' = read_cb /\ toIo' = toIo
    BY <1>13 DEF cmd_io_bdm_write_mem, xferVars
  <2>2. Sends("write")
    BY <2>1, PlainIsCommand DEF Sends
  <2> QED
    BY <2>1, <2>2, OneReadSent
<1> QED
  BY <1>2, <1>3, <1>4, <1>5, <1>6, <1>7, <1>8, <1>9, <1>10, <1>11, <1>12, <1>13
     DEF Next, Io, User
-----------------------------------------------------------------------------
(* Where the regions begin, and from where the blocks are. *)

LEMMA SettledKept ==
  ASSUME LineTypes, Settled, mem' = mem, NothingSent \/ Sends("read") \/ Idle, FromFile'
  PROVE  Settled'
<1>1. Idle
  <2>1. Sends("read") => NothingSent \/ conn
    BY SendsOrNot
  <2> QED
    BY <2>1, ReadIsIdle DEF Idle
<1>2. HeadsKept' /\ Laid(mem)'
  BY <1>1, IdleKeeps DEF Settled, Laid, SizeIn, WordAt
<1> QED
  BY <1>2 DEF Settled

(* Nothing is being written, or the next region of the file is.            *)
LEMMA FromFileRead ==
  ASSUME ~Writing', cmd'.open => cmd'.regions \in Files
  PROVE  FromFile'
BY DEF FromFile, Writing

LEMMA FromFileNext ==
  ASSUME Laid(mem), mem' = mem, NEW c \in MemfCmd, c.open, c.regions \in Files,
         region \in Image, write_cb' = None, region_write_next_region(c)
  PROVE  FromFile'
<1>1. CASE ~HasRegion(c)
  BY <1>1, OpenedTypes, FromFileRead DEF region_write_next_region, Writing, None
<1>2. CASE HasRegion(c) /\ (NextOf(c).auto \/ NextOf(c).bad)
  BY <1>2, TakenTypes, FromFileRead DEF region_write_next_region, Writing, None
<1>3. CASE HasRegion(c) /\ ~(NextOf(c).auto \/ NextOf(c).bad)
  <2> DEFINE r == NextOf(c).addr
  <2>1. /\ r \in Nat /\ Taken(c).blocks = NextOf(c).blocks /\ Taken(c).regions = c.regions
    BY <1>3, TakenTypes
  <2>2. cmd' = Taken(c) /\ region'.addr = r
    <3>1. cmd' = Taken(c) /\ region' = [region EXCEPT !.addr = r]
      BY <1>3 DEF region_write_next_region
    <3> QED
      BY <3>1 DEF Image
  <2>3. /\ r \in Addresses
        /\ \A k \in DOMAIN NextOf(c).blocks : ~NextOf(c).blocks[k].bad =>
             NextOf(c).blocks[k].addr \in r + 4 .. r + SizeIn(mem, r) - 2
    <3> DEFINE i == c.regions_it + 1
    <3>1. i \in DOMAIN c.regions /\ NextOf(c) = c.regions[i]
      BY <1>3, LenProperties DEF MemfCmd, HasRegion, NextOf
    <3>2. ~c.regions[i].bad /\ r = c.regions[i].addr
      BY <1>3, <3>1
    <3> HIDE DEF i
    <3> QED
      BY <3>1, <3>2 DEF Addresses, Laid
  <2> HIDE DEF r
  <2> QED
    BY <2>1, <2>2, <2>3 DEF FromFile, SizeIn, WordAt
<1> QED
  BY <1>1, <1>2, <1>3

LEMMA SettledDevice ==
  ASSUME Control, Settled, Device
  PROVE  Settled'
<1> USE DEF Control, Types
<1>1. Laid(mem) /\ HeadsKept /\ FromFile
  BY DEF Settled
<1>2. /\ DOMAIN mem' = DOMAIN mem /\ toDev # <<>> /\ toDev' = Tail(toDev)
      /\ UNCHANGED <<cmd, region, read_cb, write_cb>>
  BY DeviceStep DEF Answers, xferVars
<1>3. \A a \in Addresses : SizeIn(mem', a) = SizeIn(mem, a)
  BY <1>1, HeadStep
<1>4. Laid(mem)'
  <2>1. Laid(mem')
    BY <1>1, <1>2, <1>3, LaidSame
  <2> QED
    BY <2>1 DEF Laid, SizeIn, WordAt
<1>5. \A j \in DOMAIN toDev' : j + 1 \in DOMAIN toDev /\ toDev'[j] = toDev[j + 1]
  BY <1>2, TailCommands
<1>6. HeadsKept'
  <2>1. SUFFICES ASSUME NEW i \in DOMAIN toDev', NEW a \in Addresses
                 PROVE  ~Covers(toDev'[i], a + 2) /\ ~Covers(toDev'[i], a + 3)
    BY DEF HeadsKept, Covers
  <2> QED
    BY <1>1, <1>5, <2>1 DEF HeadsKept
<1>7. FromFile'
  <2>1. Writing => SizeIn(mem', region.addr) = SizeIn(mem, region.addr)
    BY <1>1, <1>3 DEF FromFile
  <2> QED
    BY <1>1, <1>2, <2>1 DEF FromFile, Writing, SizeIn, WordAt
<1> QED
  BY <1>4, <1>6, <1>7 DEF Settled

LEMMA SettledBlock ==
  ASSUME CrcIsNumber, Control, Dwords, Settled, mem' = mem, Writing, cmd.open,
         read_cb' = None, NEW d \in Seq(Nat), d # <<>>, WriteNextBlock(d)
  PROVE  Settled'
<1> USE DEF Control, Types
<1>1. /\ region'.addr = region.addr /\ cmd'.open
      /\ \/ write_cb' = None /\ NothingSent
         \/ write_cb' # None /\ Sends("write")
  BY WriteBlock DEF None
<1>2. cmd'.regions = cmd.regions /\ cmd'.blocks = cmd.blocks
  BY NextBlock DEF WriteNextBlock, OneBlockOn
<1>3. Laid(mem) /\ HeadsKept /\ FromFile
  BY DEF Settled
<1>4. FromFile'
  BY <1>1, <1>2, <1>3 DEF FromFile, SizeIn, WordAt
<1>5. CASE NothingSent
  BY <1>4, <1>5, SettledKept
<1>6. CASE ~NothingSent
  <2>1. conn /\ write_cb' # None
    BY <1>1, <1>6, SendsOrNot
  <2>2. PICK c \in Command :
          /\ toDev' = Append(toDev, c)
          /\ \A a \in Addresses : ~Covers(c, a + 2) /\ ~Covers(c, a + 3)
    BY <1>3, <2>1, BlockConfined
  <2> QED
    BY <1>3, <1>4, <2>2, HeadsAppend DEF Settled, Laid, SizeIn, WordAt
<1> QED
  BY <1>5, <1>6

LEMMA SettledStep ==
  ASSUME CrcIsNumber, Control, Dwords, Settled, [Next]_vars
  PROVE  Settled'
<1> USE DEF Control, Types
<1>1. region \in Image /\ region.data \in Seq(Nat) /\ cmd \in MemfCmd
  BY ImageTypes DEF FileTypes
<1>2. Laid(mem) /\ FromFile
  BY DEF Settled
<1>3. CASE Device
  BY <1>3, SettledDevice
<1>4. CASE DevLost
  <2>1. toDev' = <<>> /\ UNCHANGED <<mem, cmd, region, read_cb, write_cb>>
    BY <1>4 DEF DevLost, xferVars
  <2>2. HeadsKept'
    BY <2>1, EmptySeq, LenProperties DEF HeadsKept
  <2> QED
    BY <2>1, <2>2 DEF Settled, Laid, FromFile, Writing, SizeIn, WordAt
<1>5. CASE DevBack \/ AnswerIgnored \/ NoSuchFile \/ UNCHANGED vars
  <2>1. UNCHANGED <<mem, cmd, region, read_cb, write_cb>> /\ NothingSent
    BY <1>5, FileIsClosed DEF DevBack, AnswerIgnored, Answered, NoSuchFile, NothingSent,
       vars, xferVars, lineVars
  <2>2. FromFile'
    BY <1>2, <2>1 DEF FromFile, Writing, SizeIn, WordAt
  <2> QED
    BY <2>1, <2>2, SettledKept
<1>6. CASE region_read_get_len_cb \/ region_read_get_data_cb
  <2>1. /\ mem' = mem /\ write_cb' = write_cb
        /\ read_cb \in {"read_get_len", "read_get_data"}
    BY <1>6 DEF region_read_get_len_cb, region_read_get_data_cb, GetLen, Answered
  <2>2. cmd.open /\ write_cb' = None
    BY <2>1 DEF OneTransfer, Reading, None
  <2>3. cmd.regions \in Files
    BY <1>2, <2>2 DEF FromFile
  <2>4. CASE region_read_get_len_cb
    <3>1. GetLen("read_get_len", "read_get_data")
      BY <2>4 DEF region_read_get_len_cb
    <3>2. cmd' = cmd /\ read_cb' = "read_get_data" /\ Sends("read")
      <4>1. ReadCmd(region'.addr, region'.size).op = "read"
        BY DEF ReadCmd
      <4>2. cmd' = cmd
        BY <3>1 DEF GetLen
      <4> QED
        BY <3>1, <4>1, <4>2, LengthTypes DEF Sends
    <3>3. ~Writing'
      BY <2>2, <3>2 DEF Writing, None
    <3> QED
      BY <2>1, <2>3, <3>2, <3>3, FromFileRead, SettledKept
  <2>5. CASE region_read_get_data_cb
    <3>1. Data \in Seq(Nat)
      BY <2>5, AnsweredTypes DEF region_read_get_data_cb
    <3>2. CASE Len(Data) # region.size
      <4>1. read_cb' = None /\ NothingSent /\ cmd' = cmd
        BY <2>5, <3>2 DEF region_read_get_data_cb
      <4>2. ~Writing'
        BY <2>2, <4>1 DEF Writing, None
      <4> QED
        BY <2>1, <2>3, <4>1, <4>2, FromFileRead, SettledKept
    <3>3. CASE Len(Data) = region.size
      <4> DEFINE reg == [region EXCEPT !.data = Data]
      <4>1. reg \in Image
        BY <1>1, <3>1, ImageTypes
      <4>2. PICK report : region_read_next_region(cmd, report, reg)
        BY <2>5, <3>3 DEF region_read_get_data_cb
      <4>3. \/ read_cb' = None /\ NothingSent
            \/ read_cb' = "read_get_len" /\ Sends("read") /\ cmd'.open
        BY <1>1, <2>2, <4>1, <4>2, ReadNext
      <4>4. cmd'.open => cmd'.regions \in Files
        BY <1>1, <2>3, <4>2, TakenTypes, OpenedTypes DEF region_read_next_region
      <4>5. ~Writing'
        BY <2>2, <4>3 DEF Writing, None
      <4> QED
        BY <2>1, <4>3, <4>4, <4>5, FromFileRead, SettledKept
    <3> QED
      BY <3>2, <3>3
  <2> QED
    BY <1>6, <2>4, <2>5
<1>7. CASE region_write_get_len_cb
  <2>1. GetLen("write_get_len", "write_get_data")
    BY <1>7 DEF region_write_get_len_cb
  <2>2. /\ region'.addr = region.addr /\ Sends("read")
    <3>1. ReadCmd(region'.addr, region'.size).op = "read"
      BY DEF ReadCmd
    <3> QED
      BY <2>1, <3>1, LengthTypes DEF Sends
  <2>3. cmd' = cmd /\ mem' = mem /\ read_cb = "write_get_len"
    BY <2>1 DEF GetLen, Answered
  <2>4. FromFile'
    BY <1>2, <2>2, <2>3 DEF FromFile, Writing, SizeIn, WordAt
  <2> QED
    BY <2>2, <2>3, <2>4, SettledKept
<1>8. CASE region_write_get_data_cb
  <2>1. /\ Answered("read") /\ read_cb = "write_get_data" /\ read_cb' = None
        /\ mem' = mem /\ Data \in Seq(Nat)
    BY <1>8, AnsweredTypes DEF region_write_get_data_cb
  <2>2. Writing /\ cmd.open /\ write_cb = None
    BY <2>1 DEF OneTransfer, Writing, None
  <2>3. CASE Len(Data) # region.size
    <3>1. NothingSent /\ UNCHANGED <<cmd, region, write_cb>>
      BY <1>8, <2>3 DEF region_write_get_data_cb
    <3>2. ~Writing'
      BY <2>1, <2>2, <3>1 DEF Writing, None
    <3>3. FromFile'
      BY <1>2, <3>1, <3>2, FromFileRead DEF FromFile
    <3> QED
      BY <2>1, <3>1, <3>3, SettledKept
  <2>4. CASE Len(Data) = region.size
    <3>1. WriteNextBlock(Data)
      BY <1>8, <2>4 DEF region_write_get_data_cb
    <3>2. Data # <<>>
      BY <2>1, <2>4, ImageTypes, EmptySeq DEF Sized, FileTypes
    <3> QED
      BY <2>1, <2>2, <3>1, <3>2, SettledBlock
  <2> QED
    BY <2>3, <2>4
<1>9. CASE region_write_set_data_cb
  <2>1. /\ write_cb = "write_set_data" /\ UNCHANGED <<mem, read_cb>>
        /\ WriteNextBlock(region.data)
    BY <1>9 DEF region_write_set_data_cb, Answered
  <2>2. Writing /\ read_cb' = None /\ cmd.open /\ region.data # <<>>
    BY <2>1 DEF OneTransfer, Writing, Sized, None
  <2> QED
    BY <1>1, <2>1, <2>2, SettledBlock
<1>10. ASSUME NEW c \in MemfCmd, c.open, c.regions \in Files, region_write_next_region(c),
              write_cb' = None, mem' = mem
       PROVE  Settled'
  <2>1. FromFile'
    BY <1>1, <1>2, <1>10, FromFileNext
  <2>2. NothingSent \/ Sends("read")
    BY <1>1, <1>10, WriteNext
  <2> QED
    BY <1>10, <2>1, <2>2, SettledKept
<1>11. CASE region_write_set_crc_cb
  <2>1. /\ write_cb = "write_set_crc" /\ region_write_next_region(cmd) /\ write_cb' = None
        /\ mem' = mem
    BY <1>11 DEF region_write_set_crc_cb, Answered
  <2>2. cmd.open
    BY <2>1 DEF OneTransfer, Writing, None
  <2> QED
    BY <1>1, <1>2, <1>10, <2>1, <2>2 DEF FromFile
<1>12. CASE \E f \in Files : cmd_io_bdm_fread_region(f) \/ cmd_io_bdm_fwrite_region(f)
  <2>1. PICK f \in Files : cmd_io_bdm_fread_region(f) \/ cmd_io_bdm_fwrite_region(f)
    BY <1>12
  <2>2. read_cb = None /\ write_cb = None /\ mem' = mem
    BY <2>1, FileIsClosed DEF cmd_io_bdm_fread_region, cmd_io_bdm_fwrite_region
  <2>3. Opened(f) \in MemfCmd /\ Opened(f).open /\ Opened(f).regions = f
    BY OpenedTypes DEF Opened, NoFile
  <2>4. CASE cmd_io_bdm_fread_region(f)
    <3>1. region_read_next_region(Opened(f), <<>>, region) /\ write_cb' = None
      BY <2>2, <2>4 DEF cmd_io_bdm_fread_region
    <3>2. \/ read_cb' = None /\ NothingSent
          \/ read_cb' = "read_get_len" /\ Sends("read") /\ cmd'.open
      BY <1>1, <2>3, <3>1, ReadNext
    <3>3. cmd'.open => cmd'.regions \in Files
      BY <2>3, <3>1, TakenTypes, OpenedTypes DEF region_read_next_region
    <3>4. ~Writing'
      BY <3>1, <3>2 DEF Writing, None
    <3> QED
      BY <2>2, <3>2, <3>3, <3>4, FromFileRead, SettledKept
  <2>5. CASE cmd_io_bdm_fwrite_region(f)
    BY <1>10, <2>2, <2>3, <2>5 DEF cmd_io_bdm_fwrite_region
  <2> QED
    BY <2>1, <2>4, <2>5
<1>13. CASE cmd_io_bdm_write_mem
  <2> DEFINE c == WriteCmd(0, <<>>)
  <2>1. UNCHANGED <<cmd, region, read_cb, write_cb, mem>> /\ dev_tx(c)
    BY <1>13 DEF cmd_io_bdm_write_mem, xferVars
  <2>2. c \in Command /\ Harmless(c)
    BY PlainIsCommand DEF Harmless
  <2> HIDE DEF c
  <2>3. Idle
    BY <2>1, <2>2, HarmlessCovers DEF Idle, dev_tx, NothingSent
  <2>4. FromFile'
    BY <1>2, <2>1 DEF FromFile, Writing, SizeIn, WordAt
  <2> QED
    BY <2>1, <2>3, <2>4, SettledKept
<1> QED
  BY <1>3, <1>4, <1>5, <1>6, <1>7, <1>8, <1>9, <1>11, <1>12, <1>13 DEF Next, Io, User
-----------------------------------------------------------------------------
(* The report. *)

LEMMA HarmlessSame ==
  ASSUME Types, Device, Harmless(Head(toDev))
  PROVE  mem' = mem
<1>1. \A x \in DOMAIN mem : mem'[x] = mem[x]
  BY HarmlessStep
<1>2. DOMAIN mem' = DOMAIN mem /\ MemTypes'
  BY DeviceStep
<1>3. mem' \in [DOMAIN mem -> Nat] /\ mem \in [DOMAIN mem -> Nat]
  BY <1>2 DEF Types, MemTypes
<1> QED
  BY <1>1, <1>3

(* The region that is read is one of the files.                            *)
LEMMA CurrentRegion ==
  ASSUME Control, FromFile, Reading, AtRegion
  PROVE  /\ cmd.regions_it \in DOMAIN cmd.regions
         /\ cmd.regions[cmd.regions_it] \in Region
         /\ cmd.regions \in Files /\ region.addr \in Addresses
<1> DEFINE i == cmd.regions_it
<1>1. cmd \in MemfCmd /\ cmd.open
  BY DEF Control, Types, FileTypes, OneTransfer
<1>2. /\ cmd.regions \in Seq(Region) /\ DOMAIN cmd.regions = 1 .. Len(cmd.regions)
      /\ Len(cmd.regions) \in Nat /\ i \in Nat /\ i <= Len(cmd.regions)
  BY <1>1, LenProperties DEF MemfCmd
<1>3. i > 0 /\ ~cmd.regions[i].bad /\ region.addr = cmd.regions[i].addr
  BY DEF AtRegion
<1>4. cmd.regions \in Files
  BY <1>1 DEF FromFile
<1>5. i \in DOMAIN cmd.regions
  BY <1>2, <1>3
<1> HIDE DEF i
<1>6. cmd.regions[i] \in Region
  BY <1>2, <1>5, ElementOfSeq
<1>7. region.addr \in Addresses
  BY <1>3, <1>4, <1>5 DEF Addresses
<1> QED
  BY <1>4, <1>5, <1>6, <1>7 DEF i

(* What the device answers to a read of the region.                        *)
LEMMA RegionAnswered ==
  ASSUME Control, Laid(mem), region.addr \in Addresses, Device, refusals' = refusals,
         NEW r \in Response, toIo' = Append(toIo, r), r.op = "read",
         Head(toDev).op = "read" =>
           Head(toDev).addr = region.addr /\ Head(toDev).len = SizeIn(mem, region.addr)
  PROVE  r.data = RegionIn(mem, region.addr)
<1> USE DEF Control, Types
<1>1. toIo \in Seq(Response) /\ Len(toIo) \in Nat
  BY LenProperties DEF LineTypes
<1>2. ASSUME NEW data, Answer(data)
      PROVE  r = [op |-> Head(toDev).op, data |-> data]
  <2> DEFINE s == [op |-> Head(toDev).op, data |-> data]
  <2>1. Append(toIo, r) = Append(toIo, s)
    BY <1>2 DEF Answer
  <2> HIDE DEF s
  <2>2. Append(toIo, r)[Len(toIo) + 1] = r /\ Append(toIo, s)[Len(toIo) + 1] = s
    BY <1>1
  <2> QED
    BY <2>1, <2>2 DEF s
<1>3. CASE DevReads
  <2> DEFINE a == region.addr
             n == SizeIn(mem, region.addr)
  <2>1. a \in Nat /\ n \in Nat /\ n >= 8 /\ \A k \in 1 .. n : a + k - 1 \in DOMAIN mem
    BY LaidTypes
  <2>2. Head(toDev).op = "read" /\ Head(toDev).addr = a /\ Head(toDev).len = n
    BY <1>3 DEF DevReads
  <2> HIDE DEF a, n
  <2>3. a + n - 1 \in DOMAIN mem
    <3>1. n \in 1 .. n
      BY <2>1
    <3> QED
      BY <2>1, <3>1
  <2>4. r.data = Span(mem, a, n)
    BY <1>2, <1>3, <2>2, <2>3 DEF DevReads
  <2> QED
    BY <2>4 DEF RegionIn, a, n
<1>4. CASE DevWrites
  BY <1>2, <1>4 DEF DevWrites
<1>5. CASE DevRefuses
  BY <1>5 DEF DevRefuses, BoundTypes
<1> QED
  BY <1>3, <1>4, <1>5 DEF Device

(* The parts, in the next state.                                           *)
LEMMA AskedNext ==
  /\ (/\ \A i \in DOMAIN toDev' : toDev'[i].op = "read" =>
           toDev'[i].addr = region'.addr + 2 /\ toDev'[i].len = 2
      /\ \A i \in DOMAIN toIo' : toIo'[i].op = "read" =>
           /\ Len(toIo'[i].data) = 2
           /\ WordAt(toIo'[i].data, 1) = WordAt(mem', region'.addr + 2))
     => AskedLength'
  /\ (/\ region'.size = SizeIn(mem', region'.addr)
      /\ \A i \in DOMAIN toDev' : toDev'[i].op = "read" =>
           toDev'[i].addr = region'.addr /\ toDev'[i].len = region'.size
      /\ \A i \in DOMAIN toIo' : toIo'[i].op = "read" =>
           toIo'[i].data = RegionIn(mem', region'.addr))
     => AskedRegion'
BY DEF AskedLength, AskedRegion

LEMMA ReportDevice ==
  ASSUME Control, Settled, Report, Device
  PROVE  Report'
<1> USE DEF Control, Types
<1>1. Answers /\ DOMAIN mem' = DOMAIN mem
  BY DeviceStep
<1>2. /\ toDev # <<>> /\ toDev' = Tail(toDev)
      /\ UNCHANGED <<cmd, rsp, region, read_cb>>
  BY <1>1 DEF Answers, xferVars
<1>3. SUFFICES ASSUME Reporting'
               PROVE  /\ AtRegion' /\ SoFar' /\ Quiet'
                      /\ read_cb' = "read_get_len" => AskedLength'
                      /\ read_cb' = "read_get_data" => AskedRegion'
  BY DEF Report
<1>4. Reporting /\ refusals' = refusals
  <2>1. refusals' # refusals => DevRefuses
    BY DEF Device, DevReads, DevWrites
  <2>2. DevRefuses => refusals' # 0
    BY DEF DevRefuses, BoundTypes
  <2> QED
    BY <1>2, <1>3, <2>1, <2>2 DEF Reporting, Reading, NoAuto
<1>5. /\ AtRegion /\ SoFar /\ Quiet /\ Reading
      /\ read_cb = "read_get_len" => AskedLength
      /\ read_cb = "read_get_data" => AskedRegion
  BY <1>4 DEF Report, Reporting
<1>6. Laid(mem) /\ HeadsKept /\ FromFile
  BY DEF Settled
<1> DEFINE a == region.addr
<1>7. /\ a \in Addresses /\ a \in Nat
      /\ cmd.regions_it \in Nat /\ cmd.regions_it > 0
  BY <1>5, <1>6, CurrentRegion, LaidTypes DEF AtRegion, FileTypes, MemfCmd
<1>8. WordAt(mem', a + 2) = WordAt(mem, a + 2) /\ SizeIn(mem', a) = SizeIn(mem, a)
  BY <1>6, <1>7, HeadStep
<1>9. AtRegion'
  BY <1>2, <1>5 DEF AtRegion
<1>10. PICK r \in Response : r.op = Head(toDev).op /\ toIo' = Append(toIo, r)
  BY <1>1 DEF Answers
<1>11. /\ \A n \in DOMAIN toIo' : n \in DOMAIN toIo \/ n = Len(toIo) + 1
       /\ toIo'[Len(toIo) + 1] = r /\ \A n \in DOMAIN toIo : toIo'[n] = toIo[n]
  BY <1>10, AppendProperties, LenProperties DEF LineTypes
<1>12. /\ Head(toDev) = toDev[1] /\ 1 \in DOMAIN toDev
       /\ \A j \in DOMAIN toDev' : /\ j + 1 \in DOMAIN toDev /\ toDev'[j] = toDev[j + 1]
                                   /\ j + 1 > 1 /\ j \in Nat
  BY <1>2, TailCommands
<1>13. \A i, j \in DOMAIN toDev' : j > i => j + 1 > i + 1
  BY <1>12
<1>14. Behind' /\ (Still => Still') /\ (r.op = "read" => Still')
  <2>1. Behind
    BY <1>5 DEF Quiet
  <2>2. Behind'
    BY <1>12, <1>13, <2>1, Zenon DEF Behind, Harmless
  <2>3. Still => Still'
    BY <1>12, Zenon DEF Still, Harmless
  <2>4. r.op = "read" => Still'
    <3> SUFFICES ASSUME r.op = "read", NEW j \in DOMAIN toDev' PROVE Harmless(toDev'[j])
      BY DEF Still, Harmless
    <3> QED
      BY <1>10, <1>12, <2>1 DEF Behind
  <2> QED
    BY <2>2, <2>3, <2>4
<1>15. CASE Harmless(Head(toDev))
  <2>1. mem' = mem
    BY <1>15, HarmlessSame
  <2>2. SoFar'
    BY <1>2, <1>5, <2>1 DEF SoFar
  <2>3. Quiet'
    <3>1. ASSUME NEW i \in DOMAIN toIo', toIo'[i].op = "read"
          PROVE  Still'
      <4>1. CASE i \in DOMAIN toIo
        BY <1>5, <1>11, <1>14, <3>1, <4>1 DEF Quiet
      <4>2. CASE i = Len(toIo) + 1
        BY <1>11, <1>14, <3>1, <4>2
      <4> QED
        BY <1>11, <4>1, <4>2
    <3>2. cmd'.regions_it > 1 \/ read_cb' = "read_get_data" => Still'
      BY <1>2, <1>5, <1>14 DEF Quiet
    <3> QED
      BY <1>14, <3>1, <3>2 DEF Quiet
  <2>4. read_cb' = "read_get_len" => AskedLength'
    <3> SUFFICES ASSUME read_cb = "read_get_len" PROVE AskedLength'
      BY <1>2
    <3>1. AskedLength
      BY <1>5
    <3>2. r.op = "read" => Len(r.data) = 2 /\ WordAt(r.data, 1) = WordAt(mem, region.addr + 2)
      BY <1>4, <1>6, <1>7, <1>10, <1>12, <3>1, LengthAnswered DEF AskedLength
    <3>3. ASSUME NEW i \in DOMAIN toDev', toDev'[i].op = "read"
          PROVE  toDev'[i].addr = region.addr + 2 /\ toDev'[i].len = 2
      BY <1>12, <3>1, <3>3 DEF AskedLength
    <3>4. ASSUME NEW i \in DOMAIN toIo', toIo'[i].op = "read"
          PROVE  /\ Len(toIo'[i].data) = 2
                 /\ WordAt(toIo'[i].data, 1) = WordAt(mem, region.addr + 2)
      BY <1>11, <3>1, <3>2, <3>4 DEF AskedLength
    <3> QED
      BY <1>2, <2>1, <3>3, <3>4, AskedNext
  <2>5. read_cb' = "read_get_data" => AskedRegion'
    <3> SUFFICES ASSUME read_cb = "read_get_data" PROVE AskedRegion'
      BY <1>2
    <3>1. AskedRegion
      BY <1>5
    <3>2. r.op = "read" => r.data = RegionIn(mem, region.addr)
      BY <1>4, <1>6, <1>7, <1>10, <1>12, <3>1, RegionAnswered DEF AskedRegion
    <3>3. ASSUME NEW i \in DOMAIN toDev', toDev'[i].op = "read"
          PROVE  toDev'[i].addr = region.addr /\ toDev'[i].len = region.size
      BY <1>12, <3>1, <3>3 DEF AskedRegion
    <3>4. ASSUME NEW i \in DOMAIN toIo', toIo'[i].op = "read"
          PROVE  toIo'[i].data = RegionIn(mem, region.addr)
      BY <1>11, <3>1, <3>2, <3>4 DEF AskedRegion
    <3>5. region.size = SizeIn(mem, region.addr)
      BY <3>1 DEF AskedRegion
    <3> QED
      BY <1>2, <2>1, <3>3, <3>4, <3>5, AskedNext
  <2> QED
    BY <1>9, <2>2, <2>3, <2>4, <2>5
<1>16. CASE ~Harmless(Head(toDev))
  <2>1. /\ ~Still /\ r.op # "read"
    BY <1>10, <1>12, <1>16 DEF Still, Harmless
  <2>2. /\ ~(cmd.regions_it > 1) /\ read_cb # "read_get_data" /\ read_cb = "read_get_len"
        /\ \A i \in DOMAIN toIo : toIo[i].op # "read"
    BY <1>5, <2>1 DEF Quiet, Reading
  <2>3. \A i \in DOMAIN toIo' : toIo'[i].op # "read"
    BY <1>11, <2>1, <2>2
  <2>4. Quiet'
    BY <1>2, <1>14, <2>2, <2>3 DEF Quiet
  <2>5. SoFar'
    <3>1. cmd.regions_it = 1 /\ 1 .. cmd.regions_it - 1 = {}
      BY <1>7, <2>2
    <3>2. /\ [i \in 1 .. cmd.regions_it - 1 |-> ReportOf(mem, cmd.regions[i])] = <<>>
          /\ [i \in 1 .. cmd.regions_it - 1 |-> ReportOf(mem', cmd.regions[i])] = <<>>
      BY <3>1
    <3>3. rsp'.regions = [i \in 1 .. cmd'.regions_it - 1 |-> ReportOf(mem', cmd'.regions[i])]
      BY <1>2, <1>5, <3>2 DEF SoFar
    <3> QED
      BY <3>3 DEF SoFar
  <2>6. AskedLength'
    <3>1. AskedLength
      BY <1>5, <2>2
    <3>2. ASSUME NEW i \in DOMAIN toDev', toDev'[i].op = "read"
          PROVE  toDev'[i].addr = region.addr + 2 /\ toDev'[i].len = 2
      BY <1>12, <3>1, <3>2 DEF AskedLength
    <3> QED
      BY <1>2, <2>3, <3>2, AskedNext
  <2> QED
    BY <1>2, <1>9, <2>2, <2>4, <2>5, <2>6
<1> QED
  BY <1>15, <1>16

(* Answers that are ignored, and a user's writes.                          *)
LEMMA ReportTaken ==
  ASSUME Control, Report, UNCHANGED <<cmd, rsp, region, read_cb, mem, refusals>>,
         \/ toIo' = toIo
         \/ toIo # <<>> /\ toIo' = Tail(toIo),
         \/ NothingSent
         \/ \E c \in Command : /\ c.op = "write" /\ Harmless(c)
                               /\ toDev' = Append(toDev, c)
  PROVE  Report'
<1> USE DEF Control, Types
<1>1. SUFFICES ASSUME Reporting'
               PROVE  /\ AtRegion' /\ SoFar' /\ Quiet'
                      /\ read_cb' = "read_get_len" => AskedLength'
                      /\ read_cb' = "read_get_data" => AskedRegion'
  BY DEF Report
<1>2. /\ AtRegion /\ SoFar /\ Quiet
      /\ read_cb = "read_get_len" => AskedLength
      /\ read_cb = "read_get_data" => AskedRegion
  BY <1>1 DEF Report, Reporting, Reading, NoAuto
<1>3. \A i \in DOMAIN toIo' : \E n \in DOMAIN toIo : toIo'[i] = toIo[n]
  <2>1. CASE toIo' = toIo
    BY <2>1
  <2>2. CASE toIo # <<>> /\ toIo' = Tail(toIo)
    <3>1. \A i \in DOMAIN Tail(toIo) : i + 1 \in DOMAIN toIo /\ Tail(toIo)[i] = toIo[i + 1]
      BY <2>2, HeadTailProperties, LenProperties, EmptySeq DEF LineTypes
    <3> QED
      BY <2>2, <3>1
  <2> QED
    BY <2>1, <2>2
<1>4. \A i \in DOMAIN toDev' :
        \/ i \in DOMAIN toDev /\ toDev'[i] = toDev[i]
        \/ toDev'[i].op # "read" /\ Harmless(toDev'[i])
  <2>1. CASE NothingSent
    BY <2>1 DEF NothingSent
  <2>2. CASE \E c \in Command : /\ c.op = "write" /\ Harmless(c)
                                /\ toDev' = Append(toDev, c)
    <3>1. PICK c \in Command : /\ c.op = "write" /\ Harmless(c)
                               /\ toDev' = Append(toDev, c)
      BY <2>2
    <3>2. /\ \A n \in DOMAIN toDev' : n \in DOMAIN toDev \/ n = Len(toDev) + 1
          /\ toDev'[Len(toDev) + 1] = c /\ \A n \in DOMAIN toDev : toDev'[n] = toDev[n]
      BY <3>1, AppendProperties, LenProperties DEF LineTypes
    <3>3. "read" # "write"
      OBVIOUS
    <3> HIDE DEF Harmless
    <3> QED
      BY <3>1, <3>2, <3>3
  <2> QED
    BY <2>1, <2>2
<1>5. AtRegion' /\ SoFar'
  BY <1>2 DEF AtRegion, SoFar
<1>6. Quiet'
  <2>1. ASSUME NEW i \in DOMAIN toDev', NEW j \in DOMAIN toDev', toDev'[i].op = "read", j > i
        PROVE  Harmless(toDev'[j])
    <3>1. i \in DOMAIN toDev /\ toDev'[i] = toDev[i]
      BY <1>4, <2>1
    <3> QED
      BY <1>2, <1>4, <2>1, <3>1 DEF Quiet, Behind
  <2>2. Behind'
    BY <2>1, Zenon DEF Behind, Harmless
  <2>3. Still => \A j \in DOMAIN toDev' : Harmless(toDev'[j])
    BY <1>4 DEF Still
  <2>4. Still => Still'
    BY <2>3, Zenon DEF Still, Harmless
  <2> QED
    BY <1>2, <1>3, <2>2, <2>4 DEF Quiet
<1>7. read_cb' = "read_get_len" => AskedLength'
  <2> SUFFICES ASSUME read_cb = "read_get_len" PROVE AskedLength'
    OBVIOUS
  <2>1. AskedLength
    BY <1>2
  <2>2. ASSUME NEW i \in DOMAIN toDev', toDev'[i].op = "read"
        PROVE  toDev'[i].addr = region.addr + 2 /\ toDev'[i].len = 2
    BY <1>4, <2>1, <2>2 DEF AskedLength
  <2>3. ASSUME NEW i \in DOMAIN toIo', toIo'[i].op = "read"
        PROVE  /\ Len(toIo'[i].data) = 2
               /\ WordAt(toIo'[i].data, 1) = WordAt(mem, region.addr + 2)
    <3>1. PICK n \in DOMAIN toIo : toIo'[i] = toIo[n]
      BY <1>3
    <3> QED
      BY <2>1, <2>3, <3>1 DEF AskedLength
  <2> QED
    BY <2>2, <2>3, AskedNext
<1>8. read_cb' = "read_get_data" => AskedRegion'
  <2> SUFFICES ASSUME read_cb = "read_get_data" PROVE AskedRegion'
    OBVIOUS
  <2>1. AskedRegion
    BY <1>2
  <2>2. ASSUME NEW i \in DOMAIN toDev', toDev'[i].op = "read"
        PROVE  toDev'[i].addr = region.addr /\ toDev'[i].len = region.size
    BY <1>4, <2>1, <2>2 DEF AskedRegion
  <2>3. ASSUME NEW i \in DOMAIN toIo', toIo'[i].op = "read"
        PROVE  toIo'[i].data = RegionIn(mem, region.addr)
    <3>1. PICK n \in DOMAIN toIo : toIo'[i] = toIo[n]
      BY <1>3
    <3> QED
      BY <2>1, <2>3, <3>1 DEF AskedRegion
  <2>4. region.size = SizeIn(mem, region.addr)
    BY <2>1 DEF AskedRegion
  <2> QED
    BY <2>2, <2>3, <2>4, AskedNext
<1> QED
  BY <1>5, <1>6, <1>7, <1>8

(* A step after which nothing is being read.                               *)
LEMMA ReportEnds ==
  ASSUME ~Reading'
  PROVE  Report'
BY DEF Report, Reporting, Reading

(* A read follows on no other.                                             *)
LEMMA ReadFollows ==
  ASSUME LineTypes, NEW c \in Command, c.op = "read", dev_tx(c),
         \A i \in DOMAIN toDev : toDev[i].op # "read"
  PROVE  /\ Behind' /\ (Still => Still')
         /\ \A i \in DOMAIN toDev' : toDev'[i].op = "read" => toDev'[i] = c
<1>1. CASE ~conn
  <2>1. toDev' = toDev
    BY <1>1 DEF dev_tx
  <2> QED
    BY <2>1 DEF Behind, Still, Harmless
<1>2. CASE conn
  <2>1. toDev' = Append(toDev, c)
    BY <1>2 DEF dev_tx
  <2>2. /\ DOMAIN toDev' = 1 .. Len(toDev) + 1 /\ DOMAIN toDev = 1 .. Len(toDev)
        /\ Len(toDev) \in Nat /\ toDev'[Len(toDev) + 1] = c
        /\ \A n \in DOMAIN toDev : toDev'[n] = toDev[n]
    BY <2>1, AppendProperties, LenProperties DEF LineTypes
  <2>3. \A i \in DOMAIN toDev' : i \in DOMAIN toDev \/ i = Len(toDev) + 1
    BY <2>2
  <2>4. \A j \in DOMAIN toDev' : ~(j > Len(toDev) + 1)
    BY <2>2
  <2>5. Behind'
    <3> SUFFICES ASSUME NEW i \in DOMAIN toDev', NEW j \in DOMAIN toDev',
                        toDev'[i].op = "read", j > i
                 PROVE  Harmless(toDev'[j])
      BY Zenon DEF Behind, Harmless
    <3>1. i = Len(toDev) + 1
      BY <2>2, <2>3
    <3> QED
      BY <2>4, <3>1
  <2>6. Harmless(c)
    BY DEF Harmless
  <2>7. Still => \A j \in DOMAIN toDev' : Harmless(toDev'[j])
    BY <2>2, <2>3, <2>6 DEF Still
  <2>8. Still => Still'
    BY <2>7, Zenon DEF Still, Harmless
  <2> QED
    BY <2>2, <2>3, <2>5, <2>8
<1> QED
  BY <1>1, <1>2

(* The length is there, and the region is asked for.                       *)
LEMMA ReportAsked ==
  ASSUME Control, OneRead, FromFile, Report, region_read_get_len_cb
  PROVE  Report'
<1> USE DEF Control, Types
<1>1. GetLen("read_get_len", "read_get_data")
  BY DEF region_read_get_len_cb
<1>2. /\ Answered("read") /\ read_cb = "read_get_len" /\ read_cb' = "read_get_data"
      /\ UNCHANGED <<cmd, rsp, mem, refusals>> /\ toIo # <<>> /\ Head(toIo).op = "read"
  BY <1>1 DEF GetLen, Answered, boundVars
<1>3. SUFFICES ASSUME Reporting'
               PROVE  AtRegion' /\ SoFar' /\ Quiet' /\ AskedRegion'
  BY <1>2 DEF Report
<1>4. AtRegion /\ SoFar /\ Quiet /\ AskedLength
  BY <1>2, <1>3 DEF Report, Reporting, Reading, NoAuto
<1>5. Head(toIo) = toIo[1] /\ 1 \in DOMAIN toIo
  BY <1>2, HeadTailProperties, LenProperties, EmptySeq DEF LineTypes
<1>6. Still
  BY <1>2, <1>4, <1>5 DEF Quiet
<1>7. region'.size = SizeIn(mem, region.addr)
  <2>1. Len(Data) = 2 /\ WordAt(Data, 1) = WordAt(mem, region.addr + 2)
    BY <1>2, <1>4, <1>5 DEF AskedLength, Data
  <2>2. Lengths = {WordAt(mem, region.addr + 2)}
    BY <2>1 DEF Lengths
  <2>3. region' = [region EXCEPT !.size = (WordAt(mem, region.addr + 2) + 16) \div 2]
    BY <1>1, <2>2 DEF GetLen
  <2>4. region' = [region EXCEPT !.size = SizeIn(mem, region.addr)]
    BY <2>3 DEF SizeIn
  <2> QED
    BY <2>4 DEF FileTypes, Image
<1> DEFINE c == ReadCmd(region'.addr, region'.size)
<1>8. region'.addr = region.addr /\ c \in Command /\ dev_tx(c)
  BY <1>1, LengthTypes
<1>9. c.op = "read" /\ c.addr = region'.addr /\ c.len = region'.size
  BY DEF ReadCmd
<1> HIDE DEF c
<1>10. /\ \A i \in DOMAIN toDev : toDev[i].op # "read"
       /\ \A i \in DOMAIN toIo' : toIo'[i].op # "read"
  BY <1>2, NoOtherRead
<1>11. /\ Behind' /\ Still'
       /\ \A i \in DOMAIN toDev' : toDev'[i].op = "read" => toDev'[i] = c
  BY <1>6, <1>8, <1>9, <1>10, ReadFollows
<1>12. AtRegion' /\ SoFar'
  BY <1>2, <1>4, <1>8 DEF AtRegion, SoFar
<1>13. Quiet'
  BY <1>11 DEF Quiet
<1>14. AskedRegion'
  <2>1. region'.size = SizeIn(mem', region'.addr)
    BY <1>2, <1>7, <1>8
  <2> QED
    BY <1>9, <1>10, <1>11, <2>1, AskedNext
<1> QED
  BY <1>12, <1>13, <1>14

(* The next region of a file that is read.                                 *)
LEMMA ReportNext ==
  ASSUME Control, UNCHANGED <<mem, refusals>>, NEW c \in MemfCmd, NEW report,
         NEW reg \in Image, region_read_next_region(c, report, reg),
         \A i \in DOMAIN toDev : toDev[i].op # "read",
         \A i \in DOMAIN toIo' : toIo'[i].op # "read",
         refusals = 0 /\ NoAuto(c) =>
           /\ report = [i \in 1 .. c.regions_it |-> ReportOf(mem, c.regions[i])]
           /\ c.regions_it > 0 => Still
  PROVE  Report'
<1> USE DEF Control, Types
<1>1. CASE ~HasRegion(c) \/ NextOf(c).bad
  BY <1>1, ReportEnds DEF region_read_next_region, Reading, None
<1>2. CASE HasRegion(c) /\ ~NextOf(c).bad
  <2> DEFINE r == NextOf(c)
             n == c.regions_it
             rd == ReadCmd(NextOf(c).addr + 2, 2)
  <2>1. /\ r.addr \in Nat /\ n \in Nat /\ n + 1 > 0 /\ n + 1 - 1 = n
        /\ r = c.regions[n + 1] /\ n + 1 \in DOMAIN c.regions
    <3>1. n \in Nat /\ n < Len(c.regions) /\ DOMAIN c.regions = 1 .. Len(c.regions)
          /\ Len(c.regions) \in Nat
      BY <1>2, LenProperties DEF MemfCmd, HasRegion
    <3> QED
      BY <1>2, <3>1, TakenTypes DEF NextOf
  <2>2. /\ cmd' = Taken(c) /\ rsp' = [open |-> TRUE, regions |-> report]
        /\ read_cb' = "read_get_len" /\ dev_tx(rd)
        /\ region' = [reg EXCEPT !.addr = r.addr]
    BY <1>2 DEF region_read_next_region
  <2>3. /\ cmd'.regions_it = n + 1 /\ cmd'.regions = c.regions
        /\ cmd'.auto = r.auto /\ cmd'.blocks = r.blocks
    BY <2>2 DEF Taken, MemfCmd
  <2>4. region'.addr = r.addr /\ rsp'.regions = report
    BY <2>2 DEF Image
  <2>5. rd \in Command /\ rd.op = "read" /\ rd.addr = r.addr + 2 /\ rd.len = 2
    <3>1. r.addr + 2 \in Nat
      BY <2>1
    <3> QED
      BY <3>1, ReadIsCommand
  <2> HIDE DEF r, n, rd
  <2>6. SUFFICES ASSUME Reporting'
                 PROVE  AtRegion' /\ SoFar' /\ Quiet' /\ AskedLength'
    BY <2>2 DEF Report
  <2>7. refusals = 0 /\ NoAuto(c)
    BY <2>3, <2>6 DEF Reporting, NoAuto
  <2>8. AtRegion'
    <3>1. ~r.auto /\ ~r.bad
      BY <1>2, <2>1, <2>7 DEF NoAuto, r
    <3>2. cmd'.regions[cmd'.regions_it] = r /\ cmd'.regions_it > 0
      BY <2>1, <2>3
    <3> QED
      BY <2>3, <2>4, <3>1, <3>2 DEF AtRegion
  <2>9. SoFar'
    <3>1. report = [i \in 1 .. n |-> ReportOf(mem, c.regions[i])]
      BY <2>7 DEF n
    <3>2. rsp'.regions = [i \in 1 .. cmd'.regions_it - 1 |-> ReportOf(mem', cmd'.regions[i])]
      BY <2>1, <2>3, <2>4, <3>1
    <3> QED
      BY <3>2 DEF SoFar
  <2>10. /\ Behind' /\ (Still => Still')
         /\ \A i \in DOMAIN toDev' : toDev'[i].op = "read" => toDev'[i] = rd
    BY <2>2, <2>5, ReadFollows
  <2>11. Quiet'
    <3>1. cmd'.regions_it > 1 => Still
      BY <2>1, <2>3, <2>7 DEF n
    <3> QED
      BY <2>2, <2>10, <3>1 DEF Quiet
  <2>12. AskedLength'
    BY <2>4, <2>5, <2>10, AskedNext
  <2> QED
    BY <2>8, <2>9, <2>11, <2>12
<1> QED
  BY <1>1, <1>2

(* What is said of a region.                                               *)
LEMMA ReportedIs ==
  ASSUME MemTypes, DwordBlocks, Laid(mem), NEW f \in Files, NEW i \in DOMAIN f,
         f[i] \in Region, ~f[i].bad, NEW reg, NEW beyond,
         reg.addr = f[i].addr, reg.data = RegionIn(mem, f[i].addr)
  PROVE  Reported(reg, WellFormedBlocks(f[i].blocks), beyond) = ReportOf(mem, f[i])
<1> DEFINE a == f[i].addr
           n == SizeIn(mem, a)
           bs == f[i].blocks
           d == reg.data
<1>1. a \in Addresses
  BY DEF Addresses
<1>2. a \in Nat /\ n \in Nat /\ n >= 8 /\ \A k \in 1 .. n : a + k - 1 \in DOMAIN mem
  BY <1>1, LaidTypes
<1>3. bs \in Seq(Block)
  BY DEF Region
<1>4. \A k \in DOMAIN bs : bs[k].size = 2 /\ (~bs[k].bad => bs[k].addr \in a + 4 .. a + n - 2)
  BY DEF DwordBlocks, Laid
<1>5. d = Span(mem, a, n)
  BY DEF RegionIn
<1> HIDE DEF n, bs
<1>6. Len(d) = n /\ \A k \in 1 .. n : d[k] = mem[a + k - 1]
  <2>1. n \in 1 .. n
    BY <1>2
  <2>2. a + n - 1 \in DOMAIN mem
    BY <1>2, <2>1
  <2> QED
    BY <1>2, <1>5, <2>2, SpanTypes
<1> HIDE DEF a, d
<1>7. ASSUME NEW k \in DOMAIN WellFormedBlocks(bs)
      PROVE  LET b == WellFormedBlocks(bs)[k]
                 off == b.addr - a
             IN [addr |-> b.addr,
                 data |-> [j \in 1 .. b.size |->
                            IF off + j <= Len(d) THEN d[off + j] ELSE beyond]]
                = [addr |-> bs[k].addr, data |-> Span(mem, bs[k].addr, bs[k].size)]
  <2> DEFINE x == bs[k].addr
             e == [j \in 1 .. 2 |-> IF (x - a) + j <= Len(d) THEN d[(x - a) + j] ELSE beyond]
  <2>1. k \in DOMAIN bs /\ WellFormedBlocks(bs)[k] = bs[k] /\ ~bs[k].bad
    BY <1>3, BlocksBefore
  <2>2. bs[k].size = 2 /\ x \in a + 4 .. a + n - 2
    BY <1>4, <2>1
  <2> HIDE DEF x
  <2>3. ASSUME NEW j \in 1 .. 2
        PROVE  (x - a) + j <= Len(d) /\ d[(x - a) + j] = mem[x + j - 1]
    <3>1. (x - a) + j \in 1 .. n /\ a + ((x - a) + j) - 1 = x + j - 1
      BY <1>2, <2>2
    <3>2. d[(x - a) + j] = mem[a + ((x - a) + j) - 1]
      BY <1>6, <3>1
    <3> QED
      BY <1>2, <1>6, <3>1, <3>2
  <2>4. e = [j \in 1 .. 2 |-> mem[x + j - 1]]
    BY <2>3
  <2>5. e = Span(mem, x, 2)
    BY <2>4 DEF Span
  <2> QED
    BY <2>1, <2>2, <2>5 DEF x
<1>8. d[1] = Crc(Tail(d)) <=> Valid(RegionIn(mem, a))
  BY DEF Valid, d, a
<1> QED
  BY <1>7 DEF Reported, ReportOf, a, d, bs

LEMMA ReportGrows ==
  ASSUME NEW m, NEW rs, NEW n \in Nat, n > 0
  PROVE  Append([i \in 1 .. n - 1 |-> ReportOf(m, rs[i])], ReportOf(m, rs[n]))
           = [i \in 1 .. n |-> ReportOf(m, rs[i])]
<1> DEFINE S == {ReportOf(m, rs[i]) : i \in 1 .. n}
           q == [i \in 1 .. n - 1 |-> ReportOf(m, rs[i])]
           e == ReportOf(m, rs[n])
           f == [i \in 1 .. n |-> ReportOf(m, rs[i])]
<1>1. n - 1 \in Nat /\ e \in S
  OBVIOUS
<1>2. \A i \in 1 .. n - 1 : ReportOf(m, rs[i]) \in S
  OBVIOUS
<1>3. q \in [1 .. n - 1 -> S]
  BY <1>2
<1>4. /\ \A i \in 1 .. n - 1 : q[i] = f[i]
      /\ e = f[n] /\ f \in [1 .. n -> S]
  OBVIOUS
<1> HIDE DEF S, q, e, f
<1>5. q \in Seq(S) /\ Len(q) = n - 1
  BY <1>1, <1>3, FunctionIsSeq
<1> DEFINE p == Append(q, e)
<1>6. p \in Seq(S) /\ Len(p) = n /\ \A i \in 1 .. n : p[i] = f[i]
  BY <1>1, <1>4, <1>5, AppendProperties
<1> HIDE DEF p
<1>7. p \in [1 .. n -> S]
  BY <1>6, LenProperties
<1>8. p = f
  BY <1>4, <1>6, <1>7
<1> QED
  BY <1>8 DEF p, q, e, f

(* The last answer of a region makes the report longer by that region.     *)
LEMMA ReportLonger ==
  ASSUME Control, DwordBlocks, Settled, Report, Reporting, Answered("read"),
         read_cb = "read_get_data", NEW beyond
  PROVE  LET reg == [region EXCEPT !.data = Data]
             blocks == IF cmd.auto THEN AutoBlocks(reg) ELSE WellFormedBlocks(cmd.blocks)
         IN Append(rsp.regions, Reported(reg, blocks, beyond))
              = [i \in 1 .. cmd.regions_it |-> ReportOf(mem, cmd.regions[i])]
<1> USE DEF Control, Types
<1> DEFINE reg == [region EXCEPT !.data = Data]
           f == cmd.regions
           n == cmd.regions_it
<1>1. AtRegion /\ SoFar /\ AskedRegion /\ Reading
  BY DEF Report, Reporting
<1>2. Laid(mem) /\ FromFile
  BY DEF Settled
<1>3. n \in DOMAIN f /\ f[n] \in Region /\ f \in Files
  BY <1>1, <1>2, CurrentRegion
<1>4. /\ ~cmd.auto /\ ~f[n].bad /\ region.addr = f[n].addr /\ cmd.blocks = f[n].blocks
      /\ n \in Nat /\ n > 0
  BY <1>1 DEF AtRegion, FileTypes, MemfCmd
<1>5. Data = RegionIn(mem, f[n].addr)
  <2>1. /\ toIo # <<>> /\ Head(toIo).op = "read"
    BY DEF Answered
  <2>2. Head(toIo) = toIo[1] /\ 1 \in DOMAIN toIo
    BY <2>1, HeadTailProperties, LenProperties, EmptySeq DEF LineTypes
  <2> QED
    BY <1>1, <1>4, <2>1, <2>2 DEF AskedRegion, Data
<1>6. reg.addr = f[n].addr /\ reg.data = RegionIn(mem, f[n].addr)
  BY <1>4, <1>5 DEF FileTypes, Image
<1>7. rsp.regions = [i \in 1 .. n - 1 |-> ReportOf(mem, f[i])]
  BY <1>1 DEF SoFar
<1> HIDE DEF reg, f, n
<1>8. Reported(reg, WellFormedBlocks(f[n].blocks), beyond) = ReportOf(mem, f[n])
  BY <1>2, <1>3, <1>4, <1>6, ReportedIs
<1>9. Append(rsp.regions, Reported(reg, WellFormedBlocks(f[n].blocks), beyond))
        = [i \in 1 .. n |-> ReportOf(mem, f[i])]
  BY <1>4, <1>7, <1>8, ReportGrows
<1> QED
  BY <1>4, <1>9 DEF reg, f, n

LEMMA ReportStep ==
  ASSUME CrcIsNumber, DwordBlocks, Control, Settled, OneRead, Report, [Next]_vars
  PROVE  Report'
<1> USE DEF Control, Types
<1>1. region \in Image /\ region.data \in Seq(Nat) /\ cmd \in MemfCmd
  BY ImageTypes DEF FileTypes
<1>2. Laid(mem) /\ FromFile
  BY DEF Settled
<1>3. CASE Device
  BY <1>3, ReportDevice
<1>4. CASE DevLost
  <2>1. /\ toDev' = <<>> /\ toIo' = <<>>
        /\ UNCHANGED <<cmd, rsp, region, read_cb, mem, refusals>>
    BY <1>4 DEF DevLost, xferVars
  <2>2. DOMAIN toDev' = {} /\ DOMAIN toIo' = {}
    BY <2>1, EmptySeq, LenProperties
  <2>3. SUFFICES ASSUME Reporting'
                 PROVE  /\ AtRegion' /\ SoFar' /\ Quiet'
                        /\ read_cb' = "read_get_len" => AskedLength'
                        /\ read_cb' = "read_get_data" => AskedRegion'
    BY DEF Report
  <2>4. /\ AtRegion /\ SoFar
        /\ read_cb = "read_get_data" => region.size = SizeIn(mem, region.addr)
    BY <2>1, <2>3 DEF Report, Reporting, Reading, NoAuto, AskedRegion
  <2>5. AtRegion' /\ SoFar'
    BY <2>1, <2>4 DEF AtRegion, SoFar
  <2>6. Quiet'
    BY <2>2 DEF Quiet, Behind, Still
  <2>7. AskedLength'
    BY <2>2, AskedNext
  <2>8. read_cb' = "read_get_data" => AskedRegion'
    <3>1. read_cb' = "read_get_data" => region'.size = SizeIn(mem', region'.addr)
      BY <2>1, <2>4
    <3> QED
      BY <2>2, <3>1, AskedNext
  <2> QED
    BY <2>5, <2>6, <2>7, <2>8
<1>5. CASE DevBack \/ AnswerIgnored \/ NoSuchFile \/ UNCHANGED vars
  <2>1. /\ UNCHANGED <<cmd, rsp, region, read_cb, mem, refusals>> /\ NothingSent
        /\ \/ toIo' = toIo
           \/ toIo # <<>> /\ toIo' = Tail(toIo)
    BY <1>5, FileIsClosed DEF DevBack, AnswerIgnored, Answered, NoSuchFile, NothingSent,
       vars, xferVars, lineVars, boundVars
  <2> QED
    BY <2>1, ReportTaken
<1>6. CASE region_read_get_len_cb
  BY <1>2, <1>6, ReportAsked
<1>7. CASE region_read_get_data_cb
  <2>1. /\ Answered("read") /\ read_cb = "read_get_data" /\ Data \in Seq(Nat)
        /\ UNCHANGED <<mem, refusals>>
    BY <1>7, AnsweredTypes DEF region_read_get_data_cb, boundVars
  <2>2. CASE Len(Data) # region.size
    <3>1. read_cb' = None
      BY <1>7, <2>2 DEF region_read_get_data_cb
    <3> QED
      BY <3>1, ReportEnds DEF Reading, None
  <2>3. CASE Len(Data) = region.size
    <3> DEFINE reg == [region EXCEPT !.data = Data]
               blocks == IF cmd.auto THEN AutoBlocks(reg)
                                     ELSE WellFormedBlocks(cmd.blocks)
    <3>1. PICK beyond \in Half :
            region_read_next_region(cmd, Append(rsp.regions, Reported(reg, blocks, beyond)), reg)
      BY <1>7, <2>3 DEF region_read_get_data_cb
    <3>2. reg \in Image
      BY <1>1, <2>1, ImageTypes
    <3>3. refusals = 0 /\ NoAuto(cmd) =>
            /\ Append(rsp.regions, Reported(reg, blocks, beyond))
                 = [i \in 1 .. cmd.regions_it |-> ReportOf(mem, cmd.regions[i])]
            /\ Still
      <4> SUFFICES ASSUME refusals = 0, NoAuto(cmd)
                   PROVE  /\ Append(rsp.regions, Reported(reg, blocks, beyond))
                               = [i \in 1 .. cmd.regions_it |-> ReportOf(mem, cmd.regions[i])]
                          /\ Still
        OBVIOUS
      <4>1. Reporting
        BY <2>1 DEF Reporting, Reading
      <4>2. Still
        BY <2>1, <4>1 DEF Report, Quiet
      <4> QED
        BY <2>1, <4>1, <4>2, ReportLonger
    <3>4. /\ \A i \in DOMAIN toDev : toDev[i].op # "read"
          /\ \A i \in DOMAIN toIo' : toIo'[i].op # "read"
      BY <2>1, NoOtherRead
    <3> HIDE DEF reg, blocks
    <3> QED
      BY <1>1, <2>1, <3>1, <3>2, <3>3, <3>4, ReportNext
  <2> QED
    BY <2>2, <2>3
<1>8. CASE region_write_get_len_cb \/ region_write_get_data_cb \/ region_write_set_data_cb
           \/ region_write_set_crc_cb
  <2>1. CASE region_write_get_len_cb
    <3>1. read_cb' = "write_get_data"
      BY <2>1 DEF region_write_get_len_cb, GetLen
    <3> QED
      BY <3>1, ReportEnds DEF Reading
  <2>2. CASE region_write_get_data_cb
    BY <2>2, ReportEnds DEF region_write_get_data_cb, Reading, None
  <2>3. CASE region_write_set_data_cb
    <3>1. write_cb = "write_set_data" /\ read_cb' = read_cb
      BY <2>3 DEF region_write_set_data_cb
    <3>2. read_cb' = None
      BY <3>1 DEF OneTransfer, None
    <3> QED
      BY <3>2, ReportEnds DEF Reading, None
  <2>4. CASE region_write_set_crc_cb
    <3>1. write_cb = "write_set_crc" /\ region_write_next_region(cmd)
      BY <2>4 DEF region_write_set_crc_cb
    <3>2. cmd.open
      BY <3>1 DEF OneTransfer, Writing, None
    <3>3. read_cb' = None \/ read_cb' = "write_get_len"
      BY <1>1, <3>1, <3>2, WriteNext
    <3> QED
      BY <3>3, ReportEnds DEF Reading, None
  <2> QED
    BY <1>8, <2>1, <2>2, <2>3, <2>4
<1>9. CASE \E f \in Files : cmd_io_bdm_fread_region(f) \/ cmd_io_bdm_fwrite_region(f)
  <2>1. PICK f \in Files : cmd_io_bdm_fread_region(f) \/ cmd_io_bdm_fwrite_region(f)
    BY <1>9
  <2>2. read_cb = None /\ UNCHANGED <<toIo, mem, refusals>>
    BY <2>1, FileIsClosed DEF cmd_io_bdm_fread_region, cmd_io_bdm_fwrite_region
  <2>3. Opened(f) \in MemfCmd /\ Opened(f).open /\ Opened(f).regions_it = 0
    BY OpenedTypes DEF Opened, NoFile
  <2>4. CASE cmd_io_bdm_fread_region(f)
    <3>1. region_read_next_region(Opened(f), <<>>, region)
      BY <2>4 DEF cmd_io_bdm_fread_region
    <3>2. <<>> = [i \in 1 .. Opened(f).regions_it |-> ReportOf(mem, Opened(f).regions[i])]
      <4>1. 1 .. Opened(f).regions_it = {}
        BY <2>3
      <4> QED
        BY <4>1
    <3>3. /\ \A i \in DOMAIN toDev : toDev[i].op # "read"
          /\ \A i \in DOMAIN toIo' : toIo'[i].op # "read"
      BY <2>2, NoRead
    <3>4. ~(Opened(f).regions_it > 0)
      BY <2>3
    <3>5. Opened(f) \in MemfCmd
      BY <2>3
    <3> QED
      BY <1>1, <2>2, <3>1, <3>2, <3>3, <3>4, <3>5, ReportNext
  <2>5. CASE cmd_io_bdm_fwrite_region(f)
    <3>1. read_cb' = None \/ read_cb' = "write_get_len"
      BY <1>1, <2>3, <2>5, WriteNext DEF cmd_io_bdm_fwrite_region
    <3> QED
      BY <3>1, ReportEnds DEF Reading, None
  <2> QED
    BY <2>1, <2>4, <2>5
<1>10. CASE cmd_io_bdm_write_mem
  <2> DEFINE c == WriteCmd(0, <<>>)
  <2>1. UNCHANGED <<cmd, rsp, region, read_cb, mem, refusals, toIo>> /\ dev_tx(c)
    BY <1>10 DEF cmd_io_bdm_write_mem, xferVars
  <2>2. c \in Command /\ Harmless(c) /\ c.op = "write"
    BY PlainIsCommand DEF Harmless
  <2> HIDE DEF c
  <2>3. NothingSent \/ toDev' = Append(toDev, c)
    BY <2>1 DEF dev_tx, NothingSent
  <2> QED
    BY <2>1, <2>2, <2>3, ReportTaken
<1> QED
  BY <1>3, <1>4, <1>5, <1>6, <1>7, <1>8, <1>9, <1>10 DEF Next, Io, User

(* A report is closed by the answer to its last region.                    *)
LEMMA ReportCloses ==
  ASSUME CrcIsNumber, DwordBlocks, Control, Settled, Report, Next,
         rsp.open, ~rsp'.open, refusals = 0, NoAuto(cmd)
  PROVE  out' = Expected(cmd.regions)
<1> USE DEF Control, Types
<1>1. rsp' # rsp
  OBVIOUS
<1>2. ~FileCommand
  BY FileIsClosed
<1>3. /\ ~Device /\ ~DevLost /\ ~DevBack /\ ~AnswerIgnored /\ ~region_read_get_len_cb
      /\ ~region_write_get_len_cb /\ ~region_write_get_data_cb /\ ~region_write_set_data_cb
      /\ ~region_write_set_crc_cb /\ ~cmd_io_bdm_write_mem
  BY <1>1 DEF Device, DevReads, DevRefuses, DevWrites, Answer, DevLost, DevBack,
     AnswerIgnored, region_read_get_len_cb, region_write_get_len_cb, GetLen,
     region_write_get_data_cb, region_write_set_data_cb, region_write_set_crc_cb,
     cmd_io_bdm_write_mem, xferVars
<1>4. region_read_get_data_cb
  BY <1>2, <1>3 DEF Next, Io, User, cmd_io_bdm_fread_region, cmd_io_bdm_fwrite_region,
     NoSuchFile
<1>5. Answered("read") /\ read_cb = "read_get_data" /\ Reporting
  BY <1>4 DEF region_read_get_data_cb, Reporting, Reading
<1>6. Len(Data) = region.size
  BY <1>1, <1>4 DEF region_read_get_data_cb
<1> DEFINE reg == [region EXCEPT !.data = Data]
           blocks == IF cmd.auto THEN AutoBlocks(reg) ELSE WellFormedBlocks(cmd.blocks)
           n == cmd.regions_it
<1>7. PICK beyond \in Half :
        region_read_next_region(cmd, Append(rsp.regions, Reported(reg, blocks, beyond)), reg)
  BY <1>4, <1>6 DEF region_read_get_data_cb
<1>8. /\ ~HasRegion(cmd)
      /\ out' = Append(rsp.regions, Reported(reg, blocks, beyond))
  BY <1>7 DEF region_read_next_region
<1>9. out' = [i \in 1 .. n |-> ReportOf(mem, cmd.regions[i])]
  BY <1>5, <1>8, ReportLonger
<1>10. 1 .. n = DOMAIN cmd.regions
  <2>1. n \in Nat /\ n <= Len(cmd.regions) /\ cmd.regions \in Seq(Region)
    BY DEF FileTypes, MemfCmd
  <2>2. n >= Len(cmd.regions)
    BY <1>8, <2>1, LenProperties DEF HasRegion
  <2> QED
    BY <2>1, <2>2, LenProperties
<1> QED
  BY <1>9, <1>10 DEF Expected, ReportOf, RegionValid

(* A report says what the target holds when it is written.                 *)
THEOREM ReportsAreTrue ==
  ASSUME CrcIsNumber, DwordBlocks, FilesLie
  PROVE  Spec => ReportFaithful
<1> DEFINE IInv == Control /\ Dwords /\ Settled /\ OneRead /\ Report
           A == rsp.open /\ ~rsp'.open /\ refusals = 0
                  /\ (\A i \in DOMAIN cmd.regions : ~cmd.regions[i].auto)
                => out' = Expected(cmd.regions)
<1>1. Init => IInv
  <2> SUFFICES ASSUME Init PROVE IInv
    OBVIOUS
  <2>1. /\ read_cb = None /\ write_cb = None /\ cmd = NoFile /\ mem \in Memories
        /\ toDev = <<>> /\ toIo = <<>>
    BY DEF Init
  <2>2. Dwords
    BY <2>1, OpenedDwords DEF Dwords, DwordsOf
  <2>3. Settled
    <3>1. HeadsKept
      BY <2>1, EmptySeq, LenProperties DEF HeadsKept
    <3>2. FromFile
      BY <2>1, OpenedTypes DEF FromFile, Writing, None
    <3> QED
      BY <2>1, <3>1, <3>2 DEF Settled, FilesLie
  <2>4. OneRead
    <3>1. UnderWay("read") = 0
      BY <2>1, PendingEmpty DEF UnderWay
    <3> QED
      BY <3>1 DEF OneRead
  <2>5. Report
    BY <2>1 DEF Report, Reporting, Reading, None
  <2> QED
    BY <2>2, <2>3, <2>4, <2>5, ControlInit
<1>2. IInv /\ [Next]_vars => IInv'
  BY ControlStep, DwordsStep, SettledStep, OneReadStep, ReportStep
<1>3. IInv /\ [Next]_vars => [A]_vars
  <2> SUFFICES ASSUME IInv, Next, rsp.open, ~rsp'.open, refusals = 0,
                      \A i \in DOMAIN cmd.regions : ~cmd.regions[i].auto
               PROVE  out' = Expected(cmd.regions)
    OBVIOUS
  <2> QED
    BY ReportCloses DEF NoAuto
<1>4. Spec => [][A]_vars
  BY <1>1, <1>2, <1>3, PTL DEF Spec
<1> QED
  BY <1>4 DEF ReportFaithful
=============================================================================
