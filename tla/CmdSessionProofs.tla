--------------------------- MODULE CmdSessionProofs ---------------------------
(***************************************************************************)
(* Proofs about CmdSession.  First the types: of the bytes of a message,   *)
(* of what the UI reads from them, of completion, of packets, and of every *)
(* action.  Then the two parsers, the two ways to look for a name, what a  *)
(* line means, and CmdMenu: lines, packets and transfers step by step.     *)
(***************************************************************************)
EXTENDS CmdSession, CmdParseProofs, FiniteSetTheorems
-----------------------------------------------------------------------------
(* Messages are sequences of bytes. *)

LEMMA LE4Type ==
  ASSUME NEW n \in Int
  PROVE  LE4(n) \in Seq(Byte) /\ Len(LE4(n)) = 4
<1>1. \A x \in Int : x % 256 \in Byte
  BY ByteIs
<1>2. n \div 256 \in Int /\ n \div 65536 \in Int /\ n \div 16777216 \in Int
  OBVIOUS
<1> DEFINE a == n % 256
           b == (n \div 256) % 256
           c == (n \div 65536) % 256
           d == (n \div 16777216) % 256
<1>3. a \in Byte /\ b \in Byte /\ c \in Byte /\ d \in Byte
  BY <1>1, <1>2
<1>4. LE4(n) = <<a, b, c, d>>
  BY DEF LE4
<1> HIDE DEF a, b, c, d
<1> QED
  BY <1>3, <1>4

LEMMA WideType ==
  ASSUME NEW s \in Str
  PROVE  /\ Wide(s) \in Seq(Byte) /\ Len(Wide(s)) = 2 * Len(s)
         /\ \A i \in 1 .. Len(s) : Wide(s)[2 * i - 1] = Code[s[i]] /\ Wide(s)[2 * i] = 0
<1>1. Len(s) \in Nat /\ s \in Seq(Alphabet)
  BY LenProperties DEF Str
<1> DEFINE W(i) == IF i % 2 = 1 THEN Code[s[(i + 1) \div 2]] ELSE 0
<1>2. ASSUME NEW i \in 1 .. 2 * Len(s) PROVE W(i) \in Byte
  <2>1. CASE i % 2 = 1
    <3>1. (i + 1) \div 2 \in 1 .. Len(s)
      BY <1>1, <2>1
    <3>2. s[(i + 1) \div 2] \in Alphabet
      BY <1>1, <3>1, ElementOfSeq
    <3>3. Code[s[(i + 1) \div 2]] \in Byte
      BY <3>2, CodeAssumption
    <3> QED
      BY <2>1, <3>3
  <2>2. CASE i % 2 # 1
    BY <2>2, ByteIs
  <2> QED
    BY <2>1, <2>2
<1>3. Wide(s) = [i \in 1 .. 2 * Len(s) |-> W(i)]
  BY DEF Wide
<1>4. ASSUME NEW i \in 1 .. Len(s) PROVE W(2 * i - 1) = Code[s[i]] /\ W(2 * i) = 0
  <2>1. (2 * i - 1) % 2 = 1 /\ (2 * i) % 2 = 0 /\ (2 * i - 1 + 1) \div 2 = i
    BY <1>1
  <2> QED
    BY <2>1
<1> HIDE DEF W
<1>5. 2 * Len(s) \in Nat /\ \A i \in 1 .. Len(s) : 2 * i - 1 \in 1 .. 2 * Len(s)
                                                  /\ 2 * i \in 1 .. 2 * Len(s)
  BY <1>1
<1>6. Wide(s) \in Seq(Byte)
  BY <1>2, <1>3, <1>5, IsASeq
<1>7. Len(Wide(s)) = 2 * Len(s)
  BY <1>3, <1>5, <1>6, LenProperties
<1> QED
  BY <1>3, <1>4, <1>5, <1>6, <1>7

LEMMA Joins ==
  ASSUME NEW msg \in Seq(Byte), NEW a \in Byte, NEW b \in Byte, NEW s \in Seq(Byte)
  PROVE  /\ msg \o <<a, b>> \o s \in Seq(Byte)
         /\ Len(msg \o <<a, b>> \o s) = Len(msg) + 2 + Len(s)
<1> DEFINE h == <<a, b>>
<1>1. h \in Seq(Byte) /\ Len(h) = 2
  OBVIOUS
<1> HIDE DEF h
<1>2. msg \o h \in Seq(Byte) /\ Len(msg \o h) = Len(msg) + Len(h)
  BY <1>1, ConcatProperties, Zenon
<1>3. (msg \o h) \o s \in Seq(Byte) /\ Len((msg \o h) \o s) = Len(msg \o h) + Len(s)
  BY <1>2, ConcatProperties, Zenon
<1> QED
  BY <1>1, <1>2, <1>3, Zenon DEF h

LEMMA TlvTypes ==
  ASSUME NEW msg \in Seq(Byte), NEW type \in Byte
  PROVE  /\ \A n \in Int : add_tlv_dword(msg, type, n) \in Seq(Byte)
         /\ \A s \in Str : add_tlv_str(msg, type, s) \in Seq(Byte)
         /\ \A s \in Seq(Byte) : add_tlv_raw(msg, type, s) \in Seq(Byte)
<1>1. ASSUME NEW n \in Int PROVE add_tlv_dword(msg, type, n) \in Seq(Byte)
  <2> DEFINE d == LE4(n)
             four == 4
  <2>1. four \in Byte /\ d \in Seq(Byte)
    <3>1. 4 \in Byte
      BY ByteIs
    <3> QED
      BY <3>1, LE4Type
  <2>2. add_tlv_dword(msg, type, n) = msg \o <<type, four>> \o d
    BY DEF add_tlv_dword
  <2> HIDE DEF d, four
  <2> QED
    BY <2>1, <2>2, Joins
<1>2. ASSUME NEW s \in Str PROVE add_tlv_str(msg, type, s) \in Seq(Byte)
  <2> DEFINE len == 2 * Len(s) + 2
             w == Wide(s)
  <2>1. len \in Nat /\ w \in Seq(Byte) /\ MAXBYTE = 255
    BY WideType, LenProperties DEF Str, MAXBYTE
  <2>2. add_tlv_str(msg, type, s) =
          IF len > MAXBYTE THEN msg ELSE msg \o <<type, len>> \o w \o <<0, 0>>
    BY DEF add_tlv_str
  <2> HIDE DEF len, w
  <2>3. CASE len > MAXBYTE
    BY <2>2, <2>3
  <2>4. CASE ~(len > MAXBYTE)
    <3>1. len \in Byte
      <4>1. len \in Nat /\ len <= 255
        BY <2>1, <2>4
      <4>2. len \in 0 .. 255
        BY <4>1
      <4> QED
        BY <4>2 DEF Byte
    <3>2. msg \o <<type, len>> \o w \in Seq(Byte)
      BY <2>1, <3>1, Joins
    <3>3. 0 \in Byte
      BY ByteIs
    <3>4. <<0, 0>> \in Seq(Byte)
      BY <3>3
    <3> QED
      BY <2>2, <2>4, <3>2, <3>4, ConcatProperties
  <2> QED
    BY <2>3, <2>4
<1>3. ASSUME NEW s \in Seq(Byte) PROVE add_tlv_raw(msg, type, s) \in Seq(Byte)
  <2>1. Len(s) \in Nat
    BY LenProperties
  <2>2. Len(s) % 256 \in Byte
    BY <2>1, ByteIs
  <2> QED
    BY <2>2, Joins DEF add_tlv_raw
<1> QED
  BY <1>1, <1>2, <1>3

LEMMA CellType ==
  ASSUME NEW vals \in Stores, NEW type \in 0 .. 3, NEW cell, Fits(type, cell)
  PROVE  vals[cell] \in Values(type)
<1>1. CASE type = CFT_NUM
  BY <1>1 DEF Values, Fits, Stores, CFT_NUM, CFT_TXT
<1>2. CASE type = CFT_TXT
  BY <1>2 DEF Values, Fits, Stores, CFT_NUM, CFT_TXT
<1>3. CASE type \notin {CFT_NUM, CFT_TXT}
  BY <1>3 DEF Values, Fits, Stores, CFT_NUM, CFT_TXT
<1> QED
  BY <1>1, <1>2, <1>3

(* The types of TLVs. *)
LEMMA TypesAreBytes ==
  /\ {TLV_NONE, TLV_UI_CMD, TLV_CMD_RSP, TLV_CMD_NAME, TLV_CMD_FLD_CNT, TLV_CMD_INIT_STR,
      TLV_FLD_NAME, TLV_FLD_TYPE, TLV_FLD_LEN, TLV_FLD_VAL} \subseteq Byte
  /\ {UI_CMD_START, UI_CMD_CDEF, UI_CMD_END} \subseteq Int
BY ByteIs DEF TLV_NONE, TLV_UI_CMD, TLV_CMD_RSP, TLV_CMD_NAME, TLV_CMD_FLD_CNT,
   TLV_CMD_INIT_STR, TLV_FLD_NAME, TLV_FLD_TYPE, TLV_FLD_LEN, TLV_FLD_VAL,
   UI_CMD_START, UI_CMD_CDEF, UI_CMD_END

LEMMA FieldType ==
  ASSUME NEW msg \in Seq(Byte), NEW f \in Option, NEW vals \in Stores
  PROVE  add_tlv_field(msg, f, vals[f.cell]) \in Seq(Byte)
<1>1. f.name \in Str /\ f.type \in 0 .. 3 /\ f.type \in Int /\ f.max \in Int /\ Fits(f.type, f.cell)
  BY DEF Option, Word
<1> DEFINE val == vals[f.cell]
<1>2. val \in Values(f.type)
  BY <1>1, CellType
<1> HIDE DEF val
<1> DEFINE a == add_tlv_str(msg, TLV_FLD_NAME, f.name)
           b == add_tlv_dword(a, TLV_FLD_TYPE, f.type)
           c == add_tlv_dword(b, TLV_FLD_LEN, f.max)
<1>3. a \in Seq(Byte)
  BY <1>1, TlvTypes, TypesAreBytes
<1>4. b \in Seq(Byte)
  <2> HIDE DEF a
  <2> QED
    BY <1>1, <1>3, TlvTypes, TypesAreBytes
<1>5. c \in Seq(Byte)
  <2> HIDE DEF b
  <2> QED
    BY <1>1, <1>4, TlvTypes, TypesAreBytes
<1>6. add_tlv_field(msg, f, val) = add_tlv_val(c, f, val)
  BY DEF add_tlv_field
<1> HIDE DEF c
<1>7. add_tlv_val(c, f, val) \in Seq(Byte)
  <2>0. TLV_FLD_VAL \in Byte
    BY TypesAreBytes
  <2>1. CASE f.type = CFT_NUM
    <3>1. val \in Int /\ add_tlv_val(c, f, val) = add_tlv_dword(c, TLV_FLD_VAL, val)
      BY <1>2, <2>1 DEF add_tlv_val, Values, CFT_NUM, CFT_TXT
    <3> QED
      BY <1>5, <2>0, <3>1, TlvTypes
  <2>2. CASE f.type = CFT_TXT
    <3>1. val \in Str /\ add_tlv_val(c, f, val) = add_tlv_str(c, TLV_FLD_VAL, val)
      BY <1>2, <2>2 DEF add_tlv_val, Values, CFT_NUM, CFT_TXT
    <3> QED
      BY <1>5, <2>0, <3>1, TlvTypes
  <2>3. CASE f.type \notin {CFT_NUM, CFT_TXT}
    <3>1. val \in Seq(Byte) /\ add_tlv_val(c, f, val) = add_tlv_raw(c, TLV_FLD_VAL, val)
      BY <1>2, <2>3 DEF add_tlv_val, Values
    <3> QED
      BY <1>5, <2>0, <3>1, TlvTypes
  <2> QED
    BY <2>1, <2>2, <2>3
<1> QED
  BY <1>6, <1>7 DEF val

(* An induction over the fields: after k passes k fields are gone. *)
Writing(fields, vals) == [msg : Seq(Byte), left : Seq(Option), store : {vals}]

LEMMA FieldsMsgType ==
  ASSUME NEW msg \in Seq(Byte), NEW fields \in Seq(Option), NEW vals \in Stores
  PROVE  FieldsMsg(msg, fields, vals) \in Seq(Byte)
<1> DEFINE State == Writing(fields, vals)
           I == {p \in State \X Nat : TRUE}
           first == [msg |-> msg, left |-> fields, store |-> vals]
<1>1. <<first, 0>> \in I
  BY DEF Writing
<1>2. ASSUME NEW t \in State PROVE NextField(t) \in State
  <2>1. t.msg \in Seq(Byte) /\ t.left \in Seq(Option) /\ t.store = vals
    BY DEF Writing
  <2>2. CASE t.left = <<>>
    BY <2>2 DEF NextField
  <2>3. CASE t.left # <<>>
    <3> DEFINE f == Head(t.left)
               m == add_tlv_field(t.msg, f, vals[f.cell])
               l == Tail(t.left)
    <3>1. f \in Option /\ l \in Seq(Option)
      BY <2>1, <2>3, Pop
    <3>2. m \in Seq(Byte)
      BY <2>1, <3>1, FieldType
    <3>3. NextField(t) = [t EXCEPT !.msg = m, !.left = l]
      BY <2>1, <2>3, Zenon DEF NextField
    <3> HIDE DEF f, m, l
    <3> QED
      BY <3>1, <3>2, <3>3 DEF Writing
  <2> QED
    BY <2>2, <2>3
<1>3. <<Fields!Repeat(first, Len(fields)), Len(fields)>> \in I
  <2>1. \A t : \A k \in 0 .. Len(fields) - 1 : <<t, k>> \in I => <<NextField(t), k + 1>> \in I
    BY <1>2
  <2>2. Len(fields) \in Nat
    BY LenProperties
  <2> HIDE DEF I, first
  <2> QED
    BY <1>1, <2>1, <2>2, Fields!Invariant
<1> QED
  BY <1>3 DEF FieldsMsg, Writing

LEMMA MsgTypes ==
  /\ StartMsg \in Seq(Byte) /\ EndMsg \in Seq(Byte)
  /\ \A text \in Str : RspMsg(text) \in Seq(Byte)
  /\ \A name \in Str, fields \in Seq(Option), vals \in Stores :
       CDefMsg([name |-> name, fields |-> fields], vals) \in Seq(Byte)
<1>1. ASSUME NEW msg \in Seq(Byte) PROVE terminate_tlv_list(msg) \in Seq(Byte)
  BY TypesAreBytes, AppendProperties DEF terminate_tlv_list
<1>2. <<>> \in Seq(Byte)
  BY EmptySeq
<1>3. \A c \in Int : UiCmd(c) \in Seq(Byte)
  BY <1>2, TlvTypes, TypesAreBytes DEF UiCmd
<1>4. StartMsg \in Seq(Byte)
  BY <1>1, <1>3, TlvTypes, TypesAreBytes, StringsAssumption DEF StartMsg
<1>5. EndMsg \in Seq(Byte)
  BY <1>1, <1>3, TypesAreBytes DEF EndMsg
<1>6. \A text \in Str : RspMsg(text) \in Seq(Byte)
  BY <1>1, <1>2, TlvTypes, TypesAreBytes DEF RspMsg
<1>7. ASSUME NEW name \in Str, NEW fields \in Seq(Option), NEW vals \in Stores
      PROVE  CDefMsg([name |-> name, fields |-> fields], vals) \in Seq(Byte)
  <2> DEFINE cmd == [name |-> name, fields |-> fields]
             a == add_tlv_str(UiCmd(UI_CMD_CDEF), TLV_CMD_NAME, name)
             b == FieldsMsg(a, fields, vals)
             c == add_tlv_dword(b, TLV_CMD_FLD_CNT, Len(fields))
  <2>1. a \in Seq(Byte)
    BY <1>3, TlvTypes, TypesAreBytes
  <2>2. b \in Seq(Byte)
    <3> HIDE DEF a
    <3> QED
      BY <2>1, FieldsMsgType
  <2>3. c \in Seq(Byte)
    <3>1. Len(fields) \in Int
      BY LenProperties
    <3> HIDE DEF b
    <3> QED
      BY <2>2, <3>1, TlvTypes, TypesAreBytes
  <2>4. CDefMsg(cmd, vals) = terminate_tlv_list(c)
    BY DEF CDefMsg
  <2> HIDE DEF cmd, c
  <2> QED
    BY <1>1, <2>3, <2>4 DEF cmd
<1> QED
  BY <1>4, <1>5, <1>6, <1>7

LEMMA ReceivedType ==
  ASSUME NEW msg \in Seq(Byte), NEW old \in Seq(Byte)
  PROVE  Received(msg, old) \in Seq(Byte)
<1>1. Len(msg) \in Nat /\ Len(old) \in Nat
  BY LenProperties
<1> DEFINE s == SubSeq(old, Len(msg) + 1, Len(old))
<1>2. s \in Seq(Byte)
  BY <1>1, PartOf
<1>3. Received(msg, old) = msg \o s
  BY DEF Received
<1> HIDE DEF s
<1> QED
  BY <1>2, <1>3, ConcatProperties, Zenon
-----------------------------------------------------------------------------
(* What the UI reads. *)

LEMMA ByteAtType ==
  ASSUME NEW b \in Seq(Byte), NEW p \in Nat, p > 0
  PROVE  /\ ByteAt(b, p) \in Byte /\ ByteAt(b, p) \in Nat
         /\ DwordAt(b, p) \in Nat
         /\ DwordAt(b, p) % 65536 = 0 <=> ByteAt(b, p) = 0 /\ ByteAt(b, p + 1) = 0
<1>1. ASSUME NEW q \in Nat, q > 0
      PROVE  ByteAt(b, q) \in Byte /\ ByteAt(b, q) \in Nat /\ ByteAt(b, q) <= 255
  <2>1. Len(b) \in Nat
    BY LenProperties
  <2>2. q <= Len(b) => b[q] \in Byte
    <3>1. q <= Len(b) => q \in 1 .. Len(b)
      BY <1>1, <2>1
    <3> QED
      BY <3>1, ElementOfSeq
  <2>3. 0 \in Byte
    BY ByteIs
  <2>4. ByteAt(b, q) \in Byte
    BY <2>2, <2>3 DEF ByteAt
  <2> QED
    BY <2>4, ByteIs
<1> DEFINE w == ByteAt(b, p)
           x == ByteAt(b, p + 1)
           y == ByteAt(b, p + 2)
           z == ByteAt(b, p + 3)
<1>2. /\ w \in Nat /\ w <= 255 /\ x \in Nat /\ x <= 255 /\ y \in Nat /\ z \in Nat
      /\ w \in Byte
  BY <1>1
<1>3. DwordAt(b, p) = w + 256 * x + 65536 * y + 16777216 * z
  BY DEF DwordAt
<1> HIDE DEF w, x, y, z
<1>4. w + 256 * x + 65536 * y + 16777216 * z \in Nat
  BY <1>2
<1>5. (w + 256 * x + 65536 * y + 16777216 * z) % 65536 = w + 256 * x
  BY <1>2
<1>6. w + 256 * x = 0 <=> w = 0 /\ x = 0
  BY <1>2
<1> DEFINE d == w + 256 * x + 65536 * y + 16777216 * z
<1>7. d \in Nat /\ d % 65536 = w + 256 * x /\ DwordAt(b, p) = d
  BY <1>3, <1>4, <1>5
<1> HIDE DEF d
<1>8. DwordAt(b, p) \in Nat /\ (DwordAt(b, p) % 65536 = 0 <=> w = 0 /\ x = 0)
  BY <1>6, <1>7
<1> QED
  BY <1>2, <1>8 DEF w, x

(* A text ends at two bytes that are zero, or with the TLV.                *)
LEMMA TextAtIs ==
  ASSUME NEW b \in Seq(Byte), NEW p \in Nat, p > 0, NEW len \in Nat
  PROVE  /\ TextAt(b, p, len) \in Str
         /\ \A s \in Str :
              /\ 2 * Len(s) <= len
              /\ 2 * Len(s) + 1 < len =>
                   ByteAt(b, p + 2 * Len(s)) = 0 /\ ByteAt(b, p + 2 * Len(s) + 1) = 0
              /\ \A i \in 1 .. Len(s) :
                   /\ ByteAt(b, p + 2 * (i - 1)) = Code[s[i]]
                   /\ ByteAt(b, p + 2 * (i - 1) + 1) = 0
              => TextAt(b, p, len) = s
<1> DEFINE Z(n) == DwordAt(b, p + 2 * n) % 65536 = 0
           N == len \div 2
           OK(n) == /\ n < N => Z(n)
                    /\ \A i \in 0 .. n - 1 : ~Z(i)
           zero == CHOOSE n \in 0 .. N : OK(n)
<1>1. N \in Nat /\ (\A n \in Nat : n < N <=> 2 * n + 1 < len) /\ \A n \in Nat : n <= N <=> 2 * n <= len
  OBVIOUS
<1>2. \A n \in Nat : Z(n) <=> ByteAt(b, p + 2 * n) = 0 /\ ByteAt(b, p + 2 * n + 1) = 0
  <2> SUFFICES ASSUME NEW n \in Nat
               PROVE  Z(n) <=> ByteAt(b, p + 2 * n) = 0 /\ ByteAt(b, p + 2 * n + 1) = 0
    OBVIOUS
  <2> DEFINE q == p + 2 * n
  <2>1. q \in Nat /\ q > 0
    OBVIOUS
  <2> HIDE DEF q
  <2>2. DwordAt(b, q) % 65536 = 0 <=> ByteAt(b, q) = 0 /\ ByteAt(b, q + 1) = 0
    BY <2>1, ByteAtType
  <2> QED
    BY <2>2 DEF q
<1>3. TextAt(b, p, len) = [i \in 1 .. zero |-> CharOf[ByteAt(b, p + 2 * (i - 1))]]
  BY DEF TextAt
<1>4. \E n \in 0 .. N : OK(n)
  <2> DEFINE S == {n \in 0 .. N : n = N \/ Z(n)}
  <2>1. PICK n \in S : \A y \in S : n <= y
    <3>1. S \subseteq Nat /\ N \in S
      BY <1>1
    <3> HIDE DEF S
    <3> QED
      BY <3>1, Words!Smallest
  <2>2. ASSUME NEW i \in 0 .. n - 1 PROVE ~Z(i)
    <3>1. i \in 0 .. N /\ ~(n <= i)
      BY <1>1
    <3> QED
      BY <2>1, <3>1
  <2> QED
    BY <2>1, <2>2
<1> HIDE DEF Z, N
<1>5. zero \in 0 .. N /\ OK(zero)
  <2> HIDE DEF OK
  <2> QED
    BY <1>4
<1> HIDE DEF zero
<1>6. TextAt(b, p, len) \in Str
  <2>1. ASSUME NEW i \in 1 .. zero PROVE CharOf[ByteAt(b, p + 2 * (i - 1))] \in Alphabet
    <3>1. p + 2 * (i - 1) \in Nat /\ p + 2 * (i - 1) > 0
      BY <1>1, <1>5
    <3>2. ByteAt(b, p + 2 * (i - 1)) \in Byte
      BY <3>1, ByteAtType
    <3> QED
      BY <3>2, CodeAssumption
  <2>2. zero \in Nat
    BY <1>1, <1>5
  <2> DEFINE C(i) == CharOf[ByteAt(b, p + 2 * (i - 1))]
  <2> HIDE DEF C
  <2>3. \A i \in 1 .. zero : C(i) \in Alphabet
    BY <2>1 DEF C
  <2>4. TextAt(b, p, len) = [i \in 1 .. zero |-> C(i)]
    BY <1>3 DEF C
  <2> QED
    BY <2>2, <2>3, <2>4, IsASeq DEF Str
<1>7. ASSUME NEW s \in Str,
             2 * Len(s) <= len,
             2 * Len(s) + 1 < len =>
               ByteAt(b, p + 2 * Len(s)) = 0 /\ ByteAt(b, p + 2 * Len(s) + 1) = 0,
             \A i \in 1 .. Len(s) :
               /\ ByteAt(b, p + 2 * (i - 1)) = Code[s[i]]
               /\ ByteAt(b, p + 2 * (i - 1) + 1) = 0
      PROVE  TextAt(b, p, len) = s
  <2>1. Len(s) \in Nat /\ s \in Seq(Alphabet)
    BY LenProperties DEF Str
  <2>2. Len(s) <= N /\ (Len(s) < N => Z(Len(s)))
    BY <1>1, <1>2, <1>7, <2>1
  <2>3. ASSUME NEW n \in 0 .. Len(s) - 1 PROVE ~Z(n)
    <3>1. n + 1 \in 1 .. Len(s) /\ (n + 1) - 1 = n
      BY <2>1
    <3>2. s[n + 1] \in Alphabet
      BY <2>1, <3>1, ElementOfSeq
    <3>3. ByteAt(b, p + 2 * n) = Code[s[n + 1]]
      BY <1>7, <3>1
    <3>4. Code[s[n + 1]] # 0
      BY <3>2, CodeAssumption
    <3> QED
      BY <1>2, <3>3, <3>4
  <2>4. zero = Len(s)
    BY <1>1, <1>5, <2>1, <2>2, <2>3
  <2>5. ASSUME NEW i \in 1 .. Len(s) PROVE CharOf[ByteAt(b, p + 2 * (i - 1))] = s[i]
    <3>1. s[i] \in Alphabet
      BY <2>1, ElementOfSeq
    <3> QED
      BY <1>7, <3>1, CodeAssumption
  <2>6. s = [i \in 1 .. Len(s) |-> s[i]]
    BY <2>1
  <2> QED
    BY <1>3, <2>4, <2>5, <2>6
<1> QED
  BY <1>6, <1>7

(* A part of the last field is set; with no field there, nothing.          *)
LEMMA LastSet ==
  ASSUME NEW fields \in Seq(Learned)
  PROVE  /\ \A d \in Int : /\ [fields EXCEPT ![Len(fields)].type = d] \in Seq(Learned)
                           /\ [fields EXCEPT ![Len(fields)].max = d] \in Seq(Learned)
         /\ \A d \in BOOLEAN : [fields EXCEPT ![Len(fields)].set = d] \in Seq(Learned)
<1> DEFINE l == Len(fields)
<1>1. l \in Nat /\ fields \in [1 .. l -> Learned] /\ DOMAIN fields = 1 .. l
  BY LenProperties
<1>2. ASSUME NEW e, l \in 1 .. l => e \in Learned PROVE [fields EXCEPT ![l] = e] \in Seq(Learned)
  <2>1. CASE l \in 1 .. l
    BY <1>2, <2>1, ExceptSeq
  <2>2. CASE l \notin 1 .. l
    <3> HIDE DEF l
    <3>1. [fields EXCEPT ![l] = e] = fields
      BY <1>1, <2>2
    <3> QED
      BY <3>1
  <2> QED
    BY <2>1, <2>2
<1>3. l \in 1 .. l => fields[l] \in Learned
  BY <1>1
<1> HIDE DEF l
<1>4. ASSUME NEW d \in Int PROVE [fields EXCEPT ![l].type = d] \in Seq(Learned)
  <2>1. l \in 1 .. l => [fields[l] EXCEPT !.type = d] \in Learned
    BY <1>3 DEF Learned
  <2> QED
    BY <1>2, <2>1
<1>5. ASSUME NEW d \in Int PROVE [fields EXCEPT ![l].max = d] \in Seq(Learned)
  <2>1. l \in 1 .. l => [fields[l] EXCEPT !.max = d] \in Learned
    BY <1>3 DEF Learned
  <2> QED
    BY <1>2, <2>1
<1>6. ASSUME NEW d \in BOOLEAN PROVE [fields EXCEPT ![l].set = d] \in Seq(Learned)
  <2>1. l \in 1 .. l => [fields[l] EXCEPT !.set = d] \in Learned
    BY <1>3 DEF Learned
  <2> QED
    BY <1>2, <2>1
<1> QED
  BY <1>4, <1>5, <1>6 DEF l

Places == {p \in Nat : p > 0}

LEMMA PlacesAfter ==
  ASSUME NEW b \in Seq(Byte), NEW p \in Places
  PROVE  /\ ValueOf(p) \in Places /\ AfterTlv(b, p) \in Places /\ AfterDword(p) \in Places
         /\ AfterRaw(b, p) \in Places /\ LenAt(b, p) \in Nat
         /\ DwordAt(b, ValueOf(p)) \in Int
         /\ TextAt(b, ValueOf(p), LenAt(b, p)) \in Str
<1>1. p \in Nat /\ p > 0 /\ p + 1 \in Nat /\ p + 1 > 0 /\ p + 2 \in Nat /\ p + 2 > 0
  BY DEF Places
<1>2. /\ ByteAt(b, p + 1) \in Nat /\ ByteAt(b, p + 2) \in Nat /\ DwordAt(b, p + 2) \in Nat
      /\ \A len \in Nat : TextAt(b, p + 2, len) \in Str
  BY <1>1, ByteAtType, TextAtIs
<1> QED
  BY <1>1, <1>2 DEF Places, ValueOf, AfterTlv, AfterDword, AfterRaw, LenAt

ReadingState == [buf : Seq(Byte), p : Places, fields : Seq(Learned)]

LEMMA ReadNextType ==
  ASSUME NEW s \in ReadingState
  PROVE  ReadNext(s) \in ReadingState
<1> DEFINE dword == DwordAt(s.buf, ValueOf(s.p))
           last == Len(s.fields)
           name == TextAt(s.buf, ValueOf(s.p), LenAt(s.buf, s.p))
           field == [name |-> name, type |-> CFT_NUM, max |-> -1, set |-> FALSE]
           g(x) == [s EXCEPT !.p = x]
           h(x, f) == [s EXCEPT !.p = x, !.fields = f]
<1>1. s.buf \in Seq(Byte) /\ s.p \in Places /\ s.fields \in Seq(Learned)
  BY DEF ReadingState
<1>2. \A x \in Places : g(x) \in ReadingState
  BY <1>1 DEF ReadingState
<1>3. \A x \in Places, f \in Seq(Learned) : h(x, f) \in ReadingState
  BY <1>1 DEF ReadingState
<1>4. dword \in Int /\ (dword # 0) \in BOOLEAN
  BY <1>1, PlacesAfter
<1>5. Append(s.fields, field) \in Seq(Learned)
  <2>1. name \in Str
    BY <1>1, PlacesAfter
  <2>2. field \in Learned
    <3> HIDE DEF name
    <3> QED
      BY <2>1 DEF Learned, CFT_NUM
  <2> HIDE DEF field
  <2> QED
    BY <1>1, <2>2, AppendProperties
<1> HIDE DEF field
<1> DEFINE type == ByteAt(s.buf, s.p)
           kind == s.fields[last].type
           e1 == h(AfterTlv(s.buf, s.p), Append(s.fields, field))
           e2 == h(AfterDword(s.p), [s.fields EXCEPT ![last].type = dword])
           e3 == h(AfterDword(s.p), [s.fields EXCEPT ![last].max = dword])
           e4 == h(AfterDword(s.p), [s.fields EXCEPT ![last].set = (dword # 0)])
           e5 == h(AfterTlv(s.buf, s.p), [s.fields EXCEPT ![last].set = TRUE])
           e6 == h(AfterRaw(s.buf, s.p), [s.fields EXCEPT ![last].set = TRUE])
           e7 == g(ValueOf(s.p))
           e8 == g(AfterTlv(s.buf, s.p))
<1>6. ReadNext(s) \in {s, e1, e2, e3, e4, e5, e6, e7, e8}
  <2>1. ReadNext(s) =
          CASE type = TLV_NONE -> s
            [] type = TLV_FLD_NAME -> e1
            [] type = TLV_FLD_TYPE -> e2
            [] type = TLV_FLD_LEN -> e3
            [] type = TLV_FLD_VAL /\ kind = CFT_NUM -> e4
            [] type = TLV_FLD_VAL /\ kind = CFT_TXT -> e5
            [] type = TLV_FLD_VAL /\ kind \in {CFT_RAW8, CFT_RAW16} -> e6
            [] type = TLV_FLD_VAL /\ kind \notin {CFT_NUM, CFT_TXT, CFT_RAW8, CFT_RAW16} -> e7
            [] OTHER -> e8
    BY Zenon DEF ReadNext, field
  <2> HIDE DEF e1, e2, e3, e4, e5, e6, e7, e8, type, kind
  <2> QED
    BY <2>1
<1>7. /\ ValueOf(s.p) \in Places /\ AfterTlv(s.buf, s.p) \in Places
      /\ AfterDword(s.p) \in Places /\ AfterRaw(s.buf, s.p) \in Places
  BY <1>1, PlacesAfter
<1>8. /\ [s.fields EXCEPT ![last].type = dword] \in Seq(Learned)
      /\ [s.fields EXCEPT ![last].max = dword] \in Seq(Learned)
      /\ [s.fields EXCEPT ![last].set = (dword # 0)] \in Seq(Learned)
      /\ [s.fields EXCEPT ![last].set = TRUE] \in Seq(Learned)
  <2> HIDE DEF dword
  <2> QED
    BY <1>1, <1>4, LastSet
<1> HIDE DEF g, h, dword, last
<1> QED
  BY <1>2, <1>3, <1>5, <1>6, <1>7, <1>8

LEMMA ReadFieldsType ==
  ASSUME NEW b \in Seq(Byte), NEW p \in Places
  PROVE  ReadFields(b, p) \in Seq(Learned)
<1> DEFINE I == ReadingState \X Nat
           first == [buf |-> b, p |-> p, fields |-> <<>>]
           m == Len(b) \div 2
<1>1. <<first, 0>> \in I
  BY EmptySeq DEF ReadingState
<1>2. \A t : \A k \in 0 .. m - 1 : <<t, k>> \in I => <<ReadNext(t), k + 1>> \in I
  BY ReadNextType
<1>3. m \in Nat
  BY LenProperties
<1> HIDE DEF I, first, m
<1>4. <<Reading!Repeat(first, m), m>> \in I
  BY <1>1, <1>2, <1>3, Reading!Invariant
<1>5. Reading!Repeat(first, m).fields \in Seq(Learned)
  BY <1>4 DEF I, ReadingState
<1> QED
  BY <1>5 DEF ReadFields, first, m

Entry == [name : Str, fields : Seq(Learned)]

LEMMA ReadCDefType ==
  ASSUME NEW b \in Seq(Byte)
  PROVE  ReadCDef(b) \in Entry
<1> DEFINE name == AfterDword(1)
           first == AfterTlv(b, name)
<1>1. name \in Places
  BY DEF AfterDword, ValueOf, Places
<1> HIDE DEF name
<1>2. first \in Places /\ TextAt(b, ValueOf(name), LenAt(b, name)) \in Str
  BY <1>1, PlacesAfter
<1>3. ReadFields(b, first) \in Seq(Learned)
  <2> HIDE DEF first
  <2> QED
    BY <1>2, ReadFieldsType
<1>4. NoFields \in Seq(Learned)
  <2>1. <<>> \in Str
    BY EmptySeq DEF Str
  <2>2. [name |-> <<>>, type |-> -1, max |-> -1, set |-> FALSE] \in Learned
    BY <2>1 DEF Learned
  <2> QED
    BY <2>2 DEF NoFields
<1> DEFINE fields == IF CountFields(b, first) THEN ReadFields(b, first) ELSE NoFields
<1>5. fields \in Seq(Learned)
  BY <1>3, <1>4
<1>6. ReadCDef(b) = [name |-> TextAt(b, ValueOf(name), LenAt(b, name)), fields |-> fields]
  BY DEF ReadCDef, name
<1> HIDE DEF fields
<1> QED
  BY <1>2, <1>5, <1>6 DEF Entry

Defining(vals) == [buf : Seq(Byte), table : Seq(Entry),
                   left : Seq([name : Word, fields : Seq(Option)]), store : {vals}]

LEMMA HandshakeType ==
  ASSUME NEW vals \in Stores, NEW old \in Seq(Byte)
  PROVE  Handshake(vals, old) \in [buf : Seq(Byte), table : Seq(Entry)]
<1> DEFINE I == Defining(vals) \X Nat
           first == [buf |-> Received(StartMsg, old), table |-> <<>>, left |-> gta_io_ui_cmd,
                     store |-> vals]
           m == Len(gta_io_ui_cmd)
           defined == Commands!Repeat(first, m)
<1>1. <<first, 0>> \in I
  BY MsgTypes, ReceivedType, EmptySeq, TableAssumption DEF Defining
<1>2. ASSUME NEW t \in Defining(vals) PROVE NextCmd(t) \in Defining(vals)
  <2>1. /\ t.buf \in Seq(Byte) /\ t.table \in Seq(Entry) /\ t.store = vals
        /\ t.left \in Seq([name : Word, fields : Seq(Option)])
    BY DEF Defining
  <2>2. CASE t.left = <<>>
    BY <2>2 DEF NextCmd
  <2>3. CASE t.left # <<>>
    <3> DEFINE c == Head(t.left)
               b == Received(CDefMsg(c, t.store), t.buf)
               l == Tail(t.left)
               e == Append(t.table, ReadCDef(b))
    <3>1. c \in [name : Word, fields : Seq(Option)] /\ l \in Seq([name : Word, fields : Seq(Option)])
      BY <2>1, <2>3, Pop
    <3>2. CDefMsg(c, t.store) \in Seq(Byte)
      <4> HIDE DEF c
      <4>1. c = [name |-> c.name, fields |-> c.fields] /\ c.name \in Str /\ c.fields \in Seq(Option)
        BY <3>1 DEF Word
      <4> QED
        BY <2>1, <4>1, MsgTypes
    <3>3. b \in Seq(Byte)
      <4> HIDE DEF c
      <4> QED
        BY <2>1, <3>2, ReceivedType
    <3>4. e \in Seq(Entry)
      <4> HIDE DEF b
      <4> QED
        BY <2>1, <3>3, ReadCDefType, AppendProperties
    <3>5. NextCmd(t) = [t EXCEPT !.buf = b, !.table = e, !.left = l]
      BY <2>3, Zenon DEF NextCmd
    <3> HIDE DEF b, e, l
    <3> QED
      BY <3>1, <3>3, <3>4, <3>5 DEF Defining
  <2> QED
    BY <2>2, <2>3
<1>3. \A t : \A k \in 0 .. m - 1 : <<t, k>> \in I => <<NextCmd(t), k + 1>> \in I
  BY <1>2
<1>4. m \in Nat
  BY TableAssumption, LenProperties
<1>5. <<defined, m>> \in I
  <2> HIDE DEF I, first, m
  <2> QED
    BY <1>1, <1>3, <1>4, Commands!Invariant
<1> HIDE DEF defined
<1>6. defined.buf \in Seq(Byte) /\ defined.table \in Seq(Entry)
  BY <1>5 DEF Defining
<1>7. Handshake(vals, old) = [buf |-> Received(EndMsg, defined.buf), table |-> defined.table]
  BY DEF Handshake, defined
<1>8. Received(EndMsg, defined.buf) \in Seq(Byte)
  BY <1>6, MsgTypes, ReceivedType
<1> QED
  BY <1>6, <1>7, <1>8
-----------------------------------------------------------------------------
(* Completion. *)

LEMMA ConcatType ==
  ASSUME NEW s \in Str, NEW t \in Str
  PROVE  s \o t \in Str
<1>1. s \in Seq(Alphabet) /\ t \in Seq(Alphabet)
  BY DEF Str
<1> QED
  BY <1>1, ConcatProperties, Zenon DEF Str

LEMMA CharType ==
  ASSUME NEW c \in Alphabet
  PROVE  UpperOf[c] \in Alphabet /\ LowerOf[c] \in Alphabet
BY CaseAssumption

LEMMA CommonType ==
  ASSUME NEW T, NEW entries \in Seq(T), \A i \in 1 .. Len(entries) : entries[i].name \in Str,
         NEW word \in Str
  PROVE  /\ Common(entries, word) \subseteq Alphabet
         /\ Len(ExtensionOfFirst(entries, word)) \in Nat
<1>1. Len(entries) \in Nat /\ Len(word) \in Nat /\ DOMAIN entries = 1 .. Len(entries)
  BY LenProperties DEF Str
<1> DEFINE I == Matching(entries, word)
<1>2. I \subseteq 1 .. Len(entries)
  BY <1>1 DEF Matching
<1> HIDE DEF I
<1>3. ASSUME NEW i \in I, Len(entries[i].name) > Len(word)
      PROVE  entries[i].name[Len(word) + 1] \in Alphabet
  <2> DEFINE n == entries[i].name
  <2>1. n \in Seq(Alphabet)
    BY <1>2 DEF Str
  <2>2. Len(n) \in Nat /\ Len(n) > Len(word)
    BY <1>3, <2>1, LenProperties
  <2> HIDE DEF n
  <2>3. Len(word) + 1 \in 1 .. Len(n)
    BY <1>1, <2>2
  <2>4. n[Len(word) + 1] \in Alphabet
    BY <2>1, <2>3, ElementOfSeq
  <2> QED
    BY <2>4 DEF n
<1>4. Common(entries, word) \subseteq Alphabet
  BY <1>3, Zenon DEF Common, I
<1>5. Len(ExtensionOfFirst(entries, word)) \in Nat
  <2>1. CASE I = {}
    <3>1. ExtensionOfFirst(entries, word) = <<>>
      BY <2>1 DEF ExtensionOfFirst, I
    <3> QED
      BY <3>1, EmptySeq
  <2>2. CASE I # {}
    <3> DEFINE n == entries[Min(I)].name
    <3>1. Min(I) \in I
      <4>1. I \subseteq Nat
        BY <1>1, <1>2
      <4> QED
        BY <2>2, <4>1, LeastOf
    <3>2. n \in Seq(Alphabet) /\ Len(n) \in Nat
      BY <1>2, <3>1, LenProperties DEF Str
    <3>3. ExtensionOfFirst(entries, word) = SubSeq(n, Len(word) + 1, Len(n))
      BY <2>2, Zenon DEF ExtensionOfFirst, I
    <3> HIDE DEF n
    <3>4. SubSeq(n, Len(word) + 1, Len(n)) \in Seq(Alphabet)
      BY <1>1, <3>2, PartOf
    <3> QED
      BY <3>3, <3>4, LenProperties
  <2> QED
    BY <2>1, <2>2
<1> QED
  BY <1>4, <1>5

LEMMA NotEmpty ==
  ASSUME NEW S, Cardinality(S) = 1
  PROVE  S # {}
<1>1. Cardinality({}) = 0
  BY FS_EmptySet
<1>2. S = {} => Cardinality(S) = 0
  BY <1>1
<1> QED
  BY <1>2

Extending(entries) == [entries : {entries}, word : Str, ext : Str]

LEMMA ExtensionType ==
  ASSUME NEW T, NEW entries \in Seq(T), \A i \in 1 .. Len(entries) : entries[i].name \in Str,
         NEW word \in Str
  PROVE  ExtensionOf(entries, word) \in Str
<1> DEFINE I == Extending(entries) \X Nat
           first == [entries |-> entries, word |-> word, ext |-> <<>>]
           m == Len(ExtensionOfFirst(entries, word))
<1>1. <<first, 0>> \in I
  <2>1. <<>> \in Str
    BY EmptySeq DEF Str
  <2> QED
    BY <2>1 DEF Extending
<1>2. ASSUME NEW t \in Extending(entries) PROVE NextCommon(t) \in Extending(entries)
  <2>1. t.entries = entries /\ t.word \in Str /\ t.ext \in Str
    BY DEF Extending
  <2> DEFINE S == Common(entries, t.word)
             c == match_case(CHOOSE x \in S : TRUE, t.word)
             w == Append(t.word, c)
             e == Append(t.ext, c)
  <2>2. CASE Cardinality(S) # 1
    BY <2>1, <2>2, Zenon DEF NextCommon
  <2>3. CASE Cardinality(S) = 1
    <3>1. S # {}
      <4> HIDE DEF S
      <4> QED
        BY <2>3, NotEmpty
    <3>2. S \subseteq Alphabet
      BY <2>1, CommonType
    <3>3. c \in Alphabet
      <4> HIDE DEF S
      <4>1. (CHOOSE x \in S : TRUE) \in Alphabet
        BY <3>1, <3>2
      <4> QED
        BY <4>1, CharType DEF match_case
    <3>4. NextCommon(t) = [t EXCEPT !.word = w, !.ext = e]
      BY <2>1, <2>3, Zenon DEF NextCommon
    <3> HIDE DEF S, c
    <3>5. w \in Str /\ e \in Str
      BY <2>1, <3>3, AppendProperties DEF Str
    <3> HIDE DEF w, e
    <3> QED
      BY <3>4, <3>5 DEF Extending
  <2> QED
    BY <2>2, <2>3
<1>3. \A t : \A k \in 0 .. m - 1 : <<t, k>> \in I => <<NextCommon(t), k + 1>> \in I
  BY <1>2
<1>4. m \in Nat
  BY CommonType
<1> HIDE DEF I, first, m
<1>5. <<Completing!Repeat(first, m), m>> \in I
  BY <1>1, <1>3, <1>4, Completing!Invariant
<1>6. Completing!Repeat(first, m).ext \in Str
  BY <1>5 DEF I, Extending
<1> QED
  BY <1>6 DEF ExtensionOf, first, m

LEMMA WordsType ==
  ASSUME NEW words \in Seq(Word)
  PROVE  /\ FirstWord(words) \in Str /\ LastWord(words) \in Str
         /\ NoDash(LastWord(words)) \in Str
<1>1. Len(words) \in Nat /\ <<>> \in Str /\ \A i \in 1 .. Len(words) : words[i] \in Word
  BY LenProperties, EmptySeq, ElementOfSeq DEF Str
<1>2. words # <<>> => Len(words) > 0
  BY <1>1, EmptySeq
<1>3. FirstWord(words) \in Str
  <2>1. words # <<>> => words[1] \in Word
    BY <1>1, <1>2
  <2> QED
    BY <1>1, <2>1, RestOfWord DEF FirstWord
<1>4. LastWord(words) \in Word \cup {<<>>}
  BY <1>1 DEF LastWord
<1> HIDE DEF LastWord
<1>5. NoDash(LastWord(words)) \in Str /\ LastWord(words) \in Str
  BY <1>1, <1>4, RestOfWord, Zenon DEF NoDash
<1> QED
  BY <1>3, <1>5

LEMMA InsertedType ==
  ASSUME NEW tab \in Seq(Entry), NEW text \in Str
  PROVE  Inserted(tab, text) \in Str
<1> DEFINE words == Tokens(text)
           cmd == Named(tab, FirstWord(words))
<1>1. /\ FirstWord(words) \in Str /\ LastWord(words) \in Str
      /\ NoDash(LastWord(words)) \in Str
  BY TokensType, WordsType
<1>2. Len(tab) \in Nat /\ \A i \in 1 .. Len(tab) : tab[i] \in Entry
  BY LenProperties, ElementOfSeq
<1>3. cmd \in 0 .. Len(tab)
  BY NamedIs
<1>4. <<>> \in Str /\ Chars(" -") \in Str /\ <<Blank>> \in Str
  <2>1. <<>> \in Str /\ <<Blank>> \in Str
    BY EmptySeq, BlankAssumption DEF Str
  <2>2. Chars(" -") \in Str
    BY StringsAssumption, Zenon
  <2> QED
    BY <2>1, <2>2, Zenon
<1>5. ASSUME NEW T, NEW entries \in Seq(T), \A i \in 1 .. Len(entries) : entries[i].name \in Str,
             NEW word \in Str, NoDash(word) \in Str
      PROVE  InsertOption(entries, word) \in Str
  <2> DEFINE ext == ExtensionOf(entries, NoDash(word))
             b == IF Complete(entries, NoDash(word) \o ext) THEN <<Blank>> ELSE <<>>
             d == IF word = <<>> THEN Chars(" -") ELSE <<>>
  <2>1. ext \in Str
    BY <1>5, ExtensionType
  <2>2. b \in Str /\ d \in Str
    BY <1>4, Zenon
  <2>3. InsertOption(entries, word) = (d \o ext) \o b
    BY Zenon DEF InsertOption
  <2> HIDE DEF d, ext, b
  <2> QED
    BY <2>1, <2>2, <2>3, ConcatType
<1>6. ASSUME NEW word \in Str PROVE InsertCommand(tab, word) \in Str
  <2> DEFINE ext == ExtensionOf(tab, word)
             fields == tab[Named(tab, word \o ext)].fields
             more == Complete(tab, word \o ext) /\ fields # <<>> /\ fields[1].set
             b == IF more THEN Chars(" -") ELSE <<>>
  <2>1. ext \in Str
    <3>1. \A i \in 1 .. Len(tab) : tab[i].name \in Str
      BY <1>2 DEF Entry
    <3> QED
      BY <3>1, ExtensionType
  <2>2. b \in Str
    BY <1>4, Zenon
  <2>3. InsertCommand(tab, word) = ext \o b
    BY Zenon DEF InsertCommand
  <2> HIDE DEF ext, b
  <2> QED
    BY <2>1, <2>2, <2>3, ConcatType
<1>7. cmd # 0 => InsertOption(tab[cmd].fields, LastWord(words)) \in Str
  <2> SUFFICES ASSUME cmd # 0 PROVE InsertOption(tab[cmd].fields, LastWord(words)) \in Str
    OBVIOUS
  <2> DEFINE entries == tab[cmd].fields
  <2>1. tab[cmd] \in Entry
    BY <1>2, <1>3
  <2>2. entries \in Seq(Learned)
    BY <2>1 DEF Entry
  <2> HIDE DEF entries
  <2>3. \A i \in 1 .. Len(entries) : entries[i].name \in Str
    <3>1. \A i \in 1 .. Len(entries) : entries[i] \in Learned
      BY <2>2, ElementOfSeq
    <3> QED
      BY <3>1 DEF Learned
  <2>4. InsertOption(entries, LastWord(words)) \in Str
    BY <1>1, <1>5, <2>2, <2>3
  <2> QED
    BY <2>4 DEF entries
<1>8. \/ cmd # 0 /\ Inserted(tab, text) = InsertOption(tab[cmd].fields, LastWord(words))
      \/ Inserted(tab, text) = InsertCommand(tab, FirstWord(words))
      \/ Inserted(tab, text) = <<>>
  BY Zenon DEF Inserted
<1> HIDE DEF cmd, words
<1> QED
  BY <1>1, <1>4, <1>6, <1>7, <1>8

LEMMA SplitType ==
  ASSUME NEW s \in Str, NEW pos \in 0 .. Len(s), NEW ins \in Str
  PROVE  /\ Left(s, pos) \in Str /\ Right(s, pos) \in Str
         /\ Left(s, pos) \o ins \o Right(s, pos) \in Str
         /\ Len(Left(s, pos) \o ins \o Right(s, pos)) = Len(s) + Len(ins)
<1>1. Len(s) \in Nat /\ s \in Seq(Alphabet) /\ Len(ins) \in Nat
  BY LenProperties DEF Str
<1> DEFINE a == Left(s, pos)
           b == Right(s, pos)
<1>2. a \in Str /\ b \in Str
  BY <1>1, PartOf DEF Left, Right, Str
<1>3. Len(a) = pos /\ Len(b) = Len(s) - pos
  <2>1. CASE pos = 0
    BY <1>1, <2>1, SubSeqEmpty, SubSeqFull, EmptySeq DEF Left, Right
  <2>2. CASE pos = Len(s) /\ pos # 0
    BY <1>1, <2>2, SubSeqEmpty, SubSeqFull, EmptySeq DEF Left, Right
  <2>3. CASE pos # 0 /\ pos # Len(s)
    BY <1>1, <2>3, SubSeqProperties DEF Left, Right
  <2> QED
    BY <2>1, <2>2, <2>3
<1> HIDE DEF a, b
<1>4. a \o ins \in Str /\ (a \o ins) \o b \in Str
  BY <1>2, ConcatType
<1>5. Len(a \o ins) = Len(a) + Len(ins) /\ Len((a \o ins) \o b) = Len(a \o ins) + Len(b)
  BY <1>2, <1>4, ConcatProperties, Zenon DEF Str
<1>6. Len((a \o ins) \o b) = Len(s) + Len(ins)
  BY <1>1, <1>3, <1>5
<1> QED
  BY <1>2, <1>4, <1>6 DEF a, b
-----------------------------------------------------------------------------
(* Lines that are carried out, and what the device is told. *)

LEMMA TenCommands == Len(gta_io_ui_cmd) = 10
BY DEF gta_io_ui_cmd

LEMMA FieldsOf ==
  ASSUME NEW cmd \in 1 .. Len(gta_io_ui_cmd)
  PROVE  /\ gta_io_ui_cmd[cmd].name \in Word
         /\ gta_io_ui_cmd[cmd].fields \in Seq(Option)
         /\ gta_io_ui_cmd[cmd].fields # NoFields
<1>1. gta_io_ui_cmd[cmd] \in [name : Word, fields : Seq(Option)]
  BY TableAssumption, ElementOfSeq
<1> DEFINE fields == gta_io_ui_cmd[cmd].fields
<1>2. fields \in Seq(Option) /\ gta_io_ui_cmd[cmd].name \in Word
  BY <1>1
<1> HIDE DEF fields
<1>3. fields # NoFields
  <2> SUFFICES ASSUME fields = NoFields PROVE FALSE
    OBVIOUS
  <2>1. Len(fields) = 1 /\ fields[1].type = -1
    BY DEF NoFields
  <2>2. fields[1] \in Option
    BY <1>2, <2>1, ElementOfSeq
  <2> QED
    BY <2>1, <2>2 DEF Option
<1> QED
  BY <1>2, <1>3 DEF fields

LEMMA CommandType ==
  ASSUME NEW text \in Str, NEW vals \in Stores, NEW n_update \in BOOLEAN
  PROVE  /\ decomposite_cp_cmd(text, gta_io_ui_cmd, vals, n_update).cmd \in 0 .. 10
         /\ decomposite_cp_cmd(text, gta_io_ui_cmd, vals, n_update).store \in Stores
<1> DEFINE words == Tokens(text)
           cmd == IF words = <<>> THEN 0 ELSE Named(gta_io_ui_cmd, Head(words))
           fields == gta_io_ui_cmd[cmd].fields
           r == update_cmd_int(Tail(words), fields, vals, n_update)
           d == decomposite_cp_cmd(text, gta_io_ui_cmd, vals, n_update)
<1>1. words \in Seq(Word)
  BY TokensType
<1>2. cmd \in 0 .. 10
  BY NamedIs, TableAssumption, TenCommands
<1>3. \/ d = [cmd |-> 0, store |-> vals]
      \/ cmd # 0 /\ words # <<>> /\ d = Outcome(cmd, r)
  BY Zenon DEF decomposite_cp_cmd, OfWords, AsCommand
<1>4. cmd # 0 /\ words # <<>> => r \in Parsing(fields)
  <2> SUFFICES ASSUME cmd # 0, words # <<>> PROVE r \in Parsing(fields)
    OBVIOUS
  <2>1. Tail(words) \in Seq(Word)
    BY <1>1, Pop
  <2>2. fields \in Seq(Option)
    <3>1. cmd \in 1 .. 10
      BY <1>2
    <3> HIDE DEF cmd
    <3> QED
      BY <3>1, FieldsOf, TenCommands, Zenon
  <2> HIDE DEF fields, words
  <2> QED
    BY <2>1, <2>2, UpdateType
<1> HIDE DEF d, cmd, words, r, fields
<1>5. CASE d = [cmd |-> 0, store |-> vals]
  BY <1>5 DEF d
<1>6. CASE cmd # 0 /\ words # <<>> /\ d = Outcome(cmd, r)
  <2>1. r.store \in Stores
    BY <1>4, <1>6 DEF Parsing
  <2>2. d.cmd \in {0, cmd} /\ d.store = r.store
    BY <1>6 DEF Outcome
  <2> QED
    BY <1>2, <2>1, <2>2 DEF d
<1> QED
  BY <1>3, <1>5, <1>6

LEMMA PacketType ==
  ASSUME NEW a \in Byte, NEW b \in Byte, NEW data \in Seq(Byte)
  PROVE  /\ Packet(a, b, data) \in [act : {"packet"}, bytes : Seq(Byte)]
         /\ Packet(a, b, data).bytes = (<<a, b>> \o LE4(Len(data))) \o data
         /\ Len(<<a, b>> \o LE4(Len(data))) = 6
<1> DEFINE h == <<a, b>>
           l == LE4(Len(data))
<1>1. h \in Seq(Byte) /\ Len(h) = 2
  OBVIOUS
<1>2. l \in Seq(Byte) /\ Len(l) = 4
  BY LE4Type, LenProperties
<1>3. Packet(a, b, data) = [act |-> "packet", bytes |-> (h \o l) \o data]
  BY DEF Packet
<1> HIDE DEF h, l
<1>4. h \o l \in Seq(Byte) /\ Len(h \o l) = Len(h) + Len(l)
  BY <1>1, <1>2, ConcatProperties, Zenon
<1>5. Len(h \o l) = 6
  BY <1>1, <1>2, <1>4
<1>6. (h \o l) \o data \in Seq(Byte)
  BY <1>4, ConcatProperties, Zenon
<1> DEFINE all == (h \o l) \o data
<1> HIDE DEF all
<1>7. Packet(a, b, data) \in [act : {"packet"}, bytes : Seq(Byte)]
      /\ Packet(a, b, data).bytes = all
  BY <1>3, <1>6 DEF all
<1> QED
  BY <1>5, <1>7 DEF h, l, all

(* The data of a packet that writes to memory, and of one that the device  *)
(* sends back.                                                             *)
LEMMA DataTypes ==
  ASSUME NEW vals \in Stores
  PROVE  /\ LE4(vals.br_addr) \in Seq(Byte)
         /\ (LE4(0) \o LE4(0)) \o vals.raw_buff \in Seq(Byte)
         /\ Wide(vals.lbs) \o <<0, 0>> \in Seq(Byte)
<1>1. vals.br_addr \in Int /\ vals.raw_buff \in Seq(Byte) /\ vals.lbs \in Str
  BY DEF Stores
<1>2. LE4(0) \in Seq(Byte) /\ Wide(vals.lbs) \in Seq(Byte)
  BY <1>1, LE4Type, WideType
<1>3. <<0, 0>> \in Seq(Byte)
  <2>1. 0 \in Byte
    BY ByteIs
  <2> QED
    BY <2>1
<1>4. LE4(0) \o LE4(0) \in Seq(Byte)
  BY <1>2, ConcatProperties, Zenon
<1> QED
  BY <1>1, <1>2, <1>3, <1>4, LE4Type, ConcatProperties, Zenon

LEMMA RunType ==
  ASSUME NEW cmd \in 1 .. 10, NEW vals \in Stores, sent \in Sent
  PROVE  RunCmd(cmd, vals) \in Sent
<1>0. /\ 0 \in Byte /\ 17 \in Byte /\ 22 \in Byte /\ 23 \in Byte /\ 24 \in Byte
      /\ 33 \in Byte /\ 65 \in Byte /\ 210 \in Byte
  BY ByteIs
<1>1. \A a, b \in Byte, d \in Seq(Byte) : Packet(a, b, d) \in Sent
  <2>2. \A a, b \in Byte, d \in Seq(Byte) : Packet(a, b, d) \in [act : {"packet"}, bytes : Seq(Byte)]
    BY PacketType
  <2>3. [act : {"packet"}, bytes : Seq(Byte)] \subseteq Sent
    BY DEF Sent
  <2> QED
    BY <2>2, <2>3
<1>2. <<>> \in Seq(Byte)
  BY EmptySeq
<1>3. vals.fin \in Str /\ vals.fout \in Str
  BY DEF Stores
<1>4. /\ cmd_io_bdm_fwrite_region(vals) \in Sent
      /\ cmd_io_bdm_fread_region(vals) \in Sent
  BY <1>3 DEF cmd_io_bdm_fwrite_region, cmd_io_bdm_fread_region, Job, Sent
<1>5. /\ cmd_io_sign(vals) \in Sent /\ cmd_io_bdm_go(vals) \in Sent
      /\ cmd_io_bdm_reset(vals) \in Sent
  BY <1>0, <1>1, <1>2, Zenon DEF cmd_io_sign, cmd_io_bdm_go, cmd_io_bdm_reset
<1>6. cmd_io_bdm_break(vals) \in Sent
  BY <1>0, <1>1, DataTypes, Zenon DEF cmd_io_bdm_break
<1>7. cmd_io_bdm_write_mem(vals) \in Sent
  BY <1>0, <1>1, DataTypes, Zenon DEF cmd_io_bdm_write_mem
<1>8. cmd_io_loopback(vals) \in Sent
  BY <1>0, <1>1, DataTypes, Zenon DEF cmd_io_loopback
<1>9. cmd \in {1, 2, 3, 4, 5, 6, 7, 8, 9, 10}
  OBVIOUS
<1> QED
  BY <1>4, <1>5, <1>6, <1>7, <1>8, <1>9 DEF RunCmd
-----------------------------------------------------------------------------
(* The types of the variables: of bytes, texts, the table that is learned, *)
(* the options' variables and the packets.                                 *)

LEMMA FirstStoreType == FirstStore \in Stores
<1> DEFINE a == Chars("rd.json")
           b == Chars("out.json")
           c == Chars("--LOOPBACK_TEST_STRING--")
<1>1. a \in Str /\ b \in Str /\ c \in Str
  BY StringsAssumption, Zenon
<1>2. FirstStore = [br_addr |-> 0, rd_addr |-> 0, rd_len |-> 0, wr8_addr |-> 0, wr16_addr |-> 0,
                    raw_buff |-> <<>>, fin |-> a, fout |-> b, lbs |-> c]
  BY Zenon DEF FirstStore
<1> HIDE DEF a, b, c
<1> QED
  BY <1>1, <1>2, EmptySeq DEF Stores

LEMMA Empties ==
  /\ <<>> \in Str /\ <<>> \in Seq(Entry) /\ <<>> \in Seq(Byte) /\ <<>> \in Seq(Str)
  /\ Len(<<>>) = 0 /\ Len(<<>>) <= 1 /\ 0 \in 0 .. Len(<<>>)
<1>1. Len(<<>>) = 0 /\ \A S : <<>> \in Seq(S)
  BY EmptySeq
<1> QED
  BY <1>1 DEF Str

LEMMA InitType == Init => TypeOK
<1> SUFFICES ASSUME Init PROVE TypeOK
  OBVIOUS
<1>2. Len(Chunks) \in Nat /\ {MaxTabs, MaxBack, MaxRestarts, MaxResponses} \subseteq Nat
  BY BoundsAssumption, LenProperties
<1>3. /\ table = <<>> /\ buf = <<>> /\ line = <<>> /\ cur = 0
      /\ conn = FALSE /\ rd = <<>> /\ up_q = <<>>
      /\ store \in Stores /\ sent = [act |-> "none"] /\ busy = FALSE
      /\ typed = 0 /\ tabs = 0 /\ restarts = 0 /\ responses = 0
  BY FirstStoreType DEF Init, NoTable
<1>4. sent \in Sent
  BY <1>3 DEF Sent
<1>5. typed \in 0 .. Len(Chunks) /\ tabs \in 0 .. MaxTabs
      /\ restarts \in 0 .. MaxRestarts /\ responses \in 0 .. MaxResponses
  BY <1>2, <1>3
<1> QED
  BY <1>3, <1>4, <1>5, Empties, Zenon DEF TypeOK, Entry

LEMMA NextType ==
  ASSUME TypeOK, [Next]_vars
  PROVE  TypeOK'
<1>1. /\ table \in Seq(Entry) /\ buf \in Seq(Byte)
      /\ line \in Str /\ cur \in 0 .. Len(line)
      /\ conn \in BOOLEAN /\ busy \in BOOLEAN
      /\ rd \in Seq(Str) /\ up_q \in Seq(Str)
      /\ Len(rd) <= 1 /\ (rd = <<>> => up_q = <<>>)
      /\ store \in Stores /\ sent \in Sent
      /\ typed \in 0 .. Len(Chunks) /\ tabs \in 0 .. MaxTabs
      /\ restarts \in 0 .. MaxRestarts /\ responses \in 0 .. MaxResponses
  BY DEF TypeOK, Entry
<1>2. Len(line) \in Nat /\ cur \in Nat /\ cur <= Len(line)
  BY <1>1, LenProperties DEF Str
<1>3. /\ Len(Chunks) \in Nat /\ Chunks \in Seq(SUBSET Str) /\ Responses \subseteq Str
      /\ MaxTabs \in Nat /\ MaxRestarts \in Nat /\ MaxResponses \in Nat
  BY BoundsAssumption, LenProperties
<1>4. /\ <<>> \in Str /\ <<>> \in Seq(Entry) /\ <<>> \in Seq(Byte) /\ <<>> \in Seq(Str)
      /\ Len(<<>>) = 0 /\ Len(<<>>) <= 1 /\ 0 \in 0 .. Len(<<>>)
  BY Empties
<1> USE DEF uiVars, ioVars, boundVars, NoTable
<1>5. ASSUME typed < Len(Chunks), NEW text \in Chunks[typed + 1], Type(text) PROVE TypeOK'
  <2>1. text \in Str
    <3>1. typed + 1 \in 1 .. Len(Chunks)
      BY <1>1, <1>3, <1>5
    <3>2. Chunks[typed + 1] \in SUBSET Str
      BY <1>3, <3>1, ElementOfSeq
    <3> QED
      BY <3>2
  <2>2. Len(text) \in Nat
    BY <2>1, LenProperties DEF Str
  <2>3. line' = Left(line, cur) \o text \o Right(line, cur) /\ cur' = cur + Len(text)
    BY <1>5, Zenon DEF Type
  <2>4. line' \in Str /\ Len(line') = Len(line) + Len(text)
    BY <1>1, <2>1, <2>3, SplitType, Zenon
  <2>5. cur' \in 0 .. Len(line')
    BY <1>2, <2>2, <2>3, <2>4
  <2>6. typed' \in 0 .. Len(Chunks)
    BY <1>1, <1>3, <1>5 DEF Type
  <2> QED
    BY <1>1, <1>5, <2>4, <2>5, <2>6 DEF Type, TypeOK, Entry
<1>6. ASSUME NEW pos \in 0 .. Len(line), Tab(pos) PROVE TypeOK'
  <2>1. /\ line' = IF table = NoTable THEN line ELSE cmd_auto_complete(line, pos, table)
        /\ cur' = pos + Len(line') - Len(line)
    BY <1>6, Zenon DEF Tab
  <2>2. line' \in Str /\ Len(line') \in Nat /\ Len(line') >= Len(line)
    <3> DEFINE ins == Inserted(table, Left(line, pos))
    <3>1. ins \in Str
      BY <1>1, SplitType, InsertedType, <1>4
    <3>2. Len(ins) \in Nat
      BY <3>1, LenProperties DEF Str
    <3>3. cmd_auto_complete(line, pos, table) = Left(line, pos) \o ins \o Right(line, pos)
      BY Zenon DEF cmd_auto_complete
    <3> HIDE DEF ins
    <3>4. /\ cmd_auto_complete(line, pos, table) \in Str
          /\ Len(cmd_auto_complete(line, pos, table)) = Len(line) + Len(ins)
      <4> DEFINE new == Left(line, pos) \o ins \o Right(line, pos)
      <4>1. new \in Str /\ Len(new) = Len(line) + Len(ins)
        BY <1>1, <3>1, SplitType
      <4> QED
        BY <3>3, <4>1, Zenon
    <3>5. \/ line' = line
          \/ line' \in Str /\ Len(line') = Len(line) + Len(ins)
      BY <2>1, <3>4, Zenon
    <3> QED
      BY <1>1, <1>2, <3>2, <3>5
  <2>3. cur' \in 0 .. Len(line')
    BY <1>2, <2>1, <2>2
  <2>4. tabs' \in 0 .. MaxTabs
    BY <1>1, <1>3, <1>6 DEF Tab
  <2> QED
    BY <1>1, <1>6, <2>2, <2>3, <2>4 DEF Tab, TypeOK, Entry
<1>7. ASSUME EnterCommand PROVE TypeOK'
  <2>1. rd' \in Seq(Str) /\ up_q' \in Seq(Str) /\ Len(rd') <= 1 /\ (rd' = <<>> => up_q' = <<>>)
    <3>1. CASE conn /\ rd = <<>>
      <4>1. rd' = <<line>> /\ up_q' = <<>>
        BY <1>1, <1>7, <3>1 DEF EnterCommand
      <4> QED
        BY <1>1, <1>4, <4>1
    <3>2. CASE conn /\ rd # <<>>
      <4>1. rd' = rd /\ up_q' = Append(up_q, line)
        BY <1>7, <3>2 DEF EnterCommand
      <4> QED
        BY <1>1, <3>2, <4>1, AppendProperties
    <3>3. CASE ~conn
      BY <1>1, <1>7, <3>3 DEF EnterCommand
    <3> QED
      BY <3>1, <3>2, <3>3
  <2> QED
    BY <1>1, <1>4, <1>7, <2>1 DEF EnterCommand, TypeOK, Entry
<1>8. ASSUME EnterOther PROVE TypeOK'
  BY <1>1, <1>4, <1>8 DEF EnterOther, TypeOK, Entry
<1>9. ASSUME UiRestarts PROVE TypeOK'
  <2>1. restarts' \in 0 .. MaxRestarts
    BY <1>1, <1>3, <1>9 DEF UiRestarts
  <2>2. /\ UNCHANGED <<ioVars, typed, tabs, responses>>
        /\ table' = <<>> /\ buf' = <<>> /\ line' = <<>> /\ cur' = 0 /\ conn' = FALSE
    BY <1>9 DEF UiRestarts
  <2>3. cur' \in 0 .. Len(line')
    BY <1>4, <2>2
  <2> QED
    BY <1>1, <1>4, <2>1, <2>2, <2>3 DEF TypeOK, Entry
<1>10. ASSUME UiFreesTable PROVE TypeOK'
  BY <1>1, <1>4, <1>10 DEF UiFreesTable, TypeOK, Entry
<1>11. ASSUME NEW text \in Responses, UiShows(text) PROVE TypeOK'
  <2>1. buf' \in Seq(Byte)
    <3>1. RspMsg(text) \in Seq(Byte)
      BY <1>3, MsgTypes
    <3> QED
      BY <1>1, <1>11, <3>1, ReceivedType DEF UiShows
  <2>2. responses' \in 0 .. MaxResponses
    BY <1>1, <1>3, <1>11 DEF UiShows
  <2> QED
    BY <1>1, <1>11, <2>1, <2>2 DEF UiShows, TypeOK, Entry
<1>12. ASSUME Connect PROVE TypeOK'
  <2> DEFINE h == Handshake(store, buf)
  <2>1. h \in [buf : Seq(Byte), table : Seq(Entry)]
    BY <1>1, HandshakeType
  <2>2. table' = h.table /\ buf' = h.buf
    BY <1>12, Zenon DEF Connect
  <2> HIDE DEF h
  <2>3. table' \in Seq(Entry) /\ buf' \in Seq(Byte)
    BY <2>1, <2>2
  <2> QED
    BY <1>1, <1>12, <2>3 DEF Connect, TypeOK, Entry
<1>13. ASSUME IoHandles PROVE TypeOK'
  <2> DEFINE r == decomposite_cp_cmd(Head(rd), gta_io_ui_cmd, store, TRUE)
  <2>1. r.cmd \in 0 .. 10 /\ r.store \in Stores
    <3>1. Head(rd) \in Str
      BY <1>1, <1>13, Pop DEF IoHandles
    <3> QED
      BY <1>1, <3>1, CommandType
  <2>2. /\ store' = r.store
        /\ sent' = IF r.cmd = 0 THEN sent ELSE RunCmd(r.cmd, r.store)
        /\ busy' = (busy \/ r.cmd \in {8, 9})
    BY <1>13, Zenon DEF IoHandles
  <2>3. rd' = FirstString(up_q) /\ up_q' = <<>>
    BY <1>13, Zenon DEF IoHandles
  <2> HIDE DEF r
  <2>4. sent' \in Sent
    <3>1. r.cmd # 0 => r.cmd \in 1 .. 10
      BY <2>1
    <3>2. r.cmd # 0 => RunCmd(r.cmd, r.store) \in Sent
      BY <1>1, <2>1, <3>1, RunType, Zenon
    <3> QED
      BY <1>1, <2>2, <3>2, Zenon
  <2>5. busy' \in BOOLEAN
    BY <2>2
  <2>6. rd' \in Seq(Str) /\ Len(rd') <= 1
    <3>1. CASE up_q = <<>>
      BY <1>4, <2>3, <3>1 DEF FirstString
    <3>2. CASE up_q # <<>>
      <4>1. Head(up_q) \in Str
        BY <1>1, <3>2, Pop
      <4>2. rd' = <<Head(up_q)>>
        BY <2>3, <3>2 DEF FirstString
      <4> DEFINE x == Head(up_q)
      <4> HIDE DEF x
      <4>3. rd' = <<x>> /\ x \in Str
        BY <4>1, <4>2 DEF x
      <4> QED
        BY <4>3
    <3> QED
      BY <3>1, <3>2
  <2>7. UNCHANGED <<uiVars, conn, boundVars>>
    BY <1>13 DEF IoHandles
  <2> QED
    BY <1>1, <1>4, <2>1, <2>2, <2>3, <2>4, <2>5, <2>6, <2>7 DEF TypeOK, Entry
<1>14. ASSUME JobEnds PROVE TypeOK'
  BY <1>1, <1>14 DEF JobEnds, TypeOK, Entry
<1>15. ASSUME IoRestarts PROVE TypeOK'
  <2>1. restarts' \in 0 .. MaxRestarts
    BY <1>1, <1>3, <1>15 DEF IoRestarts
  <2>2. store' \in Stores
    BY <1>15, FirstStoreType DEF IoRestarts
  <2>3. /\ UNCHANGED <<uiVars, sent, typed, tabs, responses>>
        /\ conn' = FALSE /\ rd' = <<>> /\ up_q' = <<>> /\ busy' = FALSE
    BY <1>15 DEF IoRestarts
  <2>4. Len(rd') <= 1 /\ rd' \in Seq(Str) /\ up_q' \in Seq(Str) /\ cur' \in 0 .. Len(line')
    BY <1>1, <1>4, <2>3
  <2> QED
    BY <1>1, <2>1, <2>2, <2>3, <2>4 DEF TypeOK, Entry
<1>16. ASSUME UNCHANGED vars PROVE TypeOK'
  BY <1>1, <1>16 DEF vars, TypeOK, Entry
<1> QED
  BY <1>5, <1>6, <1>7, <1>8, <1>9, <1>10, <1>11, <1>12, <1>13, <1>14, <1>15, <1>16
     DEF Next, EnterQuit, UiIsKilled

(* The types of the variables hold: whatever is typed and whatever the     *)
(* buffer of the UI holds, the loops that read it and the lines end with   *)
(* texts, bytes and a table, and what the device is told is a packet of    *)
(* bytes or the files of a job.                                            *)
THEOREM TypesHold == Spec => []TypeOK
<1>1. Init => TypeOK
  BY InitType
<1>2. TypeOK /\ [Next]_vars => TypeOK'
  BY NextType
<1> QED
  BY <1>1, <1>2, PTL DEF Spec
-----------------------------------------------------------------------------
(* What the UI takes for a command the IO process takes for one.           *)

(* The entry of the table that the UI learned and the one it is a copy of. *)
Copied(entry, cmd) == entry.name = cmd.name /\ SameFields(entry.fields, cmd.fields)

CommandOf(text) ==
  IF Tokens(text) = <<>> THEN 0 ELSE Named(gta_io_ui_cmd, Head(Tokens(text)))

LEMMA RangeSame ==
  ASSUME NEW m \in Nat, NEW n \in Nat, 1 .. m = 1 .. n
  PROVE  m = n
<1>1. (m > 0 => m \in 1 .. n) /\ (n > 0 => n \in 1 .. m)
  OBVIOUS
<1> QED
  BY <1>1

LEMMA SameCommand ==
  ASSUME NEW text \in Str, NEW T, NEW tab \in Seq([name : Str, fields : Seq(T)]), Len(tab) = 10,
         \A k \in 1 .. 10 : tab[k].name = gta_io_ui_cmd[k].name,
         CommandOf(text) # 0 => Copied(tab[CommandOf(text)], gta_io_ui_cmd[CommandOf(text)]),
         NEW vals, NEW others
  PROVE  decomposite_cp_cmd(text, tab, vals, FALSE).cmd
           = decomposite_cp_cmd(text, gta_io_ui_cmd, others, FALSE).cmd
<1> DEFINE words == Tokens(text)
           cmd == CommandOf(text)
           d == tab[cmd].fields
           e == gta_io_ui_cmd[cmd].fields
           a == update_cmd_int(Tail(words), d, vals, FALSE)
           b == update_cmd_int(Tail(words), e, others, FALSE)
<1>1. words \in Seq(Word)
  BY TokensType
<1>2. cmd \in 0 .. 10
  BY NamedIs, TableAssumption, TenCommands DEF CommandOf
<1>3. (IF words = <<>> THEN 0 ELSE Named(tab, Head(words))) = cmd
  <2>1. \A w : Named(tab, w) = Named(gta_io_ui_cmd, w)
    BY NamedSame, TenCommands
  <2> QED
    BY <2>1, Zenon DEF CommandOf
<1>4. /\ decomposite_cp_cmd(text, tab, vals, FALSE) =
           IF cmd = 0 \/ d = NoFields THEN [cmd |-> 0, store |-> vals] ELSE Outcome(cmd, a)
      /\ decomposite_cp_cmd(text, gta_io_ui_cmd, others, FALSE) =
           IF cmd = 0 \/ e = NoFields THEN [cmd |-> 0, store |-> others] ELSE Outcome(cmd, b)
  <2>1. (IF words = <<>> THEN 0 ELSE Named(gta_io_ui_cmd, Head(words))) = cmd
    BY Zenon DEF CommandOf
  <2> QED
    BY <1>3, <2>1, Zenon DEF decomposite_cp_cmd, OfWords, AsCommand
<1> DEFINE A == decomposite_cp_cmd(text, tab, vals, FALSE)
           B == decomposite_cp_cmd(text, gta_io_ui_cmd, others, FALSE)
<1> SUFFICES A.cmd = B.cmd
  OBVIOUS
<1> HIDE DEF A, B, cmd
<1>5. CASE cmd = 0
  <2>1. A = [cmd |-> 0, store |-> vals] /\ B = [cmd |-> 0, store |-> others]
    BY <1>4, <1>5, Zenon DEF A, B
  <2> QED
    BY <2>1
<1>6. CASE cmd # 0
  <2>1. /\ cmd \in 1 .. 10 /\ cmd \in 1 .. Len(gta_io_ui_cmd) /\ Copied(tab[cmd], gta_io_ui_cmd[cmd])
        /\ tab[cmd] \in [name : Str, fields : Seq(T)]
    <3>1. cmd \in 1 .. 10
      BY <1>2, <1>6
    <3>2. Copied(tab[cmd], gta_io_ui_cmd[cmd])
      BY <1>6, Zenon DEF cmd
    <3>3. tab[cmd] \in [name : Str, fields : Seq(T)]
      BY <3>1, ElementOfSeq
    <3> QED
      BY <3>1, <3>2, <3>3, TenCommands
  <2>2. e \in Seq(Option) /\ e # NoFields
    BY <2>1, FieldsOf
  <2>3. d \in Seq(T)
    BY <2>1
  <2>4. SameFields(d, e)
    BY <2>1 DEF Copied
  <2>5. Tail(words) \in Seq(Word)
    <3>1. words # <<>>
      BY <1>6 DEF cmd, CommandOf
    <3> HIDE DEF words
    <3> QED
      BY <1>1, <3>1, Pop
  <2> HIDE DEF d, e, words
  <2>6. d # NoFields
    <3> SUFFICES ASSUME d = NoFields PROVE FALSE
      OBVIOUS
    <3>1. Len(d) = 1 /\ d[1].type = -1
      BY DEF NoFields
    <3>2. 1 \in 1 .. Len(e)
      BY <2>4, <3>1 DEF SameFields
    <3>3. e[1] \in Option
      BY <2>2, <3>2, ElementOfSeq
    <3>4. e[1].type = -1
      BY <2>4, <3>1, <3>2 DEF SameFields
    <3> QED
      BY <3>3, <3>4 DEF Option
  <2>7. a.ok = b.ok
    <3> DEFINE w == Tail(words)
    <3>1. w \in Seq(Word)
      BY <2>5
    <3> HIDE DEF w
    <3>2. Accepts(w, d, vals) = Accepts(w, e, others)
      BY <2>2, <2>3, <2>4, <3>1, SameShape
    <3> QED
      BY <3>2, Zenon DEF w, Accepts
  <2> HIDE DEF a, b
  <2>8. \A x : Outcome(cmd, x).cmd = IF x.ok THEN cmd ELSE 0
    BY DEF Outcome
  <2>9. A = Outcome(cmd, a) /\ B = Outcome(cmd, b)
    BY <1>4, <1>6, <2>2, <2>6, Zenon DEF A, B
  <2> QED
    BY <2>7, <2>8, <2>9, Zenon
<1> QED
  BY <1>5, <1>6

LEMMA ShapeSame ==
  ASSUME NEW tab \in Seq(Entry), Shape(tab) = Shape(gta_io_ui_cmd)
  PROVE  Len(tab) = 10 /\ \A k \in 1 .. 10 : Copied(tab[k], gta_io_ui_cmd[k])
<1> DEFINE g == gta_io_ui_cmd
<1>1. /\ Len(tab) \in Nat /\ DOMAIN tab = 1 .. Len(tab) /\ DOMAIN g = 1 .. 10
  BY LenProperties, TenCommands, TableAssumption
<1> HIDE DEF g
<1> DEFINE F(e, k) == [i \in DOMAIN e[k].fields |->
                        <<e[k].fields[i].name, e[k].fields[i].type, e[k].fields[i].max>>]
           R(e, k) == [name |-> e[k].name, fields |-> F(e, k)]
<1>2. \A e : Shape(e) = [k \in DOMAIN e |-> R(e, k)]
  BY DEF Shape
<1>3. DOMAIN tab = DOMAIN g /\ \A k \in 1 .. 10 : R(tab, k) = R(g, k)
  <2> HIDE DEF R
  <2>1. [k \in DOMAIN tab |-> R(tab, k)] = [k \in DOMAIN g |-> R(g, k)]
    BY <1>2 DEF g
  <2>2. DOMAIN tab = DOMAIN g
    BY <2>1
  <2> QED
    BY <1>1, <2>1, <2>2
<1>4. Len(tab) = 10
  BY <1>1, <1>3, RangeSame
<1>5. ASSUME NEW k \in 1 .. 10 PROVE Copied(tab[k], g[k])
  <2> DEFINE d == tab[k].fields
             e == g[k].fields
  <2>1. tab[k].name = g[k].name /\ F(tab, k) = F(g, k)
    <3>1. R(tab, k) = R(g, k)
      BY <1>3
    <3> HIDE DEF F
    <3> QED
      BY <3>1
  <2>2. d \in Seq(Learned) /\ e \in Seq(Option)
    <3>1. tab[k] \in Entry
      BY <1>4, ElementOfSeq
    <3>2. k \in 1 .. Len(gta_io_ui_cmd)
      BY TenCommands
    <3> QED
      BY <3>1, <3>2, FieldsOf DEF Entry, g
  <2>3. F(tab, k) = [i \in DOMAIN d |-> <<d[i].name, d[i].type, d[i].max>>]
        /\ F(g, k) = [i \in DOMAIN e |-> <<e[i].name, e[i].type, e[i].max>>]
    OBVIOUS
  <2> HIDE DEF d, e, F
  <2>4. /\ Len(d) \in Nat /\ Len(e) \in Nat /\ DOMAIN d = 1 .. Len(d) /\ DOMAIN e = 1 .. Len(e)
    BY <2>2, LenProperties
  <2>5. DOMAIN d = DOMAIN e /\ \A i \in DOMAIN e : d[i].name = e[i].name /\ d[i].type = e[i].type
    <3> DEFINE D(i) == <<d[i].name, d[i].type, d[i].max>>
               E(i) == <<e[i].name, e[i].type, e[i].max>>
    <3>1. [i \in DOMAIN d |-> D(i)] = [i \in DOMAIN e |-> E(i)]
      BY <2>1, <2>3
    <3>2. \A i : D(i) = E(i) => d[i].name = e[i].name /\ d[i].type = e[i].type
      OBVIOUS
    <3> HIDE DEF D, E
    <3>3. DOMAIN d = DOMAIN e
      BY <3>1
    <3>4. \A i \in DOMAIN e : D(i) = E(i)
      BY <3>1, <3>3
    <3> QED
      BY <3>2, <3>3, <3>4
  <2>6. Len(d) = Len(e) /\ \A i \in 1 .. Len(e) : d[i].name = e[i].name /\ d[i].type = e[i].type
    BY <2>4, <2>5, RangeSame
  <2> QED
    BY <2>1, <2>6 DEF Copied, SameFields, d, e
<1> QED
  BY <1>4, <1>5 DEF g

AlwaysAccepted(text) == \A vals : decomposite_cp_cmd(text, gta_io_ui_cmd, vals, FALSE).cmd # 0

LEMMA AcceptedOnce ==
  ASSUME NEW text \in Str, NEW vals,
         decomposite_cp_cmd(text, gta_io_ui_cmd, vals, FALSE).cmd # 0
  PROVE  AlwaysAccepted(text)
<1>1. gta_io_ui_cmd \in Seq([name : Str, fields : Seq(Option)])
  <2>1. [name : Word, fields : Seq(Option)] \subseteq [name : Str, fields : Seq(Option)]
    BY DEF Word
  <2> QED
    BY <2>1, TableAssumption, SeqMonotonic
<1>2. Copied(gta_io_ui_cmd[CommandOf(text)], gta_io_ui_cmd[CommandOf(text)])
  BY DEF Copied, SameFields
<1>3. \A others : decomposite_cp_cmd(text, gta_io_ui_cmd, vals, FALSE).cmd
                    = decomposite_cp_cmd(text, gta_io_ui_cmd, others, FALSE).cmd
  BY <1>1, <1>2, SameCommand, TenCommands
<1> QED
  BY <1>3, Zenon DEF AlwaysAccepted

(* The lines between the UI and the IO process, of which a text is kept    *)
(* only as the UI has written it: they belong to any set that all lines    *)
(* belong to that the UI takes for a command.                              *)
LinesIn(G) == rd \in Seq(G) /\ up_q \in Seq(G)

LEMMA EachLine ==
  ASSUME NEW G, LinesIn(G)
  PROVE  \A i \in DOMAIN (rd \o up_q) : (rd \o up_q)[i] \in G
<1> DEFINE c == rd \o up_q
<1>1. c \in Seq(G)
  BY ConcatProperties, Zenon DEF LinesIn
<1> HIDE DEF c
<1>2. \A i \in DOMAIN c : c[i] \in G
  BY <1>1, LenProperties, ElementOfSeq
<1> QED
  BY <1>2 DEF c

LEMMA LinesFirst ==
  ASSUME NEW G, Init
  PROVE  LinesIn(G)
BY EmptySeq DEF Init, LinesIn

LEMMA LinesKept ==
  ASSUME NEW G, LinesIn(G), IsCommand => line \in G, [Next]_vars
  PROVE  LinesIn(G)'
<1>1. rd \in Seq(G) /\ up_q \in Seq(G) /\ <<>> \in Seq(G)
  BY EmptySeq DEF LinesIn
<1>2. CASE UNCHANGED <<rd, up_q>>
  BY <1>1, <1>2 DEF LinesIn
<1>3. CASE EnterCommand
  <2>1. line \in G
    BY <1>3 DEF EnterCommand
  <2> DEFINE x == line
  <2> HIDE DEF x
  <2>2. x \in G
    BY <2>1 DEF x
  <2>3. <<x>> \in Seq(G) /\ Append(up_q, x) \in Seq(G)
    BY <1>1, <2>2, AppendProperties
  <2>4. /\ rd' \in {rd, <<x>>}
        /\ up_q' \in {up_q, Append(up_q, x)}
    BY <1>3 DEF EnterCommand, x
  <2> QED
    BY <1>1, <2>3, <2>4 DEF LinesIn
<1>4. CASE IoHandles
  <2>1. rd' = FirstString(up_q) /\ up_q' = <<>>
    BY <1>4, Zenon DEF IoHandles
  <2>2. CASE up_q = <<>>
    BY <1>1, <2>1, <2>2 DEF FirstString, LinesIn
  <2>3. CASE up_q # <<>>
    <3> DEFINE x == Head(up_q)
    <3>1. x \in G
      BY <1>1, <2>3, Pop
    <3>2. rd' = <<x>>
      BY <2>1, <2>3 DEF FirstString
    <3> HIDE DEF x
    <3>3. <<x>> \in Seq(G)
      BY <3>1
    <3> QED
      BY <1>1, <2>1, <3>2, <3>3 DEF LinesIn
  <2> QED
    BY <2>2, <2>3
<1>5. CASE IoRestarts
  BY <1>1, <1>5 DEF IoRestarts, LinesIn
<1>6. \/ UNCHANGED <<rd, up_q>> \/ EnterCommand \/ IoHandles \/ IoRestarts
  BY DEF Next, vars, Type, Tab, EnterOther, EnterQuit, UiIsKilled, UiRestarts, UiFreesTable,
     UiShows, Connect, JobEnds, ioVars
<1> QED
  BY <1>2, <1>3, <1>4, <1>5, <1>6

(* A line that the UI takes for a command is one, if the UI has learned    *)
(* the names of all commands and the options of that one.                  *)
LEMMA PassedOn ==
  ASSUME TypeOK, IsCommand, Len(table) = 10,
         \A k \in 1 .. 10 : table[k].name = gta_io_ui_cmd[k].name,
         CommandOf(line) # 0 => Copied(table[CommandOf(line)], gta_io_ui_cmd[CommandOf(line)])
  PROVE  AlwaysAccepted(line)
<1>1. line \in Str /\ table \in Seq(Entry)
  BY DEF TypeOK, Entry
<1>2. decomposite_cp_cmd(line, table, store, FALSE).cmd
        = decomposite_cp_cmd(line, gta_io_ui_cmd, store, FALSE).cmd
  BY <1>1, SameCommand, Zenon DEF Entry
<1>3. decomposite_cp_cmd(line, gta_io_ui_cmd, store, FALSE).cmd # 0
  BY <1>2, Zenon DEF IsCommand
<1> QED
  BY <1>1, <1>3, AcceptedOnce, Zenon

LEMMA CommandOfIs == \A text : CommandOf(text) # 0 => CommandOf(text) \in 1 .. 10
<1>1. \A text : CommandOf(text) \in 0 .. 10
  BY NamedIs, TableAssumption, TenCommands DEF CommandOf
<1> QED
  BY <1>1

(* What the UI reads from a message is what was written into it, as far as *)
(* no buffer is among it.                                                  *)

(* The bytes of a message, or of a part of it, lie in the buffer at p. *)
Has(b, p, m) == \A i \in 1 .. Len(m) : ByteAt(b, p + i - 1) = m[i]

LEMMA HasParts ==
  ASSUME NEW b, NEW p \in Nat, NEW x \in Seq(Byte), NEW y \in Seq(Byte), Has(b, p, x \o y)
  PROVE  Has(b, p, x) /\ Has(b, p + Len(x), y)
<1> DEFINE c == x \o y
<1>1. /\ Len(c) = Len(x) + Len(y)
      /\ \A i \in 1 .. Len(x) + Len(y) : c[i] = IF i <= Len(x) THEN x[i] ELSE y[i - Len(x)]
  BY ConcatProperties, Zenon
<1>2. Len(x) \in Nat /\ Len(y) \in Nat
  BY LenProperties
<1>3. \A i \in 1 .. Len(c) : ByteAt(b, p + i - 1) = c[i]
  BY Zenon DEF Has
<1> HIDE DEF c
<1>4. ASSUME NEW i \in 1 .. Len(x) PROVE ByteAt(b, p + i - 1) = x[i]
  <2>1. i \in 1 .. Len(c) /\ i \in 1 .. Len(x) + Len(y) /\ i <= Len(x)
    BY <1>1, <1>2
  <2> QED
    BY <1>1, <1>3, <2>1, Zenon
<1>5. ASSUME NEW i \in 1 .. Len(y) PROVE ByteAt(b, (p + Len(x)) + i - 1) = y[i]
  <2> DEFINE j == Len(x) + i
  <2>1. /\ j \in 1 .. Len(c) /\ j \in 1 .. Len(x) + Len(y) /\ ~(j <= Len(x)) /\ j - Len(x) = i
        /\ (p + Len(x)) + i - 1 = p + j - 1
    BY <1>1, <1>2
  <2> HIDE DEF j
  <2>2. ByteAt(b, p + j - 1) = y[j - Len(x)]
    BY <1>1, <1>3, <2>1, Zenon
  <2> QED
    BY <2>1, <2>2
<1> QED
  BY <1>4, <1>5, Zenon DEF Has

LEMMA HasReceived ==
  ASSUME NEW msg \in Seq(Byte), NEW old \in Seq(Byte)
  PROVE  Has(Received(msg, old), 1, msg) /\ Len(msg) <= Len(Received(msg, old))
<1>1. Len(msg) \in Nat /\ Len(old) \in Nat
  BY LenProperties
<1> DEFINE s == SubSeq(old, Len(msg) + 1, Len(old))
           c == msg \o s
<1>2. s \in Seq(Byte)
  BY <1>1, PartOf
<1>3. Received(msg, old) = c
  BY DEF Received
<1> HIDE DEF s
<1>4. /\ Len(c) = Len(msg) + Len(s)
      /\ \A i \in 1 .. Len(msg) + Len(s) : c[i] = IF i <= Len(msg) THEN msg[i] ELSE s[i - Len(msg)]
  BY <1>2, ConcatProperties, Zenon
<1>5. Len(s) \in Nat
  BY <1>2, LenProperties
<1> HIDE DEF c
<1>6. ASSUME NEW i \in 1 .. Len(msg) PROVE ByteAt(c, 1 + i - 1) = msg[i]
  <2>1. i \in 1 .. Len(msg) + Len(s) /\ i <= Len(msg) /\ 1 + i - 1 = i /\ i <= Len(c)
    BY <1>1, <1>4, <1>5
  <2>2. c[i] = msg[i]
    BY <1>4, <2>1, Zenon
  <2> QED
    BY <2>1, <2>2 DEF ByteAt
<1> QED
  BY <1>1, <1>3, <1>4, <1>5, <1>6 DEF Has

DwordTlv(type, n) == <<type, 4>> \o LE4(n)
StrTlv(type, s) == (<<type, 2 * Len(s) + 2>> \o Wide(s)) \o <<0, 0>>

LEMMA LE4Is ==
  ASSUME NEW n \in Nat, n < 65536
  PROVE  (n % 256) + 256 * ((n \div 256) % 256) + 65536 * ((n \div 65536) % 256)
           + 16777216 * ((n \div 16777216) % 256) = n
<1> DEFINE q == n \div 256
           r == n % 256
<1>1. q \in Nat /\ q < 256 /\ r \in Nat /\ n = r + 256 * q
  OBVIOUS
<1>2. q % 256 = q
  BY <1>1
<1>3. n \div 65536 = 0 /\ n \div 16777216 = 0
  OBVIOUS
<1> HIDE DEF q, r
<1>4. r + 256 * q + 65536 * (0 % 256) + 16777216 * (0 % 256) = n
  BY <1>1
<1> QED
  BY <1>2, <1>3, <1>4 DEF q, r

LEMMA ReadDword ==
  ASSUME NEW b, NEW p \in Nat, NEW type \in Byte, NEW n \in Int, Has(b, p, DwordTlv(type, n))
  PROVE  /\ ByteAt(b, p) = type /\ LenAt(b, p) = 4
         /\ n \in Nat /\ n < 65536 => DwordAt(b, ValueOf(p)) = n
<1> DEFINE w == n % 256
           x == (n \div 256) % 256
           y == (n \div 65536) % 256
           z == (n \div 16777216) % 256
           h == <<type, 4>>
           d == LE4(n)
<1>1. h \in Seq(Byte) /\ Len(h) = 2 /\ h[1] = type /\ h[2] = 4
  <2>1. 4 \in Byte
    BY ByteIs
  <2> QED
    BY <2>1
<1>2. d \in Seq(Byte) /\ Len(d) = 4 /\ d[1] = w /\ d[2] = x /\ d[3] = y /\ d[4] = z
  <2>1. d = <<w, x, y, z>>
    BY DEF LE4
  <2>2. d \in Seq(Byte)
    BY LE4Type
  <2> HIDE DEF d, w, x, y, z
  <2> QED
    BY <2>1, <2>2
<1>3. Has(b, p, h \o d)
  BY Zenon DEF DwordTlv
<1>4. n \in Nat /\ n < 65536 => w + 256 * x + 65536 * y + 16777216 * z = n
  BY LE4Is
<1> HIDE DEF h, d, w, x, y, z
<1>5. Has(b, p, h) /\ Has(b, p + 2, d)
  BY <1>1, <1>2, <1>3, HasParts, Zenon
<1>6. /\ ByteAt(b, p + 1 - 1) = type /\ ByteAt(b, p + 2 - 1) = 4
  BY <1>1, <1>5 DEF Has
<1>7. /\ ByteAt(b, (p + 2) + 1 - 1) = w /\ ByteAt(b, (p + 2) + 2 - 1) = x
      /\ ByteAt(b, (p + 2) + 3 - 1) = y /\ ByteAt(b, (p + 2) + 4 - 1) = z
  BY <1>2, <1>5 DEF Has
<1>8. /\ ByteAt(b, p) = type /\ ByteAt(b, p + 1) = 4
      /\ ByteAt(b, p + 2) = w /\ ByteAt(b, (p + 2) + 1) = x
      /\ ByteAt(b, (p + 2) + 2) = y /\ ByteAt(b, (p + 2) + 3) = z
  BY <1>6, <1>7
<1>9. DwordAt(b, p + 2) = w + 256 * x + 65536 * y + 16777216 * z
  BY <1>8 DEF DwordAt
<1> QED
  BY <1>4, <1>8, <1>9 DEF LenAt, ValueOf

LEMMA TlvSizes ==
  ASSUME NEW type \in Byte
  PROVE  /\ \A n \in Int : DwordTlv(type, n) \in Seq(Byte) /\ Len(DwordTlv(type, n)) = 6
         /\ \A s \in Str : Len(s) <= 126 => /\ StrTlv(type, s) \in Seq(Byte)
                                            /\ Len(StrTlv(type, s)) = 2 * Len(s) + 4
<1>1. ASSUME NEW n \in Int PROVE DwordTlv(type, n) \in Seq(Byte) /\ Len(DwordTlv(type, n)) = 6
  <2> DEFINE d == LE4(n)
             h == <<type, 4>>
  <2>1. d \in Seq(Byte) /\ Len(d) = 4
    BY LE4Type
  <2>2. h \in Seq(Byte) /\ Len(h) = 2
    <3>1. 4 \in Byte
      BY ByteIs
    <3> QED
      BY <3>1
  <2> HIDE DEF d, h
  <2>3. h \o d \in Seq(Byte) /\ Len(h \o d) = Len(h) + Len(d)
    BY <2>1, <2>2, ConcatProperties, Zenon
  <2> QED
    BY <2>1, <2>2, <2>3 DEF DwordTlv, d, h
<1>2. ASSUME NEW s \in Str, Len(s) <= 126
      PROVE  StrTlv(type, s) \in Seq(Byte) /\ Len(StrTlv(type, s)) = 2 * Len(s) + 4
  <2> DEFINE w == Wide(s)
             h == <<type, 2 * Len(s) + 2>>
             e == <<0, 0>>
  <2>1. w \in Seq(Byte) /\ Len(w) = 2 * Len(s) /\ Len(s) \in Nat
    BY WideType, LenProperties DEF Str
  <2>2. h \in Seq(Byte) /\ Len(h) = 2
    <3>1. 2 * Len(s) + 2 \in Byte
      BY <1>2, <2>1, ByteIs
    <3> QED
      BY <3>1
  <2>3. e \in Seq(Byte) /\ Len(e) = 2
    <3>1. 0 \in Byte
      BY ByteIs
    <3> QED
      BY <3>1
  <2> HIDE DEF w, h, e
  <2>4. h \o w \in Seq(Byte) /\ Len(h \o w) = Len(h) + Len(w)
    BY <2>1, <2>2, ConcatProperties, Zenon
  <2>5. (h \o w) \o e \in Seq(Byte) /\ Len((h \o w) \o e) = Len(h \o w) + Len(e)
    BY <2>3, <2>4, ConcatProperties, Zenon
  <2>6. StrTlv(type, s) = (h \o w) \o e
    BY DEF StrTlv, w, h, e
  <2> QED
    BY <2>1, <2>2, <2>3, <2>4, <2>5, <2>6
<1> QED
  BY <1>1, <1>2

LEMMA ReadStr ==
  ASSUME NEW b \in Seq(Byte), NEW p \in Places, NEW type \in Byte, NEW s \in Str, Len(s) <= 126,
         Has(b, p, StrTlv(type, s))
  PROVE  /\ ByteAt(b, p) = type /\ LenAt(b, p) = 2 * Len(s) + 2
         /\ TextAt(b, ValueOf(p), LenAt(b, p)) = s
<1> DEFINE w == Wide(s)
           n == 2 * Len(s) + 2
           h == <<type, n>>
           e == <<0, 0>>
<1>1. /\ w \in Seq(Byte) /\ Len(w) = 2 * Len(s) /\ Len(s) \in Nat
      /\ \A i \in 1 .. Len(s) : w[2 * i - 1] = Code[s[i]] /\ w[2 * i] = 0
  BY WideType, LenProperties DEF Str
<1>2. p \in Nat /\ p > 0 /\ p + 2 \in Nat /\ p + 2 > 0
  BY DEF Places
<1>3. h \in Seq(Byte) /\ Len(h) = 2 /\ h[1] = type /\ h[2] = n /\ n \in Nat
  <2>1. n \in Nat /\ n <= 255
    BY <1>1
  <2> HIDE DEF n
  <2>2. n \in Byte
    BY <2>1, ByteIs
  <2> QED
    BY <2>1, <2>2
<1>4. e \in Seq(Byte) /\ Len(e) = 2 /\ e[1] = 0 /\ e[2] = 0
  <2>1. 0 \in Byte
    BY ByteIs
  <2> QED
    BY <2>1
<1>5. Has(b, p, (h \o w) \o e)
  BY Zenon DEF StrTlv
<1> HIDE DEF w, h, e, n
<1>6. h \o w \in Seq(Byte) /\ Len(h \o w) = Len(h) + Len(w)
  BY <1>1, <1>3, ConcatProperties, Zenon
<1>7. Has(b, p, h \o w) /\ Has(b, p + Len(h \o w), e)
  BY <1>2, <1>4, <1>5, <1>6, HasParts, Zenon
<1>8. Has(b, p, h) /\ Has(b, p + Len(h), w)
  BY <1>1, <1>2, <1>3, <1>7, HasParts, Zenon
<1>9. ByteAt(b, p) = type /\ ByteAt(b, p + 1) = n
  <2>1. ByteAt(b, p + 1 - 1) = h[1] /\ ByteAt(b, p + 2 - 1) = h[2]
    BY <1>3, <1>8 DEF Has
  <2> QED
    BY <1>2, <1>3, <2>1
<1>10. ASSUME NEW i \in 1 .. Len(s)
       PROVE  ByteAt(b, (p + 2) + 2 * (i - 1)) = Code[s[i]] /\ ByteAt(b, (p + 2) + 2 * (i - 1) + 1) = 0
  <2>1. /\ 2 * i - 1 \in 1 .. Len(w) /\ 2 * i \in 1 .. Len(w)
        /\ (p + 2) + (2 * i - 1) - 1 = (p + 2) + 2 * (i - 1)
        /\ (p + 2) + 2 * i - 1 = (p + 2) + 2 * (i - 1) + 1
    BY <1>1, <1>2
  <2>2. \A j \in 1 .. Len(w) : ByteAt(b, (p + 2) + j - 1) = w[j]
    BY <1>3, <1>8 DEF Has
  <2>3. /\ ByteAt(b, (p + 2) + (2 * i - 1) - 1) = w[2 * i - 1]
        /\ ByteAt(b, (p + 2) + 2 * i - 1) = w[2 * i]
    BY <2>1, <2>2, Zenon
  <2> QED
    BY <1>1, <2>1, <2>3, Zenon
<1>11. ByteAt(b, (p + 2) + 2 * Len(s)) = 0 /\ ByteAt(b, (p + 2) + 2 * Len(s) + 1) = 0
  <2>1. p + Len(h \o w) = (p + 2) + 2 * Len(s)
    BY <1>1, <1>2, <1>3, <1>6
  <2>2. \A i \in 1 .. 2 : ByteAt(b, ((p + 2) + 2 * Len(s)) + i - 1) = e[i]
    BY <1>4, <1>7, <2>1 DEF Has
  <2>3. /\ ByteAt(b, ((p + 2) + 2 * Len(s)) + 1 - 1) = 0
        /\ ByteAt(b, ((p + 2) + 2 * Len(s)) + 2 - 1) = 0
    BY <1>4, <2>2
  <2>4. /\ ((p + 2) + 2 * Len(s)) + 1 - 1 = (p + 2) + 2 * Len(s)
        /\ ((p + 2) + 2 * Len(s)) + 2 - 1 = (p + 2) + 2 * Len(s) + 1
    BY <1>1, <1>2
  <2> QED
    BY <2>3, <2>4, Zenon
<1>12. TextAt(b, p + 2, n) = s
  <2>1. 2 * Len(s) <= n
    BY <1>1 DEF n
  <2> QED
    BY <1>2, <1>3, <1>10, <1>11, <2>1, TextAtIs, Zenon
<1>13. LenAt(b, p) = n /\ ValueOf(p) = p + 2
  BY <1>9 DEF LenAt, ValueOf
<1> QED
  BY <1>9, <1>12, <1>13, Zenon DEF n

(* One pass over a TLV, for the TLVs of a definition without a buffer.     *)
StateIs(s, b, q, G) == s \in ReadingState /\ s.buf = b /\ s.p = q /\ s.fields = G

LEMMA ReadNextIs ==
  ASSUME NEW b \in Seq(Byte), NEW q \in Places, NEW G \in Seq(Learned), NEW s,
         StateIs(s, b, q, G)
  PROVE  LET type == ByteAt(b, q)
             kind == G[Len(G)].type
             dword == DwordAt(b, ValueOf(q))
             name == TextAt(b, ValueOf(q), LenAt(b, q))
             field == [name |-> name, type |-> CFT_NUM, max |-> -1, set |-> FALSE]
             next == ReadNext(s)
         IN /\ type = TLV_NONE => next = s
            /\ type = TLV_CMD_FLD_CNT => StateIs(next, b, AfterTlv(b, q), G)
            /\ type = TLV_FLD_NAME => StateIs(next, b, AfterTlv(b, q), Append(G, field))
            /\ type = TLV_FLD_TYPE =>
                 StateIs(next, b, AfterDword(q), [G EXCEPT ![Len(G)].type = dword])
            /\ type = TLV_FLD_LEN =>
                 StateIs(next, b, AfterDword(q), [G EXCEPT ![Len(G)].max = dword])
            /\ type = TLV_FLD_VAL /\ kind = CFT_NUM =>
                 StateIs(next, b, AfterDword(q), [G EXCEPT ![Len(G)].set = (dword # 0)])
            /\ type = TLV_FLD_VAL /\ kind = CFT_TXT =>
                 StateIs(next, b, AfterTlv(b, q), [G EXCEPT ![Len(G)].set = TRUE])
<1> DEFINE type == ByteAt(b, q)
           kind == G[Len(G)].type
           dword == DwordAt(b, ValueOf(q))
           name == TextAt(b, ValueOf(q), LenAt(b, q))
           field == [name |-> name, type |-> CFT_NUM, max |-> -1, set |-> FALSE]
           next == ReadNext(s)
           h(x, f) == [s EXCEPT !.p = x, !.fields = f]
           e1 == h(AfterTlv(b, q), Append(G, field))
           e2 == h(AfterDword(q), [G EXCEPT ![Len(G)].type = dword])
           e3 == h(AfterDword(q), [G EXCEPT ![Len(G)].max = dword])
           e4 == h(AfterDword(q), [G EXCEPT ![Len(G)].set = (dword # 0)])
           e5 == h(AfterTlv(b, q), [G EXCEPT ![Len(G)].set = TRUE])
           e6 == h(AfterRaw(b, q), [G EXCEPT ![Len(G)].set = TRUE])
           e7 == [s EXCEPT !.p = ValueOf(q)]
           e8 == [s EXCEPT !.p = AfterTlv(b, q)]
<1>1. s \in ReadingState /\ s.buf = b /\ s.p = q /\ s.fields = G /\ next \in ReadingState
  BY ReadNextType DEF StateIs
<1>2. next =
          CASE type = TLV_NONE -> s
            [] type = TLV_FLD_NAME -> e1
            [] type = TLV_FLD_TYPE -> e2
            [] type = TLV_FLD_LEN -> e3
            [] type = TLV_FLD_VAL /\ kind = CFT_NUM -> e4
            [] type = TLV_FLD_VAL /\ kind = CFT_TXT -> e5
            [] type = TLV_FLD_VAL /\ kind \in {CFT_RAW8, CFT_RAW16} -> e6
            [] type = TLV_FLD_VAL /\ kind \notin {CFT_NUM, CFT_TXT, CFT_RAW8, CFT_RAW16} -> e7
            [] OTHER -> e8
  BY <1>1, Zenon DEF ReadNext
<1>3. \A x, f : h(x, f).buf = b /\ h(x, f).p = x /\ h(x, f).fields = f
  BY <1>1 DEF ReadingState
<1>4. e8.buf = b /\ e8.p = AfterTlv(b, q) /\ e8.fields = G
  BY <1>1 DEF ReadingState
<1> HIDE DEF field, h, e6, e7, e8, type, kind, dword, next
<1> DEFINE f2 == [G EXCEPT ![Len(G)].type = dword]
           f3 == [G EXCEPT ![Len(G)].max = dword]
           f4 == [G EXCEPT ![Len(G)].set = (dword # 0)]
           f5 == [G EXCEPT ![Len(G)].set = TRUE]
<1>5. /\ e1 = h(AfterTlv(b, q), Append(G, field)) /\ e2 = h(AfterDword(q), f2)
      /\ e3 = h(AfterDword(q), f3) /\ e4 = h(AfterDword(q), f4) /\ e5 = h(AfterTlv(b, q), f5)
  BY Zenon
<1> HIDE DEF e1, e2, e3, e4, e5
<1> HIDE DEF f2, f3, f4, f5
<1>6. type = TLV_NONE => next = s
  BY <1>2 DEF TLV_NONE, TLV_FLD_NAME, TLV_FLD_TYPE, TLV_FLD_LEN, TLV_FLD_VAL, TLV_CMD_FLD_CNT,
     CFT_NUM, CFT_TXT
<1>7. type = TLV_FLD_NAME => StateIs(next, b, AfterTlv(b, q), Append(G, field))
  <2>1. type = TLV_FLD_NAME => next = e1
    BY <1>2 DEF TLV_NONE, TLV_FLD_NAME, TLV_FLD_TYPE, TLV_FLD_LEN, TLV_FLD_VAL, TLV_CMD_FLD_CNT,
     CFT_NUM, CFT_TXT, CFT_RAW8, CFT_RAW16
  <2>2. e1.buf = b /\ e1.p = AfterTlv(b, q) /\ e1.fields = Append(G, field)
    BY <1>3, <1>4, <1>5, Zenon
  <2> QED
    BY <1>1, <2>1, <2>2, Zenon DEF StateIs
<1>8. type = TLV_FLD_TYPE => StateIs(next, b, AfterDword(q), f2)
  <2>1. type = TLV_FLD_TYPE => next = e2
    BY <1>2 DEF TLV_NONE, TLV_FLD_NAME, TLV_FLD_TYPE, TLV_FLD_LEN, TLV_FLD_VAL, TLV_CMD_FLD_CNT,
     CFT_NUM, CFT_TXT, CFT_RAW8, CFT_RAW16
  <2>2. e2.buf = b /\ e2.p = AfterDword(q) /\ e2.fields = f2
    BY <1>3, <1>4, <1>5, Zenon
  <2> QED
    BY <1>1, <2>1, <2>2, Zenon DEF StateIs
<1>9. type = TLV_FLD_LEN => StateIs(next, b, AfterDword(q), f3)
  <2>1. type = TLV_FLD_LEN => next = e3
    BY <1>2 DEF TLV_NONE, TLV_FLD_NAME, TLV_FLD_TYPE, TLV_FLD_LEN, TLV_FLD_VAL, TLV_CMD_FLD_CNT,
     CFT_NUM, CFT_TXT, CFT_RAW8, CFT_RAW16
  <2>2. e3.buf = b /\ e3.p = AfterDword(q) /\ e3.fields = f3
    BY <1>3, <1>4, <1>5, Zenon
  <2> QED
    BY <1>1, <2>1, <2>2, Zenon DEF StateIs
<1>10. type = TLV_FLD_VAL /\ kind = CFT_NUM => StateIs(next, b, AfterDword(q), f4)
  <2>1. type = TLV_FLD_VAL /\ kind = CFT_NUM => next = e4
    BY <1>2 DEF TLV_NONE, TLV_FLD_NAME, TLV_FLD_TYPE, TLV_FLD_LEN, TLV_FLD_VAL, TLV_CMD_FLD_CNT,
     CFT_NUM, CFT_TXT, CFT_RAW8, CFT_RAW16
  <2>2. e4.buf = b /\ e4.p = AfterDword(q) /\ e4.fields = f4
    BY <1>3, <1>4, <1>5, Zenon
  <2> QED
    BY <1>1, <2>1, <2>2, Zenon DEF StateIs
<1>11. type = TLV_FLD_VAL /\ kind = CFT_TXT => StateIs(next, b, AfterTlv(b, q), f5)
  <2>1. type = TLV_FLD_VAL /\ kind = CFT_TXT => next = e5
    BY <1>2 DEF TLV_NONE, TLV_FLD_NAME, TLV_FLD_TYPE, TLV_FLD_LEN, TLV_FLD_VAL, TLV_CMD_FLD_CNT,
     CFT_NUM, CFT_TXT, CFT_RAW8, CFT_RAW16
  <2>2. e5.buf = b /\ e5.p = AfterTlv(b, q) /\ e5.fields = f5
    BY <1>3, <1>4, <1>5, Zenon
  <2> QED
    BY <1>1, <2>1, <2>2, Zenon DEF StateIs
<1>12. type = TLV_CMD_FLD_CNT => StateIs(next, b, AfterTlv(b, q), G)
  <2>1. type = TLV_CMD_FLD_CNT => next = e8
    BY <1>2 DEF TLV_NONE, TLV_FLD_NAME, TLV_FLD_TYPE, TLV_FLD_LEN, TLV_FLD_VAL, TLV_CMD_FLD_CNT,
     CFT_NUM, CFT_TXT, CFT_RAW8, CFT_RAW16
  <2>2. e8.buf = b /\ e8.p = AfterTlv(b, q) /\ e8.fields = G
    BY <1>3, <1>4, <1>5, Zenon
  <2> QED
    BY <1>1, <2>1, <2>2, Zenon DEF StateIs
<1> QED
  BY <1>6, <1>7, <1>8, <1>9, <1>10, <1>11, <1>12, Zenon DEF f2, f3, f4, f5, type, kind, dword, field, next

(* What an assignment to the last field leaves alone.                      *)
Like(G, H) == /\ H \in Seq(Learned) /\ Len(H) = Len(G)
              /\ \A i \in 1 .. Len(G) - 1 : H[i] = G[i]

LEMMA SetLast ==
  ASSUME NEW G \in Seq(Learned), NEW l \in 1 .. Len(G), l = Len(G), NEW x \in Learned
  PROVE  Like(G, [G EXCEPT ![l] = x]) /\ [G EXCEPT ![l] = x][l] = x
<1> DEFINE H == [G EXCEPT ![l] = x]
<1>1. /\ H \in Seq(Learned) /\ Len(H) = Len(G)
      /\ \A i \in 1 .. Len(G) : H[i] = IF i = l THEN x ELSE G[i]
  BY ExceptSeq
<1>2. Len(G) \in Nat
  BY LenProperties
<1> HIDE DEF H
<1>3. H[l] = x /\ \A i \in 1 .. Len(G) - 1 : H[i] = G[i]
  BY <1>1, <1>2
<1>4. Like(G, H) /\ H[l] = x
  BY <1>1, <1>3 DEF Like
<1> QED
  BY <1>4 DEF H

LEMMA LastIs ==
  ASSUME NEW G \in Seq(Learned), Len(G) > 0
  PROVE  LET last == Len(G)
         IN /\ \A d \in Int : LET H == [G EXCEPT ![last].type = d]
                              IN /\ Like(G, H) /\ H[last].type = d
                                 /\ H[last].name = G[last].name /\ H[last].max = G[last].max
            /\ \A d \in Int : LET H == [G EXCEPT ![last].max = d]
                              IN /\ Like(G, H) /\ H[last].max = d
                                 /\ H[last].name = G[last].name /\ H[last].type = G[last].type
            /\ \A d \in BOOLEAN : LET H == [G EXCEPT ![last].set = d]
                                  IN /\ Like(G, H) /\ H[last].name = G[last].name
                                     /\ H[last].type = G[last].type /\ H[last].max = G[last].max
<1> DEFINE l == Len(G)
           e == G[l]
<1>1. l \in Nat /\ l \in 1 .. l /\ e \in Learned /\ DOMAIN G = 1 .. l
  <2>1. l \in Nat /\ l \in 1 .. l /\ DOMAIN G = 1 .. l
    BY LenProperties
  <2> HIDE DEF l
  <2> QED
    BY <2>1, ElementOfSeq DEF l
<1>2. ASSUME NEW x \in Learned PROVE Like(G, [G EXCEPT ![l] = x]) /\ [G EXCEPT ![l] = x][l] = x
  BY <1>1, SetLast
<1> HIDE DEF l
<1>3. ASSUME NEW d \in Int
      PROVE  LET H == [G EXCEPT ![l].type = d]
             IN /\ Like(G, H) /\ H[l].type = d /\ H[l].name = e.name /\ H[l].max = e.max
  <2> DEFINE x == [e EXCEPT !.type = d]
  <2>1. x \in Learned /\ x.type = d /\ x.name = e.name /\ x.max = e.max
    BY <1>1 DEF Learned
  <2>2. [G EXCEPT ![l].type = d] = [G EXCEPT ![l] = x]
    OBVIOUS
  <2> HIDE DEF x
  <2> QED
    BY <1>2, <2>1, <2>2
<1>4. ASSUME NEW d \in Int
      PROVE  LET H == [G EXCEPT ![l].max = d]
             IN /\ Like(G, H) /\ H[l].max = d /\ H[l].name = e.name /\ H[l].type = e.type
  <2> DEFINE x == [e EXCEPT !.max = d]
  <2>1. x \in Learned /\ x.max = d /\ x.name = e.name /\ x.type = e.type
    BY <1>1 DEF Learned
  <2>2. [G EXCEPT ![l].max = d] = [G EXCEPT ![l] = x]
    OBVIOUS
  <2> HIDE DEF x
  <2> QED
    BY <1>2, <2>1, <2>2
<1>5. ASSUME NEW d \in BOOLEAN
      PROVE  LET H == [G EXCEPT ![l].set = d]
             IN /\ Like(G, H) /\ H[l].name = e.name /\ H[l].type = e.type /\ H[l].max = e.max
  <2> DEFINE x == [e EXCEPT !.set = d]
  <2>1. x \in Learned /\ x.name = e.name /\ x.type = e.type /\ x.max = e.max
    BY <1>1 DEF Learned
  <2>2. [G EXCEPT ![l].set = d] = [G EXCEPT ![l] = x]
    OBVIOUS
  <2> HIDE DEF x
  <2> QED
    BY <1>2, <2>1, <2>2
<1> QED
  BY <1>3, <1>4, <1>5, Zenon DEF l

LEMMA Regrouped ==
  \A x, y, z \in Seq(Byte) : (x \o y) \o z = x \o (y \o z) /\ x \o y \in Seq(Byte)
BY ConcatAssociative, ConcatProperties

(* Each of the functions that add a TLV adds its bytes at the end. *)
LEMMA Adds ==
  ASSUME NEW msg \in Seq(Byte), NEW type \in Byte
  PROVE  /\ \A n \in Int : add_tlv_dword(msg, type, n) = msg \o DwordTlv(type, n)
         /\ \A s \in Str : add_tlv_str(msg, type, s) =
              IF Len(s) <= 126 THEN msg \o StrTlv(type, s) ELSE msg
         /\ \A s \in Seq(Byte) : \E t \in Seq(Byte) : add_tlv_raw(msg, type, s) = msg \o t
<1>1. ASSUME NEW n \in Int PROVE add_tlv_dword(msg, type, n) = msg \o DwordTlv(type, n)
  <2> DEFINE d == LE4(n)
             h == <<type, 4>>
  <2>1. d \in Seq(Byte) /\ h \in Seq(Byte)
    <3>1. 4 \in Byte
      BY ByteIs
    <3> QED
      BY <3>1, LE4Type
  <2>2. add_tlv_dword(msg, type, n) = (msg \o h) \o d /\ DwordTlv(type, n) = h \o d
    BY Zenon DEF add_tlv_dword, DwordTlv
  <2> HIDE DEF d, h
  <2>3. (msg \o h) \o d = msg \o (h \o d)
    BY <2>1, Regrouped, Zenon
  <2> QED
    BY <2>2, <2>3, Zenon
<1>2. ASSUME NEW s \in Str
      PROVE  add_tlv_str(msg, type, s) = IF Len(s) <= 126 THEN msg \o StrTlv(type, s) ELSE msg
  <2> DEFINE w == Wide(s)
             len == 2 * Len(s) + 2
             h == <<type, len>>
             e == <<0, 0>>
  <2>1. Len(s) \in Nat /\ w \in Seq(Byte) /\ (len > 255 <=> ~(Len(s) <= 126))
    BY WideType, LenProperties DEF Str
  <2>2. add_tlv_str(msg, type, s) = IF len > 255 THEN msg ELSE ((msg \o h) \o w) \o e
    BY Zenon DEF add_tlv_str, MAXBYTE
  <2>3. StrTlv(type, s) = (h \o w) \o e
    BY Zenon DEF StrTlv
  <2>4. CASE Len(s) <= 126
    <3>1. h \in Seq(Byte) /\ e \in Seq(Byte)
      <4>1. len \in Nat /\ len <= 255
        BY <2>1, <2>4
      <4> HIDE DEF len
      <4>2. len \in Byte /\ 0 \in Byte
        BY <4>1, ByteIs
      <4> QED
        BY <4>2
    <3> HIDE DEF w, h, e, len
    <3>2. add_tlv_str(msg, type, s) = ((msg \o h) \o w) \o e
      BY <2>1, <2>2, <2>4, Zenon
    <3>3. h \o w \in Seq(Byte)
      BY <2>1, <3>1, ConcatProperties, Zenon
    <3>4. (msg \o h) \o w = msg \o (h \o w)
      BY <2>1, <3>1, Regrouped, Zenon
    <3>5. (msg \o (h \o w)) \o e = msg \o ((h \o w) \o e)
      BY <3>1, <3>3, Regrouped, Zenon
    <3> QED
      BY <2>3, <2>4, <3>2, <3>4, <3>5, Zenon
  <2>5. CASE ~(Len(s) <= 126)
    BY <2>1, <2>2, <2>5, Zenon
  <2> QED
    BY <2>4, <2>5, Zenon
<1>3. ASSUME NEW s \in Seq(Byte) PROVE \E t \in Seq(Byte) : add_tlv_raw(msg, type, s) = msg \o t
  <2> DEFINE len == Len(s) % 256
             h == <<type, len>>
  <2>1. Len(s) \in Nat
    BY LenProperties
  <2>2. len \in Byte
    BY <2>1, ByteIs
  <2> HIDE DEF len
  <2>3. h \in Seq(Byte)
    BY <2>2
  <2>4. add_tlv_raw(msg, type, s) = (msg \o h) \o s
    BY Zenon DEF add_tlv_raw, len
  <2> HIDE DEF h
  <2>5. (msg \o h) \o s = msg \o (h \o s) /\ h \o s \in Seq(Byte)
    BY <2>3, Regrouped, Zenon
  <2> QED
    BY <2>4, <2>5, Zenon
<1> QED
  BY <1>1, <1>2, <1>3, Zenon

(* A field is its name, type and length, and its value behind them. *)
Bound(f) == Len(f.name) <= 126
NameBytes(f) == StrTlv(TLV_FLD_NAME, f.name)
TypeBytes(f) == DwordTlv(TLV_FLD_TYPE, f.type)
SizeBytes(f) == DwordTlv(TLV_FLD_LEN, f.max)

IsValue(f, val, v) ==
  /\ v \in Seq(Byte)
  /\ f.type = CFT_NUM => val \in Int /\ v = DwordTlv(TLV_FLD_VAL, val)
  /\ f.type = CFT_TXT => \/ v = <<>>
                         \/ val \in Str /\ Len(val) <= 126 /\ v = StrTlv(TLV_FLD_VAL, val)

LEMMA FieldParts ==
  ASSUME NEW msg \in Seq(Byte), NEW f \in Option, Bound(f), NEW vals \in Stores
  PROVE  \E v : /\ IsValue(f, vals[f.cell], v)
                /\ add_tlv_field(msg, f, vals[f.cell])
                     = (((msg \o NameBytes(f)) \o TypeBytes(f)) \o SizeBytes(f)) \o v
<1>1. /\ f.name \in Str /\ f.type \in 0 .. 3 /\ f.type \in Int /\ f.max \in Int
      /\ Fits(f.type, f.cell) /\ Len(f.name) <= 126
  BY DEF Option, Word, Bound
<1> DEFINE val == vals[f.cell]
<1>2. val \in Values(f.type)
  BY <1>1, CellType
<1> HIDE DEF val
<1> DEFINE a == msg \o NameBytes(f)
           b == a \o TypeBytes(f)
           c == b \o SizeBytes(f)
<1>3. NameBytes(f) \in Seq(Byte) /\ TypeBytes(f) \in Seq(Byte) /\ SizeBytes(f) \in Seq(Byte)
  BY <1>1, TlvSizes, TypesAreBytes DEF NameBytes, TypeBytes, SizeBytes
<1>4. a \in Seq(Byte)
  BY <1>3, ConcatProperties, Zenon
<1>5. b \in Seq(Byte)
  BY <1>3, <1>4, ConcatProperties, Zenon
<1>6. c \in Seq(Byte)
  BY <1>3, <1>5, ConcatProperties, Zenon
<1>7. a = add_tlv_str(msg, TLV_FLD_NAME, f.name)
  BY <1>1, Adds, TypesAreBytes, Zenon DEF NameBytes
<1> HIDE DEF a
<1>8. b = add_tlv_dword(a, TLV_FLD_TYPE, f.type)
  BY <1>1, <1>4, Adds, TypesAreBytes, Zenon DEF TypeBytes
<1> HIDE DEF b
<1>9. c = add_tlv_dword(b, TLV_FLD_LEN, f.max)
  BY <1>1, <1>5, Adds, TypesAreBytes, Zenon DEF SizeBytes
<1> HIDE DEF c
<1>10. add_tlv_field(msg, f, val) = add_tlv_val(c, f, val)
  BY <1>7, <1>8, <1>9, Zenon DEF add_tlv_field
<1>11. \E v : IsValue(f, val, v) /\ add_tlv_val(c, f, val) = c \o v
  <2>0. TLV_FLD_VAL \in Byte /\ CFT_NUM # CFT_TXT
    BY TypesAreBytes DEF CFT_NUM, CFT_TXT
  <2>1. CASE f.type = CFT_NUM
    <3>1. val \in Int /\ add_tlv_val(c, f, val) = add_tlv_dword(c, TLV_FLD_VAL, val)
      BY <1>2, <2>1 DEF add_tlv_val, Values, CFT_NUM, CFT_TXT
    <3> DEFINE v == DwordTlv(TLV_FLD_VAL, val)
    <3>2. add_tlv_val(c, f, val) = c \o v /\ v \in Seq(Byte)
      BY <1>6, <2>0, <3>1, Adds, TlvSizes, Zenon
    <3>3. IsValue(f, val, v)
      BY <2>0, <2>1, <3>1, <3>2, Zenon DEF IsValue
    <3> QED
      BY <3>2, <3>3, Zenon
  <2>2. CASE f.type = CFT_TXT
    <3>1. val \in Str /\ add_tlv_val(c, f, val) = add_tlv_str(c, TLV_FLD_VAL, val)
      BY <1>2, <2>2 DEF add_tlv_val, Values, CFT_NUM, CFT_TXT
    <3>2. CASE Len(val) <= 126
      <4> DEFINE v == StrTlv(TLV_FLD_VAL, val)
      <4>1. add_tlv_val(c, f, val) = c \o v /\ v \in Seq(Byte)
        BY <1>6, <2>0, <3>1, <3>2, Adds, TlvSizes, Zenon
      <4>2. IsValue(f, val, v)
        BY <2>0, <2>2, <3>1, <3>2, <4>1, Zenon DEF IsValue
      <4> QED
        BY <4>1, <4>2, Zenon
    <3>3. CASE ~(Len(val) <= 126)
      <4>1. add_tlv_val(c, f, val) = c
        BY <1>6, <2>0, <3>1, <3>3, Adds, Zenon
      <4>2. <<>> \in Seq(Byte) /\ c \o <<>> = c
        BY <1>6, EmptySeq, ConcatEmptySeq, Zenon
      <4>3. IsValue(f, val, <<>>)
        BY <2>0, <2>2, <4>2, Zenon DEF IsValue
      <4> QED
        BY <4>1, <4>2, <4>3, Zenon
    <3> QED
      BY <3>2, <3>3, Zenon
  <2>3. CASE f.type \notin {CFT_NUM, CFT_TXT}
    <3>1. val \in Seq(Byte) /\ add_tlv_val(c, f, val) = add_tlv_raw(c, TLV_FLD_VAL, val)
      BY <1>2, <2>3 DEF add_tlv_val, Values
    <3>2. PICK v \in Seq(Byte) : add_tlv_raw(c, TLV_FLD_VAL, val) = c \o v
      BY <1>6, <2>0, <3>1, Adds
    <3>3. IsValue(f, val, v)
      BY <2>3, <3>2 DEF IsValue
    <3> QED
      BY <3>1, <3>2, <3>3, Zenon
  <2> QED
    BY <2>1, <2>2, <2>3
<1> QED
  BY <1>10, <1>11, Zenon DEF c, b, a, val

-----------------------------------------------------------------------------
(* A place that the UI comes to when it reads the fields of a definition   *)
(* from first on, with what it has learned by then.  A TLV has two bytes   *)
(* at least.                                                               *)
Reads(b, first, q, G) ==
  \E j \in Nat : /\ 2 * j <= q - first
                 /\ StateIs(Reading!Repeat([buf |-> b, p |-> first, fields |-> <<>>], j), b, q, G)

LEMMA ReadsOn ==
  ASSUME NEW b, NEW first \in Nat, NEW q \in Nat, NEW q2 \in Nat, q + 2 <= q2, NEW G, NEW H,
         Reads(b, first, q, G), \A s : StateIs(s, b, q, G) => StateIs(ReadNext(s), b, q2, H)
  PROVE  Reads(b, first, q2, H)
<1> DEFINE s0 == [buf |-> b, p |-> first, fields |-> <<>>]
<1>1. PICK j \in Nat : 2 * j <= q - first /\ StateIs(Reading!Repeat(s0, j), b, q, G)
  BY DEF Reads
<1> HIDE DEF s0
<1>2. Reading!Repeat(s0, j + 1) = ReadNext(Reading!Repeat(s0, j))
  BY Reading!Unfold
<1>3. StateIs(Reading!Repeat(s0, j + 1), b, q2, H)
  BY <1>1, <1>2
<1>4. j + 1 \in Nat /\ 2 * (j + 1) <= q2 - first
  BY <1>1
<1> QED
  BY <1>3, <1>4 DEF Reads, s0

LEMMA ReadsNext ==
  ASSUME NEW b \in Seq(Byte), NEW first \in Places, NEW q \in Places, NEW G \in Seq(Learned),
         Reads(b, first, q, G)
  PROVE  LET type == ByteAt(b, q)
             kind == G[Len(G)].type
             dword == DwordAt(b, ValueOf(q))
             name == TextAt(b, ValueOf(q), LenAt(b, q))
             field == [name |-> name, type |-> CFT_NUM, max |-> -1, set |-> FALSE]
         IN /\ type = TLV_CMD_FLD_CNT => Reads(b, first, AfterTlv(b, q), G)
            /\ type = TLV_FLD_NAME => Reads(b, first, AfterTlv(b, q), Append(G, field))
            /\ type = TLV_FLD_TYPE =>
                 Reads(b, first, AfterDword(q), [G EXCEPT ![Len(G)].type = dword])
            /\ type = TLV_FLD_LEN =>
                 Reads(b, first, AfterDword(q), [G EXCEPT ![Len(G)].max = dword])
            /\ type = TLV_FLD_VAL /\ kind = CFT_NUM =>
                 Reads(b, first, AfterDword(q), [G EXCEPT ![Len(G)].set = (dword # 0)])
            /\ type = TLV_FLD_VAL /\ kind = CFT_TXT =>
                 Reads(b, first, AfterTlv(b, q), [G EXCEPT ![Len(G)].set = TRUE])
<1> DEFINE type == ByteAt(b, q)
           kind == G[Len(G)].type
           dword == DwordAt(b, ValueOf(q))
           name == TextAt(b, ValueOf(q), LenAt(b, q))
           field == [name |-> name, type |-> CFT_NUM, max |-> -1, set |-> FALSE]
           f1 == Append(G, field)
           f2 == [G EXCEPT ![Len(G)].type = dword]
           f3 == [G EXCEPT ![Len(G)].max = dword]
           f4 == [G EXCEPT ![Len(G)].set = (dword # 0)]
           f5 == [G EXCEPT ![Len(G)].set = TRUE]
           to == AfterTlv(b, q)
           over == AfterDword(q)
<1>1. q \in Nat /\ first \in Nat /\ to \in Nat /\ q + 2 <= to /\ over \in Nat /\ q + 2 <= over
  <2>1. q \in Nat /\ first \in Nat /\ q + 1 \in Int
    BY DEF Places
  <2>2. LenAt(b, q) \in Nat
    BY <2>1, ByteAtType DEF LenAt
  <2> QED
    BY <2>1, <2>2 DEF AfterTlv, AfterDword, ValueOf
<1>2. ASSUME NEW s, StateIs(s, b, q, G)
      PROVE  /\ type = TLV_CMD_FLD_CNT => StateIs(ReadNext(s), b, to, G)
             /\ type = TLV_FLD_NAME => StateIs(ReadNext(s), b, to, f1)
             /\ type = TLV_FLD_TYPE => StateIs(ReadNext(s), b, over, f2)
             /\ type = TLV_FLD_LEN => StateIs(ReadNext(s), b, over, f3)
             /\ type = TLV_FLD_VAL /\ kind = CFT_NUM => StateIs(ReadNext(s), b, over, f4)
             /\ type = TLV_FLD_VAL /\ kind = CFT_TXT => StateIs(ReadNext(s), b, to, f5)
  BY <1>2, ReadNextIs, Zenon
<1> HIDE DEF f1, f2, f3, f4, f5, to, over, type, kind
<1>3. ASSUME NEW x \in {to, over}, NEW H, \A s : StateIs(s, b, q, G) => StateIs(ReadNext(s), b, x, H)
      PROVE  Reads(b, first, x, H)
  <2>1. x \in Nat /\ q + 2 <= x
    BY <1>1, <1>3
  <2> QED
    BY <1>1, <1>3, <2>1, ReadsOn, Zenon
<1>4. /\ type = TLV_CMD_FLD_CNT => Reads(b, first, to, G)
      /\ type = TLV_FLD_NAME => Reads(b, first, to, f1)
  BY <1>2, <1>3, Zenon
<1>5. /\ type = TLV_FLD_TYPE => Reads(b, first, over, f2)
      /\ type = TLV_FLD_LEN => Reads(b, first, over, f3)
  BY <1>2, <1>3, Zenon
<1>6. /\ type = TLV_FLD_VAL /\ kind = CFT_NUM => Reads(b, first, over, f4)
      /\ type = TLV_FLD_VAL /\ kind = CFT_TXT => Reads(b, first, to, f5)
  BY <1>2, <1>3, Zenon
<1> QED
  BY <1>4, <1>5, <1>6, Zenon DEF f1, f2, f3, f4, f5, to, over, type, kind

(* Where the parts of a field are that is written behind msg. *)
NamePlace(msg) == Len(msg) + 1
TypePlace(msg, f) == NamePlace(msg) + 2 * Len(f.name) + 4
SizePlace(msg, f) == TypePlace(msg, f) + 6
ValuePlace(msg, f) == TypePlace(msg, f) + 12

LEMMA PlacesOf ==
  ASSUME NEW msg \in Seq(Byte), NEW f \in Option
  PROVE  /\ {NamePlace(msg), TypePlace(msg, f), SizePlace(msg, f), ValuePlace(msg, f)} \subseteq Places
         /\ {NamePlace(msg), TypePlace(msg, f), SizePlace(msg, f), ValuePlace(msg, f)} \subseteq Nat
         /\ NamePlace(msg) + 2 + (2 * Len(f.name) + 2) = TypePlace(msg, f)
         /\ TypePlace(msg, f) + 2 + 4 = SizePlace(msg, f)
         /\ SizePlace(msg, f) + 2 + 4 = ValuePlace(msg, f)
         /\ NamePlace(msg) + 2 <= TypePlace(msg, f) /\ TypePlace(msg, f) + 2 <= SizePlace(msg, f)
         /\ SizePlace(msg, f) + 2 <= ValuePlace(msg, f)
<1> DEFINE L == Len(msg)
           K == Len(f.name)
<1>1. L \in Nat /\ K \in Nat
  BY LenProperties DEF Option, Word, Str
<1>2. /\ NamePlace(msg) = L + 1 /\ TypePlace(msg, f) = L + 1 + 2 * K + 4
      /\ SizePlace(msg, f) = L + 1 + 2 * K + 4 + 6 /\ ValuePlace(msg, f) = L + 1 + 2 * K + 4 + 12
  BY Zenon DEF NamePlace, TypePlace, SizePlace, ValuePlace
<1> HIDE DEF L, K
<1>3. NamePlace(msg) + 2 + (2 * K + 2) = TypePlace(msg, f)
  BY <1>1, <1>2
<1>4. /\ {NamePlace(msg), TypePlace(msg, f), SizePlace(msg, f), ValuePlace(msg, f)} \subseteq Nat
      /\ TypePlace(msg, f) + 2 + 4 = SizePlace(msg, f)
      /\ SizePlace(msg, f) + 2 + 4 = ValuePlace(msg, f)
      /\ NamePlace(msg) + 2 <= TypePlace(msg, f) /\ TypePlace(msg, f) + 2 <= SizePlace(msg, f)
      /\ SizePlace(msg, f) + 2 <= ValuePlace(msg, f)
      /\ NamePlace(msg) > 0 /\ TypePlace(msg, f) > 0 /\ SizePlace(msg, f) > 0
      /\ ValuePlace(msg, f) > 0
  BY <1>1, <1>2
<1>5. {NamePlace(msg), TypePlace(msg, f), SizePlace(msg, f), ValuePlace(msg, f)} \subseteq Places
  BY <1>4 DEF Places
<1> QED
  BY <1>3, <1>4, <1>5, Zenon DEF K

LEMMA FieldPlaces ==
  ASSUME NEW b \in Seq(Byte), NEW msg \in Seq(Byte), NEW f \in Option, Bound(f),
         NEW v \in Seq(Byte),
         Has(b, 1, (((msg \o NameBytes(f)) \o TypeBytes(f)) \o SizeBytes(f)) \o v)
  PROVE  LET c == (((msg \o NameBytes(f)) \o TypeBytes(f)) \o SizeBytes(f)) \o v
         IN /\ Has(b, 1, msg) /\ Has(b, NamePlace(msg), NameBytes(f))
            /\ Has(b, TypePlace(msg, f), TypeBytes(f)) /\ Has(b, SizePlace(msg, f), SizeBytes(f))
            /\ Has(b, ValuePlace(msg, f), v) /\ Len(c) + 1 = ValuePlace(msg, f) + Len(v)
            /\ c \in Seq(Byte)
<1> DEFINE n == NameBytes(f)
           t == TypeBytes(f)
           z == SizeBytes(f)
           a == msg \o n
           d == a \o t
           e == d \o z
           c == e \o v
<1>1. f.name \in Str /\ f.type \in Int /\ f.max \in Int /\ Len(f.name) <= 126
  BY DEF Option, Word, Bound
<1>2. /\ n \in Seq(Byte) /\ Len(n) = 2 * Len(f.name) + 4 /\ t \in Seq(Byte) /\ Len(t) = 6
      /\ z \in Seq(Byte) /\ Len(z) = 6 /\ Len(f.name) \in Nat /\ Len(v) \in Nat /\ Len(msg) \in Nat
  BY <1>1, TlvSizes, TypesAreBytes, LenProperties DEF NameBytes, TypeBytes, SizeBytes, Str
<1>3. Has(b, 1, c)
  OBVIOUS
<1> HIDE DEF n, t, z
<1>4. a \in Seq(Byte) /\ Len(a) = Len(msg) + Len(n)
  BY <1>2, ConcatProperties, Zenon
<1> HIDE DEF a
<1>5. d \in Seq(Byte) /\ Len(d) = Len(a) + Len(t)
  BY <1>2, <1>4, ConcatProperties, Zenon
<1> HIDE DEF d
<1>6. e \in Seq(Byte) /\ Len(e) = Len(d) + Len(z)
  BY <1>2, <1>5, ConcatProperties, Zenon
<1> HIDE DEF e
<1>7. c \in Seq(Byte) /\ Len(c) = Len(e) + Len(v)
  BY <1>6, ConcatProperties, Zenon
<1>0. 1 \in Nat
  OBVIOUS
<1>8. Has(b, 1, e) /\ Has(b, 1 + Len(e), v)
  BY <1>0, <1>3, <1>6, HasParts, Zenon
<1> HIDE DEF c
<1>9. Has(b, 1, d) /\ Has(b, 1 + Len(d), z)
  <2>1. Has(b, 1, d \o z)
    BY <1>8, Zenon DEF e
  <2> QED
    BY <1>0, <1>2, <1>5, <2>1, HasParts, Zenon
<1>10. Has(b, 1, a) /\ Has(b, 1 + Len(a), t)
  <2>1. Has(b, 1, a \o t)
    BY <1>9, Zenon DEF d
  <2> QED
    BY <1>0, <1>2, <1>4, <2>1, HasParts, Zenon
<1>11. Has(b, 1, msg) /\ Has(b, 1 + Len(msg), n)
  <2>1. Has(b, 1, msg \o n)
    BY <1>10, Zenon DEF a
  <2> QED
    BY <1>0, <1>2, <2>1, HasParts, Zenon
<1> DEFINE q == Len(msg) + 1
           q1 == q + 2 * Len(f.name) + 4
<1>12. /\ 1 + Len(msg) = q /\ 1 + Len(a) = q1 /\ 1 + Len(d) = q1 + 6 /\ 1 + Len(e) = q1 + 12
       /\ Len(c) + 1 = q1 + 12 + Len(v)
  <2>1. /\ Len(a) = Len(msg) + 2 * Len(f.name) + 4 /\ Len(d) = Len(msg) + 2 * Len(f.name) + 10
        /\ Len(e) = Len(msg) + 2 * Len(f.name) + 16
        /\ Len(c) = Len(msg) + 2 * Len(f.name) + 16 + Len(v)
    BY <1>2, <1>4, <1>5, <1>6, <1>7
  <2> DEFINE L == Len(msg)
             K == Len(f.name)
             V == Len(v)
  <2>2. L \in Nat /\ K \in Nat /\ V \in Nat
    BY <1>2
  <2>3. /\ Len(a) = L + 2 * K + 4 /\ Len(d) = L + 2 * K + 10 /\ Len(e) = L + 2 * K + 16
        /\ Len(c) = L + 2 * K + 16 + V /\ q = L + 1 /\ q1 = q + 2 * K + 4
    BY <2>1, Zenon
  <2> HIDE DEF L, K, V, q, q1
  <2>4. /\ 1 + L = q /\ 1 + Len(a) = q1 /\ 1 + Len(d) = q1 + 6 /\ 1 + Len(e) = q1 + 12
        /\ Len(c) + 1 = q1 + 12 + V
    BY <2>2, <2>3
  <2> QED
    BY <2>4, Zenon DEF L, V
<1> HIDE DEF q, q1
<1>13. /\ Has(b, 1, msg) /\ Has(b, q, n) /\ Has(b, q1, t) /\ Has(b, q1 + 6, z) /\ Has(b, q1 + 12, v)
       /\ Len(c) + 1 = q1 + 12 + Len(v) /\ c \in Seq(Byte)
  BY <1>7, <1>8, <1>9, <1>10, <1>11, <1>12, Zenon
<1>14. /\ NamePlace(msg) = q /\ TypePlace(msg, f) = q1 /\ SizePlace(msg, f) = q1 + 6
       /\ ValuePlace(msg, f) = q1 + 12
  BY Zenon DEF NamePlace, TypePlace, SizePlace, ValuePlace, q, q1
<1> QED
  BY <1>13, <1>14, Zenon DEF c, e, d, a, n, t, z

(* A field that was written is learned as it is. *)
LearnedIs(e, f) == e.name = f.name /\ e.type = f.type /\ e.max = f.max
LearnedMore(G, H, f) ==
  /\ H \in Seq(Learned) /\ Len(H) = Len(G) + 1 /\ \A i \in 1 .. Len(G) : H[i] = G[i]
  /\ LearnedIs(H[Len(H)], f)

LEMMA OneMore ==
  ASSUME NEW G \in Seq(Learned), NEW H, NEW H2, NEW f,
         H \in Seq(Learned), Len(H) = Len(G) + 1, \A i \in 1 .. Len(G) : H[i] = G[i],
         Like(H, H2)
  PROVE  H2 \in Seq(Learned) /\ Len(H2) = Len(G) + 1 /\ \A i \in 1 .. Len(G) : H2[i] = G[i]
<1>1. Len(G) \in Nat
  BY LenProperties
<1> QED
  BY <1>1 DEF Like

LEMMA FieldEnd ==
  ASSUME NEW b \in Seq(Byte), NEW msg \in Seq(Byte), NEW f \in Option, Bound(f), NEW v \in Seq(Byte),
         Has(b, 1, (((msg \o NameBytes(f)) \o TypeBytes(f)) \o SizeBytes(f)) \o v)
  PROVE  NamePlace((((msg \o NameBytes(f)) \o TypeBytes(f)) \o SizeBytes(f)) \o v)
           = ValuePlace(msg, f) + Len(v)
<1> DEFINE d == (((msg \o NameBytes(f)) \o TypeBytes(f)) \o SizeBytes(f)) \o v
<1>1. Len(d) + 1 = ValuePlace(msg, f) + Len(v)
  BY FieldPlaces
<1> QED
  BY <1>1, Zenon DEF NamePlace

LEMMA ReadParts ==
  ASSUME NEW b \in Seq(Byte), NEW p \in Places, NEW f \in Option, Bound(f)
  PROVE  /\ Has(b, p, NameBytes(f)) => /\ ByteAt(b, p) = TLV_FLD_NAME
                                      /\ TextAt(b, ValueOf(p), LenAt(b, p)) = f.name
                                      /\ AfterTlv(b, p) = p + 2 + (2 * Len(f.name) + 2)
         /\ Has(b, p, TypeBytes(f)) => /\ ByteAt(b, p) = TLV_FLD_TYPE
                                      /\ DwordAt(b, ValueOf(p)) = f.type
                                      /\ AfterTlv(b, p) = p + 2 + 4
         /\ Has(b, p, SizeBytes(f)) => /\ ByteAt(b, p) = TLV_FLD_LEN
                                      /\ DwordAt(b, ValueOf(p)) = f.max
                                      /\ AfterTlv(b, p) = p + 2 + 4
<1>1. f.name \in Str /\ Len(f.name) <= 126
  BY DEF Option, Word, Bound
<1>2. f.type \in Nat /\ f.type < 65536 /\ f.type \in Int
  BY DEF Option
<1>3. f.max \in Nat /\ f.max < 65536 /\ f.max \in Int
  BY DEF Option
<1>4. TLV_FLD_NAME \in Byte /\ TLV_FLD_TYPE \in Byte /\ TLV_FLD_LEN \in Byte
  BY TypesAreBytes
<1>5. p \in Nat
  BY DEF Places
<1>6. ASSUME Has(b, p, NameBytes(f))
      PROVE  /\ ByteAt(b, p) = TLV_FLD_NAME /\ TextAt(b, ValueOf(p), LenAt(b, p)) = f.name
             /\ AfterTlv(b, p) = p + 2 + (2 * Len(f.name) + 2)
  <2>1. Has(b, p, StrTlv(TLV_FLD_NAME, f.name))
    BY <1>6, Zenon DEF NameBytes
  <2> QED
    BY <1>1, <1>4, <2>1, ReadStr DEF AfterTlv, ValueOf
<1>7. ASSUME Has(b, p, TypeBytes(f))
      PROVE  /\ ByteAt(b, p) = TLV_FLD_TYPE /\ DwordAt(b, ValueOf(p)) = f.type
             /\ AfterTlv(b, p) = p + 2 + 4
  <2>1. Has(b, p, DwordTlv(TLV_FLD_TYPE, f.type))
    BY <1>7, Zenon DEF TypeBytes
  <2> QED
    BY <1>2, <1>4, <1>5, <2>1, ReadDword DEF AfterTlv, ValueOf
<1>8. ASSUME Has(b, p, SizeBytes(f))
      PROVE  /\ ByteAt(b, p) = TLV_FLD_LEN /\ DwordAt(b, ValueOf(p)) = f.max
             /\ AfterTlv(b, p) = p + 2 + 4
  <2>1. Has(b, p, DwordTlv(TLV_FLD_LEN, f.max))
    BY <1>8, Zenon DEF SizeBytes
  <2> QED
    BY <1>3, <1>4, <1>5, <2>1, ReadDword DEF AfterTlv, ValueOf
<1> QED
  BY <1>6, <1>7, <1>8, Zenon

(* Name, type and length of a field. *)
LEMMA ReadsHead ==
  ASSUME NEW b \in Seq(Byte), NEW first \in Places, NEW msg \in Seq(Byte), NEW f \in Option,
         Bound(f), NEW G \in Seq(Learned), Reads(b, first, NamePlace(msg), G),
         Has(b, NamePlace(msg), NameBytes(f)), Has(b, TypePlace(msg, f), TypeBytes(f)),
         Has(b, SizePlace(msg, f), SizeBytes(f))
  PROVE  \E H : LearnedMore(G, H, f) /\ Reads(b, first, ValuePlace(msg, f), H)
<1> DEFINE q == NamePlace(msg)
           q1 == TypePlace(msg, f)
           q2 == SizePlace(msg, f)
           q3 == ValuePlace(msg, f)
           e == [name |-> f.name, type |-> CFT_NUM, max |-> -1, set |-> FALSE]
           H1 == Append(G, e)
           H2 == [H1 EXCEPT ![Len(H1)].type = f.type]
           H3 == [H2 EXCEPT ![Len(H2)].max = f.max]
<1>1. q \in Places /\ q1 \in Places /\ q2 \in Places
  BY PlacesOf
<1>2. q + 2 + (2 * Len(f.name) + 2) = q1 /\ q1 + 2 + 4 = q2 /\ q2 + 2 + 4 = q3
  BY PlacesOf, Zenon
<1>3. f.name \in Str /\ f.type \in Int /\ f.max \in Int
  BY DEF Option, Word, Bound
<1>4. e \in Learned /\ e.name = f.name
  BY <1>3 DEF Learned, CFT_NUM
<1>5. /\ ByteAt(b, q) = TLV_FLD_NAME /\ TextAt(b, ValueOf(q), LenAt(b, q)) = f.name
      /\ AfterTlv(b, q) = q1
  BY <1>1, <1>2, ReadParts, Zenon
<1>6. ByteAt(b, q1) = TLV_FLD_TYPE /\ DwordAt(b, ValueOf(q1)) = f.type /\ AfterDword(q1) = q2
  <2>1. ByteAt(b, q1) = TLV_FLD_TYPE /\ DwordAt(b, ValueOf(q1)) = f.type
    BY <1>1, ReadParts, Zenon
  <2> QED
    BY <1>2, <2>1, Zenon DEF AfterDword, ValueOf
<1>7. ByteAt(b, q2) = TLV_FLD_LEN /\ DwordAt(b, ValueOf(q2)) = f.max /\ AfterDword(q2) = q3
  <2>1. ByteAt(b, q2) = TLV_FLD_LEN /\ DwordAt(b, ValueOf(q2)) = f.max
    BY <1>1, ReadParts, Zenon
  <2> QED
    BY <1>2, <2>1, Zenon DEF AfterDword, ValueOf
<1>8. Reads(b, first, q, G)
  OBVIOUS
<1> HIDE DEF q, q1, q2, q3
<1>9. Reads(b, first, q1, H1)
  <2>1. Reads(b, first, AfterTlv(b, q), H1)
    BY <1>1, <1>5, <1>8, ReadsNext
  <2> QED
    BY <1>5, <2>1, Zenon
<1> HIDE DEF e
<1>10. /\ H1 \in Seq(Learned) /\ Len(H1) = Len(G) + 1 /\ \A i \in 1 .. Len(G) : H1[i] = G[i]
       /\ H1[Len(G) + 1] = e
  BY <1>4, AppendProperties, LenProperties
<1>11. Len(G) \in Nat
  BY LenProperties
<1> HIDE DEF H1
<1>12. Len(H1) > 0 /\ H1[Len(H1)].name = f.name
  BY <1>4, <1>10, <1>11
<1>13. Reads(b, first, q2, H2)
  <2>1. Reads(b, first, AfterDword(q1), H2)
    BY <1>1, <1>6, <1>9, <1>10, ReadsNext
  <2> QED
    BY <1>6, <2>1, Zenon
<1>14. Like(H1, H2) /\ H2[Len(H1)].type = f.type /\ H2[Len(H1)].name = f.name
  BY <1>3, <1>10, <1>12, LastIs
<1> HIDE DEF H2
<1>15. H2 \in Seq(Learned) /\ Len(H2) = Len(G) + 1 /\ \A i \in 1 .. Len(G) : H2[i] = G[i]
  BY <1>10, <1>14, OneMore
<1>16. H2[Len(H2)].type = f.type /\ H2[Len(H2)].name = f.name /\ Len(H2) > 0
  BY <1>10, <1>11, <1>14, <1>15
<1>17. Reads(b, first, q3, H3)
  <2>1. Reads(b, first, AfterDword(q2), H3)
    BY <1>1, <1>7, <1>13, <1>15, ReadsNext
  <2> QED
    BY <1>7, <2>1, Zenon
<1>18. Like(H2, H3) /\ H3[Len(H2)].max = f.max /\ H3[Len(H2)].name = f.name /\ H3[Len(H2)].type = f.type
  BY <1>3, <1>15, <1>16, LastIs
<1> HIDE DEF H3
<1>19. H3 \in Seq(Learned) /\ Len(H3) = Len(G) + 1 /\ \A i \in 1 .. Len(G) : H3[i] = G[i]
  BY <1>15, <1>18, OneMore
<1>20. LearnedMore(G, H3, f)
  BY <1>15, <1>18, <1>19 DEF LearnedMore, LearnedIs
<1> QED
  BY <1>17, <1>20, Zenon DEF q3

(* And its value, unless it is a buffer. *)
LEMMA ReadsField ==
  ASSUME NEW b \in Seq(Byte), NEW first \in Places, NEW msg \in Seq(Byte), NEW f \in Option,
         Bound(f), f.type \in {CFT_NUM, CFT_TXT}, NEW val, NEW v, IsValue(f, val, v),
         NEW G \in Seq(Learned), Reads(b, first, NamePlace(msg), G),
         Has(b, 1, (((msg \o NameBytes(f)) \o TypeBytes(f)) \o SizeBytes(f)) \o v)
  PROVE  \E H : LearnedMore(G, H, f) /\ Reads(b, first, ValuePlace(msg, f) + Len(v), H)
<1> DEFINE q3 == ValuePlace(msg, f)
           q4 == q3 + Len(v)
<1>1. v \in Seq(Byte) /\ Len(v) \in Nat
  BY LenProperties DEF IsValue
<1>2. /\ Has(b, NamePlace(msg), NameBytes(f)) /\ Has(b, TypePlace(msg, f), TypeBytes(f))
      /\ Has(b, SizePlace(msg, f), SizeBytes(f)) /\ Has(b, q3, v)
  BY <1>1, FieldPlaces, Zenon
<1>3. PICK H3 : LearnedMore(G, H3, f) /\ Reads(b, first, q3, H3)
  BY <1>2, ReadsHead
<1>4. q3 \in Places /\ q3 \in Nat
  BY PlacesOf
<1>5. TLV_FLD_VAL \in Byte
  BY TypesAreBytes
<1>6. /\ H3 \in Seq(Learned) /\ H3[Len(H3)].type = f.type /\ Len(H3) > 0
  <2>1. Len(G) \in Nat
    BY LenProperties
  <2> QED
    BY <1>3, <2>1 DEF LearnedMore, LearnedIs
<1> HIDE DEF q3
<1>7. ASSUME NEW d \in BOOLEAN
      PROVE  LearnedMore(G, [H3 EXCEPT ![Len(H3)].set = d], f)
  <2> DEFINE H4 == [H3 EXCEPT ![Len(H3)].set = d]
  <2>1. /\ Like(H3, H4) /\ H4[Len(H3)].name = H3[Len(H3)].name
        /\ H4[Len(H3)].type = H3[Len(H3)].type /\ H4[Len(H3)].max = H3[Len(H3)].max
    BY <1>6, LastIs
  <2> HIDE DEF H4
  <2>2. H4 \in Seq(Learned) /\ Len(H4) = Len(G) + 1 /\ \A i \in 1 .. Len(G) : H4[i] = G[i]
    BY <1>3, <1>6, <2>1, OneMore DEF LearnedMore
  <2>3. Len(H4) = Len(H3)
    BY <2>1 DEF Like
  <2>4. LearnedMore(G, H4, f)
    BY <1>3, <2>1, <2>2, <2>3 DEF LearnedMore, LearnedIs
  <2> QED
    BY <2>4 DEF H4
<1>8. CASE f.type = CFT_NUM
  <2>1. val \in Int /\ v = DwordTlv(TLV_FLD_VAL, val)
    BY <1>8, Zenon DEF IsValue
  <2>2. ByteAt(b, q3) = TLV_FLD_VAL /\ Len(v) = 6
    BY <1>2, <1>4, <1>5, <2>1, ReadDword, TlvSizes
  <2>3. AfterDword(q3) = q4
    BY <1>4, <2>2 DEF AfterDword, ValueOf
  <2> DEFINE d == DwordAt(b, ValueOf(q3)) # 0
             H4 == [H3 EXCEPT ![Len(H3)].set = d]
  <2>4. Reads(b, first, AfterDword(q3), H4)
    BY <1>3, <1>4, <1>6, <1>8, <2>2, ReadsNext, Zenon
  <2>5. d \in BOOLEAN
    OBVIOUS
  <2> HIDE DEF d, q4
  <2>6. LearnedMore(G, H4, f)
    BY <1>7, <2>5
  <2> QED
    BY <2>3, <2>4, <2>6, Zenon DEF q4, q3
<1>9. CASE f.type = CFT_TXT /\ v # <<>>
  <2>1. val \in Str /\ Len(val) <= 126 /\ v = StrTlv(TLV_FLD_VAL, val)
    BY <1>9, Zenon DEF IsValue
  <2>2. /\ ByteAt(b, q3) = TLV_FLD_VAL /\ LenAt(b, q3) = 2 * Len(val) + 2
        /\ Len(v) = 2 * Len(val) + 4 /\ Len(val) \in Nat
    BY <1>2, <1>4, <1>5, <2>1, ReadStr, TlvSizes, LenProperties DEF Str
  <2>3. AfterTlv(b, q3) = q4
    BY <1>4, <2>2 DEF AfterTlv, ValueOf
  <2> DEFINE H4 == [H3 EXCEPT ![Len(H3)].set = TRUE]
  <2>4. Reads(b, first, AfterTlv(b, q3), H4)
    BY <1>3, <1>4, <1>6, <1>9, <2>2, ReadsNext, Zenon
  <2>6. LearnedMore(G, H4, f)
    BY <1>7
  <2> HIDE DEF H4, q4
  <2> QED
    BY <2>3, <2>4, <2>6, Zenon DEF q4, q3
<1>10. CASE v = <<>>
  <2>1. q4 = q3
    BY <1>4, <1>10
  <2> HIDE DEF q4
  <2> QED
    BY <1>3, <2>1, Zenon DEF q4, q3
<1> QED
  BY <1>8, <1>9, <1>10, Zenon
-----------------------------------------------------------------------------
(* The pass before it, which counts the fields.                            *)
CountingState == [buf : Seq(Byte), p : Places, cnt : Int, ref : Int]
CountIs(s, b, q, cnt, ref) ==
  s \in CountingState /\ s.buf = b /\ s.p = q /\ s.cnt = cnt /\ s.ref = ref

LEMMA CountNextIs ==
  ASSUME NEW b \in Seq(Byte), NEW q \in Places, NEW cnt \in Int, NEW ref \in Int, NEW s,
         CountIs(s, b, q, cnt, ref)
  PROVE  LET type == ByteAt(b, q)
             next == CountNext(s)
             to == AfterTlv(b, q)
         IN /\ type = TLV_NONE => next = s
            /\ type = TLV_CMD_FLD_CNT =>
                 CountIs(next, b, AfterDword(q), cnt, DwordAt(b, ValueOf(q)))
            /\ type = TLV_FLD_NAME => CountIs(next, b, to, cnt + 1, ref)
            /\ type \in {TLV_FLD_TYPE, TLV_FLD_LEN, TLV_FLD_VAL} => CountIs(next, b, to, cnt, ref)
<1> DEFINE type == ByteAt(b, q)
           next == CountNext(s)
           to == AfterTlv(b, q)
           over == AfterDword(q)
           dword == DwordAt(b, ValueOf(q))
           e1 == [s EXCEPT !.p = over, !.ref = dword]
           more == cnt + 1
           e2 == [s EXCEPT !.p = to, !.cnt = more]
           e3 == [s EXCEPT !.p = to]
<1>1. s \in CountingState /\ s.buf = b /\ s.p = q /\ s.cnt = cnt /\ s.ref = ref
  BY DEF CountIs
<1>2. next = CASE type = TLV_NONE -> s
               [] type = TLV_CMD_FLD_CNT -> e1
               [] type = TLV_FLD_NAME -> e2
               [] OTHER -> e3
  BY <1>1, Zenon DEF CountNext
<1>3. to \in Places /\ over \in Places /\ dword \in Int /\ more \in Int
  BY PlacesAfter
<1> HIDE DEF type, next, to, over, dword, more
<1>4. CountIs(e1, b, over, cnt, dword) /\ CountIs(e2, b, to, more, ref) /\ CountIs(e3, b, to, cnt, ref)
  <2>1. e1 \in CountingState /\ e1.buf = b /\ e1.p = over /\ e1.cnt = cnt /\ e1.ref = dword
    BY <1>1, <1>3 DEF CountingState
  <2>2. e2 \in CountingState /\ e2.buf = b /\ e2.p = to /\ e2.cnt = more /\ e2.ref = ref
    BY <1>1, <1>3 DEF CountingState
  <2>3. e3 \in CountingState /\ e3.buf = b /\ e3.p = to /\ e3.cnt = cnt /\ e3.ref = ref
    BY <1>1, <1>3 DEF CountingState
  <2> HIDE DEF e1, e2, e3
  <2> QED
    BY <2>1, <2>2, <2>3, Zenon DEF CountIs
<1> HIDE DEF e1, e2, e3
<1>5. /\ type = TLV_NONE => next = s
      /\ type = TLV_CMD_FLD_CNT => next = e1
      /\ type = TLV_FLD_NAME => next = e2
      /\ type \in {TLV_FLD_TYPE, TLV_FLD_LEN, TLV_FLD_VAL} => next = e3
  BY <1>2 DEF TLV_NONE, TLV_CMD_FLD_CNT, TLV_FLD_NAME, TLV_FLD_TYPE, TLV_FLD_LEN, TLV_FLD_VAL
<1>6. /\ type = TLV_CMD_FLD_CNT => CountIs(next, b, over, cnt, dword)
      /\ type = TLV_FLD_NAME => CountIs(next, b, to, more, ref)
      /\ type \in {TLV_FLD_TYPE, TLV_FLD_LEN, TLV_FLD_VAL} => CountIs(next, b, to, cnt, ref)
  BY <1>4, <1>5, Zenon
<1> QED
  BY <1>5, <1>6, Zenon DEF type, next, to, over, dword, more

Counts(b, first, q, cnt, ref) ==
  \E j \in Nat : /\ 2 * j <= q - first
                 /\ CountIs(Counting!Repeat([buf |-> b, p |-> first, cnt |-> 0, ref |-> -1], j),
                            b, q, cnt, ref)

LEMMA CountsNext ==
  ASSUME NEW b \in Seq(Byte), NEW first \in Places, NEW q \in Places, NEW cnt \in Int,
         NEW ref \in Int, Counts(b, first, q, cnt, ref)
  PROVE  LET type == ByteAt(b, q)
             to == AfterTlv(b, q)
         IN /\ type = TLV_CMD_FLD_CNT =>
                 Counts(b, first, AfterDword(q), cnt, DwordAt(b, ValueOf(q)))
            /\ type = TLV_FLD_NAME => Counts(b, first, to, cnt + 1, ref)
            /\ type \in {TLV_FLD_TYPE, TLV_FLD_LEN, TLV_FLD_VAL} => Counts(b, first, to, cnt, ref)
<1> DEFINE s0 == [buf |-> b, p |-> first, cnt |-> 0, ref |-> -1]
           type == ByteAt(b, q)
           to == AfterTlv(b, q)
           over == AfterDword(q)
           dword == DwordAt(b, ValueOf(q))
<1>1. PICK j \in Nat : 2 * j <= q - first /\ CountIs(Counting!Repeat(s0, j), b, q, cnt, ref)
  BY DEF Counts
<1> DEFINE s == Counting!Repeat(s0, j)
<1>2. /\ type = TLV_CMD_FLD_CNT => CountIs(CountNext(s), b, over, cnt, dword)
      /\ type = TLV_FLD_NAME => CountIs(CountNext(s), b, to, cnt + 1, ref)
      /\ type \in {TLV_FLD_TYPE, TLV_FLD_LEN, TLV_FLD_VAL} => CountIs(CountNext(s), b, to, cnt, ref)
  BY <1>1, CountNextIs, Zenon
<1> HIDE DEF s0
<1>3. Counting!Repeat(s0, j + 1) = CountNext(s)
  BY Counting!Unfold
<1>4. q \in Nat /\ first \in Nat /\ to \in Nat /\ q + 2 <= to /\ over \in Nat /\ q + 2 <= over
  <2>1. q \in Nat /\ first \in Nat /\ q + 1 \in Int
    BY DEF Places
  <2>2. LenAt(b, q) \in Nat
    BY <2>1, ByteAtType DEF LenAt
  <2> QED
    BY <2>1, <2>2 DEF AfterTlv, AfterDword, ValueOf
<1> HIDE DEF s, to, over, type
<1>5. j + 1 \in Nat /\ 2 * (j + 1) <= to - first /\ 2 * (j + 1) <= over - first
  BY <1>1, <1>4
<1>6. ASSUME NEW x \in {to, over}, NEW c, NEW r, CountIs(CountNext(s), b, x, c, r)
      PROVE  Counts(b, first, x, c, r)
  <2>1. 2 * (j + 1) <= x - first
    BY <1>5, <1>6
  <2>2. CountIs(Counting!Repeat(s0, j + 1), b, x, c, r)
    BY <1>3, <1>6, Zenon
  <2> QED
    BY <1>5, <2>1, <2>2, Zenon DEF Counts, s0
<1>7. /\ type = TLV_CMD_FLD_CNT => Counts(b, first, over, cnt, dword)
      /\ type = TLV_FLD_NAME => Counts(b, first, to, cnt + 1, ref)
      /\ type \in {TLV_FLD_TYPE, TLV_FLD_LEN, TLV_FLD_VAL} => Counts(b, first, to, cnt, ref)
  BY <1>2, <1>6, Zenon
<1> QED
  BY <1>7, Zenon DEF to, over, type, dword

LEMMA CountsField ==
  ASSUME NEW b \in Seq(Byte), NEW first \in Places, NEW msg \in Seq(Byte), NEW f \in Option,
         Bound(f), f.type \in {CFT_NUM, CFT_TXT}, NEW val, NEW v, IsValue(f, val, v),
         NEW cnt \in Int, NEW ref \in Int, Counts(b, first, NamePlace(msg), cnt, ref),
         Has(b, 1, (((msg \o NameBytes(f)) \o TypeBytes(f)) \o SizeBytes(f)) \o v)
  PROVE  Counts(b, first, ValuePlace(msg, f) + Len(v), cnt + 1, ref)
<1> DEFINE q == NamePlace(msg)
           q1 == TypePlace(msg, f)
           q2 == SizePlace(msg, f)
           q3 == ValuePlace(msg, f)
           q4 == q3 + Len(v)
<1>1. v \in Seq(Byte) /\ Len(v) \in Nat /\ cnt + 1 \in Int
  BY LenProperties DEF IsValue
<1>2. Has(b, q, NameBytes(f)) /\ Has(b, q1, TypeBytes(f)) /\ Has(b, q2, SizeBytes(f)) /\ Has(b, q3, v)
  BY <1>1, FieldPlaces, Zenon
<1>3. q \in Places /\ q1 \in Places /\ q2 \in Places /\ q3 \in Places /\ q3 \in Nat
  BY PlacesOf
<1>4. q + 2 + (2 * Len(f.name) + 2) = q1 /\ q1 + 2 + 4 = q2 /\ q2 + 2 + 4 = q3
  BY PlacesOf, Zenon
<1>5. ByteAt(b, q) = TLV_FLD_NAME /\ AfterTlv(b, q) = q1
  BY <1>2, <1>3, <1>4, ReadParts, Zenon
<1>6. ByteAt(b, q1) = TLV_FLD_TYPE /\ AfterTlv(b, q1) = q2
  BY <1>2, <1>3, <1>4, ReadParts, Zenon
<1>7. ByteAt(b, q2) = TLV_FLD_LEN /\ AfterTlv(b, q2) = q3
  BY <1>2, <1>3, <1>4, ReadParts, Zenon
<1>8. Counts(b, first, q, cnt, ref)
  OBVIOUS
<1>9. TLV_FLD_VAL \in Byte
  BY TypesAreBytes
<1>10. v = <<>> \/ (ByteAt(b, q3) = TLV_FLD_VAL /\ AfterTlv(b, q3) = q4)
  <2> HIDE DEF q3
  <2>1. CASE f.type = CFT_NUM
    <3>1. val \in Int /\ v = DwordTlv(TLV_FLD_VAL, val)
      BY <2>1, Zenon DEF IsValue
    <3>2. ByteAt(b, q3) = TLV_FLD_VAL /\ LenAt(b, q3) = 4 /\ Len(v) = 6
      BY <1>2, <1>3, <1>9, <3>1, ReadDword, TlvSizes
    <3> QED
      BY <1>3, <3>2 DEF AfterTlv, ValueOf
  <2>2. CASE f.type = CFT_TXT /\ v # <<>>
    <3>1. val \in Str /\ Len(val) <= 126 /\ v = StrTlv(TLV_FLD_VAL, val)
      BY <2>2, Zenon DEF IsValue
    <3>2. /\ ByteAt(b, q3) = TLV_FLD_VAL /\ LenAt(b, q3) = 2 * Len(val) + 2
          /\ Len(v) = 2 * Len(val) + 4 /\ Len(val) \in Nat
      BY <1>2, <1>3, <1>9, <3>1, ReadStr, TlvSizes, LenProperties DEF Str
    <3> QED
      BY <1>3, <3>2 DEF AfterTlv, ValueOf
  <2> QED
    BY <2>1, <2>2, Zenon
<1> HIDE DEF q, q1, q2, q3
<1>11. Counts(b, first, q1, cnt + 1, ref)
  BY <1>3, <1>5, <1>8, CountsNext, Zenon
<1>12. Counts(b, first, q2, cnt + 1, ref)
  BY <1>1, <1>3, <1>6, <1>11, CountsNext, Zenon
<1>13. Counts(b, first, q3, cnt + 1, ref)
  BY <1>1, <1>3, <1>7, <1>12, CountsNext, Zenon
<1>14. CASE ByteAt(b, q3) = TLV_FLD_VAL /\ AfterTlv(b, q3) = q4
  <2> HIDE DEF q4
  <2>1. Counts(b, first, AfterTlv(b, q3), cnt + 1, ref)
    BY <1>1, <1>3, <1>13, <1>14, CountsNext, Zenon
  <2> QED
    BY <1>14, <2>1, Zenon DEF q4, q3
<1>15. CASE v = <<>>
  <2>1. q4 = q3
    BY <1>3, <1>15
  <2> HIDE DEF q4
  <2> QED
    BY <1>13, <2>1, Zenon DEF q4, q3
<1> QED
  BY <1>10, <1>14, <1>15, Zenon
-----------------------------------------------------------------------------
(* What is left of a list when k of its elements are taken. *)
RestIs(left, whole, k) ==
  Len(left) = Len(whole) - k /\ \A i \in 1 .. Len(whole) - k : left[i] = whole[k + i]

LEMMA RestPop ==
  ASSUME NEW S, NEW whole \in Seq(S), NEW left \in Seq(S), NEW k \in 0 .. Len(whole) - 1,
         RestIs(left, whole, k)
  PROVE  /\ left # <<>> /\ Head(left) = whole[k + 1] /\ Tail(left) \in Seq(S)
         /\ RestIs(Tail(left), whole, k + 1)
<1>1. Len(whole) \in Nat /\ Len(left) = Len(whole) - k /\ k \in Nat
      /\ \A i \in 1 .. Len(whole) - k : left[i] = whole[k + i]
  BY LenProperties DEF RestIs
<1>2. left # <<>>
  BY <1>1, EmptySeq
<1>3. /\ Head(left) = left[1] /\ Tail(left) \in Seq(S) /\ Len(Tail(left)) = Len(left) - 1
      /\ \A i \in 1 .. Len(left) - 1 : Tail(left)[i] = left[i + 1]
  BY <1>2, Pop, Zenon
<1>4. Head(left) = whole[k + 1]
  BY <1>1, <1>3
<1>5. ASSUME NEW i \in 1 .. Len(whole) - (k + 1) PROVE Tail(left)[i] = whole[(k + 1) + i]
  <2>1. i \in 1 .. Len(left) - 1 /\ i + 1 \in 1 .. Len(whole) - k /\ k + (i + 1) = (k + 1) + i
    BY <1>1
  <2>2. Tail(left)[i] = left[i + 1]
    BY <1>3, <2>1, Zenon
  <2>3. left[i + 1] = whole[k + (i + 1)]
    BY <1>1, <2>1, Zenon
  <2> QED
    BY <2>1, <2>2, <2>3, Zenon
<1>6. Len(Tail(left)) = Len(whole) - (k + 1)
  BY <1>1, <1>3
<1>7. RestIs(Tail(left), whole, k + 1)
  BY <1>5, <1>6, Zenon DEF RestIs
<1> QED
  BY <1>2, <1>3, <1>4, <1>7, Zenon

(* The message when k fields are written. *)
Written(msg, fields, vals, k) ==
  Fields!Repeat([msg |-> msg, left |-> fields, store |-> vals], k).msg

LEMMA WrittenIs ==
  ASSUME NEW msg \in Seq(Byte), NEW fields \in Seq(Option), NEW vals \in Stores
  PROVE  /\ Written(msg, fields, vals, 0) = msg
         /\ FieldsMsg(msg, fields, vals) = Written(msg, fields, vals, Len(fields))
         /\ \A k \in 0 .. Len(fields) : Written(msg, fields, vals, k) \in Seq(Byte)
         /\ \A k \in 0 .. Len(fields) - 1 :
              Written(msg, fields, vals, k + 1) =
                add_tlv_field(Written(msg, fields, vals, k), fields[k + 1], vals[fields[k + 1].cell])
<1> DEFINE State == Writing(fields, vals)
           n == Len(fields)
           I == {p \in State \X (0 .. n) : RestIs(p[1].left, fields, p[2])}
           first == [msg |-> msg, left |-> fields, store |-> vals]
           Turn(k) == Fields!Repeat(first, k)
<1>0. n \in Nat
  BY LenProperties
<1>1. <<first, 0>> \in I
  <2>1. first \in State /\ first.left = fields /\ 0 \in 0 .. n
    BY <1>0 DEF Writing
  <2>2. RestIs(fields, fields, 0)
    BY <1>0 DEF RestIs
  <2> HIDE DEF first, State
  <2> QED
    BY <2>1, <2>2
<1>2. ASSUME NEW t, NEW k \in 0 .. n - 1, <<t, k>> \in I
      PROVE  /\ <<NextField(t), k + 1>> \in I
             /\ NextField(t).msg = add_tlv_field(t.msg, fields[k + 1], vals[fields[k + 1].cell])
  <2>0. t \in State /\ RestIs(t.left, fields, k)
    BY <1>2
  <2>1. t.msg \in Seq(Byte) /\ t.left \in Seq(Option) /\ t.store = vals
    BY <2>0 DEF Writing
  <2>2. /\ t.left # <<>> /\ Head(t.left) = fields[k + 1] /\ Tail(t.left) \in Seq(Option)
        /\ RestIs(Tail(t.left), fields, k + 1)
    BY <2>0, <2>1, RestPop
  <2> DEFINE f == Head(t.left)
             m == add_tlv_field(t.msg, f, vals[f.cell])
             l == Tail(t.left)
  <2>3. f \in Option
    BY <2>1, <2>2, Pop
  <2>4. m \in Seq(Byte)
    BY <2>1, <2>3, FieldType
  <2>5. NextField(t) = [t EXCEPT !.msg = m, !.left = l]
    BY <2>1, <2>2, Zenon DEF NextField
  <2>6. k + 1 \in 0 .. n
    BY <1>0
  <2> HIDE DEF f, m, l
  <2>7. NextField(t) \in State /\ NextField(t).left = l /\ NextField(t).msg = m
    BY <2>0, <2>2, <2>4, <2>5 DEF Writing, l
  <2> HIDE DEF State
  <2>8. <<NextField(t), k + 1>> \in I
    BY <2>2, <2>6, <2>7 DEF l
  <2> QED
    BY <2>2, <2>7, <2>8 DEF m, f
<1> HIDE DEF I, first
<1>3. ASSUME NEW k \in 0 .. n PROVE <<Turn(k), k>> \in I
  <2>1. \A t : \A i \in 0 .. k - 1 : <<t, i>> \in I => <<NextField(t), i + 1>> \in I
    BY <1>0, <1>2
  <2>2. k \in Nat
    BY <1>0
  <2> QED
    BY <1>1, <2>1, <2>2, Fields!Invariant
<1>4. ASSUME NEW k \in 0 .. n PROVE Turn(k).msg \in Seq(Byte)
  <2>1. <<Turn(k), k>> \in I
    BY <1>3
  <2> HIDE DEF Turn
  <2> QED
    BY <2>1 DEF I, Writing
<1>5. ASSUME NEW k \in 0 .. n - 1
      PROVE  Turn(k + 1).msg = add_tlv_field(Turn(k).msg, fields[k + 1], vals[fields[k + 1].cell])
  <2>1. <<Turn(k), k>> \in I /\ k \in Nat
    BY <1>0, <1>3
  <2>2. Turn(k + 1) = NextField(Turn(k))
    BY <2>1, Fields!Unfold
  <2> HIDE DEF Turn
  <2> QED
    BY <1>2, <2>1, <2>2
<1>6. Turn(0).msg = msg
  BY Fields!Unfold DEF first
<1>7. /\ \A k : Written(msg, fields, vals, k) = Turn(k).msg
      /\ FieldsMsg(msg, fields, vals) = Turn(n).msg
  BY Zenon DEF Written, FieldsMsg, first
<1> HIDE DEF Turn
<1> QED
  BY <1>4, <1>5, <1>6, <1>7, Zenon

AllBound(fields) == \A i \in 1 .. Len(fields) : Bound(fields[i])

LEMMA WrittenField ==
  ASSUME NEW msg \in Seq(Byte), NEW fields \in Seq(Option), AllBound(fields), NEW vals \in Stores,
         NEW k \in 0 .. Len(fields) - 1
  PROVE  LET m == Written(msg, fields, vals, k)
             f == fields[k + 1]
         IN /\ m \in Seq(Byte) /\ f \in Option /\ Bound(f)
            /\ \E v : /\ IsValue(f, vals[f.cell], v)
                      /\ Written(msg, fields, vals, k + 1)
                           = (((m \o NameBytes(f)) \o TypeBytes(f)) \o SizeBytes(f)) \o v
<1> DEFINE m == Written(msg, fields, vals, k)
           f == fields[k + 1]
<1>1. Len(fields) \in Nat
  BY LenProperties
<1>2. k + 1 \in 1 .. Len(fields) /\ k \in 0 .. Len(fields)
  BY <1>1
<1>3. f \in Option /\ Bound(f)
  BY <1>2, ElementOfSeq DEF AllBound
<1>4. m \in Seq(Byte) /\ Written(msg, fields, vals, k + 1) = add_tlv_field(m, f, vals[f.cell])
  BY <1>2, WrittenIs
<1> HIDE DEF m, f
<1>5. \E v : /\ IsValue(f, vals[f.cell], v)
             /\ add_tlv_field(m, f, vals[f.cell])
                  = (((m \o NameBytes(f)) \o TypeBytes(f)) \o SizeBytes(f)) \o v
  BY <1>3, <1>4, FieldParts, Zenon
<1> QED
  BY <1>3, <1>4, <1>5, Zenon DEF m, f

LEMMA HasWritten ==
  ASSUME NEW b \in Seq(Byte), NEW msg \in Seq(Byte), NEW fields \in Seq(Option),
         AllBound(fields), NEW vals \in Stores, Has(b, 1, FieldsMsg(msg, fields, vals))
  PROVE  \A k \in 0 .. Len(fields) : Has(b, 1, Written(msg, fields, vals, k))
<1> DEFINE n == Len(fields)
           Turn(k) == Written(msg, fields, vals, k)
           S == {d \in Nat : d <= n => Has(b, 1, Turn(n - d))}
<1>1. n \in Nat
  BY LenProperties
<1>2. 0 \in S
  <2>1. Has(b, 1, Turn(n))
    BY WrittenIs
  <2>2. n - 0 = n
    BY <1>1
  <2> QED
    BY <2>1, <2>2
<1>3. ASSUME NEW d \in Nat, d \in S PROVE d + 1 \in S
  <2> SUFFICES ASSUME d + 1 <= n PROVE Has(b, 1, Turn(n - (d + 1)))
    OBVIOUS
  <2> DEFINE k == n - (d + 1)
  <2>1. k \in 0 .. n - 1 /\ k + 1 = n - d /\ d <= n
    BY <1>1
  <2>2. Has(b, 1, Turn(k + 1))
    BY <1>3, <2>1
  <2> HIDE DEF k
  <2>3. PICK v : /\ IsValue(fields[k + 1], vals[fields[k + 1].cell], v)
                 /\ Turn(k + 1) = (((Turn(k) \o NameBytes(fields[k + 1])) \o TypeBytes(fields[k + 1]))
                                \o SizeBytes(fields[k + 1])) \o v
    BY <2>1, WrittenField, Zenon
  <2>4. Turn(k) \in Seq(Byte) /\ fields[k + 1] \in Option /\ Bound(fields[k + 1]) /\ v \in Seq(Byte)
    BY <2>1, <2>3, WrittenField, Zenon DEF IsValue
  <2> DEFINE m == Turn(k)
             f == fields[k + 1]
  <2>5. Has(b, 1, (((m \o NameBytes(f)) \o TypeBytes(f)) \o SizeBytes(f)) \o v)
    BY <2>2, <2>3
  <2>6. m \in Seq(Byte) /\ f \in Option /\ Bound(f) /\ v \in Seq(Byte)
    BY <2>4
  <2> HIDE DEF m, f
  <2>7. Has(b, 1, m)
    BY <2>5, <2>6, FieldPlaces, Zenon
  <2> HIDE DEF Turn
  <2> QED
    BY <2>7 DEF k, m
<1>4. Nat \subseteq S
  <2> HIDE DEF S
  <2> QED
    BY <1>2, <1>3, Fields!Induction
<1>5. ASSUME NEW k \in 0 .. n PROVE Has(b, 1, Turn(k))
  <2>1. n - k \in Nat /\ n - k <= n /\ n - (n - k) = k
    BY <1>1
  <2>2. n - k \in S
    BY <1>4, <2>1
  <2> HIDE DEF Turn
  <2> QED
    BY <2>1, <2>2
<1> QED
  BY <1>5

(* All fields of a definition without a buffer, read and counted.          *)
AllPlain(fields) == \A i \in 1 .. Len(fields) : fields[i].type \in {CFT_NUM, CFT_TXT}
LearnedSo(G, fields, k) ==
  G \in Seq(Learned) /\ Len(G) = k /\ \A i \in 1 .. k : LearnedIs(G[i], fields[i])

LEMMA ReadsAll ==
  ASSUME NEW b \in Seq(Byte), NEW msg \in Seq(Byte), NEW fields \in Seq(Option),
         AllBound(fields), AllPlain(fields), NEW vals \in Stores,
         Has(b, 1, FieldsMsg(msg, fields, vals))
  PROVE  LET q == NamePlace(FieldsMsg(msg, fields, vals))
         IN /\ \E G : LearnedSo(G, fields, Len(fields)) /\ Reads(b, NamePlace(msg), q, G)
            /\ Counts(b, NamePlace(msg), q, Len(fields), -1)
<1> DEFINE n == Len(fields)
           Turn(k) == Written(msg, fields, vals, k)
           first == NamePlace(msg)
           R(k) == \E G : LearnedSo(G, fields, k) /\ Reads(b, first, NamePlace(Turn(k)), G)
           C(k) == Counts(b, first, NamePlace(Turn(k)), k, -1)
           S == {k \in Nat : k <= n => R(k) /\ C(k)}
<1>0. n \in Nat /\ first \in Places /\ first \in Nat
  BY LenProperties DEF NamePlace, Places
<1>1. 0 \in S
  <2>1. Turn(0) = msg
    BY WrittenIs
  <2>2. LearnedSo(<<>>, fields, 0)
    BY EmptySeq DEF LearnedSo
  <2> HIDE DEF first
  <2>3. Reads(b, first, first, <<>>)
    <3> DEFINE s == [buf |-> b, p |-> first, fields |-> <<>>]
    <3>1. StateIs(s, b, first, <<>>)
      BY <1>0, EmptySeq DEF StateIs, ReadingState
    <3> HIDE DEF s
    <3>2. Reading!Repeat(s, 0) = s
      BY Reading!Unfold
    <3>3. 2 * 0 <= first - first /\ 0 \in Nat
      BY <1>0
    <3> QED
      BY <3>1, <3>2, <3>3, Zenon DEF Reads, s
  <2>4. Counts(b, first, first, 0, -1)
    <3> DEFINE s == [buf |-> b, p |-> first, cnt |-> 0, ref |-> -1]
    <3>1. CountIs(s, b, first, 0, -1)
      BY <1>0 DEF CountIs, CountingState
    <3> HIDE DEF s
    <3>2. Counting!Repeat(s, 0) = s
      BY Counting!Unfold
    <3>3. 2 * 0 <= first - first /\ 0 \in Nat
      BY <1>0
    <3> QED
      BY <3>1, <3>2, <3>3, Zenon DEF Counts, s
  <2>5. R(0) /\ C(0)
    BY <2>1, <2>2, <2>3, <2>4, Zenon DEF first
  <2> HIDE DEF R, C
  <2> QED
    BY <2>5
<1>2. ASSUME NEW k \in Nat, k \in S PROVE k + 1 \in S
  <2> SUFFICES ASSUME k + 1 <= n PROVE R(k + 1) /\ C(k + 1)
    OBVIOUS
  <2> DEFINE m == Turn(k)
             f == fields[k + 1]
  <2>1. k \in 0 .. n - 1 /\ k + 1 \in 1 .. n /\ k + 1 \in 0 .. n /\ k \in Int
    BY <1>0
  <2>2. R(k) /\ C(k)
    BY <1>2, <2>1
  <2>3. m \in Seq(Byte) /\ f \in Option /\ Bound(f)
    BY <2>1, WrittenField, Zenon
  <2>4. PICK v : /\ IsValue(f, vals[f.cell], v)
                 /\ Turn(k + 1) = (((m \o NameBytes(f)) \o TypeBytes(f)) \o SizeBytes(f)) \o v
    BY <2>1, WrittenField, Zenon
  <2>5. Has(b, 1, Turn(k + 1)) /\ f.type \in {CFT_NUM, CFT_TXT}
    BY <2>1, HasWritten DEF AllPlain
  <2>6. v \in Seq(Byte)
    BY <2>4 DEF IsValue
  <2>7. PICK G : LearnedSo(G, fields, k) /\ Reads(b, first, NamePlace(m), G)
    BY <2>2
  <2> HIDE DEF Turn, m, f, first
  <2>0. Has(b, 1, (((m \o NameBytes(f)) \o TypeBytes(f)) \o SizeBytes(f)) \o v)
    BY <2>4, <2>5
  <2>8. NamePlace(Turn(k + 1)) = ValuePlace(m, f) + Len(v)
    <3>1. NamePlace((((m \o NameBytes(f)) \o TypeBytes(f)) \o SizeBytes(f)) \o v)
            = ValuePlace(m, f) + Len(v)
      BY <2>0, <2>3, <2>6, FieldEnd
    <3> QED
      BY <2>4, <3>1
  <2>9. PICK H : LearnedMore(G, H, f) /\ Reads(b, first, ValuePlace(m, f) + Len(v), H)
    BY <1>0, <2>0, <2>3, <2>4, <2>5, <2>7, ReadsField DEF LearnedSo
  <2>10. LearnedSo(H, fields, k + 1)
    <3>1. /\ H \in Seq(Learned) /\ Len(H) = k + 1
          /\ \A i \in 1 .. k : H[i] = G[i]
          /\ LearnedIs(H[k + 1], fields[k + 1])
          /\ \A i \in 1 .. k : LearnedIs(G[i], fields[i])
      BY <2>7, <2>9 DEF LearnedSo, LearnedMore, f
    <3>2. ASSUME NEW i \in 1 .. k + 1 PROVE LearnedIs(H[i], fields[i])
      <4>1. CASE i = k + 1
        <5>1. LearnedIs(H[k + 1], fields[k + 1])
          BY <3>1, Zenon
        <5> QED
          BY <4>1, <5>1, Zenon
      <4>2. CASE i \in 1 .. k
        <5>1. H[i] = G[i] /\ LearnedIs(G[i], fields[i])
          BY <3>1, <4>2
        <5> QED
          BY <5>1, Zenon DEF LearnedIs
      <4> QED
        BY <4>1, <4>2
    <3> QED
      BY <3>1, <3>2 DEF LearnedSo
  <2>11. -1 \in Int /\ Counts(b, first, NamePlace(m), k, -1)
    BY <2>2 DEF m
  <2>12. Counts(b, first, ValuePlace(m, f) + Len(v), k + 1, -1)
    BY <1>0, <2>0, <2>1, <2>3, <2>4, <2>5, <2>11, CountsField
  <2> QED
    BY <2>8, <2>9, <2>10, <2>12, Zenon
<1>3. n \in S
  <2> HIDE DEF S
  <2> QED
    BY <1>0, <1>1, <1>2, Reading!Induction
<1>4. R(n) /\ C(n)
  <2> HIDE DEF R, C
  <2> QED
    BY <1>0, <1>3
<1>5. Turn(n) = FieldsMsg(msg, fields, vals)
  BY WrittenIs, Zenon
<1> HIDE DEF Turn
<1> QED
  BY <1>4, <1>5, Zenon
-----------------------------------------------------------------------------
(* Both passes end at the terminator, within the number of times that they *)
(* are repeated.                                                           *)
LEMMA Ended ==
  ASSUME NEW b \in Seq(Byte), NEW first \in Places, NEW q \in Places, q <= Len(b),
         ByteAt(b, q) = TLV_NONE
  PROVE  /\ \A G \in Seq(Learned) : Reads(b, first, q, G) => ReadFields(b, first) = G
         /\ \A cnt, ref \in Int : Counts(b, first, q, cnt, ref) =>
              (CountFields(b, first) <=> cnt = ref)
<1> DEFINE m == Len(b) \div 2
<1>1. Len(b) \in Nat /\ q \in Nat /\ first \in Nat /\ first > 0
  BY LenProperties DEF Places
<1>2. m \in Nat
  BY <1>1
<1>3. \A j \in Nat : 2 * j <= q - first => j <= m
  BY <1>1
<1>4. ASSUME NEW G \in Seq(Learned), Reads(b, first, q, G) PROVE ReadFields(b, first) = G
  <2> DEFINE s0 == [buf |-> b, p |-> first, fields |-> <<>>]
  <2>1. PICK j \in Nat : 2 * j <= q - first /\ StateIs(Reading!Repeat(s0, j), b, q, G)
    BY <1>4 DEF Reads
  <2> DEFINE s == Reading!Repeat(s0, j)
  <2>2. ReadFields(b, first) = Reading!Repeat(s0, m).fields
    BY Zenon DEF ReadFields
  <2>3. s.fields = G
    BY <2>1, Zenon DEF StateIs
  <2>4. ReadNext(s) = s
    BY <2>1, ReadNextIs
  <2>5. j <= m
    BY <1>3, <2>1
  <2> HIDE DEF s0, m
  <2>6. Reading!Repeat(s0, m) = s
    BY <1>2, <2>4, <2>5, Reading!Stays
  <2> QED
    BY <2>2, <2>3, <2>6, Zenon
<1>5. ASSUME NEW cnt \in Int, NEW ref \in Int, Counts(b, first, q, cnt, ref)
      PROVE  CountFields(b, first) <=> cnt = ref
  <2> DEFINE s0 == [buf |-> b, p |-> first, cnt |-> 0, ref |-> -1]
  <2>1. PICK j \in Nat : 2 * j <= q - first /\ CountIs(Counting!Repeat(s0, j), b, q, cnt, ref)
    BY <1>5 DEF Counts
  <2> DEFINE s == Counting!Repeat(s0, j)
             e == Counting!Repeat(s0, m)
  <2>2. CountFields(b, first) <=> e.cnt = e.ref
    BY Zenon DEF CountFields
  <2>3. s.cnt = cnt /\ s.ref = ref
    BY <2>1, Zenon DEF CountIs
  <2>4. CountNext(s) = s
    BY <2>1, CountNextIs
  <2>5. j <= m
    BY <1>3, <2>1
  <2> HIDE DEF s0, m
  <2>6. e = s
    BY <1>2, <2>4, <2>5, Counting!Stays
  <2> HIDE DEF e, s
  <2> QED
    BY <2>2, <2>3, <2>6
<1> QED
  BY <1>4, <1>5

(* A definition is the command's name, its fields, their number and the    *)
(* terminator.                                                             *)
BoundCmd(cmd) == Len(cmd.name) <= 126 /\ AllBound(cmd.fields) /\ Len(cmd.fields) < 65536
HeadBytes(cmd) == DwordTlv(TLV_UI_CMD, UI_CMD_CDEF) \o StrTlv(TLV_CMD_NAME, cmd.name)

LEMMA DefinitionParts ==
  ASSUME NEW cmd \in [name : Word, fields : Seq(Option)], BoundCmd(cmd), NEW vals \in Stores
  PROVE  LET all == FieldsMsg(HeadBytes(cmd), cmd.fields, vals)
             count == DwordTlv(TLV_CMD_FLD_CNT, Len(cmd.fields))
         IN /\ CDefMsg(cmd, vals) = (all \o count) \o <<TLV_NONE>>
            /\ HeadBytes(cmd) \in Seq(Byte) /\ NamePlace(HeadBytes(cmd)) = 7 + 2 + (2 * Len(cmd.name) + 2)
            /\ all \in Seq(Byte) /\ count \in Seq(Byte) /\ Len(count) = 6 /\ <<TLV_NONE>> \in Seq(Byte)
<1> DEFINE t == DwordTlv(TLV_UI_CMD, UI_CMD_CDEF)
           nm == StrTlv(TLV_CMD_NAME, cmd.name)
           h == t \o nm
           all == FieldsMsg(h, cmd.fields, vals)
           n == Len(cmd.fields)
           count == DwordTlv(TLV_CMD_FLD_CNT, n)
<1>1. cmd.name \in Str /\ Len(cmd.name) <= 126 /\ cmd.fields \in Seq(Option) /\ n \in Int
      /\ Len(cmd.name) \in Nat
  BY LenProperties DEF Word, Str, BoundCmd
<1>2. TLV_UI_CMD \in Byte /\ TLV_CMD_NAME \in Byte /\ TLV_CMD_FLD_CNT \in Byte /\ TLV_NONE \in Byte
      /\ UI_CMD_CDEF \in Int
  BY TypesAreBytes
<1>3. /\ t \in Seq(Byte) /\ Len(t) = 6 /\ nm \in Seq(Byte) /\ Len(nm) = 2 * Len(cmd.name) + 4
      /\ count \in Seq(Byte) /\ Len(count) = 6
  BY <1>1, <1>2, TlvSizes
<1>4. UiCmd(UI_CMD_CDEF) = t
  <2>1. <<>> \in Seq(Byte)
    BY EmptySeq
  <2>2. UiCmd(UI_CMD_CDEF) = <<>> \o t
    BY <1>2, <2>1, Adds, Zenon DEF UiCmd
  <2> HIDE DEF t
  <2> QED
    BY <1>3, <2>2, ConcatEmptySeq, Zenon
<1> HIDE DEF t
<1>5. add_tlv_str(t, TLV_CMD_NAME, cmd.name) = h
  BY <1>1, <1>2, <1>3, Adds, Zenon
<1> HIDE DEF nm
<1>6. h \in Seq(Byte) /\ Len(h) = Len(t) + Len(nm)
  BY <1>3, ConcatProperties, Zenon
<1> HIDE DEF h
<1>7. all \in Seq(Byte)
  BY <1>1, <1>6, FieldsMsgType
<1>8. CDefMsg(cmd, vals) = terminate_tlv_list(add_tlv_dword(all, TLV_CMD_FLD_CNT, n))
  BY <1>4, <1>5, Zenon DEF CDefMsg
<1> HIDE DEF all
<1>9. add_tlv_dword(all, TLV_CMD_FLD_CNT, n) = all \o count
  BY <1>1, <1>2, <1>7, Adds, Zenon
<1> HIDE DEF n, count
<1>10. all \o count \in Seq(Byte) /\ <<TLV_NONE>> \in Seq(Byte)
  <2>1. all \o count \in Seq(Byte)
    BY <1>3, <1>7, ConcatProperties, Zenon
  <2> QED
    BY <1>2, <2>1
<1>11. terminate_tlv_list(all \o count) = (all \o count) \o <<TLV_NONE>>
  <2> DEFINE x == all \o count
  <2>1. x \in Seq(Byte) /\ TLV_NONE \in Byte
    BY <1>2, <1>10
  <2> HIDE DEF x
  <2>2. Append(x, TLV_NONE) = x \o <<TLV_NONE>>
    BY <2>1, AppendIsConcat, Zenon
  <2> QED
    BY <2>2, Zenon DEF terminate_tlv_list, x
<1>12. NamePlace(h) = 7 + 2 + (2 * Len(cmd.name) + 2)
  BY <1>1, <1>3, <1>6 DEF NamePlace
<1>13. HeadBytes(cmd) = h
  BY Zenon DEF HeadBytes, h, t, nm
<1> QED
  BY <1>3, <1>6, <1>7, <1>8, <1>9, <1>10, <1>11, <1>12, <1>13, Zenon DEF all, count, n

LEMMA DefinitionRead ==
  ASSUME NEW cmd \in [name : Word, fields : Seq(Option)], BoundCmd(cmd), NEW vals \in Stores,
         NEW old \in Seq(Byte)
  PROVE  LET e == ReadCDef(Received(CDefMsg(cmd, vals), old))
         IN /\ e.name = cmd.name
            /\ AllPlain(cmd.fields) => LearnedSo(e.fields, cmd.fields, Len(cmd.fields))
<1> DEFINE h == HeadBytes(cmd)
           all == FieldsMsg(h, cmd.fields, vals)
           n == Len(cmd.fields)
           count == DwordTlv(TLV_CMD_FLD_CNT, n)
           end == <<TLV_NONE>>
           body == all \o count
           msg == body \o end
           b == Received(CDefMsg(cmd, vals), old)
           first == NamePlace(h)
           q == NamePlace(all)
<1>1. cmd.name \in Str /\ Len(cmd.name) <= 126 /\ cmd.fields \in Seq(Option) /\ n \in Nat /\ n < 65536
      /\ AllBound(cmd.fields) /\ Len(cmd.name) \in Nat
  BY LenProperties DEF Word, Str, BoundCmd
<1>2. CDefMsg(cmd, vals) = msg /\ h \in Seq(Byte) /\ first = 7 + 2 + (2 * Len(cmd.name) + 2)
      /\ all \in Seq(Byte) /\ count \in Seq(Byte) /\ Len(count) = 6 /\ end \in Seq(Byte)
  BY DefinitionParts, Zenon
<1>3. Len(end) = 1 /\ end[1] = TLV_NONE
  OBVIOUS
<1>4. TLV_UI_CMD \in Byte /\ TLV_CMD_NAME \in Byte /\ TLV_CMD_FLD_CNT \in Byte /\ UI_CMD_CDEF \in Int
  BY TypesAreBytes
<1>5. first \in Places /\ q \in Places /\ q \in Nat /\ q = Len(all) + 1 /\ Len(all) \in Nat
  <2> HIDE DEF all
  <2>1. Len(all) \in Nat
    BY <1>2, LenProperties
  <2> QED
    BY <1>1, <1>2, <2>1 DEF Places, NamePlace
<1>6. count = DwordTlv(TLV_CMD_FLD_CNT, n) /\ all = FieldsMsg(h, cmd.fields, vals)
      /\ h = DwordTlv(TLV_UI_CMD, UI_CMD_CDEF) \o StrTlv(TLV_CMD_NAME, cmd.name)
  BY Zenon DEF HeadBytes
<1> HIDE DEF h, all, count, end, first, q
<1>7. body \in Seq(Byte) /\ Len(body) = Len(all) + Len(count)
  BY <1>2, ConcatProperties, Zenon
<1>8. msg \in Seq(Byte) /\ Len(msg) = Len(body) + Len(end)
  BY <1>2, <1>7, ConcatProperties, Zenon
<1>9. b \in Seq(Byte) /\ Has(b, 1, msg) /\ Len(msg) <= Len(b)
  BY <1>2, <1>8, HasReceived, ReceivedType
<1> HIDE DEF b
<1>0. 1 \in Nat
  OBVIOUS
<1>10. Has(b, 1, body) /\ Has(b, 1 + Len(body), end)
  BY <1>0, <1>2, <1>7, <1>9, HasParts, Zenon
<1>11. Has(b, 1, all) /\ Has(b, 1 + Len(all), count)
  BY <1>0, <1>2, <1>10, HasParts, Zenon
<1> HIDE DEF body, msg
<1>12. Has(b, q, count) /\ ByteAt(b, q + 6) = TLV_NONE /\ q + 6 <= Len(b) /\ q + 6 \in Places
  <2>1. 1 + Len(all) = q /\ 1 + Len(body) = q + 6 /\ q + 6 = Len(msg) /\ Len(msg) \in Nat
    BY <1>2, <1>3, <1>5, <1>7, <1>8
  <2>2. Has(b, q, count) /\ Has(b, q + 6, end)
    BY <1>10, <1>11, <2>1, Zenon
  <2>3. ByteAt(b, (q + 6) + 1 - 1) = TLV_NONE
    BY <1>3, <2>2 DEF Has
  <2>4. Len(b) \in Nat
    BY <1>9, LenProperties
  <2> QED
    BY <1>5, <1>9, <2>1, <2>2, <2>3, <2>4 DEF Places
<1>13. /\ ByteAt(b, q) = TLV_CMD_FLD_CNT /\ DwordAt(b, ValueOf(q)) = n
       /\ AfterTlv(b, q) = q + 6 /\ AfterDword(q) = q + 6
  <2>1. Has(b, q, DwordTlv(TLV_CMD_FLD_CNT, n)) /\ n \in Int
    BY <1>1, <1>6, <1>12
  <2>2. ByteAt(b, q) = TLV_CMD_FLD_CNT /\ LenAt(b, q) = 4 /\ DwordAt(b, ValueOf(q)) = n
    BY <1>1, <1>4, <1>5, <2>1, ReadDword
  <2> QED
    BY <1>5, <2>2 DEF AfterTlv, AfterDword, ValueOf
<1>14. Has(b, 1, h)
  <2>1. Len(cmd.fields) \in Nat
    BY <1>1 DEF n
  <2>2. 0 \in 0 .. Len(cmd.fields)
    BY <2>1
  <2>3. Has(b, 1, FieldsMsg(h, cmd.fields, vals))
    BY <1>6, <1>11
  <2>4. Has(b, 1, Written(h, cmd.fields, vals, 0))
    BY <1>1, <1>2, <1>9, <2>2, <2>3, HasWritten
  <2> QED
    BY <1>1, <1>2, <2>4, WrittenIs
<1>15. LET at == AfterDword(1)
       IN TextAt(b, ValueOf(at), LenAt(b, at)) = cmd.name /\ AfterTlv(b, at) = first
  <2> DEFINE t == DwordTlv(TLV_UI_CMD, UI_CMD_CDEF)
             nm == StrTlv(TLV_CMD_NAME, cmd.name)
  <2>1. t \in Seq(Byte) /\ Len(t) = 6 /\ nm \in Seq(Byte)
    BY <1>1, <1>4, TlvSizes
  <2>2. Has(b, 1, t \o nm)
    BY <1>6, <1>14
  <2> HIDE DEF t, nm
  <2>3. Has(b, 1 + Len(t), nm)
    BY <1>0, <2>1, <2>2, HasParts, Zenon
  <2>4. Has(b, 7, nm) /\ 7 \in Places /\ AfterDword(1) = 7
    BY <2>1, <2>3 DEF Places, AfterDword, ValueOf
  <2>5. TextAt(b, ValueOf(7), LenAt(b, 7)) = cmd.name /\ LenAt(b, 7) = 2 * Len(cmd.name) + 2
    BY <1>1, <1>4, <1>9, <2>4, ReadStr DEF nm
  <2>6. AfterTlv(b, 7) = first
    BY <1>2, <2>5, Zenon DEF AfterTlv, ValueOf
  <2> QED
    BY <2>4, <2>5, <2>6, Zenon
<1>16. /\ ReadCDef(b).name = cmd.name
       /\ ReadCDef(b).fields = IF CountFields(b, first) THEN ReadFields(b, first) ELSE NoFields
  <2> DEFINE at == AfterDword(1)
             nm == TextAt(b, ValueOf(at), LenAt(b, at))
             fl == IF CountFields(b, AfterTlv(b, at)) THEN ReadFields(b, AfterTlv(b, at)) ELSE NoFields
  <2>1. ReadCDef(b) = [name |-> nm, fields |-> fl]
    BY Zenon DEF ReadCDef
  <2>2. nm = cmd.name /\ fl = IF CountFields(b, first) THEN ReadFields(b, first) ELSE NoFields
    BY <1>15, Zenon
  <2> HIDE DEF nm, fl
  <2>3. ReadCDef(b).name = nm /\ ReadCDef(b).fields = fl
    BY <2>1
  <2> QED
    BY <2>2, <2>3, Zenon
<1>17. ASSUME AllPlain(cmd.fields) PROVE LearnedSo(ReadCDef(b).fields, cmd.fields, n)
  <2>1. Has(b, 1, FieldsMsg(h, cmd.fields, vals))
    BY <1>6, <1>11
  <2>2. /\ \E G : LearnedSo(G, cmd.fields, n) /\ Reads(b, first, q, G)
        /\ Counts(b, first, q, n, -1)
    <3> DEFINE x == NamePlace(FieldsMsg(h, cmd.fields, vals))
               y == NamePlace(h)
               l == Len(cmd.fields)
    <3>1. /\ \E G : LearnedSo(G, cmd.fields, l) /\ Reads(b, y, x, G)
          /\ Counts(b, y, x, l, -1)
      BY <1>1, <1>2, <1>9, <1>17, <2>1, ReadsAll
    <3>2. x = q /\ y = first /\ l = n
      BY <1>6, Zenon DEF first, q, n
    <3> HIDE DEF x, y, l
    <3> QED
      BY <3>1, <3>2, Zenon
  <2>3. PICK G : LearnedSo(G, cmd.fields, n) /\ Reads(b, first, q, G)
    BY <2>2
  <2>4. G \in Seq(Learned) /\ n \in Int /\ -1 \in Int
    BY <1>1, <2>3 DEF LearnedSo
  <2>5. Reads(b, first, q + 6, G)
    BY <1>5, <1>9, <1>13, <2>3, <2>4, ReadsNext
  <2>6. Counts(b, first, q + 6, n, n)
    BY <1>5, <1>9, <1>13, <2>2, <2>4, CountsNext
  <2>7. ReadFields(b, first) = G
    BY <1>5, <1>9, <1>12, <2>4, <2>5, Ended
  <2>8. CountFields(b, first)
    BY <1>5, <1>9, <1>12, <2>4, <2>6, Ended
  <2>9. ReadCDef(b).fields = G
    BY <1>16, <2>7, <2>8, Zenon
  <2> QED
    BY <2>3, <2>9
<1> QED
  BY <1>16, <1>17, Zenon DEF b, n
-----------------------------------------------------------------------------
(* The handshake: each definition is read where the last one lay.          *)
LearnedCmd(e, cmd) ==
  /\ e.name = cmd.name
  /\ AllPlain(cmd.fields) => LearnedSo(e.fields, cmd.fields, Len(cmd.fields))

LEMMA CommandsBound ==
  ASSUME NEW k \in 1 .. Len(gta_io_ui_cmd)
  PROVE  /\ gta_io_ui_cmd[k] \in [name : Word, fields : Seq(Option)]
         /\ BoundCmd(gta_io_ui_cmd[k])
<1> DEFINE g == gta_io_ui_cmd
           c == g[k]
           G == [name : Word, fields : Seq(Option)]
<1>1. g \in Seq(G)
  BY TableAssumption
<1>2. \A e \in ToSet(g) : /\ Len(e.name) <= 126 /\ Len(e.fields) < 65536
                          /\ \A f \in ToSet(e.fields) : Len(f.name) <= 126
  BY SizesAssumption
<1> HIDE DEF g, G
<1>3. DOMAIN g = 1 .. Len(g) /\ k \in DOMAIN g /\ c \in G
  <2>1. k \in 1 .. Len(g)
    BY DEF g
  <2> QED
    BY <1>1, <2>1, LenProperties, ElementOfSeq
<1>4. c \in ToSet(g)
  BY <1>3 DEF ToSet
<1>5. /\ Len(c.name) <= 126 /\ Len(c.fields) < 65536
      /\ \A f \in ToSet(c.fields) : Len(f.name) <= 126
  BY <1>2, <1>4
<1> HIDE DEF c
<1>6. c.fields \in Seq(Option)
  BY <1>3 DEF G
<1>7. AllBound(c.fields)
  <2>1. DOMAIN c.fields = 1 .. Len(c.fields)
    BY <1>6, LenProperties
  <2>2. \A i \in 1 .. Len(c.fields) : c.fields[i] \in ToSet(c.fields)
    BY <2>1 DEF ToSet
  <2> QED
    BY <1>5, <2>2 DEF AllBound, Bound
<1> QED
  BY <1>3, <1>5, <1>7 DEF BoundCmd, G, c, g

LEMMA DefinitionLearned ==
  ASSUME NEW vals \in Stores, NEW t \in Defining(vals), NEW k \in 0 .. Len(gta_io_ui_cmd) - 1,
         RestIs(t.left, gta_io_ui_cmd, k)
  PROVE  /\ NextCmd(t) \in Defining(vals) /\ RestIs(NextCmd(t).left, gta_io_ui_cmd, k + 1)
         /\ \E e \in Entry : NextCmd(t).table = Append(t.table, e) /\ LearnedCmd(e, gta_io_ui_cmd[k + 1])
<1> DEFINE G == [name : Word, fields : Seq(Option)]
           g == gta_io_ui_cmd
           c == Head(t.left)
           b == Received(CDefMsg(c, vals), t.buf)
           l == Tail(t.left)
           e == ReadCDef(b)
           x == Append(t.table, e)
<1>1. /\ t.buf \in Seq(Byte) /\ t.table \in Seq(Entry) /\ t.store = vals /\ t.left \in Seq(G)
      /\ g \in Seq(G)
  BY TableAssumption DEF Defining
<1> HIDE DEF G
<1>2. t.left # <<>> /\ c = g[k + 1] /\ l \in Seq(G) /\ RestIs(l, g, k + 1)
  <2> HIDE DEF g
  <2>1. k \in 0 .. Len(g) - 1 /\ RestIs(t.left, g, k)
    BY DEF g
  <2> QED
    BY <1>1, <2>1, RestPop
<1>3. k + 1 \in 1 .. Len(g)
  <2>1. Len(g) \in Nat
    BY TenCommands
  <2> HIDE DEF g
  <2>2. k \in 0 .. Len(g) - 1
    BY DEF g
  <2> QED
    BY <2>1, <2>2
<1>4. c \in G /\ BoundCmd(c)
  BY <1>2, <1>3, CommandsBound DEF G
<1> HIDE DEF c
<1>5. b \in Seq(Byte)
  <2>1. c = [name |-> c.name, fields |-> c.fields] /\ c.name \in Str /\ c.fields \in Seq(Option)
    BY <1>4 DEF G, Word
  <2>2. CDefMsg(c, vals) \in Seq(Byte)
    BY <2>1, MsgTypes
  <2> QED
    BY <1>1, <2>2, ReceivedType
<1>6. LearnedCmd(e, c)
  BY <1>1, <1>4, DefinitionRead DEF LearnedCmd, G
<1>7. NextCmd(t) = [t EXCEPT !.buf = b, !.table = x, !.left = l]
  BY <1>1, <1>2, Zenon DEF NextCmd, c
<1> HIDE DEF b
<1>8. e \in Entry
  BY <1>5, ReadCDefType
<1> HIDE DEF e
<1>9. x \in Seq(Entry)
  BY <1>1, <1>8, AppendProperties
<1> HIDE DEF x, l, g
<1>10. NextCmd(t) \in Defining(vals) /\ NextCmd(t).left = l /\ NextCmd(t).table = x
  BY <1>2, <1>5, <1>7, <1>9 DEF Defining, G
<1> QED
  BY <1>2, <1>6, <1>8, <1>10, Zenon DEF x, g

LearnedTable(tab, k) ==
  Len(tab) = k /\ \A i \in 1 .. k : LearnedCmd(tab[i], gta_io_ui_cmd[i])

LEMMA HandshakeLearns ==
  ASSUME NEW vals \in Stores, NEW old \in Seq(Byte)
  PROVE  LearnedTable(Handshake(vals, old).table, 10)
<1> DEFINE m == Len(gta_io_ui_cmd)
           I == {p \in Defining(vals) \X (0 .. m) :
                   RestIs(p[1].left, gta_io_ui_cmd, p[2]) /\ LearnedTable(p[1].table, p[2])}
           first == [buf |-> Received(StartMsg, old), table |-> <<>>, left |-> gta_io_ui_cmd,
                     store |-> vals]
           defined == Commands!Repeat(first, m)
<1>0. m = 10 /\ m \in Nat
  BY TenCommands
<1>1. <<first, 0>> \in I
  <2>1. first \in Defining(vals)
    BY MsgTypes, ReceivedType, EmptySeq, TableAssumption DEF Defining
  <2>2. RestIs(gta_io_ui_cmd, gta_io_ui_cmd, 0)
    <3> DEFINE g == gta_io_ui_cmd
    <3>1. Len(g) \in Nat
      BY <1>0
    <3> HIDE DEF g
    <3>2. Len(g) = Len(g) - 0 /\ \A i \in 1 .. Len(g) - 0 : g[i] = g[0 + i]
      BY <3>1
    <3> QED
      BY <3>2, Zenon DEF RestIs, g
  <2>3. LearnedTable(<<>>, 0)
    <3>1. Len(<<>>) = 0 /\ \A i \in 1 .. 0 : FALSE
      OBVIOUS
    <3> QED
      BY <3>1, Zenon DEF LearnedTable
  <2>4. first.left = gta_io_ui_cmd /\ first.table = <<>>
    BY Zenon
  <2>5. 0 \in 0 .. m
    BY <1>0
  <2> HIDE DEF first, m
  <2> QED
    BY <2>1, <2>2, <2>3, <2>4, <2>5
<1>2. ASSUME NEW t, NEW k \in 0 .. m - 1, <<t, k>> \in I
      PROVE  <<NextCmd(t), k + 1>> \in I
  <2>0. t \in Defining(vals) /\ RestIs(t.left, gta_io_ui_cmd, k) /\ LearnedTable(t.table, k)
    <3> HIDE DEF m
    <3> QED
      BY <1>2
  <2>1. /\ NextCmd(t) \in Defining(vals) /\ RestIs(NextCmd(t).left, gta_io_ui_cmd, k + 1)
        /\ \E e \in Entry : NextCmd(t).table = Append(t.table, e)
                            /\ LearnedCmd(e, gta_io_ui_cmd[k + 1])
    BY <2>0, DefinitionLearned, Zenon
  <2>2. PICK e \in Entry : NextCmd(t).table = Append(t.table, e)
                           /\ LearnedCmd(e, gta_io_ui_cmd[k + 1])
    BY <2>1
  <2>3. t.table \in Seq(Entry)
    BY <2>0 DEF Defining
  <2> DEFINE y == t.table
             z == Append(y, e)
  <2>4. LearnedTable(z, k + 1)
    <3>0. k \in Nat /\ Len(y) = k
      BY <1>0, <2>0 DEF LearnedTable
    <3> HIDE DEF y
    <3>1. /\ Len(z) = k + 1
          /\ \A i \in 1 .. k : z[i] = y[i]
          /\ z[k + 1] = e
      BY <2>3, <3>0, AppendProperties DEF y
    <3> HIDE DEF z
    <3>2. ASSUME NEW i \in 1 .. k + 1 PROVE LearnedCmd(z[i], gta_io_ui_cmd[i])
      <4>1. CASE i = k + 1
        BY <2>2, <3>1, <4>1, Zenon
      <4>2. CASE i \in 1 .. k
        <5>1. LearnedCmd(y[i], gta_io_ui_cmd[i])
          BY <2>0, <4>2, Zenon DEF LearnedTable, y
        <5> QED
          BY <3>1, <4>2, <5>1, Zenon
      <4>3. i = k + 1 \/ i \in 1 .. k
        BY <3>0
      <4> QED
        BY <4>1, <4>2, <4>3
    <3> QED
      BY <3>1, <3>2, Zenon DEF LearnedTable
  <2>5. k + 1 \in 0 .. m
    BY <1>0
  <2>6. LearnedTable(NextCmd(t).table, k + 1)
    BY <2>2, <2>4, Zenon
  <2> HIDE DEF m
  <2> QED
    BY <2>1, <2>5, <2>6
<1>3. \A t : \A k \in 0 .. m - 1 : <<t, k>> \in I => <<NextCmd(t), k + 1>> \in I
  BY <1>2
<1>4. <<defined, m>> \in I
  <2> HIDE DEF I, first, m
  <2> QED
    BY <1>0, <1>1, <1>3, Commands!Invariant
<1> HIDE DEF defined, m
<1>5. LearnedTable(defined.table, m)
  BY <1>4
<1>6. Handshake(vals, old).table = defined.table
  BY DEF Handshake, defined, m, first
<1> QED
  BY <1>0, <1>5, <1>6, Zenon

Learns == table # NoTable => LearnedTable(table, 10)

LEMMA LearnsKept ==
  ASSUME TypeOK, Learns, [Next]_vars
  PROVE  Learns'
<1>1. CASE table' = table
  BY <1>1 DEF Learns
<1>2. CASE table' = NoTable
  BY <1>2 DEF Learns
<1>3. CASE table' = Handshake(store, buf).table
  <2>1. store \in Stores /\ buf \in Seq(Byte)
    BY DEF TypeOK
  <2>2. LearnedTable(Handshake(store, buf).table, 10)
    BY <2>1, HandshakeLearns
  <2> QED
    BY <1>3, <2>2, Zenon DEF Learns
<1>4. table' = table \/ table' = NoTable \/ table' = Handshake(store, buf).table
  BY DEF Next, vars, uiVars, Type, Tab, EnterCommand, EnterOther, EnterQuit, UiIsKilled,
     UiRestarts, UiFreesTable, UiShows, Connect, IoHandles, JobEnds, IoRestarts
<1> QED
  BY <1>1, <1>2, <1>3, <1>4

LEMMA PlainIs ==
  ASSUME NEW k \in 1 .. 10, Plain(gta_io_ui_cmd[k])
  PROVE  AllPlain(gta_io_ui_cmd[k].fields)
<1> DEFINE d == gta_io_ui_cmd[k].fields
<1>1. k \in 1 .. Len(gta_io_ui_cmd)
  BY TenCommands
<1>2. d \in Seq(Option)
  BY <1>1, FieldsOf
<1>3. \A f \in ToSet(d) : f.type \in {CFT_NUM, CFT_TXT}
  BY DEF Plain
<1> HIDE DEF d
<1>4. \A i \in 1 .. Len(d) : d[i] \in ToSet(d)
  BY <1>2, LenProperties DEF ToSet
<1>5. AllPlain(d)
  BY <1>3, <1>4 DEF AllPlain
<1> QED
  BY <1>5 DEF d

LEMMA ShapeOf ==
  ASSUME NEW tab, NEW k \in DOMAIN tab
  PROVE  Shape(tab)[k] =
           [name |-> tab[k].name,
            fields |-> [i \in DOMAIN tab[k].fields |->
                          <<tab[k].fields[i].name, tab[k].fields[i].type, tab[k].fields[i].max>>]]
BY DEF Shape

LEMMA LearnedShape ==
  ASSUME TypeOK, Learns
  PROVE  LearnsPlain
<1> SUFFICES ASSUME table # NoTable PROVE LearnsPlain
  BY DEF LearnsPlain
<1> DEFINE g == gta_io_ui_cmd
<1>1. table \in Seq(Entry) /\ Len(table) = 10 /\ \A i \in 1 .. 10 : LearnedCmd(table[i], g[i])
  BY DEF TypeOK, Entry, Learns, LearnedTable
<1>2. DOMAIN table = 1 .. 10 /\ DOMAIN g = 1 .. 10
  BY <1>1, TenCommands, TableAssumption, LenProperties
<1>3. ASSUME NEW k \in 1 .. 10 PROVE table[k].name = g[k].name
  BY <1>1 DEF LearnedCmd
<1>4. ASSUME NEW k \in 1 .. 10, Plain(g[k]) PROVE Shape(table)[k] = Shape(g)[k]
  <2> DEFINE d == table[k].fields
             e == g[k].fields
             F(h) == [i \in DOMAIN h |-> <<h[i].name, h[i].type, h[i].max>>]
  <2>1. LearnedSo(d, e, Len(e))
    BY <1>1, <1>4, PlainIs, Zenon DEF LearnedCmd
  <2>2. e \in Seq(Option)
    <3>1. k \in 1 .. Len(gta_io_ui_cmd)
      BY TenCommands
    <3> QED
      BY <3>1, FieldsOf
  <2>3. Shape(table)[k] = [name |-> table[k].name, fields |-> F(d)]
        /\ Shape(g)[k] = [name |-> g[k].name, fields |-> F(e)]
    <3>1. k \in DOMAIN table /\ k \in DOMAIN g
      BY <1>2
    <3> QED
      BY <3>1, ShapeOf, Zenon
  <2> HIDE DEF d, e
  <2>4. DOMAIN d = DOMAIN e /\ DOMAIN e = 1 .. Len(e)
    BY <2>1, <2>2, LenProperties DEF LearnedSo
  <2>5. \A i \in DOMAIN e : d[i].name = e[i].name /\ d[i].type = e[i].type /\ d[i].max = e[i].max
    BY <2>1, <2>4 DEF LearnedSo, LearnedIs
  <2>6. F(d) = F(e)
    BY <2>4, <2>5
  <2> HIDE DEF F
  <2> QED
    BY <1>3, <2>3, <2>6, Zenon
<1> HIDE DEF g
<1>5. /\ DOMAIN table = DOMAIN g
      /\ \A k \in DOMAIN table : /\ table[k].name = g[k].name
                                 /\ Plain(g[k]) => Shape(table)[k] = Shape(g)[k]
  BY <1>2, <1>3, <1>4, Zenon
<1> QED
  BY <1>5, Zenon DEF LearnsPlain, g

(* The UI learns the name of every command and the whole of those without  *)
(* a buffer, whatever the options hold when it connects and whatever lay   *)
(* in its own buffer before: of what the definitions of other commands     *)
(* have left behind a message nothing is read.                             *)
THEOREM PlainLearned == Spec => []LearnsPlain
<1>1. Init => TypeOK /\ Learns
  BY InitType DEF Init, Learns
<1>2. TypeOK /\ Learns /\ [Next]_vars => TypeOK' /\ Learns'
  BY NextType, LearnsKept
<1>3. TypeOK /\ Learns => LearnsPlain
  BY LearnedShape
<1> QED
  BY <1>1, <1>2, <1>3, PTL DEF Spec
-----------------------------------------------------------------------------
(* The lines that wait.  The UI has learned the command of a line as it    *)
(* is, if it has learned the whole table so, or if that command has no     *)
(* buffer: what was learned of the others does not concern it then.        *)

Accepted == {text \in Str : AlwaysAccepted(text)}
AcceptedIfPlain == {text \in Str : ConcernsPlain(text) => AlwaysAccepted(text)}

LEMMA SameIfLearned ==
  ASSUME NEW k \in 1 .. 10, Plain(gta_io_ui_cmd[k]), NEW e, LearnedCmd(e, gta_io_ui_cmd[k])
  PROVE  Copied(e, gta_io_ui_cmd[k])
<1> DEFINE d == e.fields
           f == gta_io_ui_cmd[k].fields
<1>1. LearnedSo(d, f, Len(f))
  BY PlainIs, Zenon DEF LearnedCmd
<1> HIDE DEF d, f
<1>2. SameFields(d, f)
  BY <1>1 DEF LearnedSo, LearnedIs, SameFields
<1> QED
  BY <1>2 DEF Copied, LearnedCmd, d, f

LEMMA CommandLearned ==
  ASSUME TypeOK, Learns, table # NoTable, TableIsRight \/ ConcernsPlain(line)
  PROVE  /\ line \in Str /\ table \in Seq(Entry) /\ Len(table) = 10
         /\ \A k \in 1 .. 10 : table[k].name = gta_io_ui_cmd[k].name
         /\ CommandOf(line) # 0 => Copied(table[CommandOf(line)], gta_io_ui_cmd[CommandOf(line)])
<1>1. /\ line \in Str /\ table \in Seq(Entry) /\ Len(table) = 10
      /\ \A i \in 1 .. 10 : LearnedCmd(table[i], gta_io_ui_cmd[i])
  BY DEF TypeOK, Entry, Learns, LearnedTable
<1>2. \A i \in 1 .. 10 : table[i].name = gta_io_ui_cmd[i].name
  BY <1>1 DEF LearnedCmd
<1>3. ASSUME TableIsRight, CommandOf(line) # 0
      PROVE  Copied(table[CommandOf(line)], gta_io_ui_cmd[CommandOf(line)])
  <2>1. Shape(table) = Shape(gta_io_ui_cmd)
    BY <1>3 DEF TableIsRight
  <2>2. \A k \in 1 .. 10 : Copied(table[k], gta_io_ui_cmd[k])
    BY <1>1, <2>1, ShapeSame
  <2> QED
    BY <1>3, <2>2, CommandOfIs
<1>4. ASSUME ConcernsPlain(line), CommandOf(line) # 0
      PROVE  Copied(table[CommandOf(line)], gta_io_ui_cmd[CommandOf(line)])
  <2> DEFINE cmd == CommandOf(line)
             words == Tokens(line)
  <2>1. words # <<>> /\ cmd = Named(gta_io_ui_cmd, Head(words))
    BY <1>4 DEF CommandOf
  <2>2. FirstWord(words) = Head(words)
    <3>1. words \in Seq(Word)
      BY <1>1, TokensType
    <3> HIDE DEF words
    <3> QED
      BY <2>1, <3>1, Pop DEF FirstWord
  <2>3. Plain(gta_io_ui_cmd[cmd])
    BY <1>4, <2>1, <2>2, Zenon DEF ConcernsPlain
  <2>4. cmd \in 1 .. 10
    BY <1>4, CommandOfIs
  <2> HIDE DEF cmd
  <2>5. Copied(table[cmd], gta_io_ui_cmd[cmd])
    BY <1>1, <2>3, <2>4, SameIfLearned
  <2> QED
    BY <2>5 DEF cmd
<1> QED
  BY <1>1, <1>2, <1>3, <1>4

LEMMA TakenByBoth ==
  ASSUME TypeOK, Learns, IsCommand, TableIsRight \/ ConcernsPlain(line)
  PROVE  line \in Accepted
<1>1. table # NoTable
  BY DEF IsCommand
<1>2. AlwaysAccepted(line) /\ line \in Str
  BY <1>1, CommandLearned, PassedOn, Zenon
<1> QED
  BY <1>2 DEF Accepted

LEMMA PlainByBoth ==
  ASSUME TypeOK, Learns, IsCommand
  PROVE  line \in AcceptedIfPlain
<1>1. line \in Str
  BY DEF TypeOK
<1>2. ConcernsPlain(line) => AlwaysAccepted(line)
  BY TakenByBoth DEF Accepted
<1> QED
  BY <1>1, <1>2 DEF AcceptedIfPlain

(* With a table that is right, all the lines that wait were accepted with  *)
(* it: a UI that learns the table anew finds none waiting.                 *)
LinesOfTable == TableIsRight => LinesIn(Accepted)

LEMMA LinesOfTableKept ==
  ASSUME TypeOK, Learns, LinesOfTable, [Next]_vars
  PROVE  LinesOfTable'
<1> SUFFICES ASSUME TableIsRight' PROVE LinesIn(Accepted)'
  BY DEF LinesOfTable
<1>1. CASE table' = table
  <2>1. TableIsRight
    BY <1>1, Zenon DEF TableIsRight
  <2>2. LinesIn(Accepted) /\ (IsCommand => line \in Accepted)
    BY <2>1, TakenByBoth DEF LinesOfTable
  <2> QED
    BY <2>2, LinesKept
<1>2. CASE Connect
  <2>1. rd' = <<>> /\ up_q' = <<>>
    BY <1>2 DEF Connect, ioVars, TypeOK
  <2> QED
    BY <2>1, EmptySeq DEF LinesIn
<1>3. table' # NoTable
  BY DEF TableIsRight
<1>4. table' = table \/ Connect \/ table' = NoTable
  BY DEF Next, vars, uiVars, Type, Tab, EnterCommand, EnterOther, EnterQuit, UiIsKilled,
     UiRestarts, UiFreesTable, UiShows, IoHandles, JobEnds, IoRestarts
<1> QED
  BY <1>1, <1>2, <1>3, <1>4

(* A line that the UI has passed on is a command for the IO process, too,  *)
(* in every behaviour, whatever the options have been set to since and     *)
(* however often either process was restarted: if its command has no       *)
(* buffer, or if the UI's table is right.  The two parsers run on two      *)
(* copies of the table and at different times.                             *)
THEOREM LinesAccepted == Spec => []IoAccepts
<1> DEFINE Inv == TypeOK /\ Learns /\ LinesIn(AcceptedIfPlain) /\ LinesOfTable
<1>1. Init => Inv
  BY InitType, LinesFirst DEF Init, Learns, LinesOfTable
<1>2. Inv /\ [Next]_vars => Inv'
  BY NextType, LearnsKept, PlainByBoth, LinesKept, LinesOfTableKept
<1>3. Inv => IoAccepts
  <2> SUFFICES ASSUME Inv, NEW i \in DOMAIN (rd \o up_q),
                      TableIsRight \/ ConcernsPlain((rd \o up_q)[i])
               PROVE  decomposite_cp_cmd((rd \o up_q)[i], gta_io_ui_cmd, store, FALSE).cmd # 0
    BY Zenon DEF IoAccepts
  <2> DEFINE text == (rd \o up_q)[i]
  <2>1. text \in AcceptedIfPlain
    BY EachLine, Zenon
  <2>2. TableIsRight => text \in Accepted
    BY EachLine, Zenon DEF LinesOfTable
  <2>3. AlwaysAccepted(text)
    BY <2>1, <2>2, Zenon DEF Accepted, AcceptedIfPlain
  <2> QED
    BY <2>3, Zenon DEF AlwaysAccepted
<1> QED
  BY <1>1, <1>2, <1>3, PTL DEF Spec
-----------------------------------------------------------------------------
(* Upper case, and the words of a text in upper case.                      *)

LEMMA UpperIs ==
  ASSUME NEW s \in Str
  PROVE  /\ Upper(s) \in Str /\ Len(Upper(s)) = Len(s)
         /\ \A i \in 1 .. Len(s) : s[i] \in Alphabet /\ Upper(s)[i] = UpperOf[s[i]]
<1>1. /\ Len(s) \in Nat /\ DOMAIN s = 1 .. Len(s) /\ \A i \in 1 .. Len(s) : s[i] \in Alphabet
  BY LenProperties, ElementOfSeq DEF Str
<1>2. Upper(s) = [i \in 1 .. Len(s) |-> UpperOf[s[i]]]
  BY <1>1 DEF Upper
<1>3. \A i \in 1 .. Len(s) : UpperOf[s[i]] \in Alphabet
  BY <1>1, CaseAssumption
<1> HIDE DEF Upper
<1>4. Upper(s) \in [1 .. Len(s) -> Alphabet]
  BY <1>2, <1>3
<1>5. Upper(s) \in Seq(Alphabet) /\ Len(Upper(s)) = Len(s)
  BY <1>1, <1>4
<1> QED
  BY <1>1, <1>2, <1>5 DEF Str

LEMMA SameText ==
  ASSUME NEW s \in Str, NEW t \in Str, Len(s) = Len(t), \A i \in 1 .. Len(s) : s[i] = t[i]
  PROVE  s = t
<1>1. Len(s) \in Nat /\ s \in [1 .. Len(s) -> Alphabet] /\ t \in [1 .. Len(t) -> Alphabet]
  BY LenProperties DEF Str
<1> QED
  BY <1>1

LEMMA UpperTwice ==
  ASSUME NEW s \in Str
  PROVE  Upper(Upper(s)) = Upper(s)
<1> DEFINE u == Upper(s)
           v == Upper(u)
<1>1. /\ u \in Str /\ Len(u) = Len(s)
      /\ \A i \in 1 .. Len(s) : s[i] \in Alphabet /\ u[i] = UpperOf[s[i]]
  BY UpperIs
<1> HIDE DEF u
<1>2. v \in Str /\ Len(v) = Len(u) /\ \A i \in 1 .. Len(u) : v[i] = UpperOf[u[i]]
  BY <1>1, UpperIs
<1> HIDE DEF v
<1>3. \A i \in 1 .. Len(s) : UpperOf[UpperOf[s[i]]] = UpperOf[s[i]]
  BY <1>1, UpperAssumption
<1>4. \A i \in 1 .. Len(v) : v[i] = u[i]
  BY <1>1, <1>2, <1>3
<1>5. v = u
  BY <1>1, <1>2, <1>4, SameText
<1> QED
  BY <1>5 DEF u, v

LEMMA UpperEmpty ==
  ASSUME NEW s \in Str
  PROVE  Upper(s) = <<>> <=> s = <<>>
<1> DEFINE u == Upper(s)
<1>1. u \in Str /\ Len(u) = Len(s)
  BY UpperIs
<1> HIDE DEF u
<1>2. u = <<>> <=> s = <<>>
  BY <1>1, EmptySeq DEF Str
<1> QED
  BY <1>2 DEF u

(* A part of a text, which may be empty.                                   *)
LEMMA UpperPart ==
  ASSUME NEW s \in Str, NEW m \in Int, NEW n \in Int, 1 <= m, n <= Len(s), m <= n + 1
  PROVE  SubSeq(Upper(s), m, n) = Upper(SubSeq(s, m, n))
<1> DEFINE u == Upper(s)
           p == SubSeq(s, m, n)
           q == Upper(p)
           r == SubSeq(u, m, n)
           k == n - m + 1
<1>1. /\ u \in Str /\ Len(u) = Len(s) /\ Len(s) \in Nat
      /\ \A i \in 1 .. Len(s) : u[i] = UpperOf[s[i]]
  BY UpperIs, LenProperties DEF Str
<1>2. p \in Str /\ Len(p) = k /\ \A i \in 1 .. k : p[i] = s[m + i - 1]
  BY PartIs DEF Str
<1> HIDE DEF u
<1>3. r \in Str /\ Len(r) = k /\ \A i \in 1 .. k : r[i] = u[m + i - 1]
  BY <1>1, PartIs DEF Str
<1> HIDE DEF p, r
<1>4. q \in Str /\ Len(q) = Len(p) /\ \A i \in 1 .. Len(p) : q[i] = UpperOf[p[i]]
  BY <1>2, UpperIs
<1> HIDE DEF q
<1>5. \A i \in 1 .. k : m + i - 1 \in 1 .. Len(s)
  BY <1>1
<1>6. \A i \in 1 .. Len(r) : r[i] = q[i]
  BY <1>1, <1>2, <1>3, <1>4, <1>5
<1>7. r = q
  BY <1>2, <1>3, <1>4, <1>6, SameText
<1> QED
  BY <1>7 DEF r, q, p, u

LEMMA UpperTail ==
  ASSUME NEW s \in Str, s # <<>>
  PROVE  /\ Tail(s) \in Str /\ Tail(Upper(s)) = Upper(Tail(s))
         /\ Tail(s) = SubSeq(s, 2, Len(s))
<1> DEFINE u == Upper(s)
<1>1. u \in Str /\ Len(u) = Len(s) /\ Len(s) \in Nat /\ Len(s) > 0
  BY UpperIs, LenProperties, EmptySeq DEF Str
<1>2. \A t \in Str : t # <<>> => Tail(t) = SubSeq(t, 2, Len(t)) /\ Tail(t) \in Str
  BY HeadTailProperties DEF Str
<1>3. u # <<>>
  BY UpperEmpty
<1>4. SubSeq(u, 2, Len(s)) = Upper(SubSeq(s, 2, Len(s)))
  BY <1>1, UpperPart
<1> HIDE DEF u
<1>5. Tail(u) = Upper(Tail(s)) /\ Tail(s) \in Str /\ Tail(s) = SubSeq(s, 2, Len(s))
  BY <1>1, <1>2, <1>3, <1>4
<1> QED
  BY <1>5 DEF u

LEMMA GapUpper ==
  ASSUME NEW s \in Str
  PROVE  Gap(Upper(s)) = Gap(s)
<1> DEFINE u == Upper(s)
           g == Gap(s)
           h == Gap(u)
           n == Len(s)
<1>1. /\ u \in Str /\ Len(u) = n /\ n \in Nat
      /\ \A i \in 1 .. n : s[i] \in Alphabet /\ u[i] = UpperOf[s[i]]
  BY UpperIs, LenProperties DEF Str
<1>2. \A i \in 1 .. n : u[i] = Blank <=> s[i] = Blank
  BY <1>1, UpperAssumption
<1>3. /\ g \in 0 .. n /\ (g # 0 => s[g] = Blank)
      /\ \A i \in 1 .. n : i < g \/ g = 0 => s[i] # Blank
  BY GapIs
<1> HIDE DEF g, u, n
<1>4. /\ h \in 0 .. n /\ (h # 0 => u[h] = Blank)
      /\ \A i \in 1 .. n : i < h \/ h = 0 => u[i] # Blank
  BY <1>1, GapIs
<1> HIDE DEF h
<1>5. g # 0 => s[g] = Blank /\ u[g] = Blank
  BY <1>1, <1>2, <1>3
<1>6. h # 0 => s[h] = Blank /\ u[h] = Blank
  BY <1>1, <1>2, <1>4
<1>7. ~(g # 0 /\ (h = 0 \/ g < h)) /\ ~(h # 0 /\ (g = 0 \/ h < g))
  BY <1>1, <1>3, <1>4, <1>5, <1>6
<1>8. h = g
  BY <1>1, <1>3, <1>4, <1>7
<1> QED
  BY <1>8 DEF g, h, u

UpperWords(words) == [i \in DOMAIN words |-> Upper(words[i])]

LEMMA UpperWordsIs ==
  ASSUME NEW words \in Seq(Word)
  PROVE  /\ UpperWords(words) \in Seq(Word) /\ Len(UpperWords(words)) = Len(words)
         /\ \A i \in 1 .. Len(words) : UpperWords(words)[i] = Upper(words[i])
<1>1. /\ Len(words) \in Nat /\ DOMAIN words = 1 .. Len(words)
      /\ \A i \in 1 .. Len(words) : words[i] \in Word
  BY LenProperties, ElementOfSeq
<1>2. \A w \in Word : Upper(w) \in Word
  BY UpperIs, UpperEmpty DEF Word
<1>3. UpperWords(words) \in [1 .. Len(words) -> Word]
  BY <1>1, <1>2 DEF UpperWords
<1>4. UpperWords(words) \in Seq(Word) /\ Len(UpperWords(words)) = Len(words)
  BY <1>1, <1>3
<1> QED
  BY <1>1, <1>4 DEF UpperWords

LEMMA UpperAppend ==
  ASSUME NEW words \in Seq(Word), NEW w \in Word
  PROVE  UpperWords(Append(words, w)) = Append(UpperWords(words), Upper(w))
<1> DEFINE a == Append(words, w)
           b == UpperWords(words)
           v == Upper(w)
           n == Len(words)
           c == Append(b, v)
           d == UpperWords(a)
<1>1. v \in Word
  BY UpperIs, UpperEmpty DEF Word
<1>2. /\ b \in Seq(Word) /\ Len(b) = n /\ n \in Nat
      /\ \A i \in 1 .. n : b[i] = Upper(words[i])
  BY UpperWordsIs, LenProperties
<1>3. /\ a \in Seq(Word) /\ Len(a) = n + 1 /\ a[n + 1] = w
      /\ \A i \in 1 .. n : a[i] = words[i]
  BY AppendProperties
<1> HIDE DEF a, b
<1>4. /\ c \in Seq(Word) /\ Len(c) = n + 1 /\ c[n + 1] = v
      /\ \A i \in 1 .. n : c[i] = b[i]
  BY <1>1, <1>2, AppendProperties
<1>5. d \in Seq(Word) /\ Len(d) = n + 1 /\ \A i \in 1 .. n + 1 : d[i] = Upper(a[i])
  BY <1>3, UpperWordsIs
<1> HIDE DEF c, d
<1>6. d[n + 1] = c[n + 1]
  <2>1. n + 1 \in 1 .. n + 1
    BY <1>2
  <2> QED
    BY <1>3, <1>4, <1>5, <2>1
<1>7. \A i \in 1 .. n : i \in 1 .. n + 1 /\ d[i] = c[i]
  BY <1>2, <1>3, <1>4, <1>5
<1>8. \A i \in 1 .. n + 1 : i \in 1 .. n \/ i = n + 1
  BY <1>2
<1>9. \A i \in 1 .. n + 1 : d[i] = c[i]
  BY <1>6, <1>7, <1>8
<1>10. d = c
  <2>1. d \in [1 .. n + 1 -> Word] /\ c \in [1 .. n + 1 -> Word]
    BY <1>4, <1>5, LenProperties
  <2> QED
    BY <1>9, <2>1
<1> QED
  BY <1>10 DEF a, b, c, d

LEMMA NextWordIs ==
  ASSUME NEW t \in Splitting
  PROVE  /\ t.rest = <<>> => NextWord(t) = t
         /\ t.rest # <<>> /\ Gap(t.rest) = 0 =>
              NextWord(t).words = Append(t.words, t.rest) /\ NextWord(t).rest = <<>>
         /\ t.rest # <<>> /\ Gap(t.rest) = 1 =>
              NextWord(t).words = t.words /\ NextWord(t).rest = Tail(t.rest)
         /\ t.rest # <<>> /\ Gap(t.rest) # 0 /\ Gap(t.rest) # 1 =>
              /\ NextWord(t).words = Append(t.words, SubSeq(t.rest, 1, Gap(t.rest) - 1))
              /\ NextWord(t).rest = SubSeq(t.rest, Gap(t.rest) + 1, Len(t.rest))
<1> DEFINE gap == Gap(t.rest)
           head == SubSeq(t.rest, 1, gap - 1)
           rest == SubSeq(t.rest, gap + 1, Len(t.rest))
<1>1. NextWord(t) = CASE t.rest = <<>> -> t
       [] t.rest # <<>> /\ gap = 0 -> [words |-> Append(t.words, t.rest), rest |-> <<>>]
       [] gap = 1 -> [t EXCEPT !.rest = Tail(@)]
       [] OTHER -> [words |-> Append(t.words, head), rest |-> rest]
  BY DEF NextWord
<1>0. t.rest = <<>> => gap # 1
  BY GapIs, EmptySeq DEF Splitting, Str
<1> HIDE DEF gap, head, rest
<1>2. t.rest # <<>> /\ gap = 1 => NextWord(t) = [t EXCEPT !.rest = Tail(@)]
  BY <1>1
<1>3. t.rest # <<>> /\ gap = 1 => NextWord(t).words = t.words /\ NextWord(t).rest = Tail(t.rest)
  BY <1>2 DEF Splitting
<1>4. t.rest = <<>> => NextWord(t) = t
  BY <1>0, <1>1
<1>5. t.rest # <<>> /\ gap = 0 =>
        NextWord(t).words = Append(t.words, t.rest) /\ NextWord(t).rest = <<>>
  BY <1>1
<1>6. t.rest # <<>> /\ gap # 0 /\ gap # 1 =>
        NextWord(t).words = Append(t.words, head) /\ NextWord(t).rest = rest
  BY <1>1
<1> QED
  BY <1>3, <1>4, <1>5, <1>6 DEF gap, head, rest

InUpper(t, u) ==
  /\ t \in Splitting /\ u \in Splitting
  /\ u.words = UpperWords(t.words) /\ u.rest = Upper(t.rest)

LEMMA UpperStep ==
  ASSUME NEW t, NEW u, InUpper(t, u)
  PROVE  InUpper(NextWord(t), NextWord(u))
<1> DEFINE r == t.rest
           w == t.words
           ur == u.rest
           uw == u.words
           gap == Gap(r)
           n == Len(r)
           T == NextWord(t)
           U == NextWord(u)
<1>0. t \in Splitting /\ u \in Splitting
  BY DEF InUpper
<1>1. /\ r \in Str /\ w \in Seq(Word) /\ n \in Nat /\ uw \in Seq(Word) /\ ur \in Str
      /\ ur = Upper(r) /\ uw = UpperWords(w)
  <2>1. r \in Str /\ w \in Seq(Word) /\ uw \in Seq(Word) /\ ur \in Str
    BY <1>0 DEF Splitting
  <2> QED
    BY <2>1, LenProperties DEF InUpper, Str
<1>2. T \in Splitting /\ U \in Splitting
  BY <1>0, NextWordType
<1>3. Len(ur) = n /\ Gap(ur) = gap /\ (ur = <<>> <=> r = <<>>) /\ gap \in 0 .. n
  BY <1>1, UpperIs, GapUpper, UpperEmpty, GapIs
<1>4. /\ r = <<>> => T = t
      /\ r # <<>> /\ gap = 0 => T.words = Append(w, r) /\ T.rest = <<>>
      /\ r # <<>> /\ gap = 1 => T.words = w /\ T.rest = Tail(r)
      /\ r # <<>> /\ gap # 0 /\ gap # 1 =>
           T.words = Append(w, SubSeq(r, 1, gap - 1)) /\ T.rest = SubSeq(r, gap + 1, n)
  BY <1>0, NextWordIs, Zenon
<1>5. /\ r = <<>> => U = u
      /\ r # <<>> /\ gap = 0 => U.words = Append(uw, ur) /\ U.rest = <<>>
      /\ r # <<>> /\ gap = 1 => U.words = uw /\ U.rest = Tail(ur)
      /\ r # <<>> /\ gap # 0 /\ gap # 1 =>
           U.words = Append(uw, SubSeq(ur, 1, gap - 1)) /\ U.rest = SubSeq(ur, gap + 1, n)
  <2>1. /\ ur = <<>> => U = u
        /\ ur # <<>> /\ Gap(ur) = 0 => U.words = Append(uw, ur) /\ U.rest = <<>>
        /\ ur # <<>> /\ Gap(ur) = 1 => U.words = uw /\ U.rest = Tail(ur)
        /\ ur # <<>> /\ Gap(ur) # 0 /\ Gap(ur) # 1 =>
             /\ U.words = Append(uw, SubSeq(ur, 1, Gap(ur) - 1))
             /\ U.rest = SubSeq(ur, Gap(ur) + 1, Len(ur))
    BY <1>0, NextWordIs, Zenon
  <2> HIDE DEF U, ur, uw, r, gap, n
  <2> QED
    BY <1>3, <2>1
<1> SUFFICES U.words = UpperWords(T.words) /\ U.rest = Upper(T.rest)
  BY <1>2 DEF InUpper
<1> HIDE DEF T, U, r, w, ur, uw, gap, n
<1>7. CASE r = <<>>
  BY <1>1, <1>4, <1>5, <1>7 DEF r, w, ur, uw
<1>8. CASE r # <<>> /\ gap = 0
  <2>1. r \in Word
    BY <1>1, <1>8 DEF Word
  <2>2. UpperWords(Append(w, r)) = Append(uw, ur)
    BY <1>1, <2>1, UpperAppend
  <2>3. Upper(<<>>) = <<>>
    BY EmptySeq, UpperEmpty DEF Str
  <2> QED
    BY <1>4, <1>5, <1>8, <2>2, <2>3, Zenon
<1>9. CASE r # <<>> /\ gap = 1
  <2>1. Tail(ur) = Upper(Tail(r))
    BY <1>1, <1>9, UpperTail
  <2> QED
    BY <1>1, <1>4, <1>5, <1>9, <2>1, Zenon
<1>10. CASE r # <<>> /\ gap # 0 /\ gap # 1
  <2> DEFINE a == SubSeq(r, 1, gap - 1)
             b == SubSeq(r, gap + 1, n)
             ua == SubSeq(ur, 1, gap - 1)
             ub == SubSeq(ur, gap + 1, n)
  <2>1. T.words = Append(w, a) /\ T.rest = b /\ U.words = Append(uw, ua) /\ U.rest = ub
    BY <1>4, <1>5, <1>10, Zenon
  <2>2. gap \in Int /\ 1 <= gap - 1 /\ gap - 1 <= n /\ gap + 1 <= n + 1
    BY <1>1, <1>3, <1>10
  <2>3. a \in Str /\ Len(a) = gap - 1
    BY <1>1, <2>2, PartIs DEF Str, n
  <2>4. ua = Upper(a) /\ ub = Upper(b)
    BY <1>1, <2>2, UpperPart DEF n
  <2> HIDE DEF a, b, ua, ub
  <2>5. a \in Word
    <3>1. a # <<>>
      BY <2>2, <2>3, EmptySeq
    <3> QED
      BY <2>3, <3>1 DEF Word
  <2>6. UpperWords(Append(w, a)) = Append(uw, ua)
    BY <1>1, <2>4, <2>5, UpperAppend
  <2> QED
    BY <2>1, <2>4, <2>6, Zenon
<1> QED
  BY <1>7, <1>8, <1>9, <1>10

(* The words of a text in upper case are its words in upper case.          *)
LEMMA TokensUpper ==
  ASSUME NEW text \in Str
  PROVE  Tokens(Upper(text)) = UpperWords(Tokens(text))
<1> DEFINE s == [words |-> <<>>, rest |-> text]
           u == [words |-> <<>>, rest |-> Upper(text)]
           P(n) == Words!Repeat(s, n)
           Q(n) == Words!Repeat(u, n)
           S == {n \in Nat : InUpper(P(n), Q(n))}
<1>1. P(0) = s /\ Q(0) = u /\ \A n \in Nat : P(n + 1) = NextWord(P(n)) /\ Q(n + 1) = NextWord(Q(n))
  BY Words!Unfold
<1>2. InUpper(s, u)
  <2>1. <<>> \in Seq(Word) /\ Upper(text) \in Str
    BY EmptySeq, UpperIs
  <2>2. UpperWords(<<>>) = <<>>
    <3>1. UpperWords(<<>>) \in Seq(Word) /\ Len(UpperWords(<<>>)) = 0
      BY <2>1, UpperWordsIs, EmptySeq
    <3> QED
      BY <3>1, EmptySeq
  <2> QED
    BY <2>1, <2>2 DEF Splitting, InUpper
<1> HIDE DEF P, Q, s, u
<1>3. 0 \in S
  BY <1>1, <1>2
<1>4. ASSUME NEW n \in Nat, n \in S PROVE n + 1 \in S
  <2>1. InUpper(P(n), Q(n)) /\ P(n + 1) = NextWord(P(n)) /\ Q(n + 1) = NextWord(Q(n))
    BY <1>1, <1>4
  <2>2. InUpper(NextWord(P(n)), NextWord(Q(n)))
    BY <2>1, UpperStep
  <2> QED
    BY <2>1, <2>2
<1>5. Nat \subseteq S
  <2> HIDE DEF S
  <2> QED
    BY <1>3, <1>4, Words!Induction
<1>6. Len(text) \in Nat /\ Len(Upper(text)) = Len(text)
  BY UpperIs, LenProperties DEF Str
<1> DEFINE n == Len(text)
<1>7. InUpper(P(n), Q(n))
  BY <1>5, <1>6
<1>8. Q(n).words = UpperWords(P(n).words)
  BY <1>7 DEF InUpper
<1>9. Tokens(text) = P(n).words
  BY DEF Tokens, P, s
<1>10. Tokens(Upper(text)) = Q(n).words
  <2> HIDE DEF n
  <2>1. Tokens(Upper(text)) = Words!Repeat(u, Len(Upper(text))).words
    BY DEF Tokens, u
  <2> QED
    BY <1>6, <2>1 DEF Q, n
<1> QED
  BY <1>8, <1>9, <1>10
-----------------------------------------------------------------------------
(* What Tab Tab lists.                                                     *)

LEMMA NamedUpper ==
  ASSUME NEW entries, NEW word \in Str
  PROVE  Named(entries, Upper(word)) = Named(entries, word)
<1>1. \A e : SameWord(e.name, Upper(word)) <=> SameWord(e.name, word)
  BY UpperTwice DEF SameWord
<1> DEFINE I(w) == {i \in 1 .. Len(entries) : SameWord(entries[i].name, w)}
<1>2. I(Upper(word)) = I(word)
  BY <1>1
<1>3. \A w : Named(entries, w) = IF I(w) # {} THEN Min(I(w)) ELSE 0
  BY DEF Named, SelectInSeq
<1> HIDE DEF I
<1> QED
  BY <1>2, <1>3, Zenon

Dash == "-"
LEMMA OptionUpper ==
  ASSUME NEW w \in Word
  PROVE  IsOption(Upper(w)) <=> IsOption(w)
<1> DEFINE u == Upper(w)
           c == w[1]
           d == u[1]
<1>1. c \in Alphabet /\ d = UpperOf[c]
  <2>1. w \in Str /\ 1 \in 1 .. Len(w)
    BY EmptySeq, LenProperties DEF Word, Str
  <2> QED
    BY <2>1, UpperIs
<1>2. IsOption(<<UpperOf[c]>>) <=> IsOption(<<c>>)
  BY <1>1, UpperAssumption
<1>3. \A x : <<x>>[1] = x
  OBVIOUS
<1>4. \A s : IsOption(s) <=> s[1] = Dash
  BY Zenon DEF IsOption, Dash
<1> HIDE DEF c, d, u
<1>5. d = Dash <=> c = Dash
  BY <1>1, <1>2, <1>3, <1>4, Zenon
<1> QED
  BY <1>4, <1>5, Zenon DEF c, d, u

LEMMA WordsUpper ==
  ASSUME NEW words \in Seq(Word)
  PROVE  /\ FirstWord(UpperWords(words)) = Upper(FirstWord(words))
         /\ LastWord(UpperWords(words)) = Upper(LastWord(words))
         /\ NoDash(Upper(LastWord(words))) = Upper(NoDash(LastWord(words)))
         /\ LastWord(words) = <<>> <=> Len(words) < 2
<1> DEFINE u == UpperWords(words)
           n == Len(words)
           last == LastWord(words)
<1>1. /\ u \in Seq(Word) /\ Len(u) = n /\ n \in Nat /\ (n > 0 => u[1] = Upper(words[1]))
      /\ \A i \in 1 .. n : words[i] \in Word /\ u[i] = Upper(words[i])
      /\ (words = <<>> <=> n = 0) /\ (u = <<>> <=> n = 0)
  BY UpperWordsIs, LenProperties, ElementOfSeq, EmptySeq
<1>2. <<>> \in Str /\ Upper(<<>>) = <<>> /\ \A w \in Word : w \in Str /\ w # <<>>
  BY EmptySeq, UpperEmpty DEF Str, Word
<1> HIDE DEF u, n
<1>3. FirstWord(u) = Upper(FirstWord(words))
  <2>1. n = 0 \/ n > 0
    BY <1>1
  <2>2. \/ words = <<>> /\ u = <<>>
        \/ words # <<>> /\ u # <<>> /\ u[1] = Upper(words[1])
    BY <1>1, <2>1, Zenon
  <2> QED
    BY <1>2, <2>2, Zenon DEF FirstWord
<1>4. last = IF n < 2 THEN <<>> ELSE words[n]
  BY DEF LastWord, n
<1>5. LastWord(u) = IF n < 2 THEN <<>> ELSE u[n]
  BY <1>1 DEF LastWord
<1>6. n < 2 \/ n \in 1 .. n
  BY <1>1
<1> HIDE DEF last
<1>7. /\ n < 2 => last = <<>> /\ LastWord(u) = <<>>
      /\ ~(n < 2) => last \in Word /\ LastWord(u) = Upper(last)
  BY <1>1, <1>4, <1>5, <1>6
<1>8. LastWord(u) = Upper(last) /\ (last = <<>> <=> n < 2)
  BY <1>2, <1>7, Zenon
<1>9. NoDash(Upper(last)) = Upper(NoDash(last))
  <2>1. CASE last = <<>>
    BY <1>2, <2>1, Zenon DEF NoDash
  <2>2. CASE last \in Word
    <3>1. Upper(last) # <<>> /\ last # <<>> /\ (IsOption(Upper(last)) <=> IsOption(last))
      BY <1>2, <2>2, UpperEmpty, OptionUpper
    <3>2. Tail(Upper(last)) = Upper(Tail(last))
      BY <1>2, <2>2, UpperTail
    <3> QED
      BY <3>1, <3>2, Zenon DEF NoDash
  <2> QED
    BY <1>7, <2>1, <2>2
<1> QED
  BY <1>3, <1>8, <1>9 DEF u, n, last

(* The names of a table that is a copy, found by a word in upper case.     *)
LEMMA FromIs ==
  ASSUME NEW S, NEW d \in Seq(S), NEW T, NEW e \in Seq(T), Len(d) = Len(e),
         \A i \in 1 .. Len(e) : d[i].name = e[i].name /\ Upper(e[i].name) = e[i].name,
         \A i, j \in 1 .. Len(e) : e[i].name = e[j].name => i = j,
         NEW word \in Str
  PROVE  /\ Range(From(d, Upper(word))) = {n \in {c.name : c \in ToSet(e)} : BeginsWith(n, word)}
         /\ IsInjective(From(d, Upper(word)))
<1> DEFINE u == Upper(word)
           f == From(d, u)
           D == {j \in 1 .. Len(e) : BeginsWith(e[j].name, word)}
<1>1. Len(e) \in Nat /\ DOMAIN d = 1 .. Len(e) /\ DOMAIN e = 1 .. Len(e)
  BY LenProperties
<1>2. \A i \in 1 .. Len(e) : IsPrefix(u, d[i].name) <=> BeginsWith(e[i].name, word)
  BY DEF BeginsWith
<1>3. DOMAIN f = D /\ \A i \in D : f[i] = e[i].name
  <2> DEFINE P == {j \in DOMAIN d : IsPrefix(u, d[j].name)}
  <2>1. f = [i \in P |-> d[i].name]
    BY DEF From
  <2>2. P = D
    BY <1>1, <1>2
  <2> HIDE DEF P, f, D
  <2>3. D \subseteq 1 .. Len(e)
    BY DEF D
  <2> QED
    BY <2>1, <2>2, <2>3
<1> HIDE DEF f
<1>4. IsInjective(f)
  BY <1>3 DEF IsInjective
<1>5. Range(f) = {e[i].name : i \in D}
  BY <1>3 DEF Range
<1>6. {n \in {c.name : c \in ToSet(e)} : BeginsWith(n, word)} = {e[i].name : i \in D}
  <2>1. ToSet(e) = {e[i] : i \in 1 .. Len(e)}
    BY <1>1 DEF ToSet
  <2> QED
    BY <2>1
<1> QED
  BY <1>4, <1>5, <1>6 DEF f, u

NameOf(cmd) == gta_io_ui_cmd[cmd].name

LEMMA NamesAre ==
  ASSUME NEW k \in 1 .. 10
  PROVE  /\ NameOf(k) \in Word /\ NameOf(k) \in Str /\ Upper(NameOf(k)) = NameOf(k)
         /\ \A i \in 1 .. 10 : IsPrefix(NameOf(k), NameOf(i)) => i = k
         /\ gta_io_ui_cmd[k].fields \in Seq(Option)
         /\ \A i \in 1 .. Len(gta_io_ui_cmd[k].fields) :
              Upper(gta_io_ui_cmd[k].fields[i].name) = gta_io_ui_cmd[k].fields[i].name
         /\ \A i, j \in 1 .. Len(gta_io_ui_cmd[k].fields) :
              gta_io_ui_cmd[k].fields[i].name = gta_io_ui_cmd[k].fields[j].name => i = j
<1> DEFINE g == gta_io_ui_cmd
           d == g[k].fields
<1>1. k \in 1 .. Len(gta_io_ui_cmd) /\ DOMAIN gta_io_ui_cmd = 1 .. 10
  BY TenCommands, TableAssumption, LenProperties
<1>2. NameOf(k) \in Word /\ NameOf(k) \in Str /\ d \in Seq(Option)
  BY <1>1, FieldsOf DEF NameOf, Word
<1>3. Upper(NameOf(k)) = NameOf(k) /\ \A i \in 1 .. 10 : IsPrefix(NameOf(k), NameOf(i)) => i = k
  <2>1. k \in DOMAIN g /\ DOMAIN g = 1 .. 10
    BY <1>1
  <2>2. \A i, j \in DOMAIN g : /\ Upper(g[i].name) = g[i].name
                               /\ IsPrefix(g[i].name, g[j].name) => i = j
    BY NamesAssumption, Zenon
  <2> HIDE DEF g
  <2>3. Upper(g[k].name) = g[k].name /\ \A i \in 1 .. 10 : IsPrefix(g[k].name, g[i].name) => i = k
    BY <2>1, <2>2
  <2> QED
    BY <2>3 DEF NameOf, g
<1>4. g[k] \in ToSet(g)
  BY <1>1 DEF ToSet
<1>5. \A i, j \in DOMAIN d : Upper(d[i].name) = d[i].name /\ (d[i].name = d[j].name => i = j)
  BY <1>4, NamesAssumption, Zenon
<1> HIDE DEF d
<1>6. DOMAIN d = 1 .. Len(d)
  BY <1>2, LenProperties
<1>7. /\ \A i \in 1 .. Len(d) : Upper(d[i].name) = d[i].name
      /\ \A i, j \in 1 .. Len(d) : d[i].name = d[j].name => i = j
  BY <1>5, <1>6
<1> QED
  BY <1>2, <1>3, <1>7 DEF d

(* The command that a word names, which is the only one that begins so.    *)
LEMMA OneCommand ==
  ASSUME NEW tab \in Seq(Entry), Len(tab) = 10,
         \A k \in 1 .. 10 : tab[k].name = gta_io_ui_cmd[k].name, NEW word \in Str
  PROVE  LET u == Upper(word)
             several == Cardinality(Matching(tab, u)) > 1
         IN /\ Named(tab, u) = Named(gta_io_ui_cmd, word)
            /\ several \/ u = <<>> => Named(gta_io_ui_cmd, word) = 0
            /\ Named(gta_io_ui_cmd, word) \in 0 .. 10
<1> DEFINE cmd == Named(gta_io_ui_cmd, word)
           u == Upper(word)
           m == Matching(tab, u)
<1>1. u \in Str /\ Upper(u) = u
  BY UpperIs, UpperTwice
<1>2. Named(tab, u) = cmd
  <2>1. Named(tab, word) = Named(gta_io_ui_cmd, word)
    BY TenCommands, NamedSame
  <2> QED
    BY <2>1, NamedUpper
<1>3. cmd \in 0 .. 10
  BY NamedIs, TableAssumption, TenCommands
<1>4. ASSUME cmd # 0 PROVE NameOf(cmd) = u /\ cmd \in 1 .. 10
  <2>1. SameWord(NameOf(cmd), word)
    BY <1>4, NamedIs, TableAssumption DEF NameOf
  <2>2. cmd \in 1 .. 10
    BY <1>3, <1>4
  <2> HIDE DEF cmd
  <2> QED
    BY <2>1, <2>2, NamesAre DEF SameWord
<1>5. cmd # 0 => u # <<>>
  <2> HIDE DEF cmd, u
  <2> QED
    BY <1>4, NamesAre DEF Word
<1>6. cmd # 0 => m = {cmd}
  <2> SUFFICES ASSUME cmd # 0 PROVE m = {cmd}
    OBVIOUS
  <2>1. DOMAIN tab = 1 .. 10
    BY LenProperties
  <2>2. m = {i \in DOMAIN tab : BeginsWith(tab[i].name, u)}
    BY DEF Matching
  <2> HIDE DEF m, u, cmd
  <2>3. u = NameOf(cmd) /\ cmd \in 1 .. 10
    BY <1>4
  <2>4. \A i \in 1 .. 10 : BeginsWith(tab[i].name, u) <=> IsPrefix(u, NameOf(i))
    <3>1. \A i \in 1 .. 10 : tab[i].name = NameOf(i) /\ Upper(NameOf(i)) = NameOf(i)
      BY NamesAre DEF NameOf
    <3> QED
      BY <1>1, <3>1 DEF BeginsWith
  <2>5. IsPrefix(u, u)
    BY <1>1, LenProperties DEF IsPrefix, Str
  <2>6. \A i \in 1 .. 10 : IsPrefix(u, NameOf(i)) <=> i = cmd
    BY <2>3, <2>5, NamesAre
  <2> QED
    BY <2>1, <2>2, <2>3, <2>4, <2>6
<1>7. cmd # 0 => ~(Cardinality(m) > 1)
  <2>1. Cardinality({cmd}) = 1
    BY FS_Singleton
  <2> HIDE DEF m, cmd
  <2>2. cmd # 0 => Cardinality(m) = 1
    BY <1>6, <2>1, Zenon
  <2> DEFINE c == Cardinality(m)
  <2> HIDE DEF c
  <2>3. cmd # 0 => c = 1
    BY <2>2 DEF c
  <2>4. cmd # 0 => ~(c > 1)
    BY <2>3
  <2> QED
    BY <2>4 DEF c
<1> QED
  BY <1>2, <1>3, <1>5, <1>7

LEMMA SuggestsIs ==
  ASSUME NEW tab \in Seq(Entry), Len(tab) = 10,
         \A k \in 1 .. 10 : Copied(tab[k], gta_io_ui_cmd[k]),
         NEW text \in Str, NEW pos \in 0 .. Len(text)
  PROVE  /\ Range(cmd_suggest(text, pos, tab)) = Candidates(Left(text, pos))
         /\ IsInjective(cmd_suggest(text, pos, tab))
<1> DEFINE left == Left(text, pos)
           words == Tokens(left)
           fw == FirstWord(words)
           lw == LastWord(words)
           cmd == Named(gta_io_ui_cmd, fw)
           first == FirstWord(SuggestWords(left))
           last == LastWord(SuggestWords(left))
           several == last = <<>> /\ Cardinality(Matching(tab, first)) > 1
           exact == IF first = <<>> \/ several THEN 0 ELSE Named(tab, first)
           shown == cmd_suggest(text, pos, tab)
           wanted == Candidates(left)
<1>1. left \in Str
  BY SplitType, EmptySeq DEF Str
<1>2. words \in Seq(Word) /\ SuggestWords(left) = UpperWords(words)
  BY <1>1, TokensType, TokensUpper DEF SuggestWords
<1>3. /\ first = Upper(fw) /\ last = Upper(lw) /\ NoDash(last) = Upper(NoDash(lw))
      /\ lw = <<>> <=> Len(words) < 2
      /\ fw \in Str /\ lw \in Str /\ NoDash(lw) \in Str
  <2> HIDE DEF words
  <2> QED
    BY <1>2, WordsUpper, WordsType
<1>4. \A k \in 1 .. 10 : tab[k].name = gta_io_ui_cmd[k].name
  BY DEF Copied
<1>5. shown = CASE exact # 0 -> From(tab[exact].fields, NoDash(last))
                [] exact = 0 /\ last # <<>> -> <<>>
                [] OTHER -> From(tab, first)
  BY Zenon DEF cmd_suggest
<1>6. wanted =
        LET names == IF cmd # 0 THEN {f.name : f \in ToSet(gta_io_ui_cmd[cmd].fields)}
                     ELSE IF Len(words) > 1 THEN {}
                     ELSE {c.name : c \in ToSet(gta_io_ui_cmd)}
            word == IF cmd # 0 THEN NoDash(lw) ELSE fw
        IN {n \in names : BeginsWith(n, word)}
  BY Zenon DEF Candidates
<1>7. exact = cmd /\ cmd \in 0 .. 10
  <2> HIDE DEF words, fw, first
  <2>1. /\ Named(tab, Upper(fw)) = cmd
        /\ Cardinality(Matching(tab, Upper(fw))) > 1 \/ Upper(fw) = <<>> => cmd = 0
        /\ cmd \in 0 .. 10
    BY <1>3, <1>4, OneCommand, Zenon
  <2> HIDE DEF cmd
  <2> QED
    BY <1>3, <2>1, Zenon
<1>8. last = <<>> <=> Len(words) < 2
  <2> HIDE DEF lw, last, words, first
  <2> QED
    BY <1>3, UpperEmpty
<1>9. Len(words) \in Nat
  BY <1>2, LenProperties
<1> HIDE DEF left, words, fw, lw, cmd, first, last, several, exact, shown, wanted
<1>10. CASE cmd # 0
  <2> DEFINE d == tab[cmd].fields
             e == gta_io_ui_cmd[cmd].fields
  <2>1. cmd \in 1 .. 10
    BY <1>7, <1>10
  <2>2. /\ d \in Seq(Learned) /\ Len(d) = Len(e) /\ \A i \in 1 .. Len(e) : d[i].name = e[i].name
    <3>1. tab[cmd] \in Entry /\ Copied(tab[cmd], gta_io_ui_cmd[cmd])
      BY <2>1, ElementOfSeq
    <3> QED
      BY <3>1 DEF Entry, Copied, SameFields
  <2>3. /\ e \in Seq(Option) /\ \A i \in 1 .. Len(e) : Upper(e[i].name) = e[i].name
        /\ \A i, j \in 1 .. Len(e) : e[i].name = e[j].name => i = j
    BY <2>1, NamesAre, Zenon
  <2>4. shown = From(d, Upper(NoDash(lw)))
    BY <1>3, <1>5, <1>7, <1>10, Zenon
  <2>5. wanted = {n \in {f.name : f \in ToSet(e)} : BeginsWith(n, NoDash(lw))}
    BY <1>6, <1>10, Zenon
  <2> HIDE DEF d, e
  <2> DEFINE w == NoDash(lw)
             S == {n \in {f.name : f \in ToSet(e)} : BeginsWith(n, w)}
  <2>6. w \in Str
    BY <1>3
  <2>7. \A i \in 1 .. Len(e) : d[i].name = e[i].name /\ Upper(e[i].name) = e[i].name
    BY <2>2, <2>3, Zenon
  <2>8. shown = From(d, Upper(w)) /\ wanted = S
    BY <2>4, <2>5, Zenon
  <2> HIDE DEF w
  <2>9. Range(From(d, Upper(w))) = S /\ IsInjective(From(d, Upper(w)))
    BY <2>2, <2>3, <2>6, <2>7, FromIs, Zenon
  <2> HIDE DEF S
  <2>10. Range(shown) = wanted /\ IsInjective(shown)
    BY <2>8, <2>9, Zenon
  <2> QED
    BY <2>10 DEF shown, wanted, left
<1>11. CASE cmd = 0 /\ last # <<>>
  <2>1. shown = <<>> /\ Len(words) > 1
    BY <1>5, <1>7, <1>8, <1>9, <1>11
  <2>2. wanted = {}
    BY <1>6, <1>11, <2>1, Zenon
  <2>3. Range(<<>>) = {} /\ IsInjective(<<>>)
    BY DEF Range, IsInjective
  <2>4. Range(shown) = wanted /\ IsInjective(shown)
    BY <2>1, <2>2, <2>3
  <2> QED
    BY <2>4 DEF shown, wanted, left
<1>12. CASE cmd = 0 /\ last = <<>>
  <2> DEFINE e == gta_io_ui_cmd
  <2>1. shown = From(tab, Upper(fw)) /\ ~(Len(words) > 1)
    BY <1>3, <1>5, <1>7, <1>8, <1>9, <1>12
  <2>2. wanted = {n \in {c.name : c \in ToSet(e)} : BeginsWith(n, fw)}
    BY <1>6, <1>12, <2>1, Zenon
  <2>3. /\ e \in Seq([name : Word, fields : Seq(Option)]) /\ Len(e) = 10
    BY TableAssumption, TenCommands
  <2>4. \A i \in 1 .. 10 : tab[i].name = e[i].name /\ Upper(e[i].name) = e[i].name
    BY <1>4, NamesAre DEF NameOf
  <2>5. \A i, j \in 1 .. 10 : e[i].name = e[j].name => i = j
    <3> SUFFICES ASSUME NEW i \in 1 .. 10, NEW j \in 1 .. 10, NameOf(i) = NameOf(j) PROVE i = j
      BY DEF NameOf
    <3>1. NameOf(i) \in Str /\ (IsPrefix(NameOf(j), NameOf(i)) => i = j)
      BY NamesAre
    <3>2. IsPrefix(NameOf(i), NameOf(i))
      BY <3>1, LenProperties DEF IsPrefix, Str
    <3> QED
      BY <3>1, <3>2
  <2> HIDE DEF e
  <2> DEFINE S == {n \in {c.name : c \in ToSet(e)} : BeginsWith(n, fw)}
             T == [name : Word, fields : Seq(Option)]
  <2>6. tab \in Seq(Entry) /\ Len(tab) = Len(e) /\ fw \in Str /\ e \in Seq(T)
    BY <1>3, <2>3
  <2>7. \A i \in 1 .. Len(e) : tab[i].name = e[i].name /\ Upper(e[i].name) = e[i].name
    BY <2>3, <2>4
  <2>8. \A i, j \in 1 .. Len(e) : e[i].name = e[j].name => i = j
    BY <2>3, <2>5
  <2> HIDE DEF T
  <2>9. Range(From(tab, Upper(fw))) = S /\ IsInjective(From(tab, Upper(fw)))
    BY <2>6, <2>7, <2>8, FromIs, Zenon
  <2>10. shown = From(tab, Upper(fw)) /\ wanted = S
    BY <2>1, <2>2, Zenon
  <2> HIDE DEF S
  <2>11. Range(shown) = wanted /\ IsInjective(shown)
    BY <2>9, <2>10, Zenon
  <2> QED
    BY <2>11 DEF shown, wanted, left
<1> QED
  BY <1>10, <1>11, <1>12

(* Tab Tab lists what Tab chooses from, for every line, every place of the *)
(* cursor and every case of the letters, whenever the UI's table is right: *)
(* the two functions divide the line, skip the dash and compare names in   *)
(* different ways.                                                         *)
THEOREM CandidatesSuggested == Spec => []SuggestsCandidates
<1>1. TypeOK => SuggestsCandidates
  <2> SUFFICES ASSUME TypeOK, TableIsRight PROVE SuggestsCandidates
    BY DEF SuggestsCandidates
  <2>1. /\ table \in Seq(Entry) /\ line \in Str /\ cur \in 0 .. Len(line)
        /\ Shape(table) = Shape(gta_io_ui_cmd)
    BY DEF TypeOK, TableIsRight, Entry
  <2>2. Len(table) = 10 /\ \A k \in 1 .. 10 : Copied(table[k], gta_io_ui_cmd[k])
    BY <2>1, ShapeSame
  <2>3. /\ Range(cmd_suggest(line, cur, table)) = Candidates(Left(line, cur))
        /\ IsInjective(cmd_suggest(line, cur, table))
    BY <2>1, <2>2, SuggestsIs, Zenon
  <2> QED
    BY <2>3, Zenon DEF SuggestsCandidates
<1> QED
  BY <1>1, TypesHold, PTL
-----------------------------------------------------------------------------
(* What a line means is what the parser makes of it. *)

LEMMA GoodLine ==
  ASSUME NEW text \in Str, CommandOf(text) # 0
  PROVE  LET words == Tokens(text)
             e == gta_io_ui_cmd[CommandOf(text)].fields
         IN /\ words \in Seq(Word) /\ words # <<>> /\ e \in Seq(Option) /\ e # NoFields
            /\ CommandOf(text) = Named(gta_io_ui_cmd, words[1])
            /\ \A i : OptionAt(words, i) = OptionOf(e, words, i)
            /\ WellFormed(text) <=> GoodOptions(e, words)
<1> DEFINE words == Tokens(text)
           c == Named(gta_io_ui_cmd, words[1])
           e == gta_io_ui_cmd[CommandOf(text)].fields
<1>1. words \in Seq(Word) /\ words # <<>>
  BY TokensType DEF CommandOf
<1>2. CommandOf(text) = Named(gta_io_ui_cmd, Head(words)) /\ Head(words) = words[1]
  <2>1. Head(words) = words[1]
    BY <1>1
  <2> QED
    BY <1>1, <2>1, Zenon DEF CommandOf
<1>3. CommandOf(text) = c
  BY <1>2, Zenon
<1>4. e \in Seq(Option) /\ e # NoFields
  BY CommandOfIs, FieldsOf, TenCommands
<1>5. e = gta_io_ui_cmd[c].fields
  BY <1>3, Zenon
<1>6. \A i : OptionAt(words, i) = OptionOf(e, words, i)
  BY <1>5, Zenon DEF OptionAt, OptionOf
<1> HIDE DEF words, c, e
<1>7. \A i : GoodAt(e, words, i) <=> GoodValues(OptionAt(words, i).type, ValuesAt(words, i))
  BY <1>6, Zenon DEF GoodAt
<1>8. WellFormed(text) <=>
        /\ words # <<>> /\ c # 0
        /\ Len(words) > 1 => 2 \in OptionPlaces(words)
        /\ \A i \in OptionPlaces(words) :
             GoodValues(OptionAt(words, i).type, ValuesAt(words, i))
  BY Zenon DEF WellFormed, words, c
<1>9. WellFormed(text) <=> GoodOptions(e, words)
  BY <1>1, <1>3, <1>7, <1>8, Zenon DEF GoodOptions
<1> QED
  BY <1>1, <1>3, <1>4, <1>6, <1>9, Zenon DEF words, c, e

(* The parser takes just the well-formed lines, and sets each variable to  *)
(* what the last of its options says.                                      *)
LEMMA LineIs ==
  ASSUME NEW text \in Str, NEW vals \in Stores, NEW u \in BOOLEAN
  PROVE  LET r == decomposite_cp_cmd(text, gta_io_ui_cmd, vals, u)
             words == Tokens(text)
             e == gta_io_ui_cmd[CommandOf(text)].fields
         IN /\ r.cmd # 0 <=> WellFormed(text)
            /\ r.cmd # 0 => r.cmd = CommandOf(text)
            /\ r.cmd # 0 /\ u => \A cell \in Cells :
                 r.store[cell] = ValueAt(e, words, vals, cell, Len(words) + 1)
<1> DEFINE words == Tokens(text)
           cmd == CommandOf(text)
           e == gta_io_ui_cmd[cmd].fields
           a == update_cmd_int(Tail(words), e, vals, u)
           r == decomposite_cp_cmd(text, gta_io_ui_cmd, vals, u)
           Cell == \A cell \in Cells : a.store[cell] = ValueAt(e, words, vals, cell, Len(words) + 1)
<1>1. r = IF cmd = 0 \/ e = NoFields THEN [cmd |-> 0, store |-> vals] ELSE Outcome(cmd, a)
  <2>1. (IF words = <<>> THEN 0 ELSE Named(gta_io_ui_cmd, Head(words))) = cmd
    BY Zenon DEF CommandOf
  <2> QED
    BY <2>1, Zenon DEF decomposite_cp_cmd, OfWords, AsCommand
<1>2. CASE cmd = 0
  <2>1. r = [cmd |-> 0, store |-> vals]
    BY <1>1, <1>2, Zenon
  <2>2. r.cmd = 0
    BY <2>1
  <2>3. ~WellFormed(text)
    <3>1. words # <<>> => Head(words) = words[1]
      BY TokensType
    <3>2. WellFormed(text) => words # <<>> /\ Named(gta_io_ui_cmd, words[1]) # 0
      BY Zenon DEF WellFormed
    <3>3. words # <<>> => cmd = Named(gta_io_ui_cmd, Head(words))
      BY Zenon DEF CommandOf
    <3> QED
      BY <1>2, <3>1, <3>2, <3>3, Zenon
  <2> QED
    BY <2>2, <2>3, Zenon
<1>3. CASE cmd # 0
  <2>1. /\ words \in Seq(Word) /\ words # <<>> /\ e \in Seq(Option) /\ e # NoFields
        /\ WellFormed(text) <=> GoodOptions(e, words)
    BY <1>3, GoodLine, Zenon
  <2>2. (a.ok <=> GoodOptions(e, words)) /\ (a.ok /\ u => Cell)
    <3> HIDE DEF e, words, cmd
    <3> QED
      BY <2>1, Parsed
  <2>3. r = Outcome(cmd, a)
    BY <1>1, <1>3, <2>1, Zenon
  <2> HIDE DEF a, r, cmd
  <2>4. r.cmd = (IF a.ok THEN cmd ELSE 0) /\ r.store = a.store
    <3>1. Outcome(cmd, a).cmd = (IF a.ok THEN cmd ELSE 0) /\ Outcome(cmd, a).store = a.store
      BY DEF Outcome
    <3> QED
      BY <2>3, <3>1, Zenon
  <2>5. r.cmd # 0 <=> a.ok
    BY <1>3, <2>4, Zenon
  <2>6. r.cmd # 0 => r.cmd = cmd
    BY <2>4, Zenon
  <2>7. r.cmd # 0 /\ u => \A cell \in Cells :
                 r.store[cell] = ValueAt(e, words, vals, cell, Len(words) + 1)
    BY <2>2, <2>4, <2>5, Zenon
  <2> QED
    BY <2>1, <2>2, <2>5, <2>6, <2>7, Zenon DEF r, cmd
<1> QED
  BY <1>2, <1>3

(* The first of an option's values is the word behind it.                  *)
LEMMA FirstValue ==
  ASSUME NEW words \in Seq(Word), NEW i \in OptionPlaces(words), Len(ValuesAt(words, i)) > 0
  PROVE  /\ ValuesAt(words, i) \in Seq(Word) /\ ValuesAt(words, i) # <<>>
         /\ ValuesAt(words, i)[1] = words[i + 1]
<1> DEFINE v == ValuesAt(words, i)
<1>1. PICK m : Span(words, i, m) /\ v = SubSeq(words, i + 1, m)
  BY SpanOf
<1>2. Len(words) \in Nat /\ i \in 2 .. Len(words) /\ m \in i .. Len(words)
  BY <1>1, LenProperties, PlaceAfter DEF Span
<1>3. i < Len(words)
  <2> SUFFICES ASSUME ~(i < Len(words)) PROVE FALSE
    OBVIOUS
  <2>1. m = i
    BY <1>2
  <2>2. v = <<>>
    BY <1>1, <1>2, <2>1, SubSeqEmpty
  <2>3. Len(<<>>) = 0
    OBVIOUS
  <2> QED
    BY <2>2, <2>3
<1> HIDE DEF v
<1>4. /\ SubSeq(words, i + 1, m) \in Seq(Word) /\ Len(SubSeq(words, i + 1, m)) = m - i
      /\ \A k \in 1 .. m - i : SubSeq(words, i + 1, m)[k] = words[i + k]
      /\ m - i \in 1 .. Len(words) - i
  BY <1>1, <1>3, SpanBounds
<1>5. 1 \in 1 .. m - i
  BY <1>2, <1>4
<1>6. v \in Seq(Word) /\ v[1] = words[i + 1] /\ Len(v) # 0
  BY <1>1, <1>2, <1>4, <1>5
<1>7. v # <<>>
  BY <1>6, EmptySeq
<1> QED
  BY <1>6, <1>7 DEF v

LEMMA LatestIn ==
  ASSUME NEW n \in Nat, NEW S, S \subseteq 0 .. n, S # {}
  PROVE  Latest(S) \in S
<1> DEFINE T == {n - i : i \in S}
<1>1. T \subseteq Nat /\ T # {}
  OBVIOUS
<1>2. PICK t \in T : \A x \in T : t <= x
  <2> HIDE DEF T
  <2> QED
    BY <1>1, Words!Smallest
<1>3. PICK i \in S : t = n - i
  OBVIOUS
<1>4. ASSUME NEW j \in S PROVE j <= i
  <2>1. n - j \in T
    OBVIOUS
  <2>2. n - i <= n - j
    BY <1>2, <1>3, <2>1
  <2> QED
    BY <2>2
<1>5. \E k \in S : \A j \in S : j <= k
  BY <1>4
<1> QED
  BY <1>5, Zenon DEF Latest

(* What the parser leaves in a variable is what the line says of it.       *)
LEMMA ValueIsCarried ==
  ASSUME NEW text \in Str, WellFormed(text), NEW vals, NEW cell \in Cells
  PROVE  ValueAt(gta_io_ui_cmd[CommandOf(text)].fields, Tokens(text), vals, cell,
                 Len(Tokens(text)) + 1) = Carried(text, vals)[cell]
<1> DEFINE words == Tokens(text)
           e == gta_io_ui_cmd[CommandOf(text)].fields
           n == Len(words)
           S == Sets(e, words, cell, n + 1)
           E == Effective(words, cell)
           value(i) == ValueMeant(OptionAt(words, i).type, ValuesAt(words, i))
<1>1. CommandOf(text) # 0
  <2>1. words # <<>> /\ Named(gta_io_ui_cmd, words[1]) # 0
    BY Zenon DEF WellFormed
  <2>2. Head(words) = words[1]
    BY <2>1, TokensType
  <2> QED
    BY <2>1, <2>2, Zenon DEF CommandOf
<1>2. /\ words \in Seq(Word) /\ words # <<>> /\ e \in Seq(Option)
      /\ \A i : OptionAt(words, i) = OptionOf(e, words, i)
      /\ GoodOptions(e, words)
  BY <1>1, GoodLine, Zenon
<1>3. Carried(text, vals)[cell] = IF E = {} THEN vals[cell] ELSE value(Latest(E))
  BY Zenon DEF Carried, Latest
<1>4. ValueAt(e, words, vals, cell, n + 1)
        = IF S = {} THEN vals[cell] ELSE AnyOf(MadeAt(e, words, Latest(S)))
  BY Zenon DEF ValueAt
<1> HIDE DEF words, e, value
<1>5. n \in Nat /\ OptionPlaces(words) \subseteq 2 .. n
  BY <1>2, LenProperties DEF OptionPlaces
<1>6. ASSUME NEW i \in OptionPlaces(words)
      PROVE  MadeAt(e, words, i) =
               IF OptionAt(words, i).type = CFT_NUM /\ ~ScanI(words[i + 1]).read
               THEN {} ELSE {value(i)}
  <2> DEFINE v == ValuesAt(words, i)
             type == OptionAt(words, i).type
  <2>1. v \in Seq(Word)
    <3>1. PICK m : Span(words, i, m) /\ v = SubSeq(words, i + 1, m)
      BY <1>2, SpanOf
    <3>2. i + 1 \in Nat /\ 1 <= i + 1 /\ m \in Int /\ m <= n /\ i + 1 <= m + 1
      BY <1>5, <3>1 DEF Span
    <3> QED
      BY <1>2, <1>5, <3>1, <3>2, PartIs
  <2>2. GoodValues(type, v)
    BY <1>2, Zenon DEF GoodOptions, GoodAt
  <2>3. MadeAt(e, words, i) = Made(type, v) /\ value(i) = ValueMeant(type, v)
    BY <1>2, Zenon DEF MadeAt, value
  <2> HIDE DEF v, type
  <2>4. type \in 0 .. 3 /\ Len(v) > 0
    BY <2>1, <2>2, GoodIs
  <2>5. v # <<>> /\ v[1] = words[i + 1]
    BY <1>2, <2>4, FirstValue DEF v
  <2>6. Made(type, v) = IF type = CFT_NUM /\ ~ScanI(v[1]).read THEN {} ELSE {ValueMeant(type, v)}
    BY <2>1, <2>4, <2>5, MadeIs
  <2> QED
    BY <2>3, <2>5, <2>6, Zenon DEF type
<1>7. S = E
  <2>1. ASSUME NEW i \in OptionPlaces(words)
        PROVE  i \in S <=> i \in E
    <3>1. i < n + 1
      BY <1>5
    <3>2. i \in S <=> OptionAt(words, i).cell = cell /\ MadeAt(e, words, i) # {}
      BY <1>2, <3>1, Zenon DEF Sets
    <3>3. i \in E <=> /\ OptionAt(words, i).cell = cell
                      /\ OptionAt(words, i).type = CFT_NUM => ScanI(words[i + 1]).read
      BY Zenon DEF Effective
    <3>4. {value(i)} # {}
      OBVIOUS
    <3>5. MadeAt(e, words, i) # {} <=>
            (OptionAt(words, i).type = CFT_NUM => ScanI(words[i + 1]).read)
      BY <1>6, <3>4, Zenon
    <3> QED
      BY <3>2, <3>3, <3>5, Zenon
  <2>2. S \subseteq OptionPlaces(words) /\ E \subseteq OptionPlaces(words)
    BY Zenon DEF Sets, Effective
  <2> HIDE DEF S, E
  <2> QED
    BY <2>1, <2>2
<1>8. CASE E = {}
  BY <1>3, <1>4, <1>7, <1>8, Zenon DEF words, e
<1>9. CASE E # {}
  <2> DEFINE i == Latest(E)
  <2>1. i \in E
    <3>1. E \subseteq OptionPlaces(words)
      BY Zenon DEF Effective
    <3> HIDE DEF E
    <3>2. E \subseteq 0 .. n
      BY <1>5, <3>1
    <3> QED
      BY <1>5, <1>9, <3>2, LatestIn
  <2> HIDE DEF i
  <2>2. i \in OptionPlaces(words) /\ (OptionAt(words, i).type = CFT_NUM => ScanI(words[i + 1]).read)
    BY <2>1, Zenon DEF Effective
  <2>3. MadeAt(e, words, i) = {value(i)}
    BY <1>6, <2>2, Zenon
  <2>4. AnyOf({value(i)}) = value(i)
    BY DEF AnyOf
  <2>5. ValueAt(e, words, vals, cell, n + 1) = value(i)
    BY <1>4, <1>7, <1>9, <2>3, <2>4, Zenon DEF i
  <2>6. Carried(text, vals)[cell] = value(i)
    BY <1>3, <1>9, Zenon DEF i
  <2> QED
    BY <2>5, <2>6, Zenon DEF words, e
<1> QED
  BY <1>8, <1>9

(* A well-formed line is carried out as it says.                           *)
LEMMA CarriedOut ==
  ASSUME NEW text \in Str, WellFormed(text), NEW vals \in Stores
  PROVE  LET r == decomposite_cp_cmd(text, gta_io_ui_cmd, vals, TRUE)
         IN r.cmd = CommandOf(text) /\ r.cmd \in 1 .. 10 /\ r.store = Carried(text, vals)
<1> DEFINE r == decomposite_cp_cmd(text, gta_io_ui_cmd, vals, TRUE)
           words == Tokens(text)
           e == gta_io_ui_cmd[CommandOf(text)].fields
<1>1. /\ r.cmd # 0 /\ r.cmd = CommandOf(text)
      /\ \A cell \in Cells : r.store[cell] = ValueAt(e, words, vals, cell, Len(words) + 1)
  BY LineIs, Zenon
<1>2. \A cell \in Cells : r.store[cell] = Carried(text, vals)[cell]
  BY <1>1, ValueIsCarried, Zenon
<1>3. r.store \in Stores
  BY CommandType
<1> HIDE DEF r
<1>4. r.store = [cell \in Cells |-> r.store[cell]]
  <2>1. DOMAIN r.store = Cells
    BY <1>3 DEF Stores, Cells, FirstStore
  <2> DEFINE s == r.store
  <2>2. s = [cell \in DOMAIN s |-> s[cell]]
    BY <1>3 DEF Stores
  <2> QED
    BY <2>1, <2>2
<1>5. Carried(text, vals) = [cell \in Cells |-> Carried(text, vals)[cell]]
  <2> DEFINE F(cell) == IF Effective(words, cell) = {} THEN vals[cell]
                        ELSE ValueMeant(OptionAt(words, Latest(Effective(words, cell))).type,
                                        ValuesAt(words, Latest(Effective(words, cell))))
  <2>1. Carried(text, vals) = [cell \in Cells |-> F(cell)]
    BY Zenon DEF Carried, Latest
  <2> HIDE DEF F
  <2> QED
    BY <2>1
<1>6. r.store = Carried(text, vals)
  <2> DEFINE c == Carried(text, vals)
             s == r.store
  <2> HIDE DEF c, s
  <2>1. /\ s = [cell \in Cells |-> s[cell]] /\ c = [cell \in Cells |-> c[cell]]
        /\ \A cell \in Cells : s[cell] = c[cell]
    BY <1>2, <1>4, <1>5 DEF c, s
  <2>2. s = c
    BY <2>1
  <2> QED
    BY <2>2 DEF c, s
<1>7. r.cmd \in 1 .. 10
  BY <1>1, CommandOfIs
<1> QED
  BY <1>1, <1>6, <1>7, Zenon DEF r

(* A line that is not well-formed is refused, and what it leaves behind is *)
(* in the variables of its own command.                                    *)
LEMMA RefusedLine ==
  ASSUME NEW text \in Str, ~WellFormed(text), NEW vals \in Stores
  PROVE  LET r == decomposite_cp_cmd(text, gta_io_ui_cmd, vals, TRUE)
         IN r.cmd = 0 /\ \A cell \in Cells \ OwnCells(text) : r.store[cell] = vals[cell]
<1> DEFINE words == Tokens(text)
           cmd == CommandOf(text)
           e == gta_io_ui_cmd[cmd].fields
           a == update_cmd_int(Tail(words), e, vals, TRUE)
           r == decomposite_cp_cmd(text, gta_io_ui_cmd, vals, TRUE)
<1>1. r.cmd = 0
  BY LineIs
<1>2. r = IF cmd = 0 \/ e = NoFields THEN [cmd |-> 0, store |-> vals] ELSE Outcome(cmd, a)
  <2>1. (IF words = <<>> THEN 0 ELSE Named(gta_io_ui_cmd, Head(words))) = cmd
    BY Zenon DEF CommandOf
  <2> QED
    BY <2>1, Zenon DEF decomposite_cp_cmd, OfWords, AsCommand
<1>3. r.store = vals \/ (cmd # 0 /\ r.store = a.store)
  <2>1. Outcome(cmd, a).store = a.store /\ [cmd |-> 0, store |-> vals].store = vals
    BY DEF Outcome
  <2> QED
    BY <1>2, <2>1, Zenon
<1>4. ASSUME cmd # 0, NEW cell \in Cells \ OwnCells(text) PROVE a.store[cell] = vals[cell]
  <2>1. words \in Seq(Word) /\ words # <<>> /\ e \in Seq(Option)
    BY <1>4, GoodLine, Zenon
  <2>2. FirstWord(words) = Head(words) /\ Tail(words) \in Seq(Word)
    <3> HIDE DEF words, e
    <3> QED
      BY <2>1, Pop DEF FirstWord
  <2>3. cmd = Named(gta_io_ui_cmd, FirstWord(words))
    BY <2>1, <2>2, Zenon DEF CommandOf
  <2>4. cell \notin {f.cell : f \in ToSet(e)}
    BY <1>4, <2>3, Zenon DEF OwnCells
  <2> HIDE DEF e, words, cmd
  <2>5. \A i \in DOMAIN e : e[i].cell # cell
    BY <2>4 DEF ToSet
  <2> QED
    BY <1>4, <2>1, <2>2, <2>5, UpdateOwn
<1> HIDE DEF r, a, cmd
<1>5. \A cell \in Cells \ OwnCells(text) : r.store[cell] = vals[cell]
  BY <1>3, <1>4, Zenon
<1> QED
  BY <1>1, <1>5, Zenon DEF r

LEMMA CommandIs ==
  ASSUME TypeOK, Learns, table # NoTable, TableIsRight \/ ConcernsPlain(line)
  PROVE  decomposite_cp_cmd(line, table, store, FALSE).cmd # 0 <=> WellFormed(line)
<1>1. /\ line \in Str /\ table \in Seq(Entry) /\ Len(table) = 10
      /\ \A k \in 1 .. 10 : table[k].name = gta_io_ui_cmd[k].name
      /\ CommandOf(line) # 0 => Copied(table[CommandOf(line)], gta_io_ui_cmd[CommandOf(line)])
  BY CommandLearned, Zenon
<1>2. decomposite_cp_cmd(line, table, store, FALSE).cmd
        = decomposite_cp_cmd(line, gta_io_ui_cmd, store, FALSE).cmd
  BY <1>1, SameCommand, Zenon DEF Entry
<1>3. store \in Stores
  BY DEF TypeOK
<1>4. decomposite_cp_cmd(line, gta_io_ui_cmd, store, FALSE).cmd # 0 <=> WellFormed(line)
  BY <1>1, <1>3, LineIs
<1> QED
  BY <1>2, <1>4, Zenon

(* The UI passes on every line that is a command by what it says, if that  *)
(* command has no buffer or the UI's table is right: the parser, which     *)
(* goes from word to word and stops where it refuses one, finds the        *)
(* options where OptionPlaces puts them.                                   *)
THEOREM NothingIsRefused == Spec => []NothingRefused
<1>1. Init => TypeOK /\ Learns
  BY InitType DEF Init, Learns
<1>2. TypeOK /\ Learns /\ [Next]_vars => TypeOK' /\ Learns'
  BY NextType, LearnsKept
<1>3. TypeOK /\ Learns => NothingRefused
  BY CommandIs, Zenon DEF NothingRefused, IsCommand
<1> QED
  BY <1>1, <1>2, <1>3, PTL DEF Spec
-----------------------------------------------------------------------------
(* What the device is told is what the variables hold. *)

(* The program's variables are 32 bits, BDM_WRITE_DATA_LEN bytes and       *)
(* LOOPBACK_STRING_DATA_LEN characters wide, the last one a NUL; what is   *)
(* longer is not modelled.                                                 *)
Dwords == 65536 * 65536
Fitting(vals) ==
  /\ vals.br_addr \in Nat /\ vals.br_addr < Dwords
  /\ Len(vals.raw_buff) <= BDM_WRITE_DATA_LEN /\ Len(vals.lbs) < LOOPBACK_STRING_DATA_LEN
ValuesFit == Fitting(store)

LEMMA WholeDword ==
  ASSUME NEW n \in Nat, n < Dwords
  PROVE  (n % 256) + 256 * ((n \div 256) % 256) + 65536 * ((n \div 65536) % 256)
           + 16777216 * ((n \div 16777216) % 256) = n
<1> DEFINE a == n \div 256
           b == n \div 65536
           c == n \div 16777216
<1>1. a \in Nat /\ n = 256 * a + (n % 256) /\ n % 256 \in 0 .. 255
  OBVIOUS
<1>2. b \in Nat /\ a = 256 * b + (a % 256) /\ a % 256 \in 0 .. 255
  OBVIOUS
<1>3. c \in Nat /\ b = 256 * c + (b % 256) /\ b % 256 \in 0 .. 255 /\ c < 256
  BY SMT DEF Dwords
<1>4. c % 256 = c
  BY <1>3
<1> HIDE DEF a, b, c
<1> DEFINE w == n % 256
           x == a % 256
           y == b % 256
<1>5. w + 256 * x + 65536 * y + 16777216 * (c % 256) = n
  <2>1. w \in Int /\ x \in Int /\ y \in Int
    BY <1>1, <1>2, <1>3
  <2>2. n = 256 * a + w /\ a = 256 * b + x /\ b = 256 * c + y /\ c % 256 = c
    BY <1>1, <1>2, <1>3, <1>4
  <2> HIDE DEF w, x, y
  <2> QED
    BY <1>1, <1>2, <1>3, <2>1, <2>2
<1> QED
  BY <1>5 DEF w, x, y, a, b, c

LEMMA DwordWritten ==
  ASSUME NEW b, NEW p \in Nat, NEW n \in Nat, n < Dwords,
         \A i \in 1 .. 4 : ByteAt(b, p + i - 1) = LE4(n)[i]
  PROVE  DwordAt(b, p) = n
<1> DEFINE w == n % 256
           x == (n \div 256) % 256
           y == (n \div 65536) % 256
           z == (n \div 16777216) % 256
           d == LE4(n)
<1>1. d[1] = w /\ d[2] = x /\ d[3] = y /\ d[4] = z
  <2>1. d = <<w, x, y, z>>
    BY DEF LE4
  <2> HIDE DEF d, w, x, y, z
  <2> QED
    BY <2>1
<1>2. w + 256 * x + 65536 * y + 16777216 * z = n
  BY WholeDword
<1> HIDE DEF d, w, x, y, z
<1>3. \A i \in 1 .. 4 : ByteAt(b, p + i - 1) = d[i]
  BY DEF d
<1>4. /\ ByteAt(b, p + 1 - 1) = w /\ ByteAt(b, p + 2 - 1) = x
      /\ ByteAt(b, p + 3 - 1) = y /\ ByteAt(b, p + 4 - 1) = z
  BY <1>1, <1>3
<1>5. /\ ByteAt(b, p) = w /\ ByteAt(b, p + 1) = x
      /\ ByteAt(b, p + 2) = y /\ ByteAt(b, p + 3) = z
  BY <1>4
<1>6. DwordAt(b, p) = w + 256 * x + 65536 * y + 16777216 * z
  BY <1>5 DEF DwordAt
<1> QED
  BY <1>2, <1>6

(* Data that the length in a packet's header tells.                        *)
Short(data) == Len(data) < 65536

LEMMA PacketParts ==
  ASSUME NEW a \in Byte, NEW b \in Byte, NEW data \in Seq(Byte), Short(data)
  PROVE  LET bytes == Packet(a, b, data).bytes
         IN /\ bytes[1] = a /\ bytes[2] = b
            /\ DwordAt(bytes, 3) = Len(data)
            /\ SubSeq(bytes, 7, 6 + Len(data)) = data
<1> DEFINE h == <<a, b>>
           n == Len(data)
           l == LE4(n)
           hl == h \o l
           all == hl \o data
<1>1. n \in Nat
  BY LenProperties
<1>2. h \in Seq(Byte) /\ Len(h) = 2 /\ h[1] = a /\ h[2] = b
  OBVIOUS
<1>3. l \in Seq(Byte) /\ Len(l) = 4
  BY <1>1, LE4Type
<1>4. Packet(a, b, data).bytes = all
  BY PacketType
<1> HIDE DEF h, l
<1>5. /\ hl \in Seq(Byte) /\ Len(hl) = 6
      /\ \A i \in 1 .. 6 : hl[i] = IF i <= 2 THEN h[i] ELSE l[i - 2]
  <2>1. /\ hl \in Seq(Byte) /\ Len(hl) = Len(h) + Len(l)
        /\ \A i \in 1 .. Len(h) + Len(l) : hl[i] = IF i <= Len(h) THEN h[i] ELSE l[i - Len(h)]
    BY <1>2, <1>3, ConcatProperties, Zenon
  <2> HIDE DEF hl
  <2> QED
    BY <1>2, <1>3, <2>1
<1> HIDE DEF hl
<1>6. /\ all \in Seq(Byte) /\ Len(all) = 6 + n
      /\ \A i \in 1 .. 6 + n : all[i] = IF i <= 6 THEN hl[i] ELSE data[i - 6]
  <2>1. /\ all \in Seq(Byte) /\ Len(all) = Len(hl) + Len(data)
        /\ \A i \in 1 .. Len(hl) + Len(data) : all[i] = IF i <= Len(hl) THEN hl[i] ELSE data[i - Len(hl)]
    BY <1>5, ConcatProperties, Zenon
  <2> HIDE DEF all
  <2> QED
    BY <1>5, <2>1
<1> HIDE DEF all
<1>7. \A i \in 1 .. 6 : all[i] = IF i <= 2 THEN h[i] ELSE l[i - 2]
  BY <1>1, <1>5, <1>6
<1>8. all[1] = a /\ all[2] = b
  BY <1>2, <1>7
<1>9. DwordAt(all, 3) = n
  <2>1. ASSUME NEW i \in 1 .. 4 PROVE ByteAt(all, 3 + i - 1) = l[i]
    <3>1. 3 + i - 1 \in 1 .. 6 /\ ~(3 + i - 1 <= 2) /\ (3 + i - 1) - 2 = i /\ 3 + i - 1 <= 6 + n
      BY <1>1
    <3> QED
      BY <1>6, <1>7, <3>1 DEF ByteAt
  <2>2. n < Dwords
    BY <1>1, SMT DEF Dwords, Short
  <2> QED
    BY <1>1, <2>1, <2>2, DwordWritten DEF l
<1>10. SubSeq(all, 7, 6 + n) = data
  <2> DEFINE m == 6 + n
             s == SubSeq(all, 7, m)
  <2>1. m \in Int /\ m <= Len(all) /\ 7 <= m + 1 /\ m - 7 + 1 = n
    BY <1>1, <1>6
  <2> HIDE DEF m
  <2>2. s \in Seq(Byte) /\ Len(s) = m - 7 + 1 /\ \A i \in 1 .. m - 7 + 1 : s[i] = all[7 + i - 1]
    BY <1>6, <2>1, PartIs
  <2> HIDE DEF s
  <2>3. ASSUME NEW i \in 1 .. n PROVE s[i] = data[i]
    <3>1. 7 + i - 1 \in 1 .. 6 + n /\ ~(7 + i - 1 <= 6) /\ (7 + i - 1) - 6 = i
      BY <1>1
    <3> QED
      BY <1>6, <2>1, <2>2, <3>1
  <2>4. s = data
    BY <2>1, <2>2, <2>3, SeqEqual
  <2> QED
    BY <2>4 DEF s, m
<1> QED
  BY <1>4, <1>8, <1>9, <1>10

LEMMA PacketTold ==
  ASSUME NEW a \in Byte, NEW b \in Byte, NEW data \in Seq(Byte), Short(data)
  PROVE  ToldBy(Packet(a, b, data))
           = [act |-> ActNamed(a, b), args |-> ArgsIn(ActNamed(a, b), data)]
<1> DEFINE s == Packet(a, b, data)
<1>1. s.act = "packet"
  BY DEF Packet
<1>2. /\ s.bytes[1] = a /\ s.bytes[2] = b
      /\ SubSeq(s.bytes, 7, 6 + DwordAt(s.bytes, 3)) = data
  <2>1. /\ s.bytes[1] = a /\ s.bytes[2] = b /\ DwordAt(s.bytes, 3) = Len(data)
        /\ SubSeq(s.bytes, 7, 6 + Len(data)) = data
    BY PacketParts
  <2> HIDE DEF s
  <2> QED
    BY <2>1
<1> HIDE DEF s
<1>3. ToldBy(s) = [act |-> ActNamed(a, b), args |-> ArgsIn(ActNamed(a, b), data)]
  BY <1>1, <1>2, Zenon DEF ToldBy
<1> QED
  BY <1>3 DEF s

LEMMA NamedActs ==
  /\ ActNamed(17, 0) = "sign" /\ ActNamed(210, 22) = "break" /\ ActNamed(210, 23) = "go"
  /\ ActNamed(210, 24) = "reset" /\ ActNamed(210, 33) = "write"
  /\ ActNamed(210, 65) = "loopback"
BY DEF ActNamed

LEMMA NothingTold ==
  ASSUME NEW vals, NEW act \in {"sign", "go", "reset", "none"}
  PROVE  [act |-> act, args |-> <<>>] = Told(act, vals) /\ \A data : ArgsIn(act, data) = <<>>
<1>1. Arguments(act) = {}
  BY Zenon DEF Arguments
<1>2. [cell \in {} |-> vals[cell]] = <<>>
  <2> DEFINE e == [cell \in 1 .. 0 |-> vals[cell]]
  <2>1. \A cell \in 1 .. 0 : vals[cell] \in Nat
    OBVIOUS
  <2>2. e \in Seq(Nat) /\ Len(e) = 0
    BY <2>1, IsASeq
  <2>3. e = [cell \in {} |-> vals[cell]]
    OBVIOUS
  <2> HIDE DEF e
  <2> QED
    BY <2>2, <2>3, EmptySeq
<1>3. Told(act, vals) = [act |-> act, args |-> <<>>]
  BY <1>1, <1>2, Zenon DEF Told
<1>4. \A data : ArgsIn(act, data) = <<>>
  BY Zenon DEF ArgsIn
<1> QED
  BY <1>3, <1>4

LEMMA OneTold ==
  ASSUME NEW vals
  PROVE  /\ Told("break", vals) = [act |-> "break", args |-> [br_addr |-> vals.br_addr]]
         /\ Told("write", vals) = [act |-> "write", args |-> [raw_buff |-> vals.raw_buff]]
         /\ Told("loopback", vals) = [act |-> "loopback", args |-> [lbs |-> vals.lbs]]
         /\ Told("fwrite", vals) = [act |-> "fwrite", args |-> [fin |-> vals.fin]]
         /\ Told("fread", vals) = [act |-> "fread", args |-> [fin |-> vals.fin, fout |-> vals.fout]]
<1>1. /\ Arguments("break") = {"br_addr"} /\ Arguments("write") = {"raw_buff"}
      /\ Arguments("loopback") = {"lbs"} /\ Arguments("fwrite") = {"fin"}
      /\ Arguments("fread") = {"fin", "fout"}
  BY Zenon DEF Arguments
<1>2. /\ [cell \in {"br_addr"} |-> vals[cell]] = [br_addr |-> vals.br_addr]
      /\ [cell \in {"raw_buff"} |-> vals[cell]] = [raw_buff |-> vals.raw_buff]
      /\ [cell \in {"lbs"} |-> vals[cell]] = [lbs |-> vals.lbs]
      /\ [cell \in {"fin"} |-> vals[cell]] = [fin |-> vals.fin]
      /\ [cell \in {"fin", "fout"} |-> vals[cell]] = [fin |-> vals.fin, fout |-> vals.fout]
  OBVIOUS
<1> QED
  BY <1>1, <1>2, Zenon DEF Told

(* What is written behind the two dwords of a packet that writes.          *)
LEMMA WriteRead ==
  ASSUME NEW raw \in Seq(Byte), Len(raw) <= BDM_WRITE_DATA_LEN
  PROVE  LET data == (LE4(0) \o LE4(0)) \o raw
         IN data \in Seq(Byte) /\ Short(data) /\ SubSeq(data, 9, Len(data)) = raw
<1> DEFINE h == LE4(0) \o LE4(0)
           n == Len(raw)
           data == h \o raw
           s == SubSeq(data, 9, Len(data))
<1>1. LE4(0) \in Seq(Byte) /\ Len(LE4(0)) = 4
  BY LE4Type
<1>2. h \in Seq(Byte) /\ Len(h) = 8
  <2> DEFINE l == LE4(0)
  <2>1. l \in Seq(Byte) /\ Len(l) = 4
    BY <1>1
  <2> DEFINE ll == l \o l
  <2> HIDE DEF l
  <2>2. ll \in Seq(Byte) /\ Len(ll) = Len(l) + Len(l)
    BY <2>1, ConcatProperties, Zenon
  <2> HIDE DEF ll
  <2>3. ll \in Seq(Byte) /\ Len(ll) = 8
    BY <2>1, <2>2
  <2> QED
    BY <2>3, Zenon DEF ll, l
<1>3. n \in Nat /\ n <= 4096
  BY LenProperties DEF BDM_WRITE_DATA_LEN
<1> HIDE DEF h
<1>4. /\ data \in Seq(Byte) /\ Len(data) = 8 + n
      /\ \A i \in 1 .. 8 + n : data[i] = IF i <= 8 THEN h[i] ELSE raw[i - 8]
  <2>1. /\ data \in Seq(Byte) /\ Len(data) = Len(h) + Len(raw)
        /\ \A i \in 1 .. Len(h) + Len(raw) : data[i] = IF i <= Len(h) THEN h[i] ELSE raw[i - Len(h)]
    BY <1>2, ConcatProperties, Zenon
  <2> HIDE DEF data
  <2> QED
    BY <1>2, <2>1
<1> HIDE DEF data, n
<1>5. Short(data)
  BY <1>3, <1>4 DEF Short
<1>6. s \in Seq(Byte) /\ Len(s) = n /\ \A i \in 1 .. n : s[i] = data[9 + i - 1]
  <2> DEFINE m == Len(data)
  <2>1. m \in Int /\ m <= Len(data) /\ 9 <= m + 1 /\ m - 9 + 1 = n
    BY <1>3, <1>4
  <2> HIDE DEF m
  <2>2. /\ SubSeq(data, 9, m) \in Seq(Byte) /\ Len(SubSeq(data, 9, m)) = m - 9 + 1
        /\ \A i \in 1 .. m - 9 + 1 : SubSeq(data, 9, m)[i] = data[9 + i - 1]
    BY <1>4, <2>1, PartIs
  <2> QED
    BY <2>1, <2>2 DEF m
<1> HIDE DEF s
<1>7. ASSUME NEW i \in 1 .. n PROVE s[i] = raw[i]
  <2>1. 9 + i - 1 \in 1 .. 8 + n /\ ~(9 + i - 1 <= 8) /\ (9 + i - 1) - 8 = i
    BY <1>3
  <2> QED
    BY <1>4, <1>6, <2>1
<1>8. s = raw
  BY <1>6, <1>7, SeqEqual DEF n
<1> QED
  BY <1>4, <1>5, <1>8 DEF s, data, h

(* A text comes back as its characters.                                    *)
LEMMA TextRead ==
  ASSUME NEW text \in Str, Len(text) < LOOPBACK_STRING_DATA_LEN
  PROVE  LET data == Wide(text) \o <<0, 0>>
         IN /\ data \in Seq(Byte) /\ Short(data)
            /\ [i \in 1 .. Len(data) \div 2 - 1 |-> CharOf[data[2 * i - 1]]] = text
<1> DEFINE w == Wide(text)
           n == Len(text)
           z == <<0, 0>>
           data == w \o z
<1>1. n \in Nat /\ n < 128 /\ text \in Seq(Alphabet)
  BY LenProperties DEF LOOPBACK_STRING_DATA_LEN, Str
<1>2. /\ w \in Seq(Byte) /\ Len(w) = 2 * n /\ \A i \in 1 .. n : w[2 * i - 1] = Code[text[i]]
  BY WideType
<1>3. z \in Seq(Byte) /\ Len(z) = 2
  <2>1. 0 \in Byte
    BY ByteIs
  <2> QED
    BY <2>1
<1> HIDE DEF w, z
<1>4. /\ data \in Seq(Byte) /\ Len(data) = 2 * n + 2
      /\ \A i \in 1 .. 2 * n + 2 : data[i] = IF i <= 2 * n THEN w[i] ELSE z[i - 2 * n]
  <2>1. /\ data \in Seq(Byte) /\ Len(data) = Len(w) + Len(z)
        /\ \A i \in 1 .. Len(w) + Len(z) : data[i] = IF i <= Len(w) THEN w[i] ELSE z[i - Len(w)]
    BY <1>2, <1>3, ConcatProperties, Zenon
  <2> HIDE DEF data
  <2> QED
    BY <1>1, <1>2, <1>3, <2>1
<1> HIDE DEF data
<1>5. Short(data)
  BY <1>1, <1>4 DEF Short
<1>6. Len(data) \div 2 - 1 = n
  BY <1>1, <1>4
<1>7. ASSUME NEW i \in 1 .. n PROVE CharOf[data[2 * i - 1]] = text[i]
  <2>1. 2 * i - 1 \in 1 .. 2 * n + 2 /\ 2 * i - 1 <= 2 * n
    BY <1>1
  <2>2. data[2 * i - 1] = Code[text[i]]
    BY <1>2, <1>4, <2>1
  <2>3. text[i] \in Alphabet
    BY <1>1, ElementOfSeq
  <2> QED
    BY <2>2, <2>3, CodeAssumption
<1>8. [i \in 1 .. n |-> CharOf[data[2 * i - 1]]] = text
  <2>1. text = [i \in 1 .. n |-> text[i]]
    BY <1>1
  <2> DEFINE F(i) == CharOf[data[2 * i - 1]]
  <2>2. \A i \in 1 .. n : F(i) = text[i]
    BY <1>7
  <2> HIDE DEF F
  <2>3. [i \in 1 .. n |-> F(i)] = text
    BY <2>1, <2>2
  <2> QED
    BY <2>3 DEF F
<1> QED
  BY <1>4, <1>5, <1>6, <1>8 DEF data, w, z

(* s is the packet of a and b with the data that say act and x.            *)
Says(s, a, b, data, act, x) ==
  /\ a \in Byte /\ b \in Byte /\ data \in Seq(Byte) /\ Short(data)
  /\ s = Packet(a, b, data) /\ ActNamed(a, b) = act /\ ArgsIn(act, data) = x

LEMMA ToldIs ==
  ASSUME NEW s, NEW a, NEW b, NEW data, NEW act, NEW x, Says(s, a, b, data, act, x)
  PROVE  ToldBy(s) = [act |-> act, args |-> x]
<1>0. /\ a \in Byte /\ b \in Byte /\ data \in Seq(Byte) /\ Short(data)
      /\ s = Packet(a, b, data) /\ ActNamed(a, b) = act /\ ArgsIn(act, data) = x
  BY Zenon DEF Says
<1> DEFINE p == Packet(a, b, data)
           n == ActNamed(a, b)
<1>1. ToldBy(p) = [act |-> n, args |-> ArgsIn(n, data)]
  BY <1>0, PacketTold, Zenon
<1>2. s = p /\ n = act
  BY <1>0, Zenon
<1> HIDE DEF p, n
<1> QED
  BY <1>0, <1>1, <1>2, Zenon

(* The packets of the commands tell what the variables hold.               *)
LEMMA PacketsTold ==
  ASSUME NEW vals \in Stores, Fitting(vals)
  PROVE  /\ ToldBy(cmd_io_sign(vals)) = Told("sign", vals)
         /\ ToldBy(cmd_io_bdm_break(vals)) = Told("break", vals)
         /\ ToldBy(cmd_io_bdm_go(vals)) = Told("go", vals)
         /\ ToldBy(cmd_io_bdm_reset(vals)) = Told("reset", vals)
         /\ ToldBy(cmd_io_bdm_write_mem(vals)) = Told("write", vals)
         /\ ToldBy(cmd_io_loopback(vals)) = Told("loopback", vals)
<1>0. /\ 0 \in Byte /\ 17 \in Byte /\ 22 \in Byte /\ 23 \in Byte /\ 24 \in Byte
      /\ 33 \in Byte /\ 65 \in Byte /\ 210 \in Byte
  BY ByteIs
<1>1. vals.raw_buff \in Seq(Byte) /\ vals.lbs \in Str
  BY DEF Stores
<1>2. <<>> \in Seq(Byte) /\ Short(<<>>)
  <2>1. Len(<<>>) = 0 /\ 0 < 65536
    BY SMT
  <2> QED
    BY <2>1, EmptySeq, SMT DEF Short
<1>3. ToldBy(cmd_io_sign(vals)) = Told("sign", vals)
  <2> DEFINE a == 17
             b == 0
             s == cmd_io_sign(vals)
  <2>1. a \in Byte /\ b \in Byte /\ ActNamed(a, b) = "sign"
    BY <1>0, NamedActs
  <2>2. s = Packet(a, b, <<>>)
    BY Zenon DEF cmd_io_sign
  <2>3. ArgsIn("sign", <<>>) = <<>> /\ [act |-> "sign", args |-> <<>>] = Told("sign", vals)
    BY NothingTold, Zenon
  <2> HIDE DEF a, b, s
  <2>4. ToldBy(s) = [act |-> "sign", args |-> <<>>]
    <3>1. Says(s, a, b, <<>>, "sign", <<>>)
      BY <1>2, <2>1, <2>2, <2>3, Zenon DEF Says
    <3> QED
      BY <3>1, ToldIs, Zenon
  <2> QED
    BY <2>3, <2>4, Zenon DEF s
<1>4. ToldBy(cmd_io_bdm_go(vals)) = Told("go", vals)
  <2> DEFINE a == 210
             b == 23
             s == cmd_io_bdm_go(vals)
  <2>1. a \in Byte /\ b \in Byte /\ ActNamed(a, b) = "go"
    BY <1>0, NamedActs
  <2>2. s = Packet(a, b, <<>>)
    BY Zenon DEF cmd_io_bdm_go
  <2>3. ArgsIn("go", <<>>) = <<>> /\ [act |-> "go", args |-> <<>>] = Told("go", vals)
    BY NothingTold, Zenon
  <2> HIDE DEF a, b, s
  <2>4. ToldBy(s) = [act |-> "go", args |-> <<>>]
    <3>1. Says(s, a, b, <<>>, "go", <<>>)
      BY <1>2, <2>1, <2>2, <2>3, Zenon DEF Says
    <3> QED
      BY <3>1, ToldIs, Zenon
  <2> QED
    BY <2>3, <2>4, Zenon DEF s
<1>5. ToldBy(cmd_io_bdm_reset(vals)) = Told("reset", vals)
  <2> DEFINE a == 210
             b == 24
             s == cmd_io_bdm_reset(vals)
  <2>1. a \in Byte /\ b \in Byte /\ ActNamed(a, b) = "reset"
    BY <1>0, NamedActs
  <2>2. s = Packet(a, b, <<>>)
    BY Zenon DEF cmd_io_bdm_reset
  <2>3. ArgsIn("reset", <<>>) = <<>> /\ [act |-> "reset", args |-> <<>>] = Told("reset", vals)
    BY NothingTold, Zenon
  <2> HIDE DEF a, b, s
  <2>4. ToldBy(s) = [act |-> "reset", args |-> <<>>]
    <3>1. Says(s, a, b, <<>>, "reset", <<>>)
      BY <1>2, <2>1, <2>2, <2>3, Zenon DEF Says
    <3> QED
      BY <3>1, ToldIs, Zenon
  <2> QED
    BY <2>3, <2>4, Zenon DEF s
<1>6. ToldBy(cmd_io_bdm_break(vals)) = Told("break", vals)
  <2> DEFINE b == 22
             mark == 210
             s == cmd_io_bdm_break(vals)
             n == vals.br_addr
             data == LE4(n)
  <2>1. n \in Nat /\ n < Dwords /\ n \in Int
    BY DEF Fitting, Stores
  <2> HIDE DEF n
  <2>2. data \in Seq(Byte) /\ Len(data) = 4
    BY <2>1, LE4Type
  <2>3. DwordAt(data, 1) = n
    <3>1. \A i \in 1 .. 4 : ByteAt(data, 1 + i - 1) = data[i]
      <4> HIDE DEF data
      <4> QED
        BY <2>2 DEF ByteAt
    <3> QED
      BY <2>1, <3>1, DwordWritten
  <2> HIDE DEF data
  <2>4. Short(data)
    BY <2>2, SMT DEF Short
  <2>5. mark \in Byte /\ b \in Byte /\ ActNamed(mark, b) = "break"
    BY <1>0, NamedActs
  <2>6. s = Packet(mark, b, data)
    BY Zenon DEF cmd_io_bdm_break, data, n
  <2> DEFINE x == [br_addr |-> n]
  <2>7. ArgsIn("break", data) = x
    BY <2>3, Zenon DEF ArgsIn
  <2>8. Told("break", vals) = [act |-> "break", args |-> x]
    BY OneTold, Zenon DEF n
  <2> HIDE DEF mark, b, s, x
  <2>9. ToldBy(s) = [act |-> "break", args |-> x]
    <3>1. Says(s, mark, b, data, "break", x)
      BY <2>2, <2>5, <2>6, <2>7, <2>4, Zenon DEF Says
    <3> QED
      BY <3>1, ToldIs, Zenon
  <2> QED
    BY <2>8, <2>9, Zenon DEF s
<1>7. ToldBy(cmd_io_bdm_write_mem(vals)) = Told("write", vals)
  <2> DEFINE b == 33
             mark == 210
             s == cmd_io_bdm_write_mem(vals)
             raw == vals.raw_buff
             data == (LE4(0) \o LE4(0)) \o raw
  <2>1. raw \in Seq(Byte) /\ Len(raw) <= BDM_WRITE_DATA_LEN
    BY <1>1, Zenon DEF Fitting
  <2> HIDE DEF raw
  <2>2. data \in Seq(Byte) /\ Short(data) /\ SubSeq(data, 9, Len(data)) = raw
    BY <2>1, WriteRead, Zenon
  <2> HIDE DEF data
  <2>3. mark \in Byte /\ b \in Byte /\ ActNamed(mark, b) = "write"
    BY <1>0, NamedActs
  <2>4. s = Packet(mark, b, data)
    BY Zenon DEF cmd_io_bdm_write_mem, data, raw
  <2> DEFINE x == [raw_buff |-> raw]
  <2>5. ArgsIn("write", data) = x
    BY <2>2, Zenon DEF ArgsIn
  <2>6. Told("write", vals) = [act |-> "write", args |-> x]
    BY OneTold, Zenon DEF raw
  <2> HIDE DEF mark, b, s, x
  <2>7. ToldBy(s) = [act |-> "write", args |-> x]
    <3>1. Says(s, mark, b, data, "write", x)
      BY <2>2, <2>3, <2>4, <2>5, Zenon DEF Says
    <3> QED
      BY <3>1, ToldIs, Zenon
  <2> QED
    BY <2>6, <2>7, Zenon DEF s
<1>8. ToldBy(cmd_io_loopback(vals)) = Told("loopback", vals)
  <2> DEFINE b == 65
             mark == 210
             s == cmd_io_loopback(vals)
             text == vals.lbs
             data == Wide(text) \o <<0, 0>>
             back == [i \in 1 .. Len(data) \div 2 - 1 |-> CharOf[data[2 * i - 1]]]
  <2>1. text \in Str /\ Len(text) < LOOPBACK_STRING_DATA_LEN
    BY <1>1, Zenon DEF Fitting
  <2> HIDE DEF text
  <2>2. data \in Seq(Byte) /\ Short(data) /\ back = text
    BY <2>1, TextRead, Zenon
  <2> HIDE DEF data, back
  <2>3. mark \in Byte /\ b \in Byte /\ ActNamed(mark, b) = "loopback"
    BY <1>0, NamedActs
  <2>4. s = Packet(mark, b, data)
    BY Zenon DEF cmd_io_loopback, data, text
  <2> DEFINE x == [lbs |-> text]
  <2>5. ArgsIn("loopback", data) = x
    BY <2>2, Zenon DEF ArgsIn, back
  <2>6. Told("loopback", vals) = [act |-> "loopback", args |-> x]
    BY OneTold, Zenon DEF text
  <2> HIDE DEF mark, b, s, x
  <2>7. ToldBy(s) = [act |-> "loopback", args |-> x]
    <3>1. Says(s, mark, b, data, "loopback", x)
      BY <2>2, <2>3, <2>4, <2>5, Zenon DEF Says
    <3> QED
      BY <3>1, ToldIs, Zenon
  <2> QED
    BY <2>6, <2>7, Zenon DEF s
<1> QED
  BY <1>3, <1>4, <1>5, <1>6, <1>7, <1>8
-----------------------------------------------------------------------------
(* CmdMenu, step by step.                                                  *)

LEMMA JobTold ==
  ASSUME NEW act \in {"fwrite", "fread"}, NEW files
  PROVE  ToldBy(Job(act, files)) = [act |-> act, args |-> files]
<1> DEFINE s == Job(act, files)
<1>1. s.act = act /\ s.args = files
  BY DEF Job
<1>2. act # "packet" /\ act # "none"
  OBVIOUS
<1> HIDE DEF s
<1>3. ToldBy(s) = [act |-> act, args |-> files]
  BY <1>1, <1>2, Zenon DEF ToldBy
<1> QED
  BY <1>3 DEF s

LEMMA ActsAre ==
  /\ Acts[1] = "sign" /\ Acts[2] = "break" /\ Acts[3] = "go" /\ Acts[4] = "reset"
  /\ Acts[5] = "none" /\ Acts[6] = "write" /\ Acts[7] = "write" /\ Acts[8] = "fwrite"
  /\ Acts[9] = "fread" /\ Acts[10] = "loopback"
BY DEF Acts

IsTransfer(act) == act \in {"fread", "fwrite"}

(* What the device is told by a command that runs. *)
LEMMA RunTold ==
  ASSUME NEW vals \in Stores, Fitting(vals), NEW c \in 1 .. 10
  PROVE  /\ ToldBy(RunCmd(c, vals)) =
              IF Acts[c] = "none" \/ (IsTransfer(Acts[c]) /\ busy) THEN ToldBy(sent)
              ELSE Told(Acts[c], vals)
         /\ c \in {8, 9} <=> IsTransfer(Acts[c])
<1> DEFINE Same(act) == act = "none" \/ (IsTransfer(act) /\ busy)
           Goal == /\ ToldBy(RunCmd(c, vals)) =
                        IF Same(Acts[c]) THEN ToldBy(sent) ELSE Told(Acts[c], vals)
                   /\ c \in {8, 9} <=> IsTransfer(Acts[c])
<1>0. /\ ~Same("sign") /\ ~Same("break") /\ ~Same("go") /\ ~Same("reset") /\ Same("none")
      /\ ~Same("write") /\ ~Same("loopback") /\ (Same("fwrite") <=> busy)
      /\ (Same("fread") <=> busy)
      /\ ~IsTransfer("sign") /\ ~IsTransfer("break") /\ ~IsTransfer("go")
      /\ ~IsTransfer("reset") /\ ~IsTransfer("none") /\ ~IsTransfer("write")
      /\ ~IsTransfer("loopback") /\ IsTransfer("fwrite") /\ IsTransfer("fread")
  BY Zenon DEF IsTransfer
<1>1. /\ RunCmd(1, vals) = cmd_io_sign(vals) /\ RunCmd(2, vals) = cmd_io_bdm_break(vals)
      /\ RunCmd(3, vals) = cmd_io_bdm_go(vals) /\ RunCmd(4, vals) = cmd_io_bdm_reset(vals)
      /\ RunCmd(5, vals) = sent /\ RunCmd(6, vals) = cmd_io_bdm_write_mem(vals)
      /\ RunCmd(7, vals) = cmd_io_bdm_write_mem(vals)
      /\ RunCmd(8, vals) = IF busy THEN sent ELSE cmd_io_bdm_fwrite_region(vals)
      /\ RunCmd(9, vals) = IF busy THEN sent ELSE cmd_io_bdm_fread_region(vals)
      /\ RunCmd(10, vals) = cmd_io_loopback(vals)
  BY DEF RunCmd
<1>2. /\ ToldBy(cmd_io_bdm_fwrite_region(vals)) = Told("fwrite", vals)
      /\ ToldBy(cmd_io_bdm_fread_region(vals)) = Told("fread", vals)
  <2> DEFINE in == [fin |-> vals.fin]
             out == [fin |-> vals.fin, fout |-> vals.fout]
  <2>1. /\ Told("fwrite", vals) = [act |-> "fwrite", args |-> in]
        /\ Told("fread", vals) = [act |-> "fread", args |-> out]
    BY OneTold, Zenon
  <2>2. /\ cmd_io_bdm_fwrite_region(vals) = Job("fwrite", in)
        /\ cmd_io_bdm_fread_region(vals) = Job("fread", out)
    BY Zenon DEF cmd_io_bdm_fwrite_region, cmd_io_bdm_fread_region
  <2> HIDE DEF in, out
  <2>3. ToldBy(Job("fwrite", in)) = [act |-> "fwrite", args |-> in]
    BY JobTold
  <2>4. ToldBy(Job("fread", out)) = [act |-> "fread", args |-> out]
    BY JobTold
  <2> QED
    BY <2>1, <2>2, <2>3, <2>4, Zenon
<1>3. /\ ToldBy(RunCmd(1, vals)) = Told("sign", vals)
      /\ ToldBy(RunCmd(2, vals)) = Told("break", vals)
      /\ ToldBy(RunCmd(3, vals)) = Told("go", vals)
      /\ ToldBy(RunCmd(4, vals)) = Told("reset", vals)
      /\ ToldBy(RunCmd(5, vals)) = ToldBy(sent)
      /\ ToldBy(RunCmd(6, vals)) = Told("write", vals)
      /\ ToldBy(RunCmd(7, vals)) = Told("write", vals)
      /\ ToldBy(RunCmd(8, vals)) = IF busy THEN ToldBy(sent) ELSE Told("fwrite", vals)
      /\ ToldBy(RunCmd(9, vals)) = IF busy THEN ToldBy(sent) ELSE Told("fread", vals)
      /\ ToldBy(RunCmd(10, vals)) = Told("loopback", vals)
  BY <1>1, <1>2, PacketsTold, Zenon
<1> HIDE DEF Same
<1>a. ASSUME c = 1 PROVE Goal
  BY <1>a, <1>0, <1>3, ActsAre
<1>b. ASSUME c = 2 PROVE Goal
  BY <1>b, <1>0, <1>3, ActsAre
<1>c. ASSUME c = 3 PROVE Goal
  BY <1>c, <1>0, <1>3, ActsAre
<1>d. ASSUME c = 4 PROVE Goal
  BY <1>d, <1>0, <1>3, ActsAre
<1>e. ASSUME c = 5 PROVE Goal
  BY <1>e, <1>0, <1>3, ActsAre
<1>f. ASSUME c = 6 PROVE Goal
  BY <1>f, <1>0, <1>3, ActsAre
<1>g. ASSUME c = 7 PROVE Goal
  BY <1>g, <1>0, <1>3, ActsAre
<1>h. ASSUME c = 8 PROVE Goal
  BY <1>h, <1>0, <1>3, ActsAre
<1>i. ASSUME c = 9 PROVE Goal
  BY <1>i, <1>0, <1>3, ActsAre
<1>j. ASSUME c = 10 PROVE Goal
  BY <1>j, <1>0, <1>3, ActsAre
<1>4. Goal
  <2>1. c = 1 \/ c = 2 \/ c = 3 \/ c = 4 \/ c = 5 \/ c = 6 \/ c = 7 \/ c = 8 \/ c = 9 \/ c = 10
    OBVIOUS
  <2> HIDE DEF Goal
  <2> QED
    BY <1>a, <1>b, <1>c, <1>d, <1>e, <1>f, <1>g, <1>h, <1>i, <1>j, <2>1, Zenon
<1> QED
  BY <1>4, Zenon DEF Goal, Same
-----------------------------------------------------------------------------
(* The lines that wait are well-formed, or about a command with a buffer.  *)
MenuLines == {text \in Str : WellFormed(text) \/ Unchecked(text)}

LEMMA EnteredIs ==
  ASSUME TypeOK, Learns, IsCommand
  PROVE  line \in MenuLines
<1>1. line \in Str /\ table # NoTable
  BY DEF TypeOK, IsCommand
<1>2. ConcernsPlain(line) => WellFormed(line)
  BY <1>1, CommandIs, Zenon DEF IsCommand
<1> QED
  BY <1>1, <1>2 DEF MenuLines, Unchecked

LEMMA OneMoreLine ==
  ASSUME NEW G, NEW q \in Seq(G), NEW x \in G
  PROVE  LET p == Append(q, x)
         IN Len(p) = Len(q) + 1 /\ M!IsPrefix(q, p) /\ p[Len(p)] = x
<1> DEFINE p == Append(q, x)
           n == Len(q)
<1>1. /\ p \in Seq(G) /\ Len(p) = n + 1 /\ n \in Nat
      /\ p[n + 1] = x /\ \A i \in 1 .. n : p[i] = q[i]
  BY AppendProperties, LenProperties
<1> HIDE DEF p
<1> DEFINE a == SubSeq(p, 1, n)
           b == SubSeq(q, 1, n)
<1>2. n \in Int /\ 1 <= n + 1 /\ n <= Len(p) /\ n - 1 + 1 = n /\ n <= Len(q)
  BY <1>1
<1>3. a \in Seq(G) /\ Len(a) = n - 1 + 1 /\ \A i \in 1 .. n - 1 + 1 : a[i] = p[1 + i - 1]
  <2> HIDE DEF n
  <2> QED
    BY <1>1, <1>2, PartIs
<1>4. b \in Seq(G) /\ Len(b) = n - 1 + 1 /\ \A i \in 1 .. n - 1 + 1 : b[i] = q[1 + i - 1]
  <2>1. n <= Len(q)
    BY <1>2
  <2> HIDE DEF n
  <2> QED
    BY <1>1, <1>2, <2>1, PartIs
<1> HIDE DEF a, b
<1>5. \A i \in 1 .. n : a[i] = b[i]
  BY <1>1, <1>2, <1>3, <1>4
<1>6. a = b
  BY <1>2, <1>3, <1>4, <1>5, SeqEqual
<1>7. M!IsPrefix(q, p)
  BY <1>2, <1>6 DEF M!IsPrefix, a, b
<1> QED
  BY <1>1, <1>7 DEF p

(* A line that the UI passes on. *)
LEMMA MenuEnters ==
  ASSUME TypeOK, LinesIn(MenuLines), Learns, EnterCommand
  PROVE  M!Enter \/ UNCHANGED M!menuVars
<1> DEFINE G == MenuLines
           x == line
           w == rd \o up_q
<1>0. /\ rd \in Seq(G) /\ up_q \in Seq(G) /\ (rd = <<>> => up_q = <<>>) /\ w \in Seq(G)
  BY ConcatProperties, Zenon DEF LinesIn, TypeOK
<1>1. x \in G
  BY EnteredIs DEF EnterCommand
<1>2. UNCHANGED <<store, sent, busy>>
  BY DEF EnterCommand
<1>3. CASE ~conn
  <2>1. UNCHANGED <<rd, up_q>>
    BY <1>3 DEF EnterCommand
  <2> QED
    BY <1>2, <2>1 DEF M!menuVars
<1>4. CASE conn
  <2>1. rd' \o up_q' = Append(w, x)
    <3>1. IF rd = <<>> THEN rd' = <<x>> /\ UNCHANGED up_q
                       ELSE up_q' = Append(up_q, x) /\ UNCHANGED rd
      BY <1>4, Zenon DEF EnterCommand
    <3> HIDE DEF x, G
    <3>2. CASE rd = <<>>
      BY <1>0, <1>1, <3>1, <3>2
    <3>3. CASE rd # <<>>
      BY <1>0, <1>1, <3>1, <3>3
    <3> QED
      BY <3>2, <3>3
  <2> DEFINE p == Append(w, x)
  <2>2. Len(p) = Len(w) + 1 /\ M!IsPrefix(w, p) /\ p[Len(p)] = x
    <3> HIDE DEF w, x, G
    <3> QED
      BY <1>0, <1>1, OneMoreLine, Zenon
  <2>3. WellFormed(x) \/ Unchecked(x)
    BY <1>1 DEF MenuLines
  <2>4. WellFormed(p[Len(p)]) \/ Unchecked(p[Len(p)])
    BY <2>2, <2>3, Zenon
  <2> HIDE DEF p, x
  <2>5. rd' \o up_q' = p /\ ToldBy(sent)' = ToldBy(sent)
    BY <1>2, <2>1, Zenon DEF p, ToldBy
  <2> HIDE DEF w
  <2> QED
    BY <1>2, <2>2, <2>4, <2>5, Zenon DEF M!Enter, w
<1> QED
  BY <1>3, <1>4

(* The IO process goes on to the first of the lines that wait behind. *)
LEMMA QueueMoves ==
  ASSUME TypeOK, LinesIn(MenuLines), IoHandles
  PROVE  LET w == rd \o up_q
         IN /\ rd[1] \in MenuLines /\ Head(rd) = rd[1]
            /\ w # <<>> /\ Head(w) = rd[1]
            /\ rd' \o up_q' = IF Len(w) > 1 THEN <<w[2]>> ELSE <<>>
<1> DEFINE G == MenuLines
           x == rd[1]
           w == rd \o up_q
<1>0. rd \in Seq(G) /\ up_q \in Seq(G) /\ w \in Seq(G) /\ Len(rd) <= 1 /\ rd # <<>>
  BY ConcatProperties, Zenon DEF LinesIn, TypeOK, IoHandles
<1>1. Head(rd) = x /\ x \in G /\ Len(rd) = 1
  <2> HIDE DEF G
  <2>1. /\ Len(rd) \in Nat /\ Len(rd) > 0 /\ Head(rd) = rd[1] /\ Head(rd) \in G
    BY <1>0, Pop, Zenon
  <2> DEFINE n == Len(rd)
  <2>2. n \in Nat /\ n > 0 /\ n <= 1
    BY <1>0, <2>1, Zenon
  <2> HIDE DEF n
  <2>3. n = 1
    BY <2>2
  <2> QED
    BY <2>1, <2>3, Zenon DEF n
<1>2. rd' = FirstString(up_q) /\ up_q' = <<>>
  BY Zenon DEF IoHandles
<1>3. Head(w) = x /\ w # <<>>
  <2> HIDE DEF G
  <2> QED
    BY <1>0, <1>1
<1>4. rd' \o up_q' = IF Len(w) > 1 THEN <<w[2]>> ELSE <<>>
  <2> HIDE DEF G
  <2>1. CASE up_q = <<>>
    <3>1. Len(w) = 1 /\ rd' \o up_q' = <<>>
      BY <1>0, <1>1, <1>2, <2>1 DEF FirstString
    <3> QED
      BY <3>1
  <2>2. CASE up_q # <<>>
    <3> DEFINE y == Head(up_q)
    <3>1. y \in G /\ y = up_q[1] /\ Len(up_q) > 0 /\ Len(up_q) \in Nat
      BY <1>0, <2>2, Pop
    <3>2. Len(w) > 1 /\ w[2] = y
      <4>1. /\ Len(w) = Len(rd) + Len(up_q)
            /\ \A i \in 1 .. Len(rd) + Len(up_q) :
                 w[i] = IF i <= Len(rd) THEN rd[i] ELSE up_q[i - Len(rd)]
        BY <1>0, ConcatProperties, Zenon
      <4> HIDE DEF w, y
      <4>2. 2 \in 1 .. Len(rd) + Len(up_q) /\ ~(2 <= Len(rd)) /\ 2 - Len(rd) = 1
        BY <1>1, <3>1
      <4> QED
        BY <1>1, <3>1, <4>1, <4>2
    <3>3. rd' \o up_q' = <<y>>
      BY <1>2, <2>2, <3>1 DEF FirstString
    <3> QED
      BY <3>2, <3>3
  <2> QED
    BY <2>1, <2>2
<1> QED
  BY <1>1, <1>3, <1>4, Zenon

(* A well-formed line that the IO process carries out. *)
LEMMA MenuCarries ==
  ASSUME TypeOK, LinesIn(MenuLines), IoHandles, store' \in Stores, ValuesFit', WellFormed(rd[1])
  PROVE  M!CarryOut
<1> DEFINE x == rd[1]
           w == rd \o up_q
           r == decomposite_cp_cmd(x, gta_io_ui_cmd, store, TRUE)
           c == CommandOf(x)
           act == ActOf(x)
           transfer == act \in {"fread", "fwrite"}
<1>1. /\ x \in MenuLines /\ Head(rd) = x /\ w # <<>> /\ Head(w) = x
      /\ rd' \o up_q' = IF Len(w) > 1 THEN <<w[2]>> ELSE <<>>
  BY QueueMoves, Zenon
<1>2. x \in Str /\ WellFormed(x) /\ store \in Stores
  BY <1>1 DEF MenuLines, TypeOK
<1>3. /\ store' = r.store /\ sent' = IF r.cmd = 0 THEN sent ELSE RunCmd(r.cmd, r.store)
      /\ busy' = (busy \/ r.cmd \in {8, 9})
  BY <1>1, Zenon DEF IoHandles
<1>4. r.cmd = c /\ c \in 1 .. 10 /\ r.store = Carried(x, store)
  <2> HIDE DEF x
  <2> QED
    BY <1>2, CarriedOut, Zenon
<1>5. act = Acts[c]
  <2>1. Tokens(x) # <<>> /\ Named(gta_io_ui_cmd, Tokens(x)[1]) # 0
    BY <1>2, Zenon DEF WellFormed
  <2>2. Head(Tokens(x)) = Tokens(x)[1]
    BY <2>1, <1>2, TokensType
  <2> QED
    BY <2>1, <2>2, Zenon DEF ActOf, CommandOf
<1> HIDE DEF r, c, act, x
<1>6. store' = Carried(x, store) /\ c # 0
  BY <1>3, <1>4
<1>7. /\ ToldBy(RunCmd(c, store')) =
           IF act = "none" \/ (IsTransfer(act) /\ busy) THEN ToldBy(sent) ELSE Told(act, store')
      /\ c \in {8, 9} <=> IsTransfer(act)
  <2> DEFINE v == store'
  <2>1. v \in Stores /\ Fitting(v)
    BY DEF ValuesFit, Fitting
  <2> HIDE DEF v
  <2>2. /\ ToldBy(RunCmd(c, v)) =
             IF Acts[c] = "none" \/ (IsTransfer(Acts[c]) /\ busy) THEN ToldBy(sent)
             ELSE Told(Acts[c], v)
        /\ c \in {8, 9} <=> IsTransfer(Acts[c])
    BY <1>4, <2>1, RunTold, Zenon
  <2> QED
    BY <1>5, <2>2, Zenon DEF v
<1>8. ToldBy(sent') = IF act = "none" \/ (transfer /\ busy) THEN ToldBy(sent) ELSE Told(act, store')
  BY <1>3, <1>4, <1>6, <1>7, Zenon DEF IsTransfer
<1>9. busy' = (busy \/ transfer)
  BY <1>3, <1>4, <1>7, Zenon DEF IsTransfer
<1>10. ToldBy(sent)' = ToldBy(sent')
  BY Zenon DEF ToldBy
<1> HIDE DEF w
<1> QED
  BY <1>1, <1>2, <1>6, <1>8, <1>9, <1>10, Zenon DEF M!CarryOut, M!FirstIsKept, w, act

(* One that the IO process refuses. *)
LEMMA MenuRefuses ==
  ASSUME TypeOK, LinesIn(MenuLines), IoHandles, ~WellFormed(rd[1])
  PROVE  M!Refuse
<1> DEFINE x == rd[1]
           w == rd \o up_q
           r == decomposite_cp_cmd(x, gta_io_ui_cmd, store, TRUE)
<1>1. /\ x \in MenuLines /\ Head(rd) = x /\ w # <<>> /\ Head(w) = x
      /\ rd' \o up_q' = IF Len(w) > 1 THEN <<w[2]>> ELSE <<>>
  BY QueueMoves, Zenon
<1>2. x \in Str /\ ~WellFormed(x) /\ store \in Stores
  BY <1>1 DEF MenuLines, TypeOK
<1>3. /\ store' = r.store /\ sent' = IF r.cmd = 0 THEN sent ELSE RunCmd(r.cmd, r.store)
      /\ busy' = (busy \/ r.cmd \in {8, 9})
  BY <1>1, Zenon DEF IoHandles
<1> HIDE DEF x
<1>4. r.cmd = 0 /\ \A cell \in Cells \ OwnCells(x) : r.store[cell] = store[cell]
  BY <1>2, RefusedLine, Zenon
<1> HIDE DEF r
<1>5. sent' = sent
  BY <1>3, <1>4, Zenon
<1>6. busy' = busy
  <2>1. r.cmd \notin {8, 9} /\ busy \in BOOLEAN
    BY <1>4 DEF TypeOK
  <2> QED
    BY <1>3, <2>1, Zenon
<1>7. ToldBy(sent)' = ToldBy(sent)
  BY <1>5, Zenon DEF ToldBy
<1>8. \A cell \in Cells \ OwnCells(x) : store'[cell] = store[cell]
  BY <1>3, <1>4, Zenon
<1> HIDE DEF w
<1> QED
  BY <1>1, <1>2, <1>6, <1>7, <1>8, Zenon DEF M!Refuse, M!FirstIsKept, w
-----------------------------------------------------------------------------
LEMMA MenuBegins == Init => M!MenuInit
<1> SUFFICES ASSUME Init PROVE M!MenuInit
  OBVIOUS
<1>1. /\ store = FirstStore /\ rd = <<>> /\ up_q = <<>> /\ busy = FALSE
      /\ sent = [act |-> "none"]
  BY DEF Init
<1>2. rd \o up_q = <<>>
  BY <1>1
<1>3. ToldBy(sent) = [act |-> "none", args |-> <<>>]
  <2>1. sent.act = "none"
    BY <1>1
  <2> QED
    BY <2>1, Zenon DEF ToldBy
<1>4. Told("none", FirstStore) = [act |-> "none", args |-> <<>>]
  BY NothingTold, Zenon
<1> QED
  BY <1>1, <1>2, <1>3, <1>4, Zenon DEF M!MenuInit

LEMMA MenuSteps ==
  ASSUME TypeOK, LinesIn(MenuLines), Learns, [Next]_vars, TypeOK', ValuesFit'
  PROVE  [M!MenuNext]_(M!menuVars)
<1>1. CASE EnterCommand
  BY <1>1, MenuEnters DEF M!MenuNext
<1>2. CASE IoHandles
  <2>1. store' \in Stores
    BY DEF TypeOK
  <2> QED
    BY <1>2, <2>1, MenuCarries, MenuRefuses DEF M!MenuNext
<1>3. CASE JobEnds
  <2>1. busy /\ busy' = FALSE /\ UNCHANGED <<rd, up_q, store, sent>>
    BY <1>3 DEF JobEnds
  <2>2. ToldBy(sent)' = ToldBy(sent) /\ rd' \o up_q' = rd \o up_q
    BY <2>1, Zenon DEF ToldBy
  <2> QED
    BY <2>1, <2>2, Zenon DEF M!MenuNext, M!TransferEnds
<1>4. CASE IoRestarts
  <2>1. /\ store' = FirstStore /\ busy' = FALSE /\ rd' = <<>> /\ up_q' = <<>>
        /\ UNCHANGED sent
    BY <1>4 DEF IoRestarts
  <2>2. ToldBy(sent)' = ToldBy(sent)
    BY <2>1, Zenon DEF ToldBy
  <2>3. rd' \o up_q' = <<>>
    BY <2>1
  <2> QED
    BY <2>1, <2>2, <2>3, Zenon DEF M!MenuNext, M!Forget
<1>5. CASE UNCHANGED ioVars
  BY <1>5 DEF ioVars, M!menuVars
<1>6. \/ UNCHANGED ioVars \/ EnterCommand \/ IoHandles \/ JobEnds \/ IoRestarts
  BY DEF Next, vars, Type, Tab, EnterOther, EnterQuit, UiIsKilled, UiRestarts, UiFreesTable,
     UiShows, Connect, ioVars
<1> QED
  BY <1>1, <1>2, <1>3, <1>4, <1>5, <1>6

(* The whole is the menu of CmdMenu, as long as the values fit into the    *)
(* variables behind the options: every well-formed line that is carried    *)
(* out sets what it says and nothing else, the bytes of its packet say     *)
(* what the variables hold by then, of the lines that wait the first is    *)
(* kept whole, the others dropped; and whatever the UI has learned, a line *)
(* that comes through without being well-formed is about a command with a  *)
(* buffer and touches nothing but that command's variables.                *)
THEOREM SessionIsMenu == Spec /\ []ValuesFit => IsMenu
<1> DEFINE Inv == TypeOK /\ Learns /\ LinesIn(MenuLines)
<1>1. Init => M!MenuInit /\ Inv
  BY MenuBegins, LinesFirst, InitType DEF Init, Learns
<1>2. Inv /\ [Next]_vars => Inv'
  BY NextType, LearnsKept, EnteredIs, LinesKept
<1>3. Inv /\ Inv' /\ ValuesFit' /\ [Next]_vars => [M!MenuNext]_(M!menuVars)
  BY MenuSteps
<1> QED
  BY <1>1, <1>2, <1>3, PTL DEF Spec, IsMenu, M!Menu
=============================================================================
