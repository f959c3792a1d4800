-------------------------------- MODULE CmdTlv --------------------------------
(***************************************************************************)
(* The messages that carry the command table from the IO process to the    *)
(* UI, byte by byte: written with cmd_lib.c's add_tlv_* in                 *)
(* dbg-io.c:io_ui_init_cont, read with get_tlv_* in                        *)
(* dbg-ui.c:io_pipe_rx_proc_ui_cmd_cdef.  The buffer that the UI reads     *)
(* from is never cleared: behind a message lies what longer ones have left *)
(* there, and beyond that zeros.                                           *)
(***************************************************************************)
EXTENDS CmdTable

TLV_NONE == 0
TLV_UI_CMD == 32        \* 0x20
TLV_CMD_RSP == 33
TLV_CMD_NAME == 48      \* 0x30
TLV_CMD_FLD_CNT == 49
TLV_CMD_INIT_STR == 50
TLV_FLD_NAME == 64      \* 0x40
TLV_FLD_TYPE == 65
TLV_FLD_LEN == 66
TLV_FLD_VAL == 67

UI_CMD_START == 16
UI_CMD_CDEF == 32
UI_CMD_END == 48

MAXBYTE == 255

(* Characters as WCHARs, 16 bits each, numbers as DWORDs, 32 bits each. *)
CodeOf(first, chars) ==
  [c \in ToSet(chars) |-> first - 1 + SelectInSeq(chars, LAMBDA x : x = c)]
Code == [c \in {" ", "-", ".", "_", "?"} |->
           CASE c = " " -> 32 [] c = "-" -> 45 [] c = "." -> 46
             [] c = "_" -> 95 [] c = "?" -> 63]
        @@ CodeOf(65, UpperCase) @@ CodeOf(97, LowerCase) @@ CodeOf(48, DecDigits)
CharOf == [n \in Byte |->
             IF \E c \in Alphabet : Code[c] = n
             THEN CHOOSE c \in Alphabet : Code[c] = n ELSE "?"]
ASSUME CodeAssumption ==
  /\ Code \in [Alphabet -> Byte \ {0}] /\ CharOf \in [Byte -> Alphabet]
  /\ \A c \in Alphabet : CharOf[Code[c]] = c

Wide(s) == [i \in 1 .. 2 * Len(s) |->
              IF i % 2 = 1 THEN Code[s[(i + 1) \div 2]] ELSE 0]
LE2(n) == <<n % 256, (n \div 256) % 256>>
LE4(n) == <<n % 256, (n \div 256) % 256, (n \div 65536) % 256, (n \div 16777216) % 256>>

(* add_tlv_str leaves a string out that is too long for the length byte. *)
add_tlv_str(msg, type, s) ==
  LET len == 2 * Len(s) + 2
  IN IF len > MAXBYTE THEN msg ELSE msg \o <<type, len>> \o Wide(s) \o <<0, 0>>
add_tlv_dword(msg, type, n) == msg \o <<type, 4>> \o LE4(n)
add_tlv_raw(msg, type, bytes) == msg \o <<type, Len(bytes) % 256>> \o bytes
Unterminated(msg) == msg  \* what lies behind it in the buffer is read
terminate_tlv_list(msg) == Append(msg, TLV_NONE)

add_tlv_val(msg, field, val) ==
  CASE field.type = CFT_NUM -> add_tlv_dword(msg, TLV_FLD_VAL, val)
    [] field.type = CFT_TXT -> add_tlv_str(msg, TLV_FLD_VAL, val)
    [] OTHER -> add_tlv_raw(msg, TLV_FLD_VAL, val)

add_tlv_field(msg, field, val) ==
  LET name == add_tlv_str(msg, TLV_FLD_NAME, field.name)
      type == add_tlv_dword(name, TLV_FLD_TYPE, field.type)
      len == add_tlv_dword(type, TLV_FLD_LEN, field.max)
  IN add_tlv_val(len, field, val)

UiCmd(e_ui_cmd) == add_tlv_dword(<<>>, TLV_UI_CMD, e_ui_cmd)

(* io_ui_init_cont for one command, with the values its options have now. *)
NextField(s) ==
  IF s.left = <<>> THEN s
  ELSE [s EXCEPT !.msg = add_tlv_field(@, Head(s.left), s.store[Head(s.left).cell]),
                 !.left = Tail(@)]
Fields == INSTANCE Loop WITH Step <- NextField
FieldsMsg(msg, fields, store) ==
  Fields!Repeat([msg |-> msg, left |-> fields, store |-> store], Len(fields)).msg

CDefMsg(cmd, store) ==
  LET name == add_tlv_str(UiCmd(UI_CMD_CDEF), TLV_CMD_NAME, cmd.name)
      fields == FieldsMsg(name, cmd.fields, store)
  IN terminate_tlv_list(add_tlv_dword(fields, TLV_CMD_FLD_CNT, Len(cmd.fields)))

StartMsg == terminate_tlv_list(
              add_tlv_str(UiCmd(UI_CMD_START), TLV_CMD_INIT_STR, Chars("AVRB UI")))
EndMsg == terminate_tlv_list(UiCmd(UI_CMD_END))
RspMsg(text) == terminate_tlv_list(add_tlv_str(<<>>, TLV_CMD_RSP, text))
-----------------------------------------------------------------------------
(* The UI's side: its buffer, and the byte, the DWORD and the text at a    *)
(* place in it.                                                            *)
Received(msg, buf) == msg \o SubSeq(buf, Len(msg) + 1, Len(buf))

ByteAt(buf, p) == IF p <= Len(buf) THEN buf[p] ELSE 0
DwordAt(buf, p) == ByteAt(buf, p) + 256 * ByteAt(buf, p + 1)
                   + 65536 * ByteAt(buf, p + 2) + 16777216 * ByteAt(buf, p + 3)
TextAt(buf, p, len) ==
  LET zero == CHOOSE n \in 0 .. len \div 2 :
                /\ n < len \div 2 => DwordAt(buf, p + 2 * n) % 65536 = 0
                /\ \A i \in 0 .. n - 1 : DwordAt(buf, p + 2 * i) % 65536 # 0
  IN [i \in 1 .. zero |-> CharOf[ByteAt(buf, p + 2 * (i - 1))]]

(* Where the value of the TLV at p begins, and where the next TLV is. *)
ValueOf(p) == p + 2
LenAt(buf, p) == ByteAt(buf, p + 1)
AfterTlv(buf, p) == ValueOf(p) + LenAt(buf, p)
AfterDword(p) == ValueOf(p) + 4

(* get_tlv_v_raw_n takes the first byte of the value for a 32-bit length   *)
(* in front of it, and skips as many bytes behind the four: for an empty   *)
(* value the byte is that of the next TLV.                                 *)
AfterRaw(buf, p) == ValueOf(p) + 4 + ByteAt(buf, ValueOf(p))

(* First pass over the TLVs, from p on: the number of fields, and the      *)
(* number that was announced.                                              *)
CountNext(s) ==
  LET type == ByteAt(s.buf, s.p)
  IN CASE type = TLV_NONE -> s
       [] type = TLV_CMD_FLD_CNT ->
            [s EXCEPT !.p = AfterDword(@), !.ref = DwordAt(s.buf, ValueOf(s.p))]
       [] type = TLV_FLD_NAME -> [s EXCEPT !.p = AfterTlv(s.buf, @), !.cnt = @ + 1]
       [] OTHER -> [s EXCEPT !.p = AfterTlv(s.buf, @)]
Counting == INSTANCE Loop WITH Step <- CountNext
CountFields(buf, p) ==
  LET end == Counting!Repeat([buf |-> buf, p |-> p, cnt |-> 0, ref |-> -1], Len(buf) \div 2)
  IN end.cnt = end.ref

(* Second pass.  Of a value the UI only asks whether the union that holds  *)
(* it is zero.                                                             *)
ReadNext(s) ==
  LET type == ByteAt(s.buf, s.p)
      dword == DwordAt(s.buf, ValueOf(s.p))
      last == Len(s.fields)
      kind == s.fields[last].type
      name == TextAt(s.buf, ValueOf(s.p), LenAt(s.buf, s.p))
      field == [name |-> name, type |-> CFT_NUM, max |-> -1, set |-> FALSE]
  IN CASE type = TLV_NONE -> s
       [] type = TLV_FLD_NAME ->
            [s EXCEPT !.p = AfterTlv(s.buf, @), !.fields = Append(@, field)]
       [] type = TLV_FLD_TYPE ->
            [s EXCEPT !.p = AfterDword(@), !.fields[last].type = dword]
       [] type = TLV_FLD_LEN ->
            [s EXCEPT !.p = AfterDword(@), !.fields[last].max = dword]
       [] type = TLV_FLD_VAL /\ kind = CFT_NUM ->
            [s EXCEPT !.p = AfterDword(@), !.fields[last].set = (dword # 0)]
       [] type = TLV_FLD_VAL /\ kind = CFT_TXT ->
            [s EXCEPT !.p = AfterTlv(s.buf, @), !.fields[last].set = TRUE]
       [] type = TLV_FLD_VAL /\ kind \in {CFT_RAW8, CFT_RAW16} ->
            [s EXCEPT !.p = AfterRaw(s.buf, @), !.fields[last].set = TRUE]
       [] type = TLV_FLD_VAL /\ kind \notin {CFT_NUM, CFT_TXT, CFT_RAW8, CFT_RAW16} ->
            [s EXCEPT !.p = ValueOf(@)]
       [] OTHER -> [s EXCEPT !.p = AfterTlv(s.buf, @)]
Reading == INSTANCE Loop WITH Step <- ReadNext
ReadFields(buf, p) ==
  Reading!Repeat([buf |-> buf, p |-> p, fields |-> <<>>], Len(buf) \div 2).fields

(* io_pipe_rx_proc_ui_cmd for a definition. *)
ReadCDef(buf) ==
  LET name == AfterDword(1)
      first == AfterTlv(buf, name)
  IN [name |-> TextAt(buf, ValueOf(name), LenAt(buf, name)),
      fields |-> IF CountFields(buf, first) THEN ReadFields(buf, first) ELSE NoFields]

(* The handshake: the messages one after the other in one buffer. *)
NextCmd(s) ==
  IF s.left = <<>> THEN s
  ELSE LET buf == Received(CDefMsg(Head(s.left), s.store), s.buf)
       IN [s EXCEPT !.buf = buf, !.table = Append(@, ReadCDef(buf)), !.left = Tail(@)]
Commands == INSTANCE Loop WITH Step <- NextCmd
Handshake(store, old) ==
  LET first == [buf |-> Received(StartMsg, old), table |-> <<>>, left |-> gta_io_ui_cmd,
                store |-> store]
      defined == Commands!Repeat(first, Len(gta_io_ui_cmd))
  IN [buf |-> Received(EndMsg, defined.buf), table |-> defined.table]
=============================================================================
