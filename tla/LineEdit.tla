------------------------------- MODULE LineEdit -------------------------------
(***************************************************************************)
(* The command line of the UI process: the line editor and its history     *)
(* (cmd_line_wc/cmd_line_wc.c) and the part of bdm-dbg-ui/dbg-ui_inp.c and *)
(* of the main loop in dbg-ui.c that drives it.                            *)
(*                                                                         *)
(* The line is a buffer of LineLen cells ended by a NUL, edited in place with  *)
(* memmove and memset; the same handlers rewrite the console, which no one *)
(* compares with the buffer.  The history is a ring of lines that is saved *)
(* when the UI ends in order.  Texts are sequences where the code holds    *)
(* them in NUL-terminated strings; the console is the row of cells around  *)
(* the place where the line began.                                         *)
(***************************************************************************)
EXTENDS Integers, Sequences, SequencesExt, FiniteSetsExt

CONSTANTS
  Chars,    \* what can be typed
  Fold,     \* Fold[c]: c without its case
  LineLen,      \* cells of the line buffer (CMD_LINE_LEN, 1024 in the code)
  Depth,    \* lines of the history (HISTOR_DEPTH, 50 in the code)
  Repeats,  \* wRepeatCount of a key event
  Inserts,  \* what cmd_auto_complete may find to insert
  Files,    \* histories an earlier session may have left in the file
  MaxKeys   \* bound: key events and messages

ASSUME ConstantsAssumption ==
  /\ LineLen \in Nat /\ LineLen > 2 /\ Depth \in Nat /\ Depth > 1
  /\ MaxKeys \in Nat /\ Repeats \subseteq Nat \ {0}
  /\ Fold \in [Chars -> Chars]
  /\ "nul" \notin Chars  \* a key without a character types nothing
  /\ Inserts \subseteq Seq(Chars)

VARIABLES
  ed,        \* line, n_cur_pos, n_end_pos and the console around the line
  hist,      \* t_history: the ring, n_rd_pos, n_wr_pos and ca_template
  prev_key,  \* w_prev_key: "scroll" (up or down), "tab" or "other"
  arg,       \* ca_cmd_line: the line as last handed to the command processor
  n_cur_pos, \* T_CMD_PROC_INFO.n_cur_pos: where the next prompt puts the cursor
  n_flag,    \* GL_FLAG_CONTINUE or "none"; the other flags live within a step
  file,      \* the history file
  keys       \* counter for the bound

vars == <<ed, hist, prev_key, arg, n_cur_pos, n_flag, file, keys>>

Slot == 0 .. LineLen - 1
Cell == -LineLen .. LineLen
Ring == 0 .. Depth - 1
Nul == "nul"         \* a NUL in the buffer; on the console it shows as blank
Message == "msg"     \* a character of a message on the console
Prompt == "prompt"   \* a character of ca_prompt, which follows ca_line
Strings == BoundedSeq(Chars, LineLen - 1)
HistoryBuffer == [lines : [Ring -> Strings], rd : Ring, wr : Ring, tmpl : Strings]

----------------------------------------------------------------------------
(* Strings, buffers and the console                                        *)

Loaded(s) == [i \in Slot |-> IF i < Len(s) THEN s[i + 1] ELSE Nul]
Moved(l, dst, src, n) ==
  [i \in Slot |-> IF i \notin dst .. dst + n - 1 THEN l[i]
                  ELSE IF i - dst + src \in Slot THEN l[i - dst + src] ELSE Prompt]
Filled(l, c, at, n) == [i \in Slot |-> IF i \in at .. at + n - 1 THEN c ELSE l[i]]
Chunk(l, from, n) == [i \in 1 .. n |-> l[from + i - 1]]
Nuls(n) == [i \in 1 .. n |-> Nul]
Terminator(l) == Min({i \in Slot : l[i] = Nul})
Text(e) == Chunk(e.line, 0, Terminator(e.line))
Folded(s) == [i \in DOMAIN s |-> Fold[s[i]]]

(* The console: WriteConsole writes at the cursor and advances it. *)
Put(con, s) ==
  [cells |-> [i \in Cell |-> IF i \in con.at .. con.at + Len(s) - 1
                             THEN s[i - con.at + 1] ELSE con.cells[i]],
   at |-> con.at + Len(s)]
Back(con, n) == [con EXCEPT !.at = @ - n]
FreshRow == [cells |-> [i \in Cell |-> Nul], at |-> 0]
AfterMessage == [cells |-> [i \in Cell |-> IF i < 0 THEN Message ELSE Nul], at |-> 0]

----------------------------------------------------------------------------
(* The keys that edit                                                      *)

(* What insert and back move: the rest of the line and its NUL. *)
RestOnly(e) == e.end - e.cur  \* mutant: the NUL stays behind
RestAndNul(e) == e.end - e.cur + 1

ins_chars(e, c, n) ==
  LET k == Min({n, LineLen - e.end - 1})
  IN [e EXCEPT !.line = Filled(Moved(@, e.cur + k, e.cur, RestAndNul(e)), c, e.cur, k),
               !.cur = @ + k, !.end = @ + k]

proceed_printable_key(e, c, n) ==
  LET t == ins_chars(e, c, n)
      new == Chunk(t.line, e.cur, t.cur - e.cur)
      old == Chunk(t.line, t.cur, RestAndNul(t))
  IN [t EXCEPT !.con = Back(Put(Put(@, new), old), Len(old))]

(* Back and delete rewrite the rest of the line and blank what it left. *)
RewrittenNoTrail(e, k) ==  \* mutant
  [e EXCEPT !.con = [Put(@, Chunk(e.line, e.cur, RestAndNul(e))) EXCEPT !.at = e.con.at]]
Rewritten(e, k) ==
  [e EXCEPT !.con = [Put(@, Chunk(e.line, e.cur, RestAndNul(e)) \o Nuls(k))
                     EXCEPT !.at = e.con.at]]

proceed_back_key(e, n) ==
  LET k == Min({n, e.cur})
      l == Moved(e.line, e.cur - k, e.cur, RestAndNul(e))
  IN Rewritten([e EXCEPT !.line = Filled(l, Nul, e.end - k + 1, k),
                         !.cur = @ - k, !.end = @ - k, !.con = Back(@, k)], k)

proceed_delete_key(e, n) ==
  LET k == Min({n, e.end - e.cur})
      l == Moved(e.line, e.cur, e.cur + k, e.end - e.cur)
  IN Rewritten([e EXCEPT !.line = Filled(l, Nul, e.end - k + 1, k), !.end = @ - k], k)

CursorTo(e, p) == [e EXCEPT !.cur = p, !.con = Back(@, e.cur - p)]

proceed_left_key(e, n) == CursorTo(e, e.cur - Min({n, e.cur}))
RightPastEnd(e, n) == CursorTo(e, e.cur + n)  \* mutant
proceed_right_key(e, n) == CursorTo(e, Min({e.cur + n, e.end}))
proceed_home_key(e) == CursorTo(e, 0)
proceed_end_key(e) == CursorTo(e, e.end)

proceed_escape_key(e) ==
  LET h == proceed_home_key(e)
  IN [h EXCEPT !.line = Filled(@, Nul, 0, e.end), !.end = 0,
               !.con = Back(Put(@, Nuls(e.end)), e.end)]

(* Shows s, which ends the line and has the cursor behind it. *)
Shown(e, s) ==
  [line |-> Loaded(s), cur |-> Len(s), end |-> Len(s), con |-> Put(e.con, s)]
set_cmd_line(e, s) == Shown(proceed_escape_key(e), s)

----------------------------------------------------------------------------
(* The history                                                             *)

AddComparesWrongLine(h, s) ==  \* mutant: the line at n_wr_pos, not the one before it
  LET w == (h.wr + 1) % Depth
  IN IF s = <<>> \/ Folded(h.lines[h.wr]) = Folded(s) THEN [h EXCEPT !.rd = h.wr]
     ELSE [h EXCEPT !.lines[h.wr] = s, !.wr = w, !.rd = w]
add_to_history(h, s) ==
  LET prev == (h.wr + Depth - 1) % Depth
      w == (h.wr + 1) % Depth
  IN IF s = <<>> \/ Folded(h.lines[prev]) = Folded(s) THEN [h EXCEPT !.rd = h.wr]
     ELSE [h EXCEPT !.lines[h.wr] = s, !.wr = w, !.rd = w]

Matches(h, s) == IF h.tmpl = <<>> THEN s # <<>> ELSE IsPrefix(Folded(h.tmpl), Folded(s))

(* The slot k steps before or behind slot i of the ring. *)
Step(i, dir, k) == (IF dir = "up" THEN i + Depth - k ELSE i + k) % Depth

(* The j-th latest of the lines entered; the ring fills without gaps.      *)
Older(h, j) == h.lines[Step(h.wr, "up", j)]
NoGaps(h) ==
  \E n \in 0 .. Depth - 1 : \A j \in 1 .. Depth - 1 : Older(h, j) # <<>> <=> j <= n

(* What a session leaves, if the one before it left such a file or none.   *)
ASSUME FilesAssumption == \A h \in Files : h \in HistoryBuffer /\ NoGaps(h)

(* The scan ends at the first match, and at n_wr_pos in any case. *)
LandingPastDraft(h, dir) ==  \* mutant: n_wr_pos ends it upwards only
  LET stops == {k \in 1 .. Depth : \/ dir = "up" /\ Step(h.rd, dir, k) = h.wr
                                   \/ k = Depth \/ Matches(h, h.lines[Step(h.rd, dir, k)])}
  IN Step(h.rd, dir, Min(stops))
Landing(h, dir) ==
  LET stops == {k \in 1 .. Depth : \/ Step(h.rd, dir, k) = h.wr
                                   \/ Matches(h, h.lines[Step(h.rd, dir, k)])}
  IN Step(h.rd, dir, Min(stops))

Recalled(h) == IF h.rd = h.wr THEN h.tmpl ELSE h.lines[h.rd]
scroll_history(h, dir) == [h EXCEPT !.rd = Landing(h, dir)]

----------------------------------------------------------------------------
(* Prompts                                                                 *)

(* A predefined cursor position of 0 counts as undefined. *)
Positioned(e, p) == IF p > 0 /\ p < e.end THEN CursorTo(e, p) ELSE e

get_line_prompt(e, s, p, flag) ==
  Positioned(IF flag = "continue" THEN set_cmd_line(e, s)
             ELSE Shown([e EXCEPT !.con = FreshRow], s), p)

EmptyLine == Shown([con |-> FreshRow], <<>>)

(* strcharins, for each character of s, into a buffer one cell shorter. *)
cmd_auto_complete(t, p, s) ==
  LET all == SubSeq(t, 1, p) \o s \o SubSeq(t, p + 1, Len(t))
  IN IF s = <<>> THEN t ELSE SubSeq(all, 1, Min({Len(all), LineLen - 2}))

----------------------------------------------------------------------------
(* Initially the first prompt is shown: the pipe's event, which the UI     *)
(* itself sets, or a console event other than a pressed key brought it up. *)
NewSession(h) ==
  /\ ed' = EmptyLine /\ hist' = h
  /\ prev_key' = "other" /\ arg' = <<>> /\ n_cur_pos' = 0 /\ n_flag' = "none"

Init ==
  /\ file \in Files /\ hist = file
  /\ ed = EmptyLine /\ prev_key = "other"
  /\ arg = <<>> /\ n_cur_pos = 0 /\ n_flag = "none" /\ keys = 0

Used == keys < MaxKeys /\ keys' = keys + 1

(* What cmd_keys_pressed does on a key that needs no prompt. *)
AnyKey(e, key) ==
  /\ Used
  /\ ed' = e /\ prev_key' = key /\ n_cur_pos' = e.cur /\ n_flag' = "none"
  /\ UNCHANGED <<arg, file>>

Edited(e) == AnyKey(e, "other") /\ UNCHANGED hist

Type == \E c \in Chars, n \in Repeats : Edited(proceed_printable_key(ed, c, n))
BackKey == \E n \in Repeats : Edited(proceed_back_key(ed, n))
DeleteKey == \E n \in Repeats : Edited(proceed_delete_key(ed, n))
LeftKey == \E n \in Repeats : Edited(proceed_left_key(ed, n))
RightKey == \E n \in Repeats : Edited(proceed_right_key(ed, n))
HomeKey == Edited(proceed_home_key(ed))
EndKey == Edited(proceed_end_key(ed))
EscapeKey == Edited(proceed_escape_key(ed))

(* A key without a character: it only becomes the previous key. *)
ShiftKey == Edited(ed)
(* A key released, the mouse, the window: even w_prev_key stays. *)
OtherEvent == AnyKey(ed, prev_key) /\ UNCHANGED hist

ScrollKey(dir) ==
  LET h == IF prev_key = "scroll" THEN hist ELSE [hist EXCEPT !.tmpl = Text(ed)]
  IN /\ hist' = scroll_history(h, dir)
     /\ AnyKey(set_cmd_line(ed, Recalled(hist')), "scroll")

(* The command is carried out, then the prompt begins an empty line. *)
ReturnKey ==
  /\ Used
  /\ hist' = add_to_history(hist, Text(ed))
  /\ ed' = get_line_prompt(proceed_end_key(ed), <<>>, ed.end, "reset")
  /\ arg' = <<>> /\ n_cur_pos' = ed.end /\ n_flag' = "none" /\ prev_key' = "other"
  /\ UNCHANGED file

TabKey ==
  /\ prev_key # "tab" /\ Used
  /\ \E s \in Inserts :
       LET t == cmd_auto_complete(Text(ed), ed.cur, s)
           p == IF s = <<>> THEN ed.cur ELSE Min({ed.cur + Len(s), LineLen - 2})
       IN /\ s # <<>> => ed.cur < LineLen - 1
          /\ arg' = t /\ n_cur_pos' = p
          /\ ed' = get_line_prompt(ed, t, p, "continue")
  /\ n_flag' = "continue" /\ prev_key' = "tab"
  /\ UNCHANGED <<hist, file>>

(* A second tab lists what could follow, then the prompt begins again. *)
TabTabKey ==
  /\ prev_key = "tab" /\ Used
  /\ arg' = Text(ed) /\ n_cur_pos' = ed.cur
  /\ ed' = get_line_prompt(ed, arg', ed.cur, "none")
  /\ n_flag' = "none" /\ prev_key' = "tab"
  /\ UNCHANGED <<hist, file>>

(* Another event of the main loop printed something and asks for a prompt: *)
(* what was typed since ca_cmd_line was last set is gone.                  *)
PromptRestored ==
  /\ Used
  /\ ed' = get_line_prompt([ed EXCEPT !.con = AfterMessage], arg, n_cur_pos, n_flag)
  /\ UNCHANGED <<hist, prev_key, arg, n_cur_pos, n_flag, file>>

(* The UI ends in order, and is started again. *)
Close ==
  /\ Used
  /\ file' = hist /\ NewSession(hist)

(* The UI is killed, leaves its main loop after a failed pipe operation,   *)
(* or completes at the end of a full line: strcharins then moves a         *)
(* negative number of characters.                                          *)
Kill ==
  /\ Used
  /\ NewSession(file) /\ UNCHANGED file

Next ==
  \/ Type \/ BackKey \/ DeleteKey \/ LeftKey \/ RightKey
  \/ HomeKey \/ EndKey \/ EscapeKey \/ ShiftKey \/ OtherEvent
  \/ \E dir \in {"up", "down"} : ScrollKey(dir)
  \/ ReturnKey \/ TabKey \/ TabTabKey
  \/ PromptRestored \/ Close \/ Kill

Spec == Init /\ [][Next]_vars

----------------------------------------------------------------------------
(* Properties                                                              *)

(* Every position lies in its buffer, every text fits. *)
TypeOK ==
  /\ ed.cur \in 0 .. ed.end /\ ed.end \in Slot
  /\ ed.line \in [Slot -> Chars \union {Nul, Prompt}]
  /\ hist \in HistoryBuffer /\ file \in HistoryBuffer
  /\ arg \in Strings /\ n_cur_pos \in Slot

(* The memmove and memset calls of the editing keys leave characters up to *)
(* n_end_pos and NULs from there to the end of the buffer, also where they *)
(* moved what lies behind it: every handler takes the line's length from   *)
(* n_end_pos, add_to_history and the command parser take it from the NUL.  *)
LineTerminated ==
  \A i \in Slot : ed.line[i] \in IF i < ed.end THEN Chars ELSE {Nul}

(* The console shows the line and nothing of an earlier, longer one, and   *)
(* its cursor stands where the next key will edit: Enter sends what the    *)
(* user sees.                                                              *)
ScreenShowsLine ==
  LET first == ed.con.at - ed.cur
  IN \A i \in Cell : i >= first =>
       ed.con.cells[i] = IF i - first < ed.end THEN ed.line[i - first] ELSE Nul

(* The scan of scroll_history over the ring is reversible: up then down,   *)
(* and down then up, come back to the line the user saw, across the wrap,  *)
(* the lines that do not match and the place where the draft is.           *)
ScrollRoundTrip ==
  prev_key = "scroll" =>
    /\ Landing(scroll_history(hist, "up"), "down") = hist.rd
    /\ Landing(scroll_history(hist, "down"), "up") = hist.rd

(* What the buffers hold, as texts: the log is the ring without the slot   *)
(* that is written next, up to the slots never written.                    *)
Logged(h) ==
  LET n == Cardinality({j \in 1 .. Depth - 1 : Older(h, j) # <<>>})
  IN [i \in 1 .. n |-> Older(h, n + 1 - i)]

Abstract == INSTANCE TextLine WITH
  MaxLen <- LineLen - 1, MaxLog <- Depth - 1,
  text <- Text(ed), pos <- ed.cur, kept <- arg,
  log <- Logged(hist), back <- (hist.wr - hist.rd) % Depth,
  draft <- hist.tmpl, walking <- prev_key = "scroll",
  disk <- [log |-> Logged(file), back |-> (file.wr - file.rd) % Depth]

(* The editor with its buffers, ring and prompts is a text line: keys edit *)
(* at the cursor, the arrows walk the last commands that begin with the    *)
(* draft, latest first, no command is logged twice in a row, and the next  *)
(* session begins with the log the last orderly end left.                  *)
IsTextLine == Abstract!Spec
=============================================================================
