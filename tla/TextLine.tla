------------------------------- MODULE TextLine -------------------------------
(***************************************************************************)
(* What the command line of the UI promises its user (cmd_line_wc.c,       *)
(* dbg-ui_inp.c), in terms of texts instead of buffers, terminators, ring  *)
(* slots and console cells: a text with a position in it, a log of the     *)
(* commands entered that the arrow keys walk, and the text that a prompt   *)
(* shows again.                                                            *)
(***************************************************************************)
EXTENDS Integers, Sequences, SequencesExt, FiniteSetsExt

CONSTANTS
  Chars,   \* what can be typed
  Fold,    \* Fold[c]: c without its case
  MaxLen,  \* longest text
  MaxLog,  \* commands the log recalls
  Inserts  \* what completion may insert

VARIABLES
  text, pos,  \* the text, and how much of it is left of the cursor
  log,        \* the commands entered, the latest last
  back,       \* how many commands the arrow keys went back; 0: none
  draft,      \* the text the walk through the log began with
  walking,    \* the last key was an arrow key
  kept,       \* the text at the last Enter or completion
  disk        \* the log and the place in it that the next session begins with

textVars == <<text, pos, log, back, draft, walking, kept, disk>>

Texts == BoundedSeq(Chars, MaxLen)
Folded(t) == [i \in DOMAIN t |-> Fold[t[i]]]
Repeat(c, n) == [i \in 1 .. n |-> c]
Left == SubSeq(text, 1, pos)
Right == SubSeq(text, pos + 1, Len(text))
CutTo(t, n) == SubSeq(t, 1, Min({n, Len(t)}))

(* An empty text: nothing is typed. *)
Cleared == /\ text' = <<>> /\ pos' = 0 /\ walking' = FALSE

Edit(t, p) ==
  /\ text' = t /\ pos' = p /\ walking' = FALSE
  /\ UNCHANGED <<log, back, draft, kept, disk>>

(* Typed characters that have no room are dropped, not the ones after them. *)
Insert == \E c \in Chars, n \in 0 .. MaxLen - Len(text) :
            Edit(Left \o Repeat(c, n) \o Right, pos + n)
Rubout == \E n \in 0 .. pos : Edit(SubSeq(text, 1, pos - n) \o Right, pos - n)
Delete == \E n \in 0 .. Len(text) - pos :
            Edit(Left \o SubSeq(text, pos + n + 1, Len(text)), pos)
Move == \E p \in 0 .. Len(text) : Edit(text, p)
Erase == Edit(<<>>, 0)

Recalled(n, d) ==
  /\ n <= Len(log) /\ log[Len(log) + 1 - n] # <<>>
  /\ IsPrefix(Folded(d), Folded(log[Len(log) + 1 - n]))

(* An arrow key goes to the next command, older or newer, that begins with *)
(* the draft, and behind the last of them back to the draft itself.        *)
Walk(older) ==
  LET d == IF walking THEN draft ELSE text
      hits == {n \in 1 .. MaxLog : Recalled(n, d)}
      next == IF older THEN {n \in hits : n > back}
              ELSE {n \in hits : back = 0 \/ n < back}
      n == IF next = {} THEN 0 ELSE IF older THEN Min(next) ELSE Max(next)
  IN /\ back' = n /\ draft' = d /\ walking' = TRUE
     /\ text' = IF n = 0 THEN d ELSE log[Len(log) + 1 - n]
     /\ pos' = Len(text')
     /\ UNCHANGED <<log, kept, disk>>

(* Only a command that differs from the one before it is logged. *)
Enter ==
  /\ log' = IF text = <<>> \/ (log # <<>> /\ Folded(Last(log)) = Folded(text)) THEN log
            ELSE SubSeq(log, IF Len(log) = MaxLog THEN 2 ELSE 1, Len(log)) \o <<text>>
  /\ back' = 0 /\ kept' = <<>> /\ Cleared
  /\ UNCHANGED <<draft, disk>>

(* Completion inserts at the cursor, or lists what could follow.  A text   *)
(* that gets too long is cut one character early, and a cursor at the very *)
(* beginning goes to the end.                                              *)
Complete == \E s \in Inserts \union {<<>>} :
  /\ text' = IF s = <<>> THEN text ELSE CutTo(Left \o s \o Right, MaxLen - 1)
  /\ pos' = IF pos + Len(s) = 0 THEN Len(text') ELSE Min({pos + Len(s), Len(text')})
  /\ kept' = text' /\ walking' = FALSE
  /\ UNCHANGED <<log, back, draft, disk>>

(* A message takes the line: the text of the last Enter or completion is   *)
(* shown again and what was typed since is lost.                           *)
Interrupt ==
  /\ text' = kept /\ pos' \in 0 .. Len(kept)
  /\ UNCHANGED <<log, back, draft, walking, kept, disk>>

(* A session that ends in order leaves its log to the next one. *)
NewSession ==
  /\ disk' \in {disk, [log |-> log, back |-> back]}
  /\ log' = disk'.log /\ back' = disk'.back
  /\ kept' = <<>> /\ Cleared
  /\ draft' \in Texts

Init ==
  /\ text = <<>> /\ pos = 0 /\ kept = <<>> /\ walking = FALSE
  /\ disk = [log |-> log, back |-> back]

Next ==
  \/ Insert \/ Rubout \/ Delete \/ Move \/ Erase
  \/ \E older \in BOOLEAN : Walk(older)
  \/ Enter \/ Complete \/ Interrupt \/ NewSession

Spec == Init /\ [][Next]_textVars
=============================================================================
