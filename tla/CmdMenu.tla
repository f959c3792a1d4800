------------------------------- MODULE CmdMenu -------------------------------
(***************************************************************************)
(* What the command line promises, without buffers, tables on the way and  *)
(* two parsers: a line that is well-formed waits to be carried out; it     *)
(* then sets its options' variables, the others keep what they were set to *)
(* before, and tells the device what the variables hold.  Of the lines     *)
(* that wait while a command is carried out, the first is kept.  A line    *)
(* that was not checked may wait, too; if it is not well-formed, it is     *)
(* refused, and only its own command's variables may have been touched.    *)
(***************************************************************************)
EXTENDS Sequences, SequencesExt

CONSTANTS
  FirstStore,        \* the variables at first
  WellFormed(_),     \* a line that is a command
  Unchecked(_),      \* a line that may wait without being well-formed
  Cells,             \* the variables
  OwnCells(_),       \* those of the options of a line's command
  ActOf(_),          \* the act of a line
  Carried(_, _),     \* a line and the variables before: the variables after it
  Told(_, _)         \* an act and the variables: what the device is told

VARIABLES
  store,    \* the variables
  waiting,  \* lines entered and not yet carried out
  told,     \* what the device was told last: an act and its arguments
  busy      \* a transfer from or to a file is going on

menuVars == <<store, waiting, told, busy>>

MenuInit == /\ store = FirstStore /\ waiting = <<>>
            /\ told = Told("none", FirstStore) /\ busy = FALSE

Enter ==
  /\ Len(waiting') = Len(waiting) + 1 /\ IsPrefix(waiting, waiting')
  /\ LET line == waiting'[Len(waiting')] IN WellFormed(line) \/ Unchecked(line)
  /\ UNCHANGED <<store, told, busy>>

FirstIsKept == waiting' = IF Len(waiting) > 1 THEN <<waiting[2]>> ELSE <<>>

CarryOut ==
  /\ waiting # <<>> /\ WellFormed(Head(waiting))
  /\ store' = Carried(Head(waiting), store)
  /\ LET act == ActOf(Head(waiting))
         transfer == act \in {"fread", "fwrite"}
     IN /\ told' = IF act = "none" \/ (transfer /\ busy) THEN told ELSE Told(act, store')
        /\ busy' = (busy \/ transfer)
  /\ FirstIsKept

Refuse ==
  /\ waiting # <<>> /\ ~WellFormed(Head(waiting))
  /\ \A cell \in Cells \ OwnCells(Head(waiting)) : store'[cell] = store[cell]
  /\ FirstIsKept /\ UNCHANGED <<told, busy>>

TransferEnds == busy /\ busy' = FALSE /\ UNCHANGED <<store, waiting, told>>

(* The IO process is started again. *)
Forget == store' = FirstStore /\ waiting' = <<>> /\ busy' = FALSE /\ UNCHANGED told

MenuNext == Enter \/ CarryOut \/ Refuse \/ TransferEnds \/ Forget

Menu == MenuInit /\ [][MenuNext]_menuVars
=============================================================================
