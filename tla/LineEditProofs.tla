---------------------------- MODULE LineEditProofs ----------------------------
(***************************************************************************)
(* What TLAPS proves of the command line of the UI (LineEdit): for lines   *)
(* and histories of any length, and any number of keys.                    *)
(*                                                                         *)
(* The invariant is EditInv.  Its heart is that each handler, given a line *)
(* whose buffer is terminated where n_end_pos says (Buffered) and a        *)
(* console that shows it (Shows), leaves both true again; the handlers     *)
(* never compare the two.  The lemmas follow the handlers: what the        *)
(* memmove and memset calls make of the buffer, what the WriteConsole      *)
(* calls make of the row of cells, and that the cursor moves by as much in *)
(* one as in the other.  AtStop adds what scrolling needs: the arrows have *)
(* stopped at a line that a scan in the other direction stops at too.      *)
(***************************************************************************)
EXTENDS LineEdit, TLAPS, SequenceTheorems, FiniteSetTheorems, WellFoundedInduction

CellValue == Chars \union {Nul, Prompt, Message}
Console == [cells : [Cell -> CellValue], at : Int]
Editor == [line : [Slot -> Chars \union {Nul}], cur : Slot, end : Slot, con : Console]

(* The line ends where n_end_pos says, and the cursor is within it.        *)
Buffered(e) ==
  /\ e \in Editor /\ e.cur <= e.end
  /\ \A i \in Slot : e.line[i] \in IF i < e.end THEN Chars ELSE {Nul}

(* What the console shows from the place where the line began.             *)
Begin(e) == e.con.at - e.cur
Shows(e) ==
  \A i \in Cell : i >= Begin(e) =>
    e.con.cells[i] = IF i - Begin(e) < e.end THEN e.line[i - Begin(e)] ELSE Nul
Blank(con) == \A i \in Cell : i >= con.at => con.cells[i] = Nul

EditorOK(e) == Buffered(e) /\ Shows(e)

(* Where the arrows have stopped is a line that matches, or the draft.     *)
AtStop(h) == h.rd = h.wr \/ Matches(h, h.lines[h.rd])

EditInv ==
  /\ EditorOK(ed)
  /\ hist \in HistoryBuffer /\ file \in HistoryBuffer
  /\ arg \in Strings /\ n_cur_pos \in Slot
  /\ prev_key = "scroll" => AtStop(hist)
-----------------------------------------------------------------------------
(* Numbers, strings and the console.                                       *)

LEMMA MinOfTwo ==
  ASSUME NEW a \in Int, NEW b \in Int
  PROVE  Min({a, b}) = IF a <= b THEN a ELSE b
<1> DEFINE m == IF a <= b THEN a ELSE b
<1>1. m \in {a, b} /\ \A y \in {a, b} : m <= y
  OBVIOUS
<1>2. ASSUME NEW x \in {a, b}, \A y \in {a, b} : x <= y PROVE x = m
  BY <1>2
<1> HIDE DEF m
<1>3. Min({a, b}) = m
  BY <1>1, <1>2 DEF Min
<1> QED
  BY <1>3 DEF m

(* A set of natural numbers has a least element, which Min yields.         *)
LEMMA LeastOf ==
  ASSUME NEW S \in SUBSET Nat, S # {}
  PROVE  Min(S) \in S /\ \A y \in S : Min(S) <= y
<1> DEFINE R == OpToRel(<, Nat)
<1>1. IsWellFoundedOn(R, Nat)
  BY NatLessThanWellFounded, Zenon
<1>3. \A a, b \in Nat : a < b => <<a, b>> \in R
  BY Zenon DEF OpToRel
<1> HIDE DEF R
<1>2. \E x \in S : \A y \in S : ~(<<y, x>> \in R)
  BY <1>1, WFMin, Zenon
<1>4. \A a, b \in Nat : ~(a < b) => b <= a
  OBVIOUS
<1>5. PICK x \in S : \A y \in S : ~(<<y, x>> \in R)
  BY <1>2
<1>6. \A y \in S : x <= y
  BY <1>3, <1>4, <1>5
<1> QED
  BY <1>6, Zenon DEF Min

LEMMA LengthOf ==
  ASSUME NEW S, NEW n \in Nat, NEW f \in [1 .. n -> S]
  PROVE  f \in Seq(S) /\ Len(f) = n
<1>1. f \in Seq(S)
  BY SeqDef
<1>2. Len(f) \in Nat /\ DOMAIN f = 1 .. Len(f) /\ DOMAIN f = 1 .. n
  BY <1>1, LenProperties
<1>3. \A x, y \in Nat : 1 .. x = 1 .. y => x = y
  <2> SUFFICES ASSUME NEW x \in Nat, NEW y \in Nat, 1 .. x = 1 .. y, x < y PROVE FALSE
    OBVIOUS
  <2>1. y \in 1 .. y /\ y \notin 1 .. x
    OBVIOUS
  <2> QED
    BY <2>1
<1> QED
  BY <1>1, <1>2, <1>3

LEMMA SlotBounds == /\ LineLen \in Nat /\ LineLen > 2 /\ Nul \notin Chars
                    /\ \A i : i \in Slot <=> i \in Nat /\ i < LineLen
BY ConstantsAssumption DEF Slot, Nul

LEMMA StringsBounds ==
  ASSUME NEW s
  PROVE  s \in Strings <=> s \in Seq(Chars) /\ Len(s) \in Slot
<1>1. ASSUME s \in Strings PROVE s \in Seq(Chars) /\ Len(s) \in Slot
  <2>1. PICK n \in 0 .. LineLen - 1 : s \in [1 .. n -> Chars]
    BY <1>1 DEF Strings, BoundedSeq, SeqOf
  <2>2. n \in Slot /\ n \in Nat
    BY <2>1, SlotBounds
  <2> QED
    BY <2>1, <2>2, LengthOf
<1>2. ASSUME s \in Seq(Chars), Len(s) \in Slot PROVE s \in Strings
  <2>1. s \in [1 .. Len(s) -> Chars] /\ Len(s) \in 0 .. LineLen - 1
    BY <1>2, LenProperties, SlotBounds
  <2> QED
    BY <2>1 DEF Strings, BoundedSeq, SeqOf
<1> QED
  BY <1>1, <1>2

LEMMA EmptyString == <<>> \in Strings /\ Len(<<>>) = 0
<1>1. Len(<<>>) = 0 /\ <<>> \in Seq(Chars)
  BY EmptySeq
<1>2. 0 \in Slot
  BY SlotBounds
<1> QED
  BY <1>1, <1>2, StringsBounds

(* The fields of an editor.                                                *)
LEMMA EditorFields ==
  ASSUME NEW e \in Editor
  PROVE  /\ e.line \in [Slot -> Chars \union {Nul}]
         /\ e.cur \in Slot /\ e.end \in Slot /\ e.cur \in Nat /\ e.end \in Nat
         /\ e.con \in Console /\ e.con.at \in Int /\ e.con.cells \in [Cell -> CellValue]
         /\ e = [line |-> e.line, cur |-> e.cur, end |-> e.end, con |-> e.con]
BY SlotBounds DEF Editor, Console

LEMMA CellNumbers == \A i \in Cell : i \in Int
BY ConstantsAssumption DEF Cell

(* The cells after a text has been written.                                *)
LEMMA PutCells ==
  ASSUME NEW con \in Console, NEW s \in Seq(CellValue)
  PROVE  /\ Put(con, s) \in Console /\ Put(con, s).at = con.at + Len(s)
         /\ Len(s) \in Nat
         /\ \A i \in Cell : Put(con, s).cells[i] =
              IF i \in con.at .. con.at + Len(s) - 1 THEN s[i - con.at + 1]
                                                     ELSE con.cells[i]
<1> DEFINE f == [i \in Cell |-> IF i \in con.at .. con.at + Len(s) - 1
                                THEN s[i - con.at + 1] ELSE con.cells[i]]
<1>1. Len(s) \in Nat /\ con.at \in Int /\ con.cells \in [Cell -> CellValue]
  BY LenProperties DEF Console
<1>2. ASSUME NEW i \in Cell PROVE f[i] \in CellValue
  <2>1. CASE i \in con.at .. con.at + Len(s) - 1
    <3>1. i - con.at + 1 \in 1 .. Len(s)
      BY <1>1, <2>1, CellNumbers
    <3> QED
      BY <2>1, <3>1, ElementOfSeq
  <2>2. CASE i \notin con.at .. con.at + Len(s) - 1
    BY <1>1, <2>2
  <2> QED
    BY <2>1, <2>2
<1>3. f \in [Cell -> CellValue]
  BY <1>2
<1>4. Put(con, s) = [cells |-> f, at |-> con.at + Len(s)]
  BY DEF Put
<1>5. Put(con, s).cells = f /\ Put(con, s).at = con.at + Len(s)
  BY <1>4
<1>6. con.at + Len(s) \in Int
  BY <1>1
<1>7. Put(con, s) \in Console
  <2> HIDE DEF f
  <2> QED
    BY <1>3, <1>4, <1>6 DEF Console
<1> QED
  BY <1>1, <1>5, <1>7

LEMMA BackCells ==
  ASSUME NEW con \in Console, NEW n \in Int
  PROVE  /\ Back(con, n) \in Console /\ Back(con, n).at = con.at - n
         /\ Back(con, n).cells = con.cells
BY DEF Back, Console

(* An editor whose fields are set one after another.                       *)
LEMMA SetOneField ==
  ASSUME NEW l, NEW c, NEW n, NEW k, NEW x,
         NEW e, e = [line |-> l, cur |-> c, end |-> n, con |-> k]
  PROVE  /\ [e EXCEPT !.line = x] = [line |-> x, cur |-> c, end |-> n, con |-> k]
         /\ [e EXCEPT !.cur = x] = [line |-> l, cur |-> x, end |-> n, con |-> k]
         /\ [e EXCEPT !.end = x] = [line |-> l, cur |-> c, end |-> x, con |-> k]
         /\ [e EXCEPT !.con = x] = [line |-> l, cur |-> c, end |-> n, con |-> x]
OBVIOUS

LEMMA SetConsole ==
  ASSUME NEW e \in Editor, NEW k
  PROVE  [e EXCEPT !.con = k]
           = [line |-> e.line, cur |-> e.cur, end |-> e.end, con |-> k]
<1>1. e = [line |-> e.line, cur |-> e.cur, end |-> e.end, con |-> e.con]
  BY EditorFields
<1> QED
  BY <1>1, SetOneField

LEMMA SetCursor ==
  ASSUME NEW e \in Editor, NEW c, NEW k
  PROVE  [e EXCEPT !.cur = c, !.con = k]
           = [line |-> e.line, cur |-> c, end |-> e.end, con |-> k]
<1> DEFINE f == [e EXCEPT !.cur = c]
<1>1. e = [line |-> e.line, cur |-> e.cur, end |-> e.end, con |-> e.con]
  BY EditorFields
<1>2. [e EXCEPT !.cur = c, !.con = k]
        = [f EXCEPT !.con = k]
  BY Zenon
<1>3. f = [line |-> e.line, cur |-> c, end |-> e.end, con |-> e.con]
  BY <1>1, SetOneField
<1> HIDE DEF f
<1> QED
  BY <1>2, <1>3, SetOneField

LEMMA SetRest ==
  ASSUME NEW e \in Editor, NEW l, NEW n
  PROVE  [e EXCEPT !.line = l, !.end = n]
           = [line |-> l, cur |-> e.cur, end |-> n, con |-> e.con]
<1> DEFINE f == [e EXCEPT !.line = l]
<1>1. e = [line |-> e.line, cur |-> e.cur, end |-> e.end, con |-> e.con]
  BY EditorFields
<1>2. [e EXCEPT !.line = l, !.end = n]
        = [f EXCEPT !.end = n]
  BY Zenon
<1>3. f = [line |-> l, cur |-> e.cur, end |-> e.end, con |-> e.con]
  BY <1>1, SetOneField
<1> HIDE DEF f
<1> QED
  BY <1>2, <1>3, SetOneField

LEMMA SetLine ==
  ASSUME NEW e \in Editor, NEW l, NEW c, NEW n
  PROVE  [e EXCEPT !.line = l, !.cur = c, !.end = n]
           = [line |-> l, cur |-> c, end |-> n, con |-> e.con]
<1> DEFINE f == [e EXCEPT !.line = l]
           g == [f EXCEPT !.cur = c]
<1>1. e = [line |-> e.line, cur |-> e.cur, end |-> e.end, con |-> e.con]
  BY EditorFields
<1>2. [e EXCEPT !.line = l, !.cur = c, !.end = n]
        = [g EXCEPT !.end = n]
  BY Zenon
<1>3. f = [line |-> l, cur |-> e.cur, end |-> e.end, con |-> e.con]
  BY <1>1, SetOneField
<1> HIDE DEF f
<1>4. g = [line |-> l, cur |-> c, end |-> e.end, con |-> e.con]
  BY <1>3, SetOneField
<1> HIDE DEF g
<1> QED
  BY <1>2, <1>4, SetOneField

LEMMA SetRestAndConsole ==
  ASSUME NEW e \in Editor, NEW l, NEW n, NEW k
  PROVE  [e EXCEPT !.line = l, !.end = n, !.con = k]
           = [line |-> l, cur |-> e.cur, end |-> n, con |-> k]
<1> DEFINE f == [e EXCEPT !.line = l]
           g == [f EXCEPT !.end = n]
<1>1. e = [line |-> e.line, cur |-> e.cur, end |-> e.end, con |-> e.con]
  BY EditorFields
<1>2. [e EXCEPT !.line = l, !.end = n, !.con = k]
        = [g EXCEPT !.con = k]
  BY Zenon
<1>3. f = [line |-> l, cur |-> e.cur, end |-> e.end, con |-> e.con]
  BY <1>1, SetOneField
<1> HIDE DEF f
<1>4. g = [line |-> l, cur |-> e.cur, end |-> n, con |-> e.con]
  BY <1>3, SetOneField
<1> HIDE DEF g
<1> QED
  BY <1>2, <1>4, SetOneField

LEMMA SetAll ==
  ASSUME NEW e \in Editor, NEW l, NEW c, NEW n, NEW k
  PROVE  [e EXCEPT !.line = l, !.cur = c, !.end = n, !.con = k]
           = [line |-> l, cur |-> c, end |-> n, con |-> k]
<1> DEFINE f == [e EXCEPT !.line = l]
           g == [f EXCEPT !.cur = c]
           h == [g EXCEPT !.end = n]
<1>1. e = [line |-> e.line, cur |-> e.cur, end |-> e.end, con |-> e.con]
  BY EditorFields
<1>2. [e EXCEPT !.line = l, !.cur = c, !.end = n, !.con = k]
        = [h EXCEPT !.con = k]
  BY Zenon
<1>3. f = [line |-> l, cur |-> e.cur, end |-> e.end, con |-> e.con]
  BY <1>1, SetOneField
<1> HIDE DEF f
<1>4. g = [line |-> l, cur |-> c, end |-> e.end, con |-> e.con]
  BY <1>3, SetOneField
<1> HIDE DEF g
<1>5. h = [line |-> l, cur |-> c, end |-> n, con |-> e.con]
  BY <1>4, SetOneField
<1> HIDE DEF h
<1> QED
  BY <1>2, <1>5, SetOneField

LEMMA ChunkIs ==
  ASSUME NEW l \in [Slot -> Chars \union {Nul}], NEW from \in Nat, NEW n \in Nat,
         from + n <= LineLen
  PROVE  /\ Chunk(l, from, n) \in Seq(CellValue) /\ Len(Chunk(l, from, n)) = n
         /\ \A i \in 1 .. n : Chunk(l, from, n)[i] = l[from + i - 1]
<1>1. ASSUME NEW i \in 1 .. n PROVE l[from + i - 1] \in CellValue
  <2>1. from + i - 1 \in Slot
    BY SlotBounds
  <2> QED
    BY <2>1 DEF CellValue
<1>2. Chunk(l, from, n) \in [1 .. n -> CellValue]
  BY <1>1 DEF Chunk
<1>3. \A i \in 1 .. n : Chunk(l, from, n)[i] = l[from + i - 1]
  BY DEF Chunk
<1> QED
  BY <1>2, <1>3, LengthOf

LEMMA NulsAre ==
  ASSUME NEW n \in Nat
  PROVE  /\ Nuls(n) \in Seq(CellValue) /\ Len(Nuls(n)) = n
         /\ \A i \in 1 .. n : Nuls(n)[i] = Nul
<1>1. Nuls(n) \in [1 .. n -> CellValue]
  BY DEF Nuls, CellValue
<1> QED
  BY <1>1, LengthOf DEF Nuls

(* An editor whose line and console are put together again.                *)
LEMMA Rebuilt ==
  ASSUME NEW l \in [Slot -> Chars \union {Nul}], NEW cur \in Slot, NEW end \in Slot,
         NEW con \in Console, cur <= end,
         \A i \in Slot : l[i] \in IF i < end THEN Chars ELSE {Nul},
         NEW e, e = [line |-> l, cur |-> cur, end |-> end, con |-> con]
  PROVE  Buffered(e) /\ e.line = l /\ e.cur = cur /\ e.end = end /\ e.con = con
<1>1. e.line = l /\ e.cur = cur /\ e.end = end /\ e.con = con
  OBVIOUS
<1>2. e \in Editor
  BY DEF Editor
<1> QED
  BY <1>1, <1>2 DEF Buffered

-----------------------------------------------------------------------------
(* The keys that edit.                                                     *)

(* ins_chars (cmd_line_wc.c:401-417) moves the rest and its NUL to the     *)
(* right.                                                                  *)
LEMMA InsertedLine ==
  ASSUME NEW e, Buffered(e), NEW c \in Chars, NEW n \in Nat
  PROVE  \E k \in Nat :
           LET t == ins_chars(e, c, n)
           IN /\ Buffered(t) /\ t.con = e.con
              /\ t.cur = e.cur + k /\ t.end = e.end + k
              /\ \A i \in Slot :
                   t.line[i] = IF i < e.cur THEN e.line[i]
                               ELSE IF i < e.cur + k THEN c
                               ELSE IF i <= e.end + k THEN e.line[i - k] ELSE e.line[i]
<1> DEFINE k == Min({n, LineLen - e.end - 1})
           l == Filled(Moved(e.line, e.cur + k, e.cur, RestAndNul(e)), c, e.cur, k)
           t == ins_chars(e, c, n)
<1>1. /\ e \in Editor /\ e.cur \in Nat /\ e.end \in Nat /\ e.cur <= e.end
      /\ e.end < LineLen /\ LineLen \in Nat /\ e.con \in Console
      /\ e.line \in [Slot -> Chars \union {Nul}]
      /\ \A i \in Slot : e.line[i] \in IF i < e.end THEN Chars ELSE {Nul}
  BY EditorFields, SlotBounds DEF Buffered
<1>2. k \in Nat /\ e.end + k < LineLen
  <2>1. n \in Int /\ LineLen - e.end - 1 \in Int
    BY <1>1
  <2>2. k = IF n <= LineLen - e.end - 1 THEN n ELSE LineLen - e.end - 1
    BY <2>1, MinOfTwo
  <2> HIDE DEF k
  <2> QED
    BY <1>1, <2>2
<1>3. t = [line |-> l, cur |-> e.cur + k, end |-> e.end + k, con |-> e.con]
  <2>1. t = [e EXCEPT !.line = l, !.cur = @ + k, !.end = @ + k]
    BY DEF ins_chars
  <2> HIDE DEF l, t, k
  <2>2. [e EXCEPT !.line = l, !.cur = e.cur + k, !.end = e.end + k]
          = [line |-> l, cur |-> e.cur + k, end |-> e.end + k, con |-> e.con]
    BY <1>1, SetLine
  <2> QED
    BY <2>1, <2>2
<1> HIDE DEF k, t
<1>4. ASSUME NEW i \in Slot
      PROVE  l[i] = IF i < e.cur THEN e.line[i]
                    ELSE IF i < e.cur + k THEN c
                    ELSE IF i <= e.end + k THEN e.line[i - k] ELSE e.line[i]
  <2>1. RestAndNul(e) = e.end - e.cur + 1 /\ i \in Nat /\ i < LineLen
    BY SlotBounds DEF RestAndNul
  <2>2. i \in e.cur .. e.cur + k - 1 <=> e.cur <= i /\ i < e.cur + k
    BY <1>1, <1>2, <2>1
  <2>3. i \in e.cur + k .. (e.cur + k) + RestAndNul(e) - 1
          <=> e.cur + k <= i /\ i <= e.end + k
    BY <1>1, <1>2, <2>1
  <2>4. i >= e.cur + k => i - (e.cur + k) + e.cur = i - k /\ i - k \in Slot
    BY <1>1, <1>2, <2>1, SlotBounds
  <2> QED
    BY <1>1, <1>2, <2>1, <2>2, <2>3, <2>4 DEF Filled, Moved
<1>5. DOMAIN l = Slot /\ l = [i \in Slot |-> l[i]]
  BY DEF Filled
<1> HIDE DEF l
<1>6. ASSUME NEW i \in Slot PROVE l[i] \in IF i < e.end + k THEN Chars ELSE {Nul}
  <2>1. i \in Nat
    BY SlotBounds
  <2>2. i >= k => i - k \in Slot
    BY <1>2, <2>1, SlotBounds
  <2>3. CASE i < e.cur
    BY <1>1, <1>2, <1>4, <2>1, <2>3
  <2>4. CASE i >= e.cur /\ i < e.cur + k
    BY <1>1, <1>2, <1>4, <2>1, <2>4
  <2>5. CASE i >= e.cur + k /\ i <= e.end + k
    <3>1. l[i] = e.line[i - k] /\ i - k \in Slot /\ (i < e.end + k <=> i - k < e.end)
      BY <1>1, <1>2, <1>4, <2>1, <2>2, <2>5
    <3> QED
      BY <1>1, <3>1
  <2>6. CASE i > e.end + k
    <3>1. l[i] = e.line[i] /\ ~(i < e.end) /\ ~(i < e.end + k)
      BY <1>1, <1>2, <1>4, <2>1, <2>6
    <3> QED
      BY <1>1, <3>1
  <2> QED
    BY <1>1, <1>2, <2>1, <2>3, <2>4, <2>5, <2>6
<1>7. l \in [Slot -> Chars \union {Nul}]
  <2>1. \A i \in Slot : l[i] \in Chars \union {Nul}
    BY <1>6
  <2> QED
    BY <1>5, <2>1
<1>8. e.cur + k \in Slot /\ e.end + k \in Slot /\ e.cur + k <= e.end + k
  BY <1>1, <1>2, SlotBounds
<1>9. Buffered(t) /\ t.line = l /\ t.cur = e.cur + k /\ t.end = e.end + k /\ t.con = e.con
  BY <1>1, <1>3, <1>6, <1>7, <1>8, Rebuilt
<1> QED
  BY <1>2, <1>4, <1>9 DEF t

(* Writing a part of the buffer, and writing NULs, at the cursor.          *)
LEMMA PutChunk ==
  ASSUME NEW l \in [Slot -> Chars \union {Nul}], NEW from \in Nat, NEW n \in Nat,
         from + n <= LineLen, NEW con \in Console
  PROVE  /\ Put(con, Chunk(l, from, n)) \in Console
         /\ Put(con, Chunk(l, from, n)).at = con.at + n
         /\ \A i \in Cell : Put(con, Chunk(l, from, n)).cells[i] =
              IF con.at <= i /\ i < con.at + n THEN l[i - con.at + from]
                                               ELSE con.cells[i]
<1> DEFINE s == Chunk(l, from, n)
<1>1. s \in Seq(CellValue) /\ Len(s) = n /\ \A i \in 1 .. n : s[i] = l[from + i - 1]
  BY ChunkIs
<1> HIDE DEF s
<1>2. con.at \in Int
  BY DEF Console
<1>3. /\ Put(con, s) \in Console /\ Put(con, s).at = con.at + n
      /\ \A i \in Cell : Put(con, s).cells[i] =
           IF i \in con.at .. con.at + n - 1 THEN s[i - con.at + 1] ELSE con.cells[i]
  BY <1>1, PutCells
<1>4. ASSUME NEW i \in Cell
      PROVE  Put(con, s).cells[i] = IF con.at <= i /\ i < con.at + n
                                    THEN l[i - con.at + from] ELSE con.cells[i]
  <2>1. i \in Int
    BY CellNumbers
  <2>2. i \in con.at .. con.at + n - 1 <=> con.at <= i /\ i < con.at + n
    BY <1>2, <2>1
  <2>3. CASE con.at <= i /\ i < con.at + n
    <3>1. i - con.at + 1 \in 1 .. n /\ from + (i - con.at + 1) - 1 = i - con.at + from
      BY <1>2, <2>1, <2>3
    <3>2. s[i - con.at + 1] = l[from + (i - con.at + 1) - 1]
      BY <1>1, <3>1
    <3> QED
      BY <1>3, <2>2, <2>3, <3>1, <3>2
  <2> QED
    BY <1>3, <2>2, <2>3
<1> QED
  BY <1>3, <1>4 DEF s

LEMMA PutNuls ==
  ASSUME NEW n \in Nat, NEW con \in Console
  PROVE  /\ Put(con, Nuls(n)) \in Console /\ Put(con, Nuls(n)).at = con.at + n
         /\ \A i \in Cell : Put(con, Nuls(n)).cells[i] =
              IF con.at <= i /\ i < con.at + n THEN Nul ELSE con.cells[i]
<1> DEFINE s == Nuls(n)
<1>1. s \in Seq(CellValue) /\ Len(s) = n /\ \A i \in 1 .. n : s[i] = Nul
  BY NulsAre
<1> HIDE DEF s
<1>2. con.at \in Int
  BY DEF Console
<1>3. /\ Put(con, s) \in Console /\ Put(con, s).at = con.at + n
      /\ \A i \in Cell : Put(con, s).cells[i] =
           IF i \in con.at .. con.at + n - 1 THEN s[i - con.at + 1] ELSE con.cells[i]
  BY <1>1, PutCells
<1>4. ASSUME NEW i \in Cell
      PROVE  Put(con, s).cells[i] = IF con.at <= i /\ i < con.at + n
                                    THEN Nul ELSE con.cells[i]
  <2>1. i \in Int
    BY CellNumbers
  <2>2. i \in con.at .. con.at + n - 1 <=> con.at <= i /\ i < con.at + n
    BY <1>2, <2>1
  <2>3. CASE con.at <= i /\ i < con.at + n
    <3>1. i - con.at + 1 \in 1 .. n
      BY <1>2, <2>1, <2>3
    <3> QED
      BY <1>1, <1>3, <2>2, <2>3, <3>1
  <2> QED
    BY <1>3, <2>2, <2>3
<1> QED
  BY <1>3, <1>4 DEF s

(* Two texts written together leave the cells of one after the other.      *)
LEMMA PutTwo ==
  ASSUME NEW a \in Seq(CellValue), NEW b \in Seq(CellValue), NEW con \in Console
  PROVE  Put(con, a \o b) = Put(Put(con, a), b)
<1> DEFINE m == Put(con, a)
<1>1. /\ Len(a) \in Nat /\ Len(b) \in Nat /\ a \o b \in Seq(CellValue)
      /\ Len(a \o b) = Len(a) + Len(b) /\ con.at \in Int
      /\ \A j \in 1 .. Len(a) + Len(b) : (a \o b)[j] = IF j <= Len(a) THEN a[j]
                                                       ELSE b[j - Len(a)]
  BY ConcatProperties, LenProperties DEF Console
<1>2. /\ m \in Console /\ m.at = con.at + Len(a)
      /\ \A i \in Cell : m.cells[i] =
           IF i \in con.at .. con.at + Len(a) - 1 THEN a[i - con.at + 1] ELSE con.cells[i]
  BY PutCells
<1> HIDE DEF m
<1>3. /\ Put(m, b) \in Console /\ Put(m, b).at = m.at + Len(b)
      /\ \A i \in Cell : Put(m, b).cells[i] =
           IF i \in m.at .. m.at + Len(b) - 1 THEN b[i - m.at + 1] ELSE m.cells[i]
  BY <1>2, PutCells
<1>4. /\ Put(con, a \o b) \in Console /\ Put(con, a \o b).at = con.at + Len(a \o b)
      /\ \A i \in Cell : Put(con, a \o b).cells[i] =
           IF i \in con.at .. con.at + Len(a \o b) - 1 THEN (a \o b)[i - con.at + 1]
           ELSE con.cells[i]
  BY <1>1, PutCells
<1>5. PICK la \in Nat, lb \in Nat, at \in Int : la = Len(a) /\ lb = Len(b) /\ at = con.at
  BY <1>1
<1>6. ASSUME NEW i \in Cell PROVE Put(con, a \o b).cells[i] = Put(m, b).cells[i]
  <2>1. i \in Int /\ m.at = at + la /\ Len(a \o b) = la + lb
    BY <1>1, <1>2, <1>5, CellNumbers
  <2>2. CASE at <= i /\ i < at + la
    <3>1. /\ i - at + 1 \in 1 .. la + lb /\ i - at + 1 <= la
          /\ i \in at .. at + la - 1 /\ i \in at .. at + (la + lb) - 1
          /\ i \notin (at + la) .. (at + la) + lb - 1
      BY <2>1, <2>2
    <3>2. (a \o b)[i - at + 1] = a[i - at + 1]
      BY <1>1, <1>5, <3>1
    <3> QED
      BY <1>2, <1>3, <1>4, <1>5, <2>1, <3>1, <3>2
  <2>3. CASE at + la <= i /\ i < at + la + lb
    <3>1. /\ i - at + 1 \in 1 .. la + lb /\ ~(i - at + 1 <= la)
          /\ i \in at .. at + (la + lb) - 1
          /\ i \in (at + la) .. (at + la) + lb - 1
          /\ (i - at + 1) - la = i - (at + la) + 1
      BY <2>1, <2>3
    <3>2. (a \o b)[i - at + 1] = b[(i - at + 1) - la]
      BY <1>1, <1>5, <3>1
    <3> QED
      BY <1>3, <1>4, <1>5, <2>1, <3>1, <3>2
  <2>4. CASE i < at \/ i >= at + la + lb
    <3>1. /\ i \notin at .. at + (la + lb) - 1 /\ i \notin at .. at + la - 1
          /\ i \notin (at + la) .. (at + la) + lb - 1
      BY <2>1, <2>4
    <3> QED
      BY <1>2, <1>3, <1>4, <1>5, <2>1, <3>1
  <2> QED
    BY <2>1, <2>2, <2>3, <2>4
<1>7. Put(con, a \o b).at = Put(m, b).at
  BY <1>1, <1>2, <1>3, <1>4
<1>8. \A x, y \in Console : (x.at = y.at /\ \A i \in Cell : x.cells[i] = y.cells[i]) => x = y
  <2> SUFFICES ASSUME NEW x \in Console, NEW y \in Console, x.at = y.at,
                      \A i \in Cell : x.cells[i] = y.cells[i]
               PROVE  x = y
    OBVIOUS
  <2>1. x.cells \in [Cell -> CellValue] /\ y.cells \in [Cell -> CellValue]
    BY DEF Console
  <2>2. x.cells = y.cells
    BY <2>1
  <2>3. x = [cells |-> x.cells, at |-> x.at] /\ y = [cells |-> y.cells, at |-> y.at]
    BY DEF Console
  <2> QED
    BY <2>2, <2>3
<1> QED
  BY <1>3, <1>4, <1>6, <1>7, <1>8 DEF m

(* Every handler of a key keeps the editor in order.                       *)
LEMMA TypedKey ==
  ASSUME NEW e, EditorOK(e), NEW c \in Chars, NEW n \in Nat
  PROVE  LET r == proceed_printable_key(e, c, n)
         IN /\ EditorOK(r)
            /\ \E k \in Nat :
                 /\ r.cur = e.cur + k /\ r.end = e.end + k
                 /\ \A i \in Slot :
                      r.line[i] = IF i < e.cur THEN e.line[i]
                                  ELSE IF i < e.cur + k THEN c
                                  ELSE IF i <= e.end + k THEN e.line[i - k] ELSE e.line[i]
<1>1. Buffered(e) /\ Shows(e)
  BY DEF EditorOK
<1> DEFINE t == ins_chars(e, c, n)
<1>2. PICK k \in Nat : /\ Buffered(t) /\ t.con = e.con
                       /\ t.cur = e.cur + k /\ t.end = e.end + k
                       /\ \A i \in Slot :
                            t.line[i] = IF i < e.cur THEN e.line[i]
                                        ELSE IF i < e.cur + k THEN c
                                        ELSE IF i <= e.end + k THEN e.line[i - k]
                                        ELSE e.line[i]
  BY <1>1, InsertedLine
<1> DEFINE new == Chunk(t.line, e.cur, t.cur - e.cur)
           old == Chunk(t.line, t.cur, RestAndNul(t))
           con == Back(Put(Put(t.con, new), old), Len(old))
           r == proceed_printable_key(e, c, n)
<1>3. r = [t EXCEPT !.con = con]
  BY DEF proceed_printable_key
<1> HIDE DEF r, t
<1>4. /\ e \in Editor /\ e.cur \in Nat /\ e.end \in Nat /\ e.cur <= e.end
      /\ \A i \in Slot : e.line[i] \in IF i < e.end THEN Chars ELSE {Nul}
      /\ e.con \in Console /\ e.con.at \in Int
  BY <1>1, EditorFields DEF Buffered
<1>5. /\ t \in Editor /\ t.cur \in Slot /\ t.end \in Slot /\ t.cur \in Nat /\ t.end \in Nat
      /\ t.cur <= t.end /\ t.line \in [Slot -> Chars \union {Nul}]
      /\ \A i \in Slot : t.line[i] \in IF i < t.end THEN Chars ELSE {Nul}
  BY <1>2, EditorFields DEF Buffered
<1>6. PICK cur \in Nat, end \in Nat, at \in Int :
        cur = e.cur /\ end = e.end /\ at = e.con.at
  BY <1>4
<1>7. /\ t.cur - e.cur = k /\ cur + k <= LineLen /\ end + k < LineLen
      /\ RestAndNul(t) = end - cur + 1 /\ end - cur + 1 \in Nat
      /\ cur + k + (end - cur + 1) <= LineLen /\ cur <= end /\ t.cur = cur + k
  BY <1>2, <1>4, <1>5, <1>6, SlotBounds DEF RestAndNul
<1> DEFINE c1 == Put(e.con, new)
           c2 == Put(c1, old)
<1>8. /\ c1 \in Console /\ c1.at = at + k
      /\ \A i \in Cell : c1.cells[i] = IF at <= i /\ i < at + k
                                       THEN t.line[i - at + cur] ELSE e.con.cells[i]
  BY <1>4, <1>5, <1>6, <1>7, PutChunk
<1>9. Len(old) = end - cur + 1
  <2>1. old = Chunk(t.line, cur + k, end - cur + 1)
    BY <1>7
  <2>2. PICK b \in Nat, d \in Nat : b = cur + k /\ d = end - cur + 1
    BY <1>7
  <2>3. old = Chunk(t.line, b, d) /\ b + d <= LineLen
    BY <1>7, <2>1, <2>2
  <2> HIDE DEF old
  <2> QED
    BY <1>5, <2>2, <2>3, ChunkIs
<1>10. /\ c2 \in Console /\ c2.at = c1.at + (end - cur + 1)
       /\ \A i \in Cell : c2.cells[i] =
            IF c1.at <= i /\ i < c1.at + (end - cur + 1)
            THEN t.line[i - c1.at + (cur + k)] ELSE c1.cells[i]
  <2> HIDE DEF c1
  <2> QED
    BY <1>5, <1>7, <1>8, PutChunk
<1>11. con \in Console /\ con.at = at + k /\ con.cells = c2.cells
  <2>1. con = Back(c2, end - cur + 1)
    BY <1>2, <1>9
  <2> HIDE DEF con, c2, c1
  <2>2. PICK d \in Int : d = end - cur + 1
    BY <1>7
  <2>3. con = Back(c2, d) /\ c2 \in Console /\ c2.at = (at + k) + d
    BY <1>8, <1>10, <2>1, <2>2
  <2>4. con \in Console /\ con.at = c2.at - d /\ con.cells = c2.cells
    BY <2>3, BackCells
  <2>5. (at + k) + d - d = at + k
    BY <2>2
  <2> QED
    BY <2>3, <2>4, <2>5
<1> HIDE DEF con, c2, c1, old, new
<1>12. r = [line |-> t.line, cur |-> t.cur, end |-> t.end, con |-> con]
  BY <1>3, <1>5, SetConsole
<1>13. Buffered(r) /\ r.line = t.line /\ r.cur = t.cur /\ r.end = t.end /\ r.con = con
  BY <1>5, <1>11, <1>12, Rebuilt
<1>14. Begin(r) = at - cur /\ Begin(e) = at - cur
  BY <1>2, <1>6, <1>11, <1>13 DEF Begin
<1>15. ASSUME NEW i \in Cell, i >= at - cur
       PROVE  con.cells[i] = IF i - (at - cur) < end + k THEN t.line[i - (at - cur)] ELSE Nul
  <2>1. i \in Int /\ i - (at - cur) \in Nat /\ i - at + cur = i - (at - cur)
        /\ i - (at + k) + (cur + k) = i - (at - cur)
    BY <1>15, CellNumbers
  <2>2. e.con.cells[i] = IF i - (at - cur) < end THEN e.line[i - (at - cur)] ELSE Nul
    BY <1>1, <1>6, <1>14, <1>15 DEF Shows
  <2>3. CASE i < at
    <3>1. i - (at - cur) \in Slot /\ i - (at - cur) < cur
      BY <1>7, <2>1, <2>3, SlotBounds
    <3>2. con.cells[i] = e.con.cells[i]
      BY <1>8, <1>10, <1>11, <2>1, <2>3
    <3> QED
      BY <1>2, <1>6, <1>7, <2>1, <2>2, <3>1, <3>2
  <2>4. CASE at <= i /\ i < at + k
    BY <1>7, <1>8, <1>10, <1>11, <2>1, <2>4
  <2>5. CASE at + k <= i /\ i < at + k + (end - cur + 1)
    <3>1. con.cells[i] = t.line[i - (at - cur)]
      BY <1>8, <1>10, <1>11, <2>1, <2>5
    <3>2. i - (at - cur) \in Slot
      BY <1>7, <2>1, <2>5, SlotBounds
    <3>3. ~(i - (at - cur) < end + k) => t.line[i - (at - cur)] = Nul
      BY <1>2, <1>5, <1>6, <3>2
    <3> QED
      BY <3>1, <3>3
  <2>6. CASE i >= at + k + (end - cur + 1)
    <3>1. con.cells[i] = e.con.cells[i]
      BY <1>7, <1>8, <1>10, <1>11, <2>1, <2>6
    <3>2. ~(i - (at - cur) < end) /\ ~(i - (at - cur) < end + k)
      BY <1>7, <2>1, <2>6
    <3> QED
      BY <2>2, <3>1, <3>2
  <2> QED
    BY <1>7, <2>1, <2>3, <2>4, <2>5, <2>6
<1>16. Shows(r)
  <2> SUFFICES ASSUME NEW i \in Cell, i >= at - cur
               PROVE  con.cells[i] = IF i - (at - cur) < end + k
                                     THEN t.line[i - (at - cur)] ELSE Nul
    BY <1>2, <1>6, <1>13, <1>14 DEF Shows
  <2> QED
    BY <1>15
<1> QED
  BY <1>2, <1>13, <1>16 DEF EditorOK, r

LEMMA SetAt ==
  ASSUME NEW con \in Console, NEW n \in Int
  PROVE  /\ [con EXCEPT !.at = n] \in Console /\ [con EXCEPT !.at = n].at = n
         /\ [con EXCEPT !.at = n].cells = con.cells
BY DEF Console

(* Back and delete leave the rest of the line and as many blanks as        *)
(* characters went.                                                        *)
LEMMA RewrittenShows ==
  ASSUME NEW e, Buffered(e), NEW k \in Nat,
         \A i \in Cell : i >= Begin(e) =>
           /\ i - Begin(e) < e.cur => e.con.cells[i] = e.line[i - Begin(e)]
           /\ i - Begin(e) > e.end + k => e.con.cells[i] = Nul
  PROVE  LET r == Rewritten(e, k)
         IN EditorOK(r) /\ r.line = e.line /\ r.cur = e.cur /\ r.end = e.end
<1> DEFINE r == Rewritten(e, k)
           s == Chunk(e.line, e.cur, RestAndNul(e))
           p == Put(e.con, s \o Nuls(k))
           con == [p EXCEPT !.at = e.con.at]
<1>1. r = [e EXCEPT !.con = con]
  BY DEF Rewritten
<1>2. /\ e \in Editor /\ e.cur \in Slot /\ e.end \in Slot /\ e.cur <= e.end
      /\ e.line \in [Slot -> Chars \union {Nul}] /\ e.con \in Console
      /\ \A i \in Slot : e.line[i] \in IF i < e.end THEN Chars ELSE {Nul}
  BY EditorFields DEF Buffered
<1>3. PICK cur \in Nat, end \in Nat, at \in Int :
        cur = e.cur /\ end = e.end /\ at = e.con.at
  BY <1>2, EditorFields
<1>4. PICK n \in Nat : n = end - cur + 1 /\ n = RestAndNul(e)
  BY <1>2, <1>3 DEF RestAndNul
<1>5. cur + n <= LineLen /\ cur <= end /\ end < LineLen
  BY <1>2, <1>3, <1>4, SlotBounds
<1>6. s \in Seq(CellValue) /\ Len(s) = n
  <2>1. s = Chunk(e.line, cur, n)
    BY <1>3, <1>4
  <2> HIDE DEF s
  <2> QED
    BY <1>2, <1>5, <2>1, ChunkIs
<1>7. p = Put(Put(e.con, s), Nuls(k))
  <2>1. Nuls(k) \in Seq(CellValue)
    BY NulsAre
  <2> HIDE DEF s
  <2> QED
    BY <1>2, <1>6, <2>1, PutTwo
<1> DEFINE q == Put(e.con, s)
<1>8. /\ q \in Console /\ q.at = at + n
      /\ \A i \in Cell : q.cells[i] = IF at <= i /\ i < at + n
                                      THEN e.line[i - at + cur] ELSE e.con.cells[i]
  BY <1>2, <1>3, <1>4, <1>5, PutChunk
<1> HIDE DEF q
<1>9. /\ p \in Console
      /\ \A i \in Cell : p.cells[i] = IF q.at <= i /\ i < q.at + k
                                      THEN Nul ELSE q.cells[i]
  <2>1. p = Put(q, Nuls(k))
    BY <1>7 DEF q
  <2> HIDE DEF p
  <2> QED
    BY <1>8, <2>1, PutNuls
<1>10. con \in Console /\ con.at = at /\ con.cells = p.cells
  <2> HIDE DEF p
  <2> QED
    BY <1>3, <1>9, SetAt
<1> HIDE DEF con, p, s, r
<1>11. r = [line |-> e.line, cur |-> e.cur, end |-> e.end, con |-> con]
  BY <1>1, <1>2, SetConsole
<1>12. Buffered(r) /\ r.line = e.line /\ r.cur = e.cur /\ r.end = e.end /\ r.con = con
  BY <1>2, <1>10, <1>11, Rebuilt
<1>13. Begin(r) = at - cur /\ Begin(e) = at - cur
  BY <1>3, <1>10, <1>12 DEF Begin
<1>14. ASSUME NEW i \in Cell, i >= at - cur
       PROVE  con.cells[i] = IF i - (at - cur) < end THEN e.line[i - (at - cur)] ELSE Nul
  <2>1. i \in Int /\ i - (at - cur) \in Nat /\ i - at + cur = i - (at - cur)
    BY <1>14, CellNumbers
  <2>2. /\ i - (at - cur) < cur => e.con.cells[i] = e.line[i - (at - cur)]
        /\ i - (at - cur) > end + k => e.con.cells[i] = Nul
    BY <1>3, <1>13, <1>14
  <2>3. CASE i < at
    BY <1>5, <1>8, <1>9, <1>10, <2>1, <2>2, <2>3
  <2>4. CASE at <= i /\ i < at + n
    <3>1. con.cells[i] = e.line[i - (at - cur)]
      BY <1>8, <1>9, <1>10, <2>1, <2>4
    <3>2. i - (at - cur) \in Slot
      BY <1>4, <1>5, <2>1, <2>4, SlotBounds
    <3>3. ~(i - (at - cur) < end) => e.line[i - (at - cur)] = Nul
      BY <1>2, <1>3, <3>2
    <3> QED
      BY <3>1, <3>3
  <2>5. CASE at + n <= i /\ i < at + n + k
    BY <1>4, <1>8, <1>9, <1>10, <2>1, <2>5
  <2>6. CASE i >= at + n + k
    <3>1. con.cells[i] = e.con.cells[i]
      BY <1>8, <1>9, <1>10, <2>1, <2>6
    <3>2. ~(i - (at - cur) < end) /\ i - (at - cur) > end + k
      BY <1>4, <2>1, <2>6
    <3> QED
      BY <2>2, <3>1, <3>2
  <2> QED
    BY <2>1, <2>3, <2>4, <2>5, <2>6
<1>15. Shows(r)
  <2> SUFFICES ASSUME NEW i \in Cell, i >= at - cur
               PROVE  con.cells[i] = IF i - (at - cur) < end
                                     THEN e.line[i - (at - cur)] ELSE Nul
    BY <1>3, <1>12, <1>13 DEF Shows
  <2> QED
    BY <1>14
<1> QED
  BY <1>12, <1>15 DEF EditorOK, r

(* The line without k characters behind place c, the console cursor at c.  *)
LEMMA CutLine ==
  ASSUME NEW e, EditorOK(e), NEW c \in Nat, NEW k \in Nat, c + k <= e.end,
         NEW l, l = [i \in Slot |-> l[i]],
         \A i \in Slot : l[i] = IF i < c THEN e.line[i]
                                ELSE IF i <= e.end - k THEN e.line[i + k]
                                ELSE IF i <= e.end THEN Nul ELSE e.line[i],
         NEW con \in Console, con.at = e.con.at - (e.cur - c), con.cells = e.con.cells,
         NEW r, r = [line |-> l, cur |-> c, end |-> e.end - k, con |-> con]
  PROVE  LET t == Rewritten(r, k)
         IN EditorOK(t) /\ t.line = l /\ t.cur = c /\ t.end = e.end - k
<1>1. Buffered(e) /\ Shows(e)
  BY DEF EditorOK
<1>2. /\ e \in Editor /\ e.cur \in Nat /\ e.end \in Nat /\ e.end < LineLen
      /\ e.con.at \in Int
      /\ \A i \in Slot : e.line[i] \in IF i < e.end THEN Chars ELSE {Nul}
  BY <1>1, EditorFields, SlotBounds DEF Buffered
<1>3. PICK end \in Nat, at \in Int : end = e.end - k /\ at = e.con.at - e.cur
  BY <1>2
<1>4. c \in Slot /\ end \in Slot /\ c <= end /\ e.end = end + k
  BY <1>2, <1>3, SlotBounds
<1>5. ASSUME NEW i \in Slot PROVE l[i] \in IF i < end THEN Chars ELSE {Nul}
  <2>1. i \in Nat /\ i < LineLen
    BY SlotBounds
  <2>2. CASE i < c
    BY <1>2, <1>4, <2>1, <2>2
  <2>3. CASE c <= i /\ i <= end
    <3>1. l[i] = e.line[i + k] /\ i + k \in Slot /\ (i < end <=> i + k < e.end)
      BY <1>2, <1>3, <1>4, <2>1, <2>3, SlotBounds
    <3> QED
      BY <1>2, <3>1
  <2>4. CASE i > end
    <3>1. l[i] = IF i <= e.end THEN Nul ELSE e.line[i]
      BY <1>2, <1>3, <1>4, <2>1, <2>4
    <3>2. ~(i <= e.end) => e.line[i] = Nul
      BY <1>2, <1>3, <2>1
    <3> QED
      BY <1>4, <2>1, <2>4, <3>1, <3>2
  <2> QED
    BY <1>4, <2>1, <2>2, <2>3, <2>4
<1>6. l \in [Slot -> Chars \union {Nul}]
  <2>1. \A i \in Slot : l[i] \in Chars \union {Nul}
    BY <1>5
  <2> QED
    BY <2>1
<1>7. Buffered(r) /\ r.line = l /\ r.cur = c /\ r.end = end /\ r.con = con
  BY <1>3, <1>4, <1>5, <1>6, Rebuilt
<1>8. Begin(r) = at /\ Begin(e) = at
  BY <1>2, <1>3, <1>7 DEF Begin
<1>9. ASSUME NEW i \in Cell, i >= at
      PROVE  /\ i - at < c => con.cells[i] = l[i - at]
             /\ i - at > end + k => con.cells[i] = Nul
  <2>1. i - at \in Nat
    BY <1>9, CellNumbers
  <2>2. con.cells[i] = IF i - at < end + k THEN e.line[i - at] ELSE Nul
    BY <1>1, <1>4, <1>8, <1>9 DEF Shows
  <2>3. i - at < c => i - at \in Slot /\ i - at < end + k
    BY <1>2, <1>4, <2>1, SlotBounds
  <2>4. i - at < c => l[i - at] = e.line[i - at]
    BY <2>3
  <2>5. i - at > end + k => ~(i - at < end + k)
    BY <2>1
  <2> QED
    BY <2>2, <2>3, <2>4, <2>5
<1>10. \A i \in Cell : i >= Begin(r) =>
         /\ i - Begin(r) < r.cur => r.con.cells[i] = r.line[i - Begin(r)]
         /\ i - Begin(r) > r.end + k => r.con.cells[i] = Nul
  BY <1>7, <1>8, <1>9
<1> QED
  BY <1>3, <1>7, <1>10, RewrittenShows

LEMMA BackedKey ==
  ASSUME NEW e, EditorOK(e), NEW n \in Nat
  PROVE  LET r == proceed_back_key(e, n)
         IN /\ EditorOK(r)
            /\ \E k \in 0 .. e.cur :
                 /\ r.cur = e.cur - k /\ r.end = e.end - k
                 /\ \A i \in Slot :
                      r.line[i] = IF i < e.cur - k THEN e.line[i]
                                  ELSE IF i <= e.end - k THEN e.line[i + k]
                                  ELSE IF i <= e.end THEN Nul ELSE e.line[i]
<1>1. /\ e \in Editor /\ e.cur \in Nat /\ e.end \in Nat /\ e.cur <= e.end
      /\ e.end < LineLen /\ e.con \in Console /\ e.con.at \in Int
  BY EditorFields, SlotBounds DEF EditorOK, Buffered
<1>2. PICK k \in Nat : k = Min({n, e.cur}) /\ k <= e.cur
  <2>1. n \in Int /\ e.cur \in Int
    BY <1>1
  <2>2. Min({n, e.cur}) = IF n <= e.cur THEN n ELSE e.cur
    BY <2>1, MinOfTwo
  <2> QED
    BY <1>1, <2>2
<1>3. PICK c \in Nat : c = e.cur - k
  BY <1>1, <1>2
<1> DEFINE m == Moved(e.line, c, e.cur, RestAndNul(e))
           l == Filled(m, Nul, e.end - k + 1, k)
           con == Back(e.con, k)
           r == [line |-> l, cur |-> c, end |-> e.end - k, con |-> con]
<1>4. proceed_back_key(e, n) = Rewritten(r, k)
  <2> DEFINE a == [e EXCEPT !.line = l, !.cur = @ - k, !.end = @ - k, !.con = Back(@, k)]
  <2>1. proceed_back_key(e, n) = Rewritten(a, k)
    BY <1>2, <1>3 DEF proceed_back_key
  <2>2. a = [e EXCEPT !.line = l, !.cur = c, !.end = e.end - k, !.con = con]
    BY <1>3
  <2> HIDE DEF a, l, con
  <2>3. a = [line |-> l, cur |-> c, end |-> e.end - k, con |-> con]
    BY <1>1, <2>2, SetAll
  <2> QED
    BY <2>1, <2>3
<1>5. ASSUME NEW i \in Slot
      PROVE  l[i] = IF i < c THEN e.line[i]
                    ELSE IF i <= e.end - k THEN e.line[i + k]
                    ELSE IF i <= e.end THEN Nul ELSE e.line[i]
  <2>1. RestAndNul(e) = e.end - e.cur + 1 /\ i \in Nat /\ i < LineLen
    BY SlotBounds DEF RestAndNul
  <2>2. i \in c .. c + RestAndNul(e) - 1 <=> c <= i /\ i <= e.end - k
    BY <1>1, <1>2, <1>3, <2>1
  <2>3. i \in e.end - k + 1 .. (e.end - k + 1) + k - 1 <=> e.end - k < i /\ i <= e.end
    BY <1>1, <1>2, <1>3, <2>1
  <2>4. c <= i /\ i <= e.end - k => i - c + e.cur = i + k /\ i + k \in Slot
    BY <1>1, <1>2, <1>3, <2>1, SlotBounds
  <2> QED
    BY <1>1, <1>2, <1>3, <2>1, <2>2, <2>3, <2>4 DEF Filled, Moved
<1>6. l = [i \in Slot |-> l[i]]
  BY DEF Filled
<1>7. con \in Console /\ con.at = e.con.at - (e.cur - c) /\ con.cells = e.con.cells
  <2>1. con.at = e.con.at - k /\ con \in Console /\ con.cells = e.con.cells
    <3>1. k \in Int /\ e.con \in Console
      BY <1>1
    <3> HIDE DEF l, m
    <3> QED
      BY <3>1, BackCells
  <2>2. e.cur - c = k
    BY <1>1, <1>3
  <2> QED
    BY <2>1, <2>2
<1>8. c + k <= e.end
  BY <1>1, <1>3
<1> HIDE DEF l, con, m
<1> DEFINE t == Rewritten(r, k)
<1>9. EditorOK(t) /\ t.line = l /\ t.cur = c /\ t.end = e.end - k
  BY <1>5, <1>6, <1>7, <1>8, CutLine
<1> HIDE DEF t, r
<1>10. k \in 0 .. e.cur
  BY <1>1, <1>2
<1> QED
  BY <1>3, <1>4, <1>5, <1>9, <1>10 DEF t

(* proceed_delete_key (cmd_line_wc.c:506-533) reads behind the buffer when *)
(* more is deleted than follows; those places are filled with NULs.        *)
LEMMA DeletedKey ==
  ASSUME NEW e, EditorOK(e), NEW n \in Nat
  PROVE  LET r == proceed_delete_key(e, n)
         IN /\ EditorOK(r)
            /\ \E k \in 0 .. e.end - e.cur :
                 /\ r.cur = e.cur /\ r.end = e.end - k
                 /\ \A i \in Slot :
                      r.line[i] = IF i < e.cur THEN e.line[i]
                                  ELSE IF i <= e.end - k THEN e.line[i + k]
                                  ELSE IF i <= e.end THEN Nul ELSE e.line[i]
<1>1. /\ e \in Editor /\ e.cur \in Nat /\ e.end \in Nat /\ e.cur <= e.end
      /\ e.end < LineLen /\ e.con \in Console /\ e.con.at \in Int
  BY EditorFields, SlotBounds DEF EditorOK, Buffered
<1>2. PICK k \in Nat : k = Min({n, e.end - e.cur}) /\ k <= e.end - e.cur
  <2>1. n \in Int /\ e.end - e.cur \in Int
    BY <1>1
  <2>2. Min({n, e.end - e.cur}) = IF n <= e.end - e.cur THEN n ELSE e.end - e.cur
    BY <2>1, MinOfTwo
  <2> QED
    BY <1>1, <2>2
<1>3. PICK c \in Nat : c = e.cur
  BY <1>1
<1> DEFINE m == Moved(e.line, c, c + k, e.end - c)
           l == Filled(m, Nul, e.end - k + 1, k)
           con == e.con
           r == [line |-> l, cur |-> c, end |-> e.end - k, con |-> con]
<1>4. proceed_delete_key(e, n) = Rewritten(r, k)
  <2> DEFINE a == [e EXCEPT !.line = l, !.end = @ - k]
  <2>1. proceed_delete_key(e, n) = Rewritten(a, k)
    BY <1>2, <1>3 DEF proceed_delete_key
  <2>2. a = [e EXCEPT !.line = l, !.end = e.end - k]
    OBVIOUS
  <2> HIDE DEF a, l
  <2>3. a = [line |-> l, cur |-> c, end |-> e.end - k, con |-> e.con]
    BY <1>1, <1>3, <2>2, SetRest
  <2> QED
    BY <2>1, <2>3
<1>5. ASSUME NEW i \in Slot
      PROVE  l[i] = IF i < c THEN e.line[i]
                    ELSE IF i <= e.end - k THEN e.line[i + k]
                    ELSE IF i <= e.end THEN Nul ELSE e.line[i]
  <2>1. i \in Nat /\ i < LineLen
    BY SlotBounds
  <2>2. i \in c .. c + (e.end - c) - 1 <=> c <= i /\ i < e.end
    BY <1>1, <1>2, <1>3, <2>1
  <2>3. i \in e.end - k + 1 .. (e.end - k + 1) + k - 1 <=> e.end - k < i /\ i <= e.end
    BY <1>1, <1>2, <1>3, <2>1
  <2>4. c <= i /\ i <= e.end - k => i - c + (c + k) = i + k /\ i + k \in Slot
    BY <1>1, <1>2, <1>3, <2>1, SlotBounds
  <2>5. i <= e.end - k /\ ~(i < e.end) => k = 0 /\ i + k = i
    BY <1>1, <2>1
  <2> QED
    BY <1>1, <1>2, <1>3, <2>1, <2>2, <2>3, <2>4, <2>5 DEF Filled, Moved
<1>6. l = [i \in Slot |-> l[i]]
  BY DEF Filled
<1>7. con \in Console /\ con.at = e.con.at - (e.cur - c) /\ con.cells = e.con.cells
  BY <1>1, <1>3
<1>8. c + k <= e.end
  BY <1>1, <1>2, <1>3
<1> HIDE DEF l, con, m
<1> DEFINE t == Rewritten(r, k)
<1>9. EditorOK(t) /\ t.line = l /\ t.cur = c /\ t.end = e.end - k
  BY <1>5, <1>6, <1>7, <1>8, CutLine
<1> HIDE DEF t, r
<1>10. k \in 0 .. e.end - e.cur
  BY <1>1, <1>2
<1> QED
  BY <1>3, <1>4, <1>5, <1>9, <1>10 DEF t

(* The keys that only move, and the cursor a prompt asks for.              *)
LEMMA MovedCursor ==
  ASSUME NEW e, EditorOK(e), NEW p \in Nat, p <= e.end
  PROVE  /\ EditorOK(CursorTo(e, p))
         /\ CursorTo(e, p).cur = p /\ CursorTo(e, p).end = e.end
         /\ CursorTo(e, p).line = e.line /\ CursorTo(e, p).con.at = Begin(e) + p
         /\ CursorTo(e, p).con.cells = e.con.cells
<1> DEFINE r == CursorTo(e, p)
           con == Back(e.con, e.cur - p)
<1>1. /\ e \in Editor /\ e.cur \in Nat /\ e.end \in Nat /\ e.end \in Slot /\ e.end < LineLen
      /\ e.con \in Console /\ e.con.at \in Int
      /\ e.line \in [Slot -> Chars \union {Nul}]
      /\ \A i \in Slot : e.line[i] \in IF i < e.end THEN Chars ELSE {Nul}
      /\ Shows(e)
  BY EditorFields, SlotBounds DEF EditorOK, Buffered
<1>2. PICK d \in Int : d = e.cur - p
  BY <1>1
<1>3. con \in Console /\ con.at = Begin(e) + p /\ con.cells = e.con.cells
  <2>1. /\ Back(e.con, d) \in Console /\ Back(e.con, d).at = e.con.at - d
        /\ Back(e.con, d).cells = e.con.cells
    BY <1>1, BackCells
  <2>2. e.con.at - d = Begin(e) + p
    BY <1>1, <1>2 DEF Begin
  <2> QED
    BY <1>2, <2>1, <2>2
<1>4. r = [line |-> e.line, cur |-> p, end |-> e.end, con |-> con]
  <2>1. r = [e EXCEPT !.cur = p, !.con = con]
    BY DEF CursorTo
  <2> HIDE DEF r, con
  <2> QED
    BY <1>1, <2>1, SetCursor
<1>5. p \in Slot
  BY <1>1, SlotBounds
<1> HIDE DEF con, r
<1>6. Buffered(r) /\ r.line = e.line /\ r.cur = p /\ r.end = e.end /\ r.con = con
  BY <1>1, <1>3, <1>4, <1>5, Rebuilt
<1>7. Begin(r) = Begin(e)
  BY <1>1, <1>3, <1>6 DEF Begin
<1>8. Shows(r)
  BY <1>1, <1>3, <1>6, <1>7 DEF Shows
<1> QED
  BY <1>3, <1>6, <1>8 DEF EditorOK, r

LEMMA LeftRight ==
  ASSUME NEW e, EditorOK(e), NEW n \in Nat
  PROVE  EditorOK(proceed_left_key(e, n)) /\ EditorOK(proceed_right_key(e, n))
<1>1. e.cur \in Nat /\ e.end \in Nat /\ e.cur <= e.end
  BY EditorFields DEF EditorOK, Buffered
<1>2. PICK p \in Nat : p = e.cur - Min({n, e.cur}) /\ p <= e.end
  <2>1. n \in Int /\ e.cur \in Int
    BY <1>1
  <2>2. Min({n, e.cur}) = IF n <= e.cur THEN n ELSE e.cur
    BY <2>1, MinOfTwo
  <2> QED
    BY <1>1, <2>2
<1>3. PICK q \in Nat : q = Min({e.cur + n, e.end}) /\ q <= e.end
  <2>1. e.cur + n \in Int /\ e.end \in Int
    BY <1>1
  <2>2. Min({e.cur + n, e.end}) = IF e.cur + n <= e.end THEN e.cur + n ELSE e.end
    BY <2>1, MinOfTwo
  <2> QED
    BY <1>1, <2>2
<1>4. proceed_left_key(e, n) = CursorTo(e, p)
  BY <1>2 DEF proceed_left_key
<1>5. proceed_right_key(e, n) = CursorTo(e, q)
  BY <1>3 DEF proceed_right_key
<1> QED
  BY <1>2, <1>3, <1>4, <1>5, MovedCursor

LEMMA HomeEnd ==
  ASSUME NEW e, EditorOK(e)
  PROVE  EditorOK(proceed_home_key(e)) /\ EditorOK(proceed_end_key(e))
<1>1. e.end \in Nat /\ 0 \in Nat /\ 0 <= e.end /\ e.end <= e.end
  BY EditorFields DEF EditorOK, Buffered
<1> QED
  BY <1>1, MovedCursor DEF proceed_home_key, proceed_end_key

(* Escape leaves nothing, also where a message stands before the cursor:   *)
(* the console shows blanks from the end of the line on.                   *)
LEMMA Escaped ==
  ASSUME NEW e, Buffered(e),
         \A i \in Cell : i >= Begin(e) + e.end => e.con.cells[i] = Nul
  PROVE  LET r == proceed_escape_key(e)
         IN EditorOK(r) /\ r.end = 0 /\ Blank(r.con)
<1> DEFINE r == proceed_escape_key(e)
           h == proceed_home_key(e)
           l == Filled(h.line, Nul, 0, h.end)
           con == Back(Put(h.con, Nuls(h.end)), h.end)
<1>1. /\ e \in Editor /\ e.cur \in Nat /\ e.end \in Nat /\ e.end < LineLen
      /\ e.con \in Console /\ e.con.at \in Int
      /\ e.line \in [Slot -> Chars \union {Nul}]
      /\ \A i \in Slot : e.line[i] \in IF i < e.end THEN Chars ELSE {Nul}
  BY EditorFields, SlotBounds DEF Buffered
<1>2. PICK d \in Int : d = e.cur /\ d = e.cur - 0
  BY <1>1
<1>3. /\ Back(e.con, d) \in Console /\ Back(e.con, d).at = Begin(e)
      /\ Back(e.con, d).cells = e.con.cells
  <2>1. /\ Back(e.con, d) \in Console /\ Back(e.con, d).at = e.con.at - d
        /\ Back(e.con, d).cells = e.con.cells
    BY <1>1, BackCells
  <2> QED
    BY <1>2, <2>1 DEF Begin
<1>4. h = [line |-> e.line, cur |-> 0, end |-> e.end, con |-> Back(e.con, d)]
  <2>1. h = [e EXCEPT !.cur = 0, !.con = Back(e.con, d)]
    BY <1>2 DEF proceed_home_key, CursorTo
  <2> HIDE DEF h
  <2> QED
    BY <1>1, <2>1, SetCursor
<1> HIDE DEF h
<1>5. h.line = e.line /\ h.cur = 0 /\ h.end = e.end /\ h.con = Back(e.con, d) /\ h \in Editor
  <2>1. h.line = e.line /\ h.cur = 0 /\ h.end = e.end /\ h.con = Back(e.con, d)
    BY <1>4
  <2>2. 0 \in Slot /\ e.end \in Slot
    BY <1>1, SlotBounds
  <2> QED
    BY <1>1, <1>3, <1>4, <2>1, <2>2 DEF Editor
<1>6. r = [h EXCEPT !.line = Filled(@, Nul, 0, e.end), !.end = 0,
                    !.con = Back(Put(@, Nuls(e.end)), e.end)]
  BY DEF proceed_escape_key, h
<1>7. r = [line |-> l, cur |-> 0, end |-> 0, con |-> con]
  <2>1. r = [h EXCEPT !.line = l, !.end = 0, !.con = con]
    BY <1>5, <1>6
  <2> HIDE DEF r, l, con
  <2>2. h \in Editor
    BY <1>5
  <2>3. [h EXCEPT !.line = l, !.end = 0, !.con = con]
          = [line |-> l, cur |-> h.cur, end |-> 0, con |-> con]
    BY <2>2, SetRestAndConsole
  <2> QED
    BY <1>5, <2>1, <2>3
<1>8. ASSUME NEW i \in Slot PROVE l[i] = Nul
  <2>1. i \in Nat /\ (i \in 0 .. 0 + e.end - 1 <=> i < e.end)
    BY <1>1, SlotBounds
  <2>2. l[i] = IF i < e.end THEN Nul ELSE e.line[i]
    BY <1>5, <2>1 DEF Filled
  <2> QED
    BY <1>1, <2>2
<1>9. l \in [Slot -> Chars \union {Nul}]
  <2>1. l = [i \in Slot |-> l[i]]
    BY DEF Filled
  <2> HIDE DEF l
  <2> QED
    BY <1>8, <2>1
<1> DEFINE p == Put(h.con, Nuls(h.end))
<1>10. /\ p \in Console /\ p.at = Begin(e) + e.end
       /\ \A i \in Cell : p.cells[i] = IF Begin(e) <= i /\ i < Begin(e) + e.end
                                       THEN Nul ELSE e.con.cells[i]
  BY <1>1, <1>3, <1>5, PutNuls
<1>11. con \in Console /\ con.at = Begin(e) /\ con.cells = p.cells
  <2> HIDE DEF p
  <2>1. e.end \in Int /\ h.end = e.end /\ Begin(e) \in Int
    BY <1>1, <1>5 DEF Begin
  <2>2. /\ Back(p, e.end) \in Console /\ Back(p, e.end).at = p.at - e.end
        /\ Back(p, e.end).cells = p.cells
    BY <1>10, <2>1, BackCells
  <2>3. con = Back(p, e.end)
    BY <2>1 DEF p
  <2>4. p.at - e.end = Begin(e)
    BY <1>10, <2>1
  <2> QED
    BY <2>2, <2>3, <2>4
<1> HIDE DEF p, con, l, r
<1>12. Begin(e) \in Int
  BY <1>1 DEF Begin
<1>13. ASSUME NEW i \in Cell, i >= Begin(e) PROVE con.cells[i] = Nul
  <2>1. i \in Int /\ (i < Begin(e) + e.end \/ i >= Begin(e) + e.end)
    BY <1>1, <1>12, CellNumbers
  <2> QED
    BY <1>10, <1>11, <1>13, <2>1
<1>14. 0 \in Slot /\ 0 <= 0 /\ \A i \in Slot : ~(i < 0)
  BY SlotBounds
<1>15. Buffered(r) /\ r.line = l /\ r.cur = 0 /\ r.end = 0 /\ r.con = con
  <2>1. \A i \in Slot : l[i] \in IF i < 0 THEN Chars ELSE {Nul}
    BY <1>8, <1>14
  <2> QED
    BY <1>7, <1>9, <1>11, <1>14, <2>1, Rebuilt
<1>16. Begin(r) = Begin(e)
  BY <1>11, <1>12, <1>15 DEF Begin
<1>17. Shows(r)
  <2> SUFFICES ASSUME NEW i \in Cell, i >= Begin(e)
               PROVE  con.cells[i] = IF i - Begin(e) < 0 THEN l[i - Begin(e)] ELSE Nul
    BY <1>15, <1>16 DEF Shows
  <2>1. ~(i - Begin(e) < 0)
    BY <1>12, CellNumbers
  <2> QED
    BY <1>13, <2>1
<1>18. Blank(r.con)
  BY <1>11, <1>13, <1>15 DEF Blank
<1> QED
  BY <1>15, <1>17, <1>18 DEF EditorOK, r

(* A line that is shown where nothing stands.                              *)
LEMMA ShownLine ==
  ASSUME NEW e, e.con \in Console, Blank(e.con), NEW s \in Strings
  PROVE  /\ EditorOK(Shown(e, s))
         /\ Shown(e, s).cur = Len(s) /\ Shown(e, s).end = Len(s)
<1> DEFINE r == Shown(e, s)
           l == Loaded(s)
           con == Put(e.con, s)
<1>1. /\ s \in Seq(Chars) /\ Len(s) \in Slot /\ Len(s) \in Nat /\ Len(s) < LineLen
      /\ s \in Seq(CellValue) /\ e.con.at \in Int
      /\ \A i \in 1 .. Len(s) : s[i] \in Chars
  <2>1. s \in Seq(Chars) /\ Len(s) \in Slot
    BY StringsBounds
  <2>2. \A i \in 1 .. Len(s) : s[i] \in Chars
    BY <2>1, ElementOfSeq
  <2>3. s \in [1 .. Len(s) -> CellValue] /\ Len(s) \in Nat
    BY <2>1, <2>2, LenProperties DEF CellValue
  <2>4. s \in Seq(CellValue)
    BY <2>3, SeqDef
  <2> QED
    BY <2>1, <2>2, <2>4, SlotBounds DEF Console
<1>2. r = [line |-> l, cur |-> Len(s), end |-> Len(s), con |-> con]
  BY DEF Shown
<1>3. ASSUME NEW i \in Slot
      PROVE  /\ l[i] = IF i < Len(s) THEN s[i + 1] ELSE Nul
             /\ l[i] \in IF i < Len(s) THEN Chars ELSE {Nul}
  <2>1. i \in Nat
    BY SlotBounds
  <2>2. i < Len(s) => i + 1 \in 1 .. Len(s)
    BY <1>1, <2>1
  <2> QED
    BY <1>1, <2>2 DEF Loaded
<1>4. l \in [Slot -> Chars \union {Nul}]
  <2>1. l = [i \in Slot |-> l[i]]
    BY DEF Loaded
  <2> HIDE DEF l
  <2>2. \A i \in Slot : l[i] \in Chars \union {Nul}
    BY <1>3
  <2> QED
    BY <2>1, <2>2
<1>5. /\ con \in Console /\ con.at = e.con.at + Len(s)
      /\ \A i \in Cell : con.cells[i] = IF i \in e.con.at .. e.con.at + Len(s) - 1
                                        THEN s[i - e.con.at + 1] ELSE e.con.cells[i]
  BY <1>1, PutCells
<1> HIDE DEF con, l, r
<1>6. Buffered(r) /\ r.line = l /\ r.cur = Len(s) /\ r.end = Len(s) /\ r.con = con
  <2>1. Len(s) <= Len(s) /\ \A i \in Slot : l[i] \in IF i < Len(s) THEN Chars ELSE {Nul}
    BY <1>1, <1>3
  <2> QED
    BY <1>1, <1>2, <1>4, <1>5, <2>1, Rebuilt
<1>7. Begin(r) = e.con.at
  BY <1>1, <1>5, <1>6 DEF Begin
<1>8. Shows(r)
  <2> SUFFICES ASSUME NEW i \in Cell, i >= e.con.at
               PROVE  con.cells[i] = IF i - e.con.at < Len(s) THEN l[i - e.con.at] ELSE Nul
    BY <1>6, <1>7 DEF Shows
  <2>1. i - e.con.at \in Nat /\ i \in Int
    BY <1>1, CellNumbers
  <2>2. CASE i - e.con.at < Len(s)
    <3>1. i - e.con.at \in Slot /\ i \in e.con.at .. e.con.at + Len(s) - 1
          /\ (i - e.con.at) + 1 = i - e.con.at + 1
      BY <1>1, <2>1, <2>2, SlotBounds
    <3> QED
      BY <1>3, <1>5, <2>2, <3>1
  <2>3. CASE ~(i - e.con.at < Len(s))
    <3>1. i \notin e.con.at .. e.con.at + Len(s) - 1
      BY <1>1, <2>1, <2>3
    <3> QED
      BY <1>5, <2>3, <3>1 DEF Blank
  <2> QED
    BY <2>2, <2>3
<1> QED
  BY <1>6, <1>8 DEF EditorOK, r

(* set_cmd_line (cmd_line_wc.c:579-611): the old line goes before the new  *)
(* one is shown.                                                           *)
LEMMA SetLineShows ==
  ASSUME NEW e, Buffered(e), NEW s \in Strings,
         \A i \in Cell : i >= Begin(e) + e.end => e.con.cells[i] = Nul
  PROVE  /\ EditorOK(set_cmd_line(e, s))
         /\ set_cmd_line(e, s).cur = Len(s) /\ set_cmd_line(e, s).end = Len(s)
<1>1. PICK r : /\ r = proceed_escape_key(e) /\ EditorOK(r) /\ Blank(r.con)
  BY Escaped
<1>2. r.con \in Console
  BY <1>1, EditorFields DEF EditorOK, Buffered
<1>3. set_cmd_line(e, s) = Shown(r, s)
  BY <1>1 DEF set_cmd_line
<1> QED
  BY <1>1, <1>2, <1>3, ShownLine

LEMMA NothingBehind ==
  ASSUME NEW e, EditorOK(e)
  PROVE  \A i \in Cell : i >= Begin(e) + e.end => e.con.cells[i] = Nul
<1> SUFFICES ASSUME NEW i \in Cell, i >= Begin(e) + e.end PROVE e.con.cells[i] = Nul
  OBVIOUS
<1>1. e.cur \in Nat /\ e.end \in Nat /\ e.con.at \in Int /\ Shows(e)
  BY EditorFields DEF EditorOK, Buffered
<1>2. PICK b \in Int : b = Begin(e)
  BY <1>1 DEF Begin
<1>3. i >= b /\ ~(i - b < e.end)
  BY <1>1, <1>2, CellNumbers
<1> QED
  BY <1>1, <1>2, <1>3 DEF Shows

(* What the handlers take as the text of the line.                         *)
LEMMA TextOf ==
  ASSUME NEW e, Buffered(e)
  PROVE  /\ Text(e) \in Strings /\ Text(e) \in Seq(Chars) /\ Len(Text(e)) = e.end
         /\ \A i \in 1 .. e.end : Text(e)[i] = e.line[i - 1]
<1>1. /\ e \in Editor /\ e.end \in Nat /\ e.end \in Slot /\ e.end < LineLen
      /\ e.line \in [Slot -> Chars \union {Nul}]
      /\ \A i \in Slot : e.line[i] \in IF i < e.end THEN Chars ELSE {Nul}
  BY EditorFields, SlotBounds DEF Buffered
<1> DEFINE S == {i \in Slot : e.line[i] = Nul}
<1>2. e.end \in S /\ \A i \in S : i \in Nat /\ e.end <= i
  <2>1. ~(e.end < e.end)
    BY <1>1
  <2>2. ASSUME NEW i \in S PROVE i \in Nat /\ ~(i < e.end)
    BY <1>1, SlotBounds
  <2>3. \A i \in Nat : ~(i < e.end) => e.end <= i
    BY <1>1
  <2> QED
    BY <1>1, <2>1, <2>2, <2>3
<1>3. S \in SUBSET Nat /\ S # {}
  BY <1>2
<1>4. Terminator(e.line) = e.end
  <2>1. Terminator(e.line) = Min(S)
    BY DEF Terminator
  <2> HIDE DEF S
  <2>2. Min(S) \in S /\ \A y \in S : Min(S) <= y
    BY <1>3, LeastOf
  <2>3. \A a, b \in Nat : a <= b /\ b <= a => a = b
    OBVIOUS
  <2>4. Min(S) \in Nat /\ Min(S) <= e.end /\ e.end <= Min(S)
    BY <1>2, <2>2
  <2>5. Min(S) = e.end
    BY <1>1, <2>3, <2>4
  <2> QED
    BY <2>1, <2>5
<1>5. Text(e) = [i \in 1 .. e.end |-> e.line[0 + i - 1]]
  BY <1>4 DEF Text, Chunk
<1>6. ASSUME NEW i \in 1 .. e.end PROVE e.line[0 + i - 1] \in Chars
  <2>1. 0 + i - 1 \in Slot /\ 0 + i - 1 < e.end
    BY <1>1, SlotBounds
  <2> QED
    BY <1>1, <2>1
<1>7. Text(e) \in [1 .. e.end -> Chars]
  BY <1>5, <1>6
<1>8. Text(e) \in Seq(Chars) /\ Len(Text(e)) = e.end
  BY <1>1, <1>7, LengthOf
<1>9. \A i \in 1 .. e.end : Text(e)[i] = e.line[i - 1]
  BY <1>1, <1>5
<1> QED
  BY <1>1, <1>8, <1>9, StringsBounds

-----------------------------------------------------------------------------
(* The history.                                                            *)

LEMMA RingBounds == /\ Depth \in Nat /\ Depth > 1
                    /\ \A i : i \in Ring <=> i \in Nat /\ i < Depth
BY ConstantsAssumption DEF Ring

LEMMA RingModulo == \A i \in Nat : i % Depth \in Ring
<1> SUFFICES ASSUME NEW i \in Nat PROVE i % Depth \in Ring
  OBVIOUS
<1>1. Depth \in Nat /\ Depth > 0
  BY RingBounds
<1>2. i % Depth \in 0 .. Depth - 1
  BY <1>1
<1> QED
  BY <1>2 DEF Ring

LEMMA HistoryFields ==
  ASSUME NEW h \in HistoryBuffer
  PROVE  /\ h.lines \in [Ring -> Strings] /\ h.rd \in Ring /\ h.wr \in Ring
         /\ h.tmpl \in Strings
         /\ h = [lines |-> h.lines, rd |-> h.rd, wr |-> h.wr, tmpl |-> h.tmpl]
BY DEF HistoryBuffer

LEMMA SetRead ==
  ASSUME NEW h \in HistoryBuffer, NEW r \in Ring
  PROVE  LET t == [h EXCEPT !.rd = r]
         IN /\ t \in HistoryBuffer /\ t.rd = r /\ t.wr = h.wr
            /\ t.lines = h.lines /\ t.tmpl = h.tmpl
BY DEF HistoryBuffer

LEMMA SetTemplate ==
  ASSUME NEW h \in HistoryBuffer, NEW s \in Strings
  PROVE  LET t == [h EXCEPT !.tmpl = s]
         IN t \in HistoryBuffer /\ t.rd = h.rd /\ t.wr = h.wr
BY DEF HistoryBuffer

LEMMA HistoryAdded ==
  ASSUME NEW h \in HistoryBuffer, NEW s \in Strings
  PROVE  add_to_history(h, s) \in HistoryBuffer
<1> DEFINE prev == (h.wr + Depth - 1) % Depth
           w == (h.wr + 1) % Depth
           t == [h EXCEPT !.lines[h.wr] = s]
           u == [t EXCEPT !.wr = w]
           v == [u EXCEPT !.rd = w]
<1>1. h.wr \in Ring /\ h.wr \in Nat
  BY HistoryFields, RingBounds
<1>2. w \in Ring
  BY <1>1, RingModulo
<1> HIDE DEF w
<1>3. t \in HistoryBuffer
  <2>1. t = [h EXCEPT !.lines = [h.lines EXCEPT ![h.wr] = s]]
    OBVIOUS
  <2>2. [h.lines EXCEPT ![h.wr] = s] \in [Ring -> Strings]
    BY HistoryFields
  <2> QED
    BY <2>1, <2>2 DEF HistoryBuffer
<1> HIDE DEF t
<1>4. u \in HistoryBuffer
  BY <1>2, <1>3 DEF HistoryBuffer
<1> HIDE DEF u
<1>5. v \in HistoryBuffer
  BY <1>2, <1>4 DEF HistoryBuffer
<1>6. CASE s = <<>> \/ Folded(h.lines[prev]) = Folded(s)
  <2>1. add_to_history(h, s) = [h EXCEPT !.rd = h.wr]
    BY <1>6 DEF add_to_history
  <2> QED
    BY <1>1, <2>1, SetRead
<1>7. CASE ~(s = <<>> \/ Folded(h.lines[prev]) = Folded(s))
  <2>1. add_to_history(h, s) = [h EXCEPT !.lines[h.wr] = s, !.wr = w, !.rd = w]
    BY <1>7, Zenon DEF add_to_history, w
  <2>2. [h EXCEPT !.lines[h.wr] = s, !.wr = w, !.rd = w] = v
    BY Zenon DEF t, u
  <2> QED
    BY <1>5, <2>1, <2>2
<1> QED
  BY <1>6, <1>7

(* The places of the ring, counted from one of them.                       *)
LEMMA ModWithin ==
  ASSUME NEW d \in Nat, d > 0, NEW x \in Nat, x < 2 * d
  PROVE  x % d = IF x < d THEN x ELSE x - d
OBVIOUS

LEMMA StepIs ==
  ASSUME NEW i \in Ring, NEW k \in 1 .. Depth
  PROVE  /\ Step(i, "up", k) = IF k <= i THEN i - k ELSE i + Depth - k
         /\ Step(i, "down", k) = IF i + k < Depth THEN i + k ELSE i + k - Depth
         /\ Step(i, "up", k) \in Ring /\ Step(i, "down", k) \in Ring
<1>1. Depth \in Nat /\ Depth > 0 /\ i \in Nat /\ i < Depth /\ k \in Nat
      /\ 1 <= k /\ k <= Depth
  BY RingBounds
<1>2. PICK x \in Nat, y \in Nat : x = i + Depth - k /\ y = i + k
  BY <1>1
<1>3. x < 2 * Depth /\ y < 2 * Depth
  BY <1>1, <1>2
<1>4. x % Depth = IF x < Depth THEN x ELSE x - Depth
  BY <1>1, <1>3, ModWithin
<1>5. y % Depth = IF y < Depth THEN y ELSE y - Depth
  BY <1>1, <1>3, ModWithin
<1>6. Step(i, "up", k) = x % Depth /\ Step(i, "down", k) = y % Depth
  BY <1>2 DEF Step
<1>7. x % Depth \in Ring /\ y % Depth \in Ring
  BY RingModulo
<1> QED
  BY <1>1, <1>2, <1>4, <1>5, <1>6, <1>7

Dirs == {"up", "down"}
Opposite(dir) == IF dir = "up" THEN "down" ELSE "up"

(* A full turn reaches every place, and comes back by the same steps.      *)
LEMMA StepReaches ==
  ASSUME NEW i \in Ring, NEW j \in Ring, NEW dir \in Dirs
  PROVE  \E k \in 1 .. Depth : Step(i, dir, k) = j
<1>1. Depth \in Nat /\ Depth > 0 /\ i \in Nat /\ i < Depth /\ j \in Nat /\ j < Depth
  BY RingBounds
<1>2. CASE dir = "up"
  <2>0. (IF j < i THEN i - j ELSE i - j + Depth) \in 1 .. Depth
    BY <1>1
  <2>1. PICK k \in 1 .. Depth : k = IF j < i THEN i - j ELSE i - j + Depth
    BY <2>0
  <2>2. (IF k <= i THEN i - k ELSE i + Depth - k) = j
    BY <1>1, <2>1
  <2> QED
    BY <1>2, <2>2, StepIs
<1>3. CASE dir = "down"
  <2>0. (IF i < j THEN j - i ELSE j - i + Depth) \in 1 .. Depth
    BY <1>1
  <2>1. PICK k \in 1 .. Depth : k = IF i < j THEN j - i ELSE j - i + Depth
    BY <2>0
  <2>2. (IF i + k < Depth THEN i + k ELSE i + k - Depth) = j
    BY <1>1, <2>1
  <2> QED
    BY <1>3, <2>2, StepIs
<1> QED
  BY <1>2, <1>3 DEF Dirs

(* Where the scan of scroll_history (cmd_line_wc.c:640-700) ends: the      *)
(* first place, from the next on, that matches or is n_wr_pos.             *)
StopsAt(h, j) == j = h.wr \/ Matches(h, h.lines[j])

LEMMA LandingIs ==
  ASSUME NEW h \in HistoryBuffer, NEW dir \in Dirs
  PROVE  \E k \in 1 .. Depth :
           /\ Landing(h, dir) = Step(h.rd, dir, k)
           /\ StopsAt(h, Step(h.rd, dir, k))
           /\ \A m \in 1 .. k - 1 : ~StopsAt(h, Step(h.rd, dir, m))
<1> DEFINE S == {k \in 1 .. Depth : \/ Step(h.rd, dir, k) = h.wr
                                    \/ Matches(h, h.lines[Step(h.rd, dir, k)])}
<1>1. Landing(h, dir) = Step(h.rd, dir, Min(S))
  BY DEF Landing
<1>2. h.rd \in Ring /\ h.wr \in Ring /\ Depth \in Nat
  BY HistoryFields, RingBounds
<1>3. PICK w \in 1 .. Depth : Step(h.rd, dir, w) = h.wr
  BY <1>2, StepReaches
<1>4. w \in S /\ S \in SUBSET Nat /\ S # {}
  BY <1>2, <1>3
<1>5. \A k \in 1 .. Depth : k \in S <=> StopsAt(h, Step(h.rd, dir, k))
  BY DEF StopsAt
<1>6. \A k \in S : k \in 1 .. Depth
  OBVIOUS
<1> HIDE DEF S
<1>7. Min(S) \in S /\ \A y \in S : Min(S) <= y
  BY <1>4, LeastOf
<1>8. PICK k \in 1 .. Depth : k = Min(S)
  BY <1>6, <1>7
<1>9. ASSUME NEW m \in 1 .. k - 1 PROVE ~StopsAt(h, Step(h.rd, dir, m))
  <2>1. m \in 1 .. Depth /\ ~(k <= m)
    BY <1>2
  <2> QED
    BY <1>5, <1>7, <1>8, <2>1
<1> QED
  BY <1>1, <1>5, <1>7, <1>8, <1>9

LEMMA Scrolled ==
  ASSUME NEW h \in HistoryBuffer, NEW dir \in Dirs
  PROVE  LET t == scroll_history(h, dir)
         IN /\ t \in HistoryBuffer /\ Landing(h, dir) \in Ring /\ AtStop(t)
            /\ t.rd = Landing(h, dir) /\ t.wr = h.wr
            /\ t.lines = h.lines /\ t.tmpl = h.tmpl
<1> DEFINE t == scroll_history(h, dir)
<1>1. PICK k \in 1 .. Depth : /\ Landing(h, dir) = Step(h.rd, dir, k)
                              /\ StopsAt(h, Step(h.rd, dir, k))
  BY LandingIs
<1>2. Landing(h, dir) \in Ring
  BY <1>1, HistoryFields, StepIs DEF Dirs
<1>3. t = [h EXCEPT !.rd = Landing(h, dir)]
  BY DEF scroll_history
<1>4. /\ t \in HistoryBuffer /\ t.rd = Landing(h, dir) /\ t.wr = h.wr
      /\ t.lines = h.lines /\ t.tmpl = h.tmpl
  BY <1>2, <1>3, SetRead
<1> HIDE DEF t
<1>5. AtStop(t)
  BY <1>1, <1>4 DEF AtStop, StopsAt, Matches
<1> QED
  BY <1>2, <1>4, <1>5 DEF t

LEMMA RecalledLine ==
  ASSUME NEW h \in HistoryBuffer
  PROVE  Recalled(h) \in Strings
BY HistoryFields DEF Recalled

-----------------------------------------------------------------------------
(* Prompts.                                                                *)

LEMMA PositionedCursor ==
  ASSUME NEW e, EditorOK(e), NEW p \in Nat
  PROVE  EditorOK(Positioned(e, p))
<1>1. e.end \in Nat
  BY EditorFields DEF EditorOK, Buffered
<1>2. p < e.end => p <= e.end
  BY <1>1
<1> QED
  BY <1>2, MovedCursor DEF Positioned

LEMMA Rows ==
  /\ FreshRow \in Console /\ Blank(FreshRow)
  /\ AfterMessage \in Console /\ AfterMessage.at = 0
  /\ \A i \in Cell : i >= 0 => AfterMessage.cells[i] = Nul
<1>1. FreshRow \in Console
  BY DEF FreshRow, Console, CellValue
<1>2. Blank(FreshRow)
  BY DEF FreshRow, Blank
<1>3. AfterMessage \in Console /\ AfterMessage.at = 0
  <2>1. [i \in Cell |-> IF i < 0 THEN Message ELSE Nul] \in [Cell -> CellValue]
    BY DEF CellValue
  <2> QED
    BY <2>1 DEF AfterMessage, Console
<1>4. ASSUME NEW i \in Cell, i >= 0 PROVE AfterMessage.cells[i] = Nul
  <2>1. ~(i < 0)
    BY <1>4, CellNumbers
  <2> QED
    BY <2>1 DEF AfterMessage
<1> QED
  BY <1>1, <1>2, <1>3, <1>4

LEMMA EmptyLineIs == EditorOK(EmptyLine)
<1>1. PICK e : e = [con |-> FreshRow]
  OBVIOUS
<1>2. e.con \in Console /\ Blank(e.con)
  BY <1>1, Rows
<1> QED
  BY <1>1, <1>2, ShownLine, EmptyString DEF EmptyLine

LEMMA PromptShows ==
  ASSUME NEW e, Buffered(e), NEW s \in Strings, NEW p \in Nat, NEW flag,
         \A i \in Cell : i >= Begin(e) + e.end => e.con.cells[i] = Nul
  PROVE  EditorOK(get_line_prompt(e, s, p, flag))
<1>1. EditorOK(set_cmd_line(e, s))
  BY SetLineShows
<1>2. EditorOK(Shown([e EXCEPT !.con = FreshRow], s))
  <2>1. PICK f : f = [e EXCEPT !.con = FreshRow]
    OBVIOUS
  <2>2. e \in Editor
    BY DEF Buffered
  <2>3. f = [line |-> e.line, cur |-> e.cur, end |-> e.end, con |-> FreshRow]
    BY <2>1, <2>2, SetConsole
  <2>4. f.con = FreshRow
    BY <2>3
  <2>5. EditorOK(Shown(f, s))
    BY <2>4, Rows, ShownLine
  <2> QED
    BY <2>1, <2>5
<1>3. CASE flag = "continue"
  <2>1. get_line_prompt(e, s, p, flag) = Positioned(set_cmd_line(e, s), p)
    BY <1>3 DEF get_line_prompt
  <2> QED
    BY <1>1, <2>1, PositionedCursor
<1>4. CASE flag # "continue"
  <2>1. get_line_prompt(e, s, p, flag)
          = Positioned(Shown([e EXCEPT !.con = FreshRow], s), p)
    BY <1>4 DEF get_line_prompt
  <2> QED
    BY <1>2, <2>1, PositionedCursor
<1> QED
  BY <1>3, <1>4

LEMMA Completed ==
  ASSUME NEW t \in Strings, NEW p \in Nat, p <= Len(t), NEW s \in Seq(Chars)
  PROVE  cmd_auto_complete(t, p, s) \in Strings
<1>1. t \in Seq(Chars) /\ Len(t) \in Nat /\ LineLen \in Nat /\ LineLen > 2
  BY StringsBounds, SlotBounds
<1> DEFINE a == SubSeq(t, 1, p)
           b == SubSeq(t, p + 1, Len(t))
           all == a \o s \o b
           n == Min({Len(all), LineLen - 2})
<1>2. \A i \in 1 .. Len(t) : t[i] \in Chars
  BY <1>1, ElementOfSeq
<1>3. a \in Seq(Chars) /\ b \in Seq(Chars)
  <2>1. \A i \in 1 .. p : t[i] \in Chars
    BY <1>1, <1>2
  <2>2. \A i \in p + 1 .. Len(t) : t[i] \in Chars
    BY <1>1, <1>2
  <2>3. 1 \in Int /\ p \in Int /\ p + 1 \in Int /\ Len(t) \in Int
    BY <1>1
  <2>4. a \in Seq(Chars)
    BY <2>1, <2>3, SubSeqProperties
  <2>5. PICK m \in Int, l \in Int : m = p + 1 /\ l = Len(t)
    BY <2>3
  <2>6. SubSeq(t, m, l) \in Seq(Chars)
    BY <2>2, <2>5, SubSeqProperties
  <2> QED
    BY <2>4, <2>5, <2>6
<1> HIDE DEF a, b
<1>4. all \in Seq(Chars) /\ Len(all) \in Nat /\ \A i \in 1 .. Len(all) : all[i] \in Chars
  <2>1. a \o s \in Seq(Chars)
    BY <1>3, ConcatProperties
  <2>2. all \in Seq(Chars)
    BY <1>3, <2>1, ConcatProperties
  <2> HIDE DEF all
  <2> QED
    BY <2>2, LenProperties, ElementOfSeq
<1> HIDE DEF all
<1>5. n \in Nat /\ n <= Len(all) /\ n <= LineLen - 2
  <2>1. Len(all) \in Int /\ LineLen - 2 \in Int
    BY <1>1, <1>4
  <2>2. n = IF Len(all) <= LineLen - 2 THEN Len(all) ELSE LineLen - 2
    BY <2>1, MinOfTwo
  <2> HIDE DEF n
  <2> QED
    BY <1>1, <1>4, <2>2
<1> HIDE DEF n
<1>6. SubSeq(all, 1, n) \in Seq(Chars) /\ Len(SubSeq(all, 1, n)) = n
  <2>1. \A i \in 1 .. n : all[i] \in Chars
    BY <1>4, <1>5
  <2>2. 1 \in Int /\ n \in Int
    BY <1>5
  <2>3. SubSeq(all, 1, n) \in Seq(Chars)
    BY <2>1, <2>2, SubSeqProperties
  <2>4. Len(SubSeq(all, 1, n)) = IF 1 <= n THEN n - 1 + 1 ELSE 0
    BY <2>1, <2>2, SubSeqProperties
  <2> QED
    BY <1>5, <2>3, <2>4
<1>7. n \in Slot
  BY <1>1, <1>5, SlotBounds
<1>8. SubSeq(all, 1, n) \in Strings
  BY <1>6, <1>7, StringsBounds
<1>9. cmd_auto_complete(t, p, s) = IF s = <<>> THEN t ELSE SubSeq(all, 1, n)
  BY DEF cmd_auto_complete, all, a, b, n
<1> QED
  BY <1>8, <1>9

-----------------------------------------------------------------------------
(* The steps.                                                              *)

LEMMA EditInit == Init => EditInv
<1> SUFFICES ASSUME Init PROVE EditInv
  OBVIOUS
<1>1. ed = EmptyLine /\ file \in Files /\ hist = file /\ prev_key = "other"
      /\ arg = <<>> /\ n_cur_pos = 0
  BY DEF Init
<1>2. file \in HistoryBuffer /\ hist \in HistoryBuffer
  BY <1>1, FilesAssumption
<1>3. 0 \in Slot
  BY SlotBounds
<1> QED
  BY <1>1, <1>2, <1>3, EmptyLineIs, EmptyString DEF EditInv

LEMMA EditorHere ==
  ASSUME EditInv
  PROVE  /\ EditorOK(ed) /\ Buffered(ed)
         /\ ed.cur \in Slot /\ ed.end \in Slot /\ ed.cur \in Nat /\ ed.end \in Nat
         /\ ed.cur <= ed.end
         /\ hist \in HistoryBuffer /\ file \in HistoryBuffer
         /\ arg \in Strings /\ n_cur_pos \in Slot /\ n_cur_pos \in Nat
         /\ Text(ed) \in Strings /\ Len(Text(ed)) = ed.end
<1>1. EditorOK(ed) /\ Buffered(ed)
  BY DEF EditInv, EditorOK
<1>2. /\ ed.cur \in Slot /\ ed.end \in Slot /\ ed.cur \in Nat /\ ed.end \in Nat
      /\ ed.cur <= ed.end
  BY <1>1, EditorFields DEF Buffered
<1>3. n_cur_pos \in Slot /\ n_cur_pos \in Nat
  BY SlotBounds DEF EditInv
<1>4. Text(ed) \in Strings /\ Len(Text(ed)) = ed.end
  BY <1>1, TextOf
<1> QED
  BY <1>1, <1>2, <1>3, <1>4 DEF EditInv

LEMMA KeyStep ==
  ASSUME EditInv, NEW e, EditorOK(e), NEW key, AnyKey(e, key),
         hist' \in HistoryBuffer, key = "scroll" => AtStop(hist')
  PROVE  EditInv'
<1>1. ed' = e /\ prev_key' = key /\ n_cur_pos' = e.cur /\ arg' = arg /\ file' = file
  BY DEF AnyKey
<1>2. e.cur \in Slot
  BY EditorFields DEF EditorOK, Buffered
<1>3. file' \in HistoryBuffer /\ arg' \in Strings
  BY <1>1 DEF EditInv
<1>4. prev_key' = "scroll" => AtStop(hist')
  BY <1>1
<1> QED
  BY <1>1, <1>2, <1>3, <1>4 DEF EditInv

LEMMA EditedStep ==
  ASSUME EditInv, NEW e, EditorOK(e), Edited(e)
  PROVE  EditInv'
<1>1. AnyKey(e, "other") /\ hist' = hist /\ hist \in HistoryBuffer
  BY DEF Edited, EditInv
<1> QED
  BY <1>1, KeyStep

LEMMA EditKeysStep ==
  ASSUME EditInv,
         \/ Type \/ BackKey \/ DeleteKey \/ LeftKey \/ RightKey
         \/ HomeKey \/ EndKey \/ EscapeKey \/ ShiftKey \/ OtherEvent
  PROVE  EditInv'
<1>1. EditorOK(ed) /\ Buffered(ed)
  BY EditorHere
<1>2. \A n \in Repeats : n \in Nat
  BY ConstantsAssumption
<1>3. CASE Type
  <2>1. PICK c \in Chars, n \in Repeats : Edited(proceed_printable_key(ed, c, n))
    BY <1>3 DEF Type
  <2>2. EditorOK(proceed_printable_key(ed, c, n))
    BY <1>1, <1>2, TypedKey
  <2> QED
    BY <2>1, <2>2, EditedStep
<1>4. CASE BackKey
  <2>1. PICK n \in Repeats : Edited(proceed_back_key(ed, n))
    BY <1>4 DEF BackKey
  <2>2. EditorOK(proceed_back_key(ed, n))
    BY <1>1, <1>2, BackedKey
  <2> QED
    BY <2>1, <2>2, EditedStep
<1>5. CASE DeleteKey
  <2>1. PICK n \in Repeats : Edited(proceed_delete_key(ed, n))
    BY <1>5 DEF DeleteKey
  <2>2. EditorOK(proceed_delete_key(ed, n))
    BY <1>1, <1>2, DeletedKey
  <2> QED
    BY <2>1, <2>2, EditedStep
<1>6. CASE LeftKey
  <2>1. PICK n \in Repeats : Edited(proceed_left_key(ed, n))
    BY <1>6 DEF LeftKey
  <2>2. EditorOK(proceed_left_key(ed, n))
    BY <1>1, <1>2, LeftRight
  <2> QED
    BY <2>1, <2>2, EditedStep
<1>7. CASE RightKey
  <2>1. PICK n \in Repeats : Edited(proceed_right_key(ed, n))
    BY <1>7 DEF RightKey
  <2>2. EditorOK(proceed_right_key(ed, n))
    BY <1>1, <1>2, LeftRight
  <2> QED
    BY <2>1, <2>2, EditedStep
<1>8. CASE HomeKey
  BY <1>1, <1>8, HomeEnd, EditedStep DEF HomeKey
<1>9. CASE EndKey
  BY <1>1, <1>9, HomeEnd, EditedStep DEF EndKey
<1>10. CASE EscapeKey
  <2>1. EditorOK(proceed_escape_key(ed))
    BY <1>1, NothingBehind, Escaped
  <2> QED
    BY <1>10, <2>1, EditedStep DEF EscapeKey
<1>11. CASE ShiftKey
  BY <1>1, <1>11, EditedStep DEF ShiftKey
<1>12. CASE OtherEvent
  <2>1. AnyKey(ed, prev_key) /\ hist' = hist
    BY <1>12 DEF OtherEvent
  <2>2. hist' \in HistoryBuffer /\ (prev_key = "scroll" => AtStop(hist'))
    BY <2>1 DEF EditInv
  <2> QED
    BY <1>1, <2>1, <2>2, KeyStep
<1> QED
  BY <1>3, <1>4, <1>5, <1>6, <1>7, <1>8, <1>9, <1>10, <1>11, <1>12

LEMMA ScrollStep ==
  ASSUME EditInv, NEW dir \in Dirs, ScrollKey(dir)
  PROVE  EditInv'
<1>1. PICK h : /\ h = IF prev_key = "scroll" THEN hist ELSE [hist EXCEPT !.tmpl = Text(ed)]
               /\ hist' = scroll_history(h, dir)
               /\ AnyKey(set_cmd_line(ed, Recalled(hist')), "scroll")
  BY DEF ScrollKey
<1>2. h \in HistoryBuffer
  <2>1. hist \in HistoryBuffer /\ Text(ed) \in Strings
    BY EditorHere
  <2> QED
    BY <1>1, <2>1, SetTemplate
<1>3. hist' \in HistoryBuffer /\ AtStop(hist')
  BY <1>1, <1>2, Scrolled
<1>4. Recalled(hist') \in Strings
  BY <1>3, RecalledLine
<1>5. EditorOK(set_cmd_line(ed, Recalled(hist')))
  BY <1>4, EditorHere, NothingBehind, SetLineShows
<1>6. PICK e : e = set_cmd_line(ed, Recalled(hist'))
  OBVIOUS
<1> QED
  BY <1>1, <1>3, <1>5, <1>6, KeyStep

(* Steps that show a prompt.                                               *)
LEMMA ReturnStep ==
  ASSUME EditInv, ReturnKey
  PROVE  EditInv'
<1>1. /\ hist' = add_to_history(hist, Text(ed))
      /\ ed' = get_line_prompt(proceed_end_key(ed), <<>>, ed.end, "reset")
      /\ arg' = <<>> /\ n_cur_pos' = ed.end /\ prev_key' = "other" /\ file' = file
  BY DEF ReturnKey
<1>2. PICK e : e = proceed_end_key(ed) /\ EditorOK(e)
  BY EditorHere, HomeEnd
<1>3. EditorOK(get_line_prompt(e, <<>>, ed.end, "reset"))
  <2>1. Buffered(e) /\ <<>> \in Strings /\ ed.end \in Nat
    BY <1>2, EditorHere, EmptyString DEF EditorOK
  <2>2. \A i \in Cell : i >= Begin(e) + e.end => e.con.cells[i] = Nul
    BY <1>2, NothingBehind
  <2> QED
    BY <2>1, <2>2, PromptShows
<1>4. hist' \in HistoryBuffer
  BY <1>1, EditorHere, HistoryAdded
<1>5. arg' \in Strings /\ n_cur_pos' \in Slot /\ file' \in HistoryBuffer
  BY <1>1, EditorHere, EmptyString
<1> QED
  BY <1>1, <1>2, <1>3, <1>4, <1>5 DEF EditInv

LEMMA TabStep ==
  ASSUME EditInv, TabKey
  PROVE  EditInv'
<1> DEFINE Typed(s) == cmd_auto_complete(Text(ed), ed.cur, s)
           At(s) == IF s = <<>> THEN ed.cur ELSE Min({ed.cur + Len(s), LineLen - 2})
<1>1. PICK s \in Inserts : /\ arg' = Typed(s) /\ n_cur_pos' = At(s)
                           /\ ed' = get_line_prompt(ed, Typed(s), At(s), "continue")
  BY DEF TabKey
<1>2. prev_key' = "tab" /\ hist' = hist /\ file' = file
  BY DEF TabKey
<1>3. s \in Seq(Chars) /\ Len(s) \in Nat
  BY ConstantsAssumption, LenProperties
<1>4. Typed(s) \in Strings
  BY <1>3, EditorHere, Completed
<1>5. At(s) \in Slot /\ At(s) \in Nat
  <2>1. ed.cur \in Slot /\ ed.cur \in Nat /\ LineLen \in Nat /\ LineLen > 2
    BY EditorHere, SlotBounds
  <2>2. ed.cur + Len(s) \in Int /\ LineLen - 2 \in Int
    BY <1>3, <2>1
  <2>3. Min({ed.cur + Len(s), LineLen - 2})
          = IF ed.cur + Len(s) <= LineLen - 2 THEN ed.cur + Len(s) ELSE LineLen - 2
    BY <2>2, MinOfTwo
  <2>4. Min({ed.cur + Len(s), LineLen - 2}) \in Nat
        /\ Min({ed.cur + Len(s), LineLen - 2}) < LineLen
    BY <1>3, <2>1, <2>3
  <2> QED
    BY <2>1, <2>4, SlotBounds
<1> HIDE DEF Typed, At
<1>6. EditorOK(get_line_prompt(ed, Typed(s), At(s), "continue"))
  BY <1>4, <1>5, EditorHere, NothingBehind, PromptShows
<1>7. hist' \in HistoryBuffer /\ file' \in HistoryBuffer
  BY <1>2, EditorHere
<1> QED
  BY <1>1, <1>2, <1>4, <1>5, <1>6, <1>7 DEF EditInv

LEMMA TabTabStep ==
  ASSUME EditInv, TabTabKey
  PROVE  EditInv'
<1>1. /\ arg' = Text(ed) /\ n_cur_pos' = ed.cur
      /\ ed' = get_line_prompt(ed, Text(ed), ed.cur, "none")
      /\ prev_key' = "tab" /\ hist' = hist /\ file' = file
  BY DEF TabTabKey
<1>2. EditorOK(get_line_prompt(ed, Text(ed), ed.cur, "none"))
  BY EditorHere, NothingBehind, PromptShows
<1> QED
  BY <1>1, <1>2, EditorHere DEF EditInv

(* A message before the cursor: from the end of the line on, nothing.      *)
LEMMA MessageBehind ==
  ASSUME EditInv
  PROVE  LET e == [ed EXCEPT !.con = AfterMessage]
         IN Buffered(e) /\ \A i \in Cell : i >= Begin(e) + e.end => e.con.cells[i] = Nul
<1>0. PICK e : e = [ed EXCEPT !.con = AfterMessage]
  OBVIOUS
<1>1. /\ ed \in Editor /\ ed.line \in [Slot -> Chars \union {Nul}]
      /\ \A i \in Slot : ed.line[i] \in IF i < ed.end THEN Chars ELSE {Nul}
  BY EditorHere, EditorFields DEF Buffered
<1>2. e = [line |-> ed.line, cur |-> ed.cur, end |-> ed.end, con |-> AfterMessage]
  BY <1>0, <1>1, SetConsole
<1>3. /\ Buffered(e) /\ e.line = ed.line /\ e.cur = ed.cur /\ e.end = ed.end
      /\ e.con = AfterMessage
  <2>1. /\ ed.cur \in Slot /\ ed.end \in Slot /\ ed.cur <= ed.end
        /\ AfterMessage \in Console
    BY EditorHere, Rows
  <2> QED
    BY <1>1, <1>2, <2>1, Rebuilt
<1>4. ASSUME NEW i \in Cell, i >= Begin(e) + e.end PROVE e.con.cells[i] = Nul
  <2>1. Begin(e) + e.end >= 0 /\ Begin(e) + e.end \in Int
    BY <1>3, EditorHere, Rows DEF Begin
  <2>2. i >= 0
    BY <1>4, <2>1, CellNumbers
  <2> QED
    BY <1>3, <2>2, Rows
<1> QED
  BY <1>0, <1>3, <1>4

LEMMA RestoreStep ==
  ASSUME EditInv, PromptRestored
  PROVE  EditInv'
<1>1. PICK e : e = [ed EXCEPT !.con = AfterMessage]
  OBVIOUS
<1>2. /\ ed' = get_line_prompt(e, arg, n_cur_pos, n_flag)
      /\ prev_key' = prev_key /\ hist' = hist /\ file' = file /\ arg' = arg
      /\ n_cur_pos' = n_cur_pos
  BY <1>1 DEF PromptRestored
<1>3. EditorOK(get_line_prompt(e, arg, n_cur_pos, n_flag))
  BY <1>1, MessageBehind, EditorHere, PromptShows
<1> QED
  BY <1>2, <1>3 DEF EditInv

LEMMA SessionStep ==
  ASSUME EditInv, Close \/ Kill
  PROVE  EditInv'
<1>1. /\ ed' = EmptyLine /\ prev_key' = "other" /\ arg' = <<>> /\ n_cur_pos' = 0
      /\ hist' \in {hist, file} /\ file' \in {hist, file}
  BY DEF Close, Kill, NewSession
<1>2. 0 \in Slot
  BY SlotBounds
<1>3. hist' \in HistoryBuffer /\ file' \in HistoryBuffer
  BY <1>1, EditorHere
<1> QED
  BY <1>1, <1>2, <1>3, EmptyLineIs, EmptyString DEF EditInv

LEMMA EditStep == EditInv /\ [Next]_vars => EditInv'
<1> SUFFICES ASSUME EditInv, [Next]_vars PROVE EditInv'
  OBVIOUS
<1>1. CASE UNCHANGED vars
  BY <1>1 DEF EditInv, vars
<1>2. ASSUME NEW dir \in {"up", "down"}, ScrollKey(dir) PROVE EditInv'
  BY <1>2, ScrollStep DEF Dirs
<1>3. CASE Next
  BY <1>2, <1>3, EditKeysStep, ReturnStep, TabStep, TabTabStep, RestoreStep, SessionStep
     DEF Next
<1> QED
  BY <1>1, <1>3

-----------------------------------------------------------------------------
(* Theorems.                                                               *)

(* The line, the console and the history belong together in every state.  *)
THEOREM Invariant == Spec => []EditInv
BY EditInit, EditStep, PTL DEF Spec

(* The buffer of the line is never left, whatever the handlers of          *)
(* cmd_line_wc.c move and fill in it; the texts they take from it fit      *)
(* where they are put.                                                     *)
THEOREM TypeCorrect == Spec => []TypeOK
<1>1. EditInv => TypeOK
  <2> SUFFICES ASSUME EditInv PROVE TypeOK
    OBVIOUS
  <2>1. ed.line \in [Slot -> Chars \union {Nul, Prompt}]
    <3>1. ed.line \in [Slot -> Chars \union {Nul}]
      BY EditorHere, EditorFields DEF Buffered
    <3> QED
      BY <3>1
  <2>2. ed.cur \in 0 .. ed.end
    BY EditorHere
  <2> QED
    BY <2>1, <2>2, EditorHere DEF TypeOK
<1> QED
  BY <1>1, Invariant, PTL

(* Characters up to n_end_pos, NULs from there on: the length that         *)
(* add_to_history and the parser take from the NUL is n_end_pos.           *)
THEOREM Terminated == Spec => []LineTerminated
<1>1. EditInv => LineTerminated
  BY EditorHere DEF Buffered, LineTerminated
<1> QED
  BY <1>1, Invariant, PTL

(* What the handlers wrote to the console, key after key, is the line in   *)
(* the buffer, with the cursor where the next key edits.                   *)
THEOREM ScreenFollows == Spec => []ScreenShowsLine
<1>1. EditInv => ScreenShowsLine
  BY DEF EditInv, EditorOK, Shows, Begin, ScreenShowsLine
<1> QED
  BY <1>1, Invariant, PTL

(* The arrows undo each other: scroll_history skips the same lines of the  *)
(* ring in both directions.                                                *)
LEMMA StepsBack ==
  ASSUME NEW i \in Ring, NEW dir \in Dirs, NEW k \in 1 .. Depth, NEW m \in 1 .. k
  PROVE  Step(Step(i, dir, k), Opposite(dir), m) = IF m = k THEN i ELSE Step(i, dir, k - m)
<1>1. /\ Depth \in Nat /\ i \in Nat /\ i < Depth /\ k \in Nat /\ 1 <= k /\ k <= Depth
      /\ m \in Nat /\ 1 <= m /\ m <= k /\ m \in 1 .. Depth
  BY RingBounds
<1>2. m # k => k - m \in 1 .. Depth
  BY <1>1
<1>3. PICK j \in Ring : j = Step(i, dir, k)
  BY StepIs DEF Dirs
<1>4. j \in Nat /\ j < Depth
  BY RingBounds
<1>5. CASE dir = "up"
  <2>1. j = IF k <= i THEN i - k ELSE i + Depth - k
    BY <1>3, <1>5, StepIs
  <2>2. Step(j, "down", m) = IF j + m < Depth THEN j + m ELSE j + m - Depth
    BY <1>1, StepIs
  <2>3. m # k => Step(i, "up", k - m) = IF k - m <= i THEN i - (k - m) ELSE i + Depth - (k - m)
    BY <1>2, StepIs
  <2>4. Step(j, "down", m) = IF m = k THEN i ELSE Step(i, "up", k - m)
    BY <1>1, <1>4, <2>1, <2>2, <2>3
  <2> QED
    BY <1>3, <1>5, <2>4 DEF Opposite
<1>6. CASE dir = "down"
  <2>1. j = IF i + k < Depth THEN i + k ELSE i + k - Depth
    BY <1>3, <1>6, StepIs
  <2>2. Step(j, "up", m) = IF m <= j THEN j - m ELSE j + Depth - m
    BY <1>1, StepIs
  <2>3. m # k => Step(i, "down", k - m)
                   = IF i + (k - m) < Depth THEN i + (k - m) ELSE i + (k - m) - Depth
    BY <1>2, StepIs
  <2>4. Step(j, "up", m) = IF m = k THEN i ELSE Step(i, "down", k - m)
    BY <1>1, <1>4, <2>1, <2>2, <2>3
  <2> QED
    BY <1>3, <1>6, <2>4 DEF Opposite
<1> QED
  BY <1>5, <1>6 DEF Dirs

LEMMA ThereAndBack ==
  ASSUME NEW h \in HistoryBuffer, AtStop(h), NEW dir \in Dirs
  PROVE  Landing(scroll_history(h, dir), Opposite(dir)) = h.rd
<1> DEFINE t == scroll_history(h, dir)
           opp == Opposite(dir)
<1>1. h.rd \in Ring /\ opp \in Dirs
  BY HistoryFields DEF Dirs, Opposite
<1>2. PICK k \in 1 .. Depth :
        /\ Landing(h, dir) = Step(h.rd, dir, k)
        /\ \A m \in 1 .. k - 1 : ~StopsAt(h, Step(h.rd, dir, m))
  BY LandingIs
<1>3. /\ t \in HistoryBuffer /\ t.rd = Step(h.rd, dir, k) /\ t.wr = h.wr
      /\ t.lines = h.lines /\ t.tmpl = h.tmpl
  BY <1>2, Scrolled
<1> HIDE DEF t, opp
<1>4. \A j : StopsAt(t, j) <=> StopsAt(h, j)
  BY <1>3 DEF StopsAt, Matches
<1>5. PICK n \in 1 .. Depth :
        /\ Landing(t, opp) = Step(t.rd, opp, n)
        /\ StopsAt(t, Step(t.rd, opp, n))
        /\ \A m \in 1 .. n - 1 : ~StopsAt(t, Step(t.rd, opp, m))
  BY <1>1, <1>3, LandingIs
<1>6. \A m \in 1 .. k : Step(t.rd, opp, m) = IF m = k THEN h.rd ELSE Step(h.rd, dir, k - m)
  BY <1>1, <1>3, StepsBack DEF opp
<1>7. k \in Nat /\ n \in Nat /\ k >= 1 /\ n >= 1
  BY RingBounds
<1>8. CASE n > k
  <2>1. k \in 1 .. n - 1 /\ k \in 1 .. k
    BY <1>7, <1>8
  <2>2. Step(t.rd, opp, k) = h.rd
    BY <1>6, <2>1
  <2>3. StopsAt(h, h.rd)
    BY DEF AtStop, StopsAt
  <2> QED
    BY <1>4, <1>5, <2>1, <2>2, <2>3
<1>9. CASE n < k
  <2>1. n \in 1 .. k /\ n # k /\ k - n \in 1 .. k - 1
    BY <1>7, <1>9
  <2>2. Step(t.rd, opp, n) = Step(h.rd, dir, k - n)
    BY <1>6, <2>1
  <2> QED
    BY <1>2, <1>4, <1>5, <2>1, <2>2
<1>10. CASE n = k
  <2>1. k \in 1 .. k
    BY <1>7
  <2> QED
    BY <1>5, <1>6, <1>10, <2>1 DEF t, opp
<1> QED
  BY <1>7, <1>8, <1>9, <1>10

THEOREM ArrowsUndo == Spec => []ScrollRoundTrip
<1>1. EditInv => ScrollRoundTrip
  <2> SUFFICES ASSUME EditInv, prev_key = "scroll" PROVE ScrollRoundTrip
    BY DEF ScrollRoundTrip
  <2>1. hist \in HistoryBuffer /\ AtStop(hist)
    BY DEF EditInv
  <2>2. Landing(scroll_history(hist, "up"), "down") = hist.rd
    BY <2>1, ThereAndBack DEF Dirs, Opposite
  <2>3. Landing(scroll_history(hist, "down"), "up") = hist.rd
    BY <2>1, ThereAndBack DEF Dirs, Opposite
  <2> QED
    BY <2>2, <2>3 DEF ScrollRoundTrip
<1> QED
  BY <1>1, Invariant, PTL
-----------------------------------------------------------------------------
(***************************************************************************)
(* LineEdit implements TextLine, for lines, histories and keys of any      *)
(* number: the buffers, the ring and the prompts are a text with a         *)
(* position in it and a log of commands.                                   *)
(*                                                                         *)
(* What the handlers do to the cells of the buffer is known from           *)
(* LineEditProofs; here it becomes what they do to the text: cut, joined   *)
(* or shown.  For the history the ring has to fill without a gap (NoGaps): *)
(* then the lines entered are a sequence of which the ring holds the last  *)
(* Depth - 1, and add_to_history appends to it.  Where the arrows stand is *)
(* counted in lines behind n_wr_pos, and the scan over the slots finds the *)
(* least or greatest of those that match (LandsOlder, LandsNewer).         *)
(***************************************************************************)

(* Parts of texts.                                                         *)
LEMMA FirstOf ==
  ASSUME NEW S, NEW t \in Seq(S), NEW p \in Nat, p <= Len(t)
  PROVE  /\ SubSeq(t, 1, p) \in Seq(S) /\ Len(SubSeq(t, 1, p)) = p
         /\ \A i \in 1 .. p : SubSeq(t, 1, p)[i] = t[i]
<1>1. Len(t) \in Nat /\ \A i \in 1 .. Len(t) : t[i] \in S
  BY LenProperties, ElementOfSeq
<1>2. 1 \in Int /\ p \in Int /\ \A i \in 1 .. p : t[i] \in S
  BY <1>1
<1>3. /\ SubSeq(t, 1, p) \in Seq(S)
      /\ Len(SubSeq(t, 1, p)) = IF 1 <= p THEN p - 1 + 1 ELSE 0
      /\ \A i \in 1 .. p - 1 + 1 : SubSeq(t, 1, p)[i] = t[1 + i - 1]
  BY <1>2, SubSeqProperties
<1>4. \A i \in 1 .. p : i \in 1 .. p - 1 + 1 /\ 1 + i - 1 = i
  OBVIOUS
<1> QED
  BY <1>3, <1>4

LEMMA RestOf ==
  ASSUME NEW S, NEW t \in Seq(S), NEW p \in Nat, p <= Len(t)
  PROVE  /\ SubSeq(t, p + 1, Len(t)) \in Seq(S)
         /\ Len(SubSeq(t, p + 1, Len(t))) = Len(t) - p
         /\ \A i \in 1 .. Len(t) - p : SubSeq(t, p + 1, Len(t))[i] = t[p + i]
<1>1. Len(t) \in Nat /\ \A i \in 1 .. Len(t) : t[i] \in S
  BY LenProperties, ElementOfSeq
<1>2. PICK m \in Int, n \in Int : m = p + 1 /\ n = Len(t)
  BY <1>1
<1>3. \A i \in m .. n : t[i] \in S
  BY <1>1, <1>2
<1>4. /\ SubSeq(t, m, n) \in Seq(S)
      /\ Len(SubSeq(t, m, n)) = IF m <= n THEN n - m + 1 ELSE 0
      /\ \A i \in 1 .. n - m + 1 : SubSeq(t, m, n)[i] = t[m + i - 1]
  BY <1>3, SubSeqProperties
<1>5. (IF m <= n THEN n - m + 1 ELSE 0) = n - p /\ n - m + 1 = n - p
  BY <1>1, <1>2
<1>6. \A i \in 1 .. n - p : m + i - 1 = p + i
  BY <1>1, <1>2
<1> QED
  BY <1>2, <1>4, <1>5, <1>6

(* A text without a part of it, and with a part put in.                    *)
Without(t, p, q) == SubSeq(t, 1, p) \o SubSeq(t, q + 1, Len(t))
With(t, p, m) == SubSeq(t, 1, p) \o m \o SubSeq(t, p + 1, Len(t))

(* u is l elements of t, but for k of them behind the first p.             *)
Skips(u, t, p, k, l) ==
  Len(u) = l /\ \A i \in 1 .. l : u[i] = IF i <= p THEN t[i] ELSE t[i + k]

LEMMA Joined ==
  ASSUME NEW S, NEW t \in Seq(S), NEW n \in Nat, Len(t) = n,
         NEW p \in Nat, NEW q \in Nat, NEW k \in Nat, NEW l \in Nat,
         q = p + k, n = l + k, p <= l
  PROVE  Without(t, p, q) \in Seq(S) /\ Skips(Without(t, p, q), t, p, k, l)
<1> DEFINE a == SubSeq(t, 1, p)
           b == SubSeq(t, q + 1, Len(t))
<1>3. p <= n /\ q <= n /\ p <= Len(t) /\ q <= Len(t)
  OBVIOUS
<1>4. a \in Seq(S) /\ Len(a) = p /\ \A i \in 1 .. p : a[i] = t[i]
  BY <1>3, FirstOf
<1>5. b \in Seq(S) /\ Len(b) = n - q /\ \A i \in 1 .. n - q : b[i] = t[q + i]
  BY <1>3, RestOf
<1> HIDE DEF a, b
<1>6. /\ a \o b \in Seq(S) /\ Len(a \o b) = p + (n - q)
      /\ \A i \in 1 .. p + (n - q) : (a \o b)[i] = IF i <= p THEN a[i] ELSE b[i - p]
  <2>1. /\ a \o b \in Seq(S) /\ Len(a \o b) = Len(a) + Len(b)
        /\ \A i \in 1 .. Len(a) + Len(b) :
             (a \o b)[i] = IF i <= Len(a) THEN a[i] ELSE b[i - Len(a)]
    BY <1>4, <1>5, ConcatProperties
  <2> QED
    BY <1>4, <1>5, <2>1
<1>8. p + (n - q) = l
  BY <1>3
<1>7. ASSUME NEW i \in 1 .. l
      PROVE  (a \o b)[i] = IF i <= p THEN t[i] ELSE t[i + k]
  <2>1. i \in 1 .. p + (n - q)
    BY <1>8
  <2>2. CASE i <= p
    BY <1>4, <1>6, <2>1, <2>2
  <2>3. CASE ~(i <= p)
    <3>1. i - p \in 1 .. n - q /\ q + (i - p) = i + k
      BY <1>3, <2>3
    <3> QED
      BY <1>5, <1>6, <2>1, <2>3, <3>1
  <2> QED
    BY <2>2, <2>3
<1> QED
  BY <1>6, <1>7, <1>8 DEF a, b, Without, Skips

LEMMA Spliced ==
  ASSUME NEW S, NEW t \in Seq(S), NEW n \in Nat, Len(t) = n,
         NEW p \in Nat, p <= n, NEW m \in Seq(S), NEW k \in Nat, Len(m) = k
  PROVE  /\ With(t, p, m) \in Seq(S) /\ Len(With(t, p, m)) = n + k
         /\ \A i \in 1 .. n + k :
              With(t, p, m)[i] = IF i <= p THEN t[i] ELSE IF i <= p + k THEN m[i - p]
                                 ELSE t[i - k]
<1> DEFINE a == SubSeq(t, 1, p)
           b == SubSeq(t, p + 1, Len(t))
           c == a \o m
<1>3. p <= n /\ p <= Len(t)
  OBVIOUS
<1>4. a \in Seq(S) /\ Len(a) = p /\ \A i \in 1 .. p : a[i] = t[i]
  BY <1>3, FirstOf
<1>5. b \in Seq(S) /\ Len(b) = n - p /\ \A i \in 1 .. n - p : b[i] = t[p + i]
  BY <1>3, RestOf
<1> HIDE DEF a, b
<1>6. /\ c \in Seq(S) /\ Len(c) = p + k
      /\ \A i \in 1 .. p + k : c[i] = IF i <= p THEN a[i] ELSE m[i - p]
  BY <1>4, ConcatProperties
<1> HIDE DEF c
<1>7. /\ c \o b \in Seq(S) /\ Len(c \o b) = (p + k) + (n - p)
      /\ \A i \in 1 .. (p + k) + (n - p) :
           (c \o b)[i] = IF i <= p + k THEN c[i] ELSE b[i - (p + k)]
  <2>1. /\ c \o b \in Seq(S) /\ Len(c \o b) = Len(c) + Len(b)
        /\ \A i \in 1 .. Len(c) + Len(b) :
             (c \o b)[i] = IF i <= Len(c) THEN c[i] ELSE b[i - Len(c)]
    BY <1>5, <1>6, ConcatProperties
  <2> QED
    BY <1>5, <1>6, <2>1
<1>8. (p + k) + (n - p) = n + k
  BY <1>3
<1>9. ASSUME NEW i \in 1 .. n + k
      PROVE  (c \o b)[i] = IF i <= p THEN t[i] ELSE IF i <= p + k THEN m[i - p] ELSE t[i - k]
  <2>1. CASE i <= p
    <3>1. i \in 1 .. p /\ i \in 1 .. p + k /\ i <= p + k
      BY <2>1
    <3> QED
      BY <1>4, <1>6, <1>7, <1>8, <2>1, <3>1
  <2>2. CASE ~(i <= p) /\ i <= p + k
    <3>1. i \in 1 .. p + k
      BY <2>2
    <3> QED
      BY <1>6, <1>7, <1>8, <2>2, <3>1
  <2>3. CASE ~(i <= p + k)
    <3>1. i - (p + k) \in 1 .. n - p /\ p + (i - (p + k)) = i - k /\ ~(i <= p)
      BY <1>3, <2>3
    <3> QED
      BY <1>5, <1>7, <1>8, <2>3, <3>1
  <2> QED
    BY <2>1, <2>2, <2>3
<1> QED
  BY <1>7, <1>8, <1>9 DEF a, b, c, With

-----------------------------------------------------------------------------
(* The text of the line after each handler.                                *)

LEMMA SameText ==
  ASSUME NEW e, Buffered(e), NEW u \in Seq(Chars), Len(u) = e.end,
         \A i \in 1 .. e.end : u[i] = e.line[i - 1]
  PROVE  Text(e) = u
<1>1. /\ Text(e) \in Seq(Chars) /\ Len(Text(e)) = e.end
      /\ \A i \in 1 .. e.end : Text(e)[i] = e.line[i - 1]
  BY TextOf
<1>2. \A i \in 1 .. Len(u) : u[i] = Text(e)[i]
  BY <1>1
<1> QED
  BY <1>1, <1>2, SeqEqual

LEMMA LineFields ==
  ASSUME NEW e, EditorOK(e)
  PROVE  /\ Buffered(e) /\ e.cur \in Nat /\ e.end \in Nat /\ e.cur <= e.end
         /\ e.end < LineLen /\ LineLen \in Nat
         /\ Text(e) \in Seq(Chars) /\ Len(Text(e)) = e.end
         /\ \A i \in 1 .. e.end : Text(e)[i] = e.line[i - 1]
BY EditorFields, SlotBounds, TextOf DEF EditorOK, Buffered

LEMMA TypedText ==
  ASSUME NEW e, EditorOK(e), NEW c \in Chars, NEW n \in Nat
  PROVE  LET r == proceed_printable_key(e, c, n)
             t == Text(e)
         IN \E k \in 0 .. LineLen - 1 - e.end :
              /\ r.cur = e.cur + k
              /\ Text(r) = SubSeq(t, 1, e.cur) \o [i \in 1 .. k |-> c]
                             \o SubSeq(t, e.cur + 1, Len(t))
<1> DEFINE r == proceed_printable_key(e, c, n)
           t == Text(e)
<1>1. EditorOK(r)
  BY TypedKey
<1>2. PICK k \in Nat :
        /\ r.cur = e.cur + k /\ r.end = e.end + k
        /\ \A i \in Slot :
             r.line[i] = IF i < e.cur THEN e.line[i]
                         ELSE IF i < e.cur + k THEN c
                         ELSE IF i <= e.end + k THEN e.line[i - k] ELSE e.line[i]
  BY TypedKey
<1> HIDE DEF r
<1>3. /\ e.cur \in Nat /\ e.end \in Nat /\ e.cur <= e.end /\ LineLen \in Nat
      /\ t \in Seq(Chars) /\ Len(t) = e.end
      /\ \A i \in 1 .. e.end : t[i] = e.line[i - 1]
  BY LineFields
<1>4. Buffered(r) /\ r.end < LineLen
  BY <1>1, LineFields
<1>5. k \in 0 .. LineLen - 1 - e.end
  BY <1>2, <1>3, <1>4
<1> DEFINE m == [i \in 1 .. k |-> c]
           u == With(t, e.cur, m)
<1>6. m \in Seq(Chars) /\ Len(m) = k /\ \A i \in 1 .. k : m[i] = c
  <2>1. m \in [1 .. k -> Chars]
    OBVIOUS
  <2> HIDE DEF m
  <2>2. m \in Seq(Chars) /\ Len(m) = k
    BY <2>1, LengthOf
  <2> QED
    BY <2>2 DEF m
<1> HIDE DEF m, t
<1>7. /\ u \in Seq(Chars) /\ Len(u) = e.end + k
      /\ \A i \in 1 .. e.end + k :
           u[i] = IF i <= e.cur THEN t[i] ELSE IF i <= e.cur + k THEN m[i - e.cur]
                  ELSE t[i - k]
  <2>1. PICK p \in Nat, l \in Nat : p = e.cur /\ l = e.end
    BY <1>3
  <2>2. p <= l /\ Len(t) = l
    BY <1>3, <2>1
  <2>3. /\ With(t, p, m) \in Seq(Chars) /\ Len(With(t, p, m)) = l + k
        /\ \A i \in 1 .. l + k :
             With(t, p, m)[i] = IF i <= p THEN t[i] ELSE IF i <= p + k THEN m[i - p]
                                ELSE t[i - k]
    BY <1>3, <1>6, <2>2, Spliced
  <2> QED
    BY <2>1, <2>3
<1> HIDE DEF u
<1>8. ASSUME NEW i \in 1 .. r.end PROVE u[i] = r.line[i - 1]
  <2>1. /\ i \in Nat /\ i >= 1 /\ i <= e.end + k /\ i \in 1 .. e.end + k
        /\ i - 1 \in Slot
    BY <1>2, <1>3, <1>4, SlotBounds
  <2>2. CASE i <= e.cur
    <3>1. i \in 1 .. e.end /\ i - 1 < e.cur
      BY <1>3, <2>1, <2>2
    <3> QED
      BY <1>2, <1>3, <1>7, <2>1, <2>2, <3>1
  <2>3. CASE ~(i <= e.cur) /\ i <= e.cur + k
    <3>1. i - e.cur \in 1 .. k /\ ~(i - 1 < e.cur) /\ i - 1 < e.cur + k
      BY <1>3, <2>1, <2>3
    <3> QED
      BY <1>2, <1>6, <1>7, <2>1, <2>3, <3>1
  <2>4. CASE ~(i <= e.cur + k)
    <3>1. /\ i - k \in 1 .. e.end /\ ~(i - 1 < e.cur) /\ ~(i - 1 < e.cur + k)
          /\ i - 1 <= e.end + k /\ (i - k) - 1 = (i - 1) - k /\ ~(i <= e.cur)
      BY <1>3, <2>1, <2>4
    <3> QED
      BY <1>2, <1>3, <1>7, <2>1, <2>4, <3>1
  <2> QED
    BY <2>2, <2>3, <2>4
<1>9. Text(r) = u
  BY <1>2, <1>4, <1>7, <1>8, SameText
<1> QED
  BY <1>2, <1>5, <1>9 DEF r, u, t, m, With

LEMMA CutText ==
  ASSUME NEW e, EditorOK(e), NEW r, EditorOK(r), NEW c \in Nat, NEW k \in Nat,
         NEW q \in Nat, q = c + k, q <= e.end, r.end = e.end - k,
         \A i \in Slot : r.line[i] = IF i < c THEN e.line[i]
                                     ELSE IF i <= e.end - k THEN e.line[i + k]
                                     ELSE IF i <= e.end THEN Nul ELSE e.line[i]
  PROVE  Text(r) = Without(Text(e), c, q)
<1> DEFINE t == Text(e)
<1>1. /\ e.end \in Nat /\ t \in Seq(Chars) /\ Len(t) = e.end
      /\ \A i \in 1 .. e.end : t[i] = e.line[i - 1]
  BY LineFields
<1>2. Buffered(r) /\ r.end < LineLen /\ LineLen \in Nat
  BY LineFields
<1> HIDE DEF t
<1>3. PICK n \in Nat, l \in Nat : n = e.end /\ l = e.end - k /\ n = l + k /\ c <= l
  BY <1>1
<1> DEFINE u == Without(t, c, q)
<1>5. /\ u \in Seq(Chars) /\ Len(u) = l
      /\ \A i \in 1 .. l : u[i] = IF i <= c THEN t[i] ELSE t[i + k]
  <2>1. Len(t) = n
    BY <1>1, <1>3
  <2>2. Without(t, c, q) \in Seq(Chars) /\ Skips(Without(t, c, q), t, c, k, l)
    BY <1>1, <1>3, <2>1, Joined
  <2> QED
    BY <2>2 DEF Skips
<1> HIDE DEF u
<1>7. ASSUME NEW i \in 1 .. l PROVE u[i] = r.line[i - 1]
  <2>1. i \in Nat /\ i - 1 \in Slot /\ i <= l /\ i >= 1
    BY <1>2, <1>3, SlotBounds
  <2>2. CASE i <= c
    <3>1. i \in 1 .. n /\ i - 1 < c
      BY <1>3, <2>1, <2>2
    <3> QED
      BY <1>1, <1>3, <1>5, <2>1, <2>2, <3>1
  <2>3. CASE ~(i <= c)
    <3>1. /\ i + k \in 1 .. n /\ ~(i - 1 < c) /\ i - 1 <= l
          /\ (i + k) - 1 = (i - 1) + k
      BY <1>3, <2>1, <2>3
    <3>2. u[i] = t[i + k]
      BY <1>5, <2>3
    <3>3. t[i + k] = e.line[(i - 1) + k]
      <4>1. PICK j \in 1 .. n : j = i + k /\ j - 1 = (i - 1) + k
        BY <3>1
      <4>2. t[j] = e.line[j - 1]
        BY <1>1, <1>3
      <4> QED
        BY <4>1, <4>2
    <3>4. r.line[i - 1] = e.line[(i - 1) + k]
      BY <1>3, <2>1, <3>1
    <3> QED
      BY <3>2, <3>3, <3>4
  <2> QED
    BY <2>2, <2>3
<1>8. Text(r) = u
  BY <1>2, <1>3, <1>5, <1>7, SameText
<1> QED
  BY <1>8 DEF u, t

LEMMA BackedText ==
  ASSUME NEW e, EditorOK(e), NEW n \in Nat
  PROVE  LET r == proceed_back_key(e, n)
             t == Text(e)
         IN \E k \in 0 .. e.cur :
              /\ r.cur = e.cur - k
              /\ Text(r) = SubSeq(t, 1, e.cur - k) \o SubSeq(t, e.cur + 1, Len(t))
<1> DEFINE r == proceed_back_key(e, n)
           t == Text(e)
<1>1. EditorOK(r)
  BY BackedKey
<1>2. PICK k \in 0 .. e.cur :
        /\ r.cur = e.cur - k /\ r.end = e.end - k
        /\ \A i \in Slot :
             r.line[i] = IF i < e.cur - k THEN e.line[i]
                         ELSE IF i <= e.end - k THEN e.line[i + k]
                         ELSE IF i <= e.end THEN Nul ELSE e.line[i]
  BY BackedKey
<1> HIDE DEF r
<1>3. e.cur \in Nat /\ e.end \in Nat /\ e.cur <= e.end
  BY LineFields
<1>4. PICK c \in Nat : c = e.cur - k /\ k \in Nat /\ c + k = e.cur /\ c + k <= e.end
  BY <1>3
<1>5. \A i \in Slot : r.line[i] = IF i < c THEN e.line[i]
                                  ELSE IF i <= e.end - k THEN e.line[i + k]
                                  ELSE IF i <= e.end THEN Nul ELSE e.line[i]
  BY <1>2, <1>4
<1>6. PICK q \in Nat : q = c + k /\ q = e.cur
  BY <1>3, <1>4
<1>7. Text(r) = Without(t, c, q)
  BY <1>1, <1>2, <1>3, <1>4, <1>5, <1>6, CutText
<1> QED
  BY <1>2, <1>4, <1>6, <1>7 DEF r, Without

LEMMA DeletedText ==
  ASSUME NEW e, EditorOK(e), NEW n \in Nat
  PROVE  LET r == proceed_delete_key(e, n)
             t == Text(e)
         IN \E k \in 0 .. e.end - e.cur :
              /\ r.cur = e.cur
              /\ Text(r) = SubSeq(t, 1, e.cur) \o SubSeq(t, e.cur + k + 1, Len(t))
<1> DEFINE r == proceed_delete_key(e, n)
<1>1. EditorOK(r)
  BY DeletedKey
<1>2. PICK k \in 0 .. e.end - e.cur :
        /\ r.cur = e.cur /\ r.end = e.end - k
        /\ \A i \in Slot :
             r.line[i] = IF i < e.cur THEN e.line[i]
                         ELSE IF i <= e.end - k THEN e.line[i + k]
                         ELSE IF i <= e.end THEN Nul ELSE e.line[i]
  BY DeletedKey
<1> HIDE DEF r
<1>3. PICK c \in Nat, q \in Nat : c = e.cur /\ q = c + k /\ k \in Nat /\ q <= e.end
  <2>1. e.cur \in Nat /\ k \in Nat /\ e.cur + k \in Nat /\ e.end \in Nat
    BY LineFields
  <2> QED
    BY <2>1
<1>4. Text(r) = Without(Text(e), c, q)
  BY <1>1, <1>2, <1>3, CutText
<1> QED
  BY <1>2, <1>3, <1>4 DEF r, Without

LEMMA MovedText ==
  ASSUME NEW e, EditorOK(e), NEW p \in Nat, p <= e.end
  PROVE  Text(CursorTo(e, p)) = Text(e) /\ CursorTo(e, p).cur = p
BY MovedCursor DEF Text

LEMMA NoText ==
  ASSUME NEW e, Buffered(e), e.end = 0
  PROVE  Text(e) = <<>>
<1>1. Text(e) \in Seq(Chars) /\ Len(Text(e)) = 0
  BY TextOf
<1> QED
  BY <1>1, EmptySeq

LEMMA ShownText ==
  ASSUME NEW e, e.con \in Console, Blank(e.con), NEW s \in Strings
  PROVE  Text(Shown(e, s)) = s
<1> DEFINE r == Shown(e, s)
<1>1. Buffered(r) /\ r.end = Len(s)
  BY ShownLine DEF EditorOK
<1>2. r.line = Loaded(s)
  BY DEF Shown
<1> HIDE DEF r
<1>3. s \in Seq(Chars) /\ Len(s) \in Nat /\ Len(s) \in Slot
  BY StringsBounds, LenProperties
<1>4. ASSUME NEW i \in 1 .. Len(s) PROVE s[i] = r.line[i - 1]
  <2>1. i - 1 \in Slot /\ i - 1 < Len(s) /\ (i - 1) + 1 = i
    BY <1>3, SlotBounds
  <2> QED
    BY <1>2, <2>1 DEF Loaded
<1>5. Text(r) = s
  BY <1>1, <1>3, <1>4, SameText
<1> QED
  BY <1>5 DEF r

(* What a prompt shows, and where it leaves the cursor.                    *)
LEMMA PositionedText ==
  ASSUME NEW e, EditorOK(e), e.cur = e.end, NEW p \in Nat
  PROVE  /\ Text(Positioned(e, p)) = Text(e)
         /\ Positioned(e, p).cur = IF p > 0 /\ p < e.end THEN p ELSE e.end
<1>1. CASE p > 0 /\ p < e.end
  <2>1. p <= e.end
    BY <1>1, LineFields
  <2> QED
    BY <1>1, <2>1, MovedText DEF Positioned
<1>2. CASE ~(p > 0 /\ p < e.end)
  BY <1>2 DEF Positioned
<1> QED
  BY <1>1, <1>2

LEMMA SetLineText ==
  ASSUME NEW e, Buffered(e), NEW s \in Strings,
         \A i \in Cell : i >= Begin(e) + e.end => e.con.cells[i] = Nul
  PROVE  Text(set_cmd_line(e, s)) = s
<1>1. PICK r : /\ r = proceed_escape_key(e) /\ EditorOK(r) /\ Blank(r.con)
  BY Escaped
<1>2. r.con \in Console
  BY <1>1, EditorFields DEF EditorOK, Buffered
<1>3. set_cmd_line(e, s) = Shown(r, s)
  BY <1>1 DEF set_cmd_line
<1> QED
  BY <1>1, <1>2, <1>3, ShownText

LEMMA PromptText ==
  ASSUME NEW e, Buffered(e), NEW s \in Strings, NEW p \in Nat, NEW flag,
         \A i \in Cell : i >= Begin(e) + e.end => e.con.cells[i] = Nul
  PROVE  LET r == get_line_prompt(e, s, p, flag)
         IN Text(r) = s /\ r.cur = IF p > 0 /\ p < Len(s) THEN p ELSE Len(s)
<1>1. /\ EditorOK(set_cmd_line(e, s)) /\ Text(set_cmd_line(e, s)) = s
      /\ set_cmd_line(e, s).cur = Len(s) /\ set_cmd_line(e, s).end = Len(s)
  BY SetLineShows, SetLineText
<1>2. PICK f : f = Shown([e EXCEPT !.con = FreshRow], s)
  OBVIOUS
<1>3. EditorOK(f) /\ Text(f) = s /\ f.cur = Len(s) /\ f.end = Len(s)
  <2>1. PICK g : g = [e EXCEPT !.con = FreshRow]
    OBVIOUS
  <2>2. e \in Editor
    BY DEF Buffered
  <2>3. g = [line |-> e.line, cur |-> e.cur, end |-> e.end, con |-> FreshRow]
    BY <2>1, <2>2, SetConsole
  <2>4. g.con = FreshRow
    BY <2>3
  <2> QED
    BY <1>2, <2>1, <2>4, Rows, ShownLine, ShownText
<1>4. CASE flag = "continue"
  <2>1. get_line_prompt(e, s, p, flag) = Positioned(set_cmd_line(e, s), p)
    BY <1>4 DEF get_line_prompt
  <2> QED
    BY <1>1, <2>1, PositionedText
<1>5. CASE flag # "continue"
  <2>1. get_line_prompt(e, s, p, flag) = Positioned(f, p)
    BY <1>2, <1>5 DEF get_line_prompt
  <2> QED
    BY <1>3, <2>1, PositionedText
<1> QED
  BY <1>4, <1>5

-----------------------------------------------------------------------------
(* The ring as a log.                                                      *)
Late == 1 .. Depth - 1
Holding(h, n) == n \in 0 .. Depth - 1 /\ \A j \in Late : Older(h, j) # <<>> <=> j <= n

(* The slot of the line that was entered j lines ago.                      *)
LEMMA LateSlot ==
  ASSUME NEW w \in Ring, NEW j \in Late
  PROVE  /\ Step(w, "up", j) = IF j <= w THEN w - j ELSE w + Depth - j
         /\ Step(w, "up", j) \in Ring /\ Step(w, "up", j) # w
<1>1. j \in 1 .. Depth /\ j < Depth /\ j > 0 /\ w \in Nat
  BY RingBounds DEF Late
<1> QED
  BY <1>1, StepIs, RingBounds

LEMMA OlderIs ==
  ASSUME NEW h \in HistoryBuffer, NEW j \in Late
  PROVE  Older(h, j) \in Strings
BY HistoryFields, LateSlot DEF Older

LEMMA CountUpTo ==
  ASSUME NEW n \in 0 .. Depth - 1, NEW S, \A j : j \in S <=> j \in Late /\ j <= n
  PROVE  Cardinality(S) = n
<1>1. n \in Nat /\ 1 \in Int /\ n \in Int
  BY RingBounds
<1>2. S = 1 .. n
  <2>1. \A j : j \in S <=> j \in 1 .. n
    <3>1. \A j : j \in Late /\ j <= n <=> j \in 1 .. n
      BY <1>1, RingBounds DEF Late
    <3> QED
      BY <3>1
  <2> QED
    BY <2>1, Zenon
<1>3. Cardinality(1 .. n) = IF 1 > n THEN 0 ELSE n - 1 + 1
  BY <1>1, FS_Interval
<1> QED
  BY <1>1, <1>2, <1>3

LEMMA LogIs ==
  ASSUME NEW h \in HistoryBuffer, NEW n, Holding(h, n)
  PROVE  /\ Logged(h) \in Seq(Strings) /\ Len(Logged(h)) = n /\ n \in Nat
         /\ \A i \in 1 .. n : Logged(h)[i] = Older(h, n + 1 - i)
         /\ \A j \in 1 .. n : n + 1 - j \in 1 .. n /\ Logged(h)[n + 1 - j] = Older(h, j)
<1> DEFINE S == {j \in 1 .. Depth - 1 : Older(h, j) # <<>>}
<1>1. n \in 0 .. Depth - 1 /\ n \in Nat /\ n < Depth
  BY RingBounds DEF Holding
<1>2. \A j : j \in S <=> j \in Late /\ j <= n
  BY <1>1 DEF Holding, Late
<1>3. Cardinality(S) = n
  <2> HIDE DEF S
  <2> QED
    BY <1>1, <1>2, CountUpTo
<1>4. Logged(h) = [i \in 1 .. n |-> Older(h, n + 1 - i)]
  BY <1>3 DEF Logged
<1>5. \A i \in 1 .. n : n + 1 - i \in Late /\ n + 1 - i \in 1 .. n
  BY <1>1, RingBounds DEF Late
<1>6. Logged(h) \in [1 .. n -> Strings]
  BY <1>4, <1>5, OlderIs
<1>7. Logged(h) \in Seq(Strings) /\ Len(Logged(h)) = n
  BY <1>1, <1>6, LengthOf
<1>8. ASSUME NEW j \in 1 .. n PROVE Logged(h)[n + 1 - j] = Older(h, j)
  <2>1. n + 1 - j \in 1 .. n /\ n + 1 - (n + 1 - j) = j
    BY <1>1
  <2> QED
    BY <1>4, <2>1
<1> QED
  BY <1>1, <1>4, <1>5, <1>7, <1>8

LEMMA FoldedLength ==
  ASSUME NEW s \in Seq(Chars)
  PROVE  Folded(s) \in Seq(Chars) /\ Len(Folded(s)) = Len(s)
<1>1. Len(s) \in Nat /\ DOMAIN s = 1 .. Len(s) /\ \A i \in 1 .. Len(s) : s[i] \in Chars
  BY LenProperties, ElementOfSeq
<1>2. Folded(s) = [i \in 1 .. Len(s) |-> Fold[s[i]]]
  BY <1>1 DEF Folded
<1>3. Folded(s) \in [1 .. Len(s) -> Chars]
  BY <1>1, <1>2, ConstantsAssumption
<1> QED
  BY <1>1, <1>3, LengthOf

LEMMA FoldedNothing ==
  ASSUME NEW s \in Strings
  PROVE  s = <<>> <=> Folded(s) = Folded(<<>>)
<1>1. s \in Seq(Chars) /\ <<>> \in Seq(Chars)
  BY StringsBounds, EmptyString
<1>2. /\ s = <<>> <=> Len(s) = 0
      /\ Folded(s) = <<>> <=> Len(Folded(s)) = 0
      /\ Folded(<<>>) = <<>>
  BY <1>1, FoldedLength, EmptySeq
<1>3. Len(Folded(s)) = Len(s)
  BY <1>1, FoldedLength
<1> QED
  BY <1>2, <1>3

(* Where a line entered goes.                                              *)
Push(h, s) == [h EXCEPT !.lines[h.wr] = s, !.wr = (h.wr + 1) % Depth,
                        !.rd = (h.wr + 1) % Depth]

LEMMA Pushed ==
  ASSUME NEW h \in HistoryBuffer, NEW n, Holding(h, n), NEW s \in Strings, s # <<>>,
         NEW t, t = Push(h, s)
  PROVE  /\ t.wr = t.rd /\ t.wr \in Ring /\ t.tmpl = h.tmpl
         /\ Older(t, 1) = s /\ \A j \in 1 .. Depth - 2 : Older(t, j + 1) = Older(h, j)
         /\ Holding(t, IF n = Depth - 1 THEN n ELSE n + 1)
<1> DEFINE w == (h.wr + 1) % Depth
<1>1. /\ h.wr \in Ring /\ h.wr \in Nat /\ w \in Ring
      /\ w = IF h.wr + 1 = Depth THEN 0 ELSE h.wr + 1
  <2>1. h.wr \in Ring /\ h.wr \in Nat /\ h.wr < Depth
    BY HistoryFields, RingBounds
  <2>2. PICK x \in Nat : x = h.wr + 1 /\ x < 2 * Depth /\ Depth \in Nat /\ Depth > 0
    <3>1. h.wr + 1 \in Nat /\ h.wr + 1 < 2 * Depth /\ Depth \in Nat /\ Depth > 0
      BY <2>1, RingBounds
    <3> QED
      BY <3>1
  <2>3. x % Depth = IF x < Depth THEN x ELSE x - Depth
    BY <2>2, ModWithin
  <2> QED
    BY <2>1, <2>2, <2>3, RingBounds
<1> HIDE DEF w
<1>2. /\ t.lines = [h.lines EXCEPT ![h.wr] = s] /\ t.wr = w /\ t.rd = w
      /\ t.tmpl = h.tmpl
  BY DEF HistoryBuffer, Push, w
<1>3. h.lines \in [Ring -> Strings]
  BY HistoryFields
<1>4. 1 \in Late /\ Step(w, "up", 1) = h.wr
  <2>1. 1 \in Late
    BY RingBounds DEF Late
  <2>2. Step(w, "up", 1) = IF 1 <= w THEN w - 1 ELSE w + Depth - 1
    BY <1>1, <2>1, LateSlot
  <2>3. w \in Nat /\ h.wr + 1 <= Depth /\ Depth \in Nat
    BY <1>1, RingBounds
  <2> QED
    BY <1>1, <2>1, <2>2, <2>3
<1>5. Older(t, 1) = s
  BY <1>1, <1>2, <1>3, <1>4 DEF Older
<1>6. ASSUME NEW j \in 1 .. Depth - 2
      PROVE  j \in Late /\ j + 1 \in Late /\ Older(t, j + 1) = Older(h, j)
  <2>1. j \in Late /\ j + 1 \in Late /\ j \in Nat
    BY RingBounds DEF Late
  <2>2. Step(w, "up", j + 1) = Step(h.wr, "up", j)
    <3>1. PICK k \in Late : k = j + 1
      BY <2>1
    <3>2. Step(w, "up", k) = IF k <= w THEN w - k ELSE w + Depth - k
      BY <1>1, LateSlot
    <3>3. Step(h.wr, "up", j) = IF j <= h.wr THEN h.wr - j ELSE h.wr + Depth - j
      BY <1>1, <2>1, LateSlot
    <3>4. Step(w, "up", k) = Step(h.wr, "up", j)
      <4>1. k = j + 1 /\ w \in Nat /\ h.wr \in Nat /\ k \in Nat
        BY <1>1, <2>1, <3>1, RingBounds DEF Late
      <4>2. PICK a, b : a = Step(w, "up", k) /\ b = Step(h.wr, "up", j)
        OBVIOUS
      <4>3. PICK u \in Nat, v \in Nat : u = w /\ v = h.wr
        BY <4>1
      <4>4. /\ a = IF k <= u THEN u - k ELSE u + Depth - k
            /\ b = IF j <= v THEN v - j ELSE v + Depth - j
        BY <3>2, <3>3, <4>2, <4>3
      <4>5. /\ u = IF v + 1 = Depth THEN 0 ELSE v + 1
            /\ k = j + 1 /\ j \in Nat /\ j <= Depth - 2 /\ v < Depth /\ Depth \in Nat
        BY <1>1, <4>1, <4>3, RingBounds
      <4>6. a = b
        BY ONLY <4>4, <4>5, u \in Nat, v \in Nat, k \in Late
      <4> QED
        BY <4>2, <4>6
    <3> QED
      BY <3>1, <3>4
  <2>3. Step(h.wr, "up", j) \in Ring /\ Step(h.wr, "up", j) # h.wr
    BY <1>1, <2>1, LateSlot
  <2> QED
    BY <1>2, <1>3, <2>1, <2>2, <2>3 DEF Older
<1>7. Holding(t, IF n = Depth - 1 THEN n ELSE n + 1)
  <2>1. n \in 0 .. Depth - 1 /\ \A j \in Late : Older(h, j) # <<>> <=> j <= n
    BY DEF Holding
  <2> DEFINE m == IF n = Depth - 1 THEN n ELSE n + 1
  <2>2. m \in 0 .. Depth - 1 /\ m >= 1
    BY <2>1, RingBounds
  <2>3. ASSUME NEW j \in Late PROVE Older(t, j) # <<>> <=> j <= m
    <3>1. CASE j = 1
      BY <1>5, <2>2, <3>1
    <3>2. CASE j # 1
      <4>1. PICK i \in 1 .. Depth - 2 : j = i + 1
        <5>1. j - 1 \in 1 .. Depth - 2 /\ j = (j - 1) + 1
          BY <3>2, RingBounds DEF Late
        <5> QED
          BY <5>1
      <4>2. Older(t, j) = Older(h, i) /\ i \in Late
        BY <1>6, <4>1
      <4>3. i <= n <=> j <= m
        BY <2>1, <4>1, RingBounds
      <4> QED
        BY <2>1, <4>2, <4>3
    <3> QED
      BY <3>1, <3>2
  <2> HIDE DEF m
  <2>4. Holding(t, m)
    BY <2>2, <2>3 DEF Holding
  <2> QED
    BY <2>4 DEF m
<1> QED
  BY <1>1, <1>2, <1>5, <1>6, <1>7

(* A sequence with one more element.                                       *)
LEMMA OneMore ==
  ASSUME NEW S, NEW u \in Seq(S), NEW m \in Nat, Len(u) = m, NEW x \in S
  PROVE  /\ u \o <<x>> \in Seq(S) /\ Len(u \o <<x>>) = m + 1
         /\ \A i \in 1 .. m + 1 : (u \o <<x>>)[i] = IF i <= m THEN u[i] ELSE x
<1>1. <<x>> \in Seq(S) /\ Len(<<x>>) = 1 /\ <<x>>[1] = x
  OBVIOUS
<1>2. /\ u \o <<x>> \in Seq(S) /\ Len(u \o <<x>>) = Len(u) + Len(<<x>>)
      /\ \A i \in 1 .. Len(u) + Len(<<x>>) :
           (u \o <<x>>)[i] = IF i <= Len(u) THEN u[i] ELSE <<x>>[i - Len(u)]
  BY <1>1, ConcatProperties
<1>3. ASSUME NEW i \in 1 .. m + 1, ~(i <= m) PROVE i - m = 1
  BY <1>3
<1> QED
  BY <1>1, <1>2, <1>3

LEMMA SameSlots ==
  ASSUME NEW h, NEW t, t.lines = h.lines, t.wr = h.wr
  PROVE  Logged(t) = Logged(h) /\ (NoGaps(h) => NoGaps(t))
BY DEF Logged, NoGaps, Older

LEMMA HoldsSome ==
  ASSUME NEW h
  PROVE  /\ NoGaps(h) => \E n : Holding(h, n)
         /\ \A n : Holding(h, n) => NoGaps(h)
BY DEF NoGaps, Holding, Late

(* What Enter makes of the log.                                            *)
Again(l, s) == s = <<>> \/ (l # <<>> /\ Folded(Last(l)) = Folded(s))

LEMMA EnteredAgain ==
  ASSUME NEW h \in HistoryBuffer, NEW n, Holding(h, n), NEW s \in Strings,
         Again(Logged(h), s)
  PROVE  add_to_history(h, s) = [h EXCEPT !.rd = h.wr]
<1>1. CASE s = <<>>
  BY <1>1 DEF add_to_history
<1>2. CASE s # <<>>
  <2> DEFINE l == Logged(h)
  <2>1. l # <<>> /\ Folded(Last(l)) = Folded(s)
    BY <1>2 DEF Again
  <2> HIDE DEF l
  <2>2. l \in Seq(Strings) /\ Len(l) = n /\ n \in Nat
    BY LogIs DEF l
  <2>3. n # 0
    BY <2>1, <2>2, EmptySeq
  <2>4. 1 \in 1 .. n /\ n + 1 - 1 = n
    BY <2>2, <2>3
  <2>5. l[n] = Older(h, 1)
    BY <2>4, LogIs DEF l
  <2>6. h.lines[(h.wr + Depth - 1) % Depth] = Last(l)
    BY <2>2, <2>5 DEF Older, Step, Last
  <2> QED
    BY <2>1, <2>6 DEF add_to_history
<1> QED
  BY <1>1, <1>2

LEMMA EnteredNew ==
  ASSUME NEW h \in HistoryBuffer, NEW n, Holding(h, n), NEW s \in Strings,
         ~Again(Logged(h), s)
  PROVE  /\ s # <<>>
         /\ add_to_history(h, s) = Push(h, s)
<1> DEFINE l == Logged(h)
<1>1. s # <<>> /\ ~(l # <<>> /\ Folded(Last(l)) = Folded(s))
  BY DEF Again
<1>2. l \in Seq(Strings) /\ Len(l) = n /\ n \in Nat
  BY LogIs
<1>3. h.lines[(h.wr + Depth - 1) % Depth] = Older(h, 1)
  BY DEF Older, Step
<1>4. 1 \in Late
  BY RingBounds DEF Late
<1>5. Folded(Older(h, 1)) # Folded(s)
  <2>1. CASE n = 0
    <3>1. Older(h, 1) = <<>>
      BY <1>4, <2>1 DEF Holding
    <3> QED
      BY <1>1, <3>1, FoldedNothing
  <2>2. CASE n # 0
    <3>1. 1 \in 1 .. n /\ n + 1 - 1 = n
      BY <1>2, <2>2
    <3>2. l[n] = Older(h, 1)
      BY <3>1, LogIs
    <3>3. l # <<>>
      BY <1>2, <2>2, EmptySeq
    <3>4. Last(l) = Older(h, 1)
      BY <1>2, <3>2 DEF Last
    <3> QED
      BY <1>1, <3>3, <3>4
  <2> QED
    BY <2>1, <2>2
<1> QED
  BY <1>1, <1>3, <1>5 DEF add_to_history, Push

LEMMA PushedLog ==
  ASSUME NEW h \in HistoryBuffer, NEW n, Holding(h, n), NEW s \in Strings, s # <<>>,
         NEW t \in HistoryBuffer,
         t = Push(h, s)
  PROVE  Logged(t) = SubSeq(Logged(h), IF Len(Logged(h)) = Depth - 1 THEN 2 ELSE 1,
                            Len(Logged(h))) \o <<s>>
<1> DEFINE l == Logged(h)
           q == IF n = Depth - 1 THEN n ELSE n + 1
<1>1. l \in Seq(Strings) /\ Len(l) = n /\ n \in Nat
      /\ \A j \in 1 .. n : n + 1 - j \in 1 .. n /\ l[n + 1 - j] = Older(h, j)
  BY LogIs
<1>2. Older(t, 1) = s /\ \A j \in 1 .. Depth - 2 : Older(t, j + 1) = Older(h, j)
  BY Pushed
<1>3. Holding(t, q)
  BY Pushed
<1>4. n \in 0 .. Depth - 1
  BY DEF Holding
<1>5. PICK m \in Nat, p \in Nat :
        /\ m = q /\ p = IF n = Depth - 1 THEN 1 ELSE 0
        /\ m >= 1 /\ p <= n /\ n - p = m - 1 /\ m - 1 <= Depth - 2 /\ m - 1 <= n /\ m < Depth
  <2> DEFINE o == IF n = Depth - 1 THEN 1 ELSE 0
  <2>1. /\ q \in Nat /\ q >= 1 /\ q - 1 <= Depth - 2 /\ q - 1 <= n /\ q < Depth
        /\ o \in Nat /\ n - o = q - 1 /\ o <= n
    BY <1>1, <1>4, RingBounds
  <2>2. o = IF n = Depth - 1 THEN 1 ELSE 0
    OBVIOUS
  <2> HIDE DEF o, q
  <2> QED
    BY <2>1, <2>2
<1> HIDE DEF l, q
<1> DEFINE v == Logged(t)
           u == SubSeq(l, p + 1, Len(l))
<1>6. v \in Seq(Strings) /\ Len(v) = m /\ \A i \in 1 .. m : v[i] = Older(t, m + 1 - i)
  <2>1. Holding(t, m)
    BY <1>3, <1>5
  <2> QED
    BY <2>1, LogIs
<1>7. u \in Seq(Strings) /\ Len(u) = m - 1 /\ \A i \in 1 .. m - 1 : u[i] = l[p + i]
  BY <1>1, <1>5, RestOf
<1> HIDE DEF v, u
<1>8. PICK k \in Nat : k = m - 1 /\ k + 1 = m
  BY <1>5
<1>9. /\ u \o <<s>> \in Seq(Strings) /\ Len(u \o <<s>>) = k + 1
      /\ \A i \in 1 .. k + 1 : (u \o <<s>>)[i] = IF i <= k THEN u[i] ELSE s
  BY <1>7, <1>8, OneMore
<1>10. ASSUME NEW i \in 1 .. m PROVE v[i] = (u \o <<s>>)[i]
  <2>1. v[i] = Older(t, m + 1 - i)
    BY <1>6
  <2>2. CASE i = m
    <3>1. m + 1 - i = 1 /\ i \in 1 .. k + 1 /\ ~(i <= k)
      BY <1>5, <1>8, <2>2
    <3> QED
      BY <1>2, <1>9, <2>1, <3>1
  <2>3. CASE i # m
    <3>1. PICK j \in Nat : j = m - i
      BY <2>3
    <3>2. /\ j \in 1 .. Depth - 2 /\ j \in 1 .. n /\ j + 1 = m + 1 - i
          /\ n + 1 - j = p + i /\ i \in 1 .. m - 1 /\ i \in 1 .. k + 1 /\ i <= k
      <4>1. n \in Nat /\ Depth \in Nat
        BY <1>1, RingBounds
      <4> QED
        BY <1>5, <1>8, <2>3, <3>1, <4>1
    <3>3. Older(t, j + 1) = Older(h, j) /\ l[n + 1 - j] = Older(h, j)
      BY <1>1, <1>2, <3>2
    <3> QED
      BY <1>7, <1>9, <2>1, <3>2, <3>3
  <2> QED
    BY <2>2, <2>3
<1>11. v = u \o <<s>>
  <2>1. PICK w \in Seq(Strings) : w = u \o <<s>>
    BY <1>9
  <2>2. Len(v) = Len(w) /\ Len(v) = m /\ \A i \in 1 .. m : v[i] = w[i]
    BY <1>6, <1>8, <1>9, <1>10, <2>1
  <2>3. \A i \in 1 .. Len(v) : v[i] = w[i]
    BY <2>2
  <2>4. v = w
    BY <1>6, <2>2, <2>3, SeqEqual
  <2> QED
    BY <2>1, <2>4
<1>12. p + 1 = IF Len(l) = Depth - 1 THEN 2 ELSE 1
  BY <1>1, <1>5
<1> QED
  BY <1>11, <1>12 DEF v, u, l

LEMMA EnteredLog ==
  ASSUME NEW h \in HistoryBuffer, NoGaps(h), NEW s \in Strings,
         NEW t, t = add_to_history(h, s)
  PROVE  /\ t \in HistoryBuffer /\ NoGaps(t) /\ t.rd = t.wr /\ t.tmpl = h.tmpl
         /\ Logged(t) = IF Again(Logged(h), s) THEN Logged(h)
                        ELSE SubSeq(Logged(h), IF Len(Logged(h)) = Depth - 1 THEN 2 ELSE 1,
                                    Len(Logged(h))) \o <<s>>
<1>1. PICK n : Holding(h, n)
  BY HoldsSome
<1>2. t \in HistoryBuffer
  BY HistoryAdded
<1>3. CASE Again(Logged(h), s)
  <2>1. t = [h EXCEPT !.rd = h.wr]
    BY <1>1, <1>3, EnteredAgain
  <2>2. h.wr \in Ring
    BY HistoryFields
  <2>3. t.rd = h.wr /\ t.wr = h.wr /\ t.lines = h.lines /\ t.tmpl = h.tmpl
    BY <2>1, <2>2, SetRead
  <2> QED
    BY <1>2, <1>3, <2>3, SameSlots
<1>4. CASE ~Again(Logged(h), s)
  <2>1. s # <<>> /\ t = Push(h, s)
    BY <1>1, <1>4, EnteredNew
  <2>2. /\ t.wr = t.rd /\ t.tmpl = h.tmpl
        /\ Holding(t, IF n = Depth - 1 THEN n ELSE n + 1)
    BY <1>1, <2>1, Pushed
  <2>3. Logged(t) = SubSeq(Logged(h), IF Len(Logged(h)) = Depth - 1 THEN 2 ELSE 1,
                           Len(Logged(h))) \o <<s>>
    BY <1>1, <1>2, <2>1, PushedLog
  <2> QED
    BY <1>2, <1>4, <2>2, <2>3, HoldsSome
<1> QED
  BY <1>3, <1>4

(* How many lines ago the line in slot j was entered; 0: it is the draft's *)
(* place.                                                                  *)
Behind(w, j) == (w - j) % Depth

LEMMA ModAround ==
  ASSUME NEW d \in Nat, d > 0, NEW x \in Int, -d < x, x < d
  PROVE  x % d = IF x < 0 THEN x + d ELSE x
OBVIOUS

LEMMA BehindIs ==
  ASSUME NEW w \in Ring, NEW j \in Ring
  PROVE  /\ Behind(w, j) = IF j <= w THEN w - j ELSE w + Depth - j
         /\ Behind(w, j) \in 0 .. Depth - 1 /\ Behind(w, j) \in Nat
         /\ Behind(w, j) = 0 <=> j = w
         /\ Behind(w, j) # 0 => Behind(w, j) \in Late /\ Step(w, "up", Behind(w, j)) = j
<1>1. /\ w \in Nat /\ w < Depth /\ j \in Nat /\ j < Depth /\ Depth \in Nat /\ Depth > 0
  BY RingBounds
<1>2. PICK x \in Int : x = w - j
  BY <1>1
<1>3. -Depth < x /\ x < Depth
  BY <1>1, <1>2
<1>4. x % Depth = IF x < 0 THEN x + Depth ELSE x
  BY <1>1, <1>3, ModAround
<1>5. PICK b : b = Behind(w, j)
  OBVIOUS
<1>6. b = IF x < 0 THEN x + Depth ELSE x
  BY <1>2, <1>4, <1>5 DEF Behind
<1>7. /\ b = IF j <= w THEN w - j ELSE w + Depth - j
      /\ b \in 0 .. Depth - 1 /\ b \in Nat /\ (b = 0 <=> j = w)
      /\ b # 0 => b \in Late
  BY <1>1, <1>2, <1>6 DEF Late
<1>8. ASSUME b # 0 PROVE Step(w, "up", b) = j
  <2>1. b \in Late
    BY <1>7, <1>8
  <2>2. Step(w, "up", b) = IF b <= w THEN w - b ELSE w + Depth - b
    BY <2>1, LateSlot
  <2> QED
    BY <1>1, <1>7, <2>2
<1> QED
  BY <1>5, <1>7, <1>8

LEMMA BehindStep ==
  ASSUME NEW w \in Ring, NEW i \in Ring, NEW k \in 1 .. Depth, NEW b \in Nat, b = Behind(w, i)
  PROVE  /\ Step(i, "up", k) \in Ring /\ Step(i, "down", k) \in Ring
         /\ Behind(w, Step(i, "up", k)) = IF b + k < Depth THEN b + k ELSE b + k - Depth
         /\ Behind(w, Step(i, "down", k)) = IF k <= b THEN b - k ELSE b + Depth - k
<1>1. PICK u, d : u = Step(i, "up", k) /\ d = Step(i, "down", k)
  OBVIOUS
<1>2. /\ u = IF k <= i THEN i - k ELSE i + Depth - k
      /\ d = IF i + k < Depth THEN i + k ELSE i + k - Depth
      /\ u \in Ring /\ d \in Ring
  BY <1>1, StepIs
<1>3. /\ b = IF i <= w THEN w - i ELSE w + Depth - i
      /\ Behind(w, u) = IF u <= w THEN w - u ELSE w + Depth - u
      /\ Behind(w, d) = IF d <= w THEN w - d ELSE w + Depth - d
  BY <1>2, BehindIs
<1>4. /\ w \in Nat /\ w < Depth /\ i \in Nat /\ i < Depth /\ Depth \in Nat /\ Depth > 0
      /\ k \in Nat /\ k >= 1 /\ k <= Depth /\ u \in Nat /\ d \in Nat
  BY <1>2, RingBounds
<1>5. PICK x, y : x = Behind(w, u) /\ y = Behind(w, d)
  OBVIOUS
<1>6. /\ x = IF u <= w THEN w - u ELSE w + Depth - u
      /\ y = IF d <= w THEN w - d ELSE w + Depth - d
  BY <1>3, <1>5
<1>7. x = IF b + k < Depth THEN b + k ELSE b + k - Depth
  BY <1>2, <1>3, <1>4, <1>6
<1>8. y = IF k <= b THEN b - k ELSE b + Depth - k
  BY <1>2, <1>3, <1>4, <1>6
<1> QED
  BY <1>1, <1>2, <1>5, <1>7, <1>8

(* The lines that the arrows stop at.                                      *)
Hits(h) == {n \in Late : Matches(h, Older(h, n))}

LEMMA StopIs ==
  ASSUME NEW h \in HistoryBuffer, NEW j \in Ring, NEW b, b = Behind(h.wr, j)
  PROVE  StopsAt(h, j) <=> b = 0 \/ b \in Hits(h)
<1>1. h.wr \in Ring
  BY HistoryFields
<1>2. /\ b = 0 <=> j = h.wr
      /\ b # 0 => b \in Late /\ Step(h.wr, "up", b) = j
  BY <1>1, BehindIs
<1>3. b # 0 => h.lines[j] = Older(h, b)
  BY <1>2 DEF Older
<1>4. 0 \notin Late
  BY DEF Late
<1> QED
  BY <1>2, <1>3, <1>4 DEF StopsAt, Hits

LEMMA MinIs ==
  ASSUME NEW S \in SUBSET Nat, NEW m \in S, \A n \in S : m <= n
  PROVE  Min(S) = m
<1>1. ASSUME NEW x \in S, \A y \in S : x <= y PROVE x = m
  BY <1>1
<1> QED
  BY <1>1 DEF Min

LEMMA MaxIs ==
  ASSUME NEW S \in SUBSET Nat, NEW m \in S, \A n \in S : m >= n
  PROVE  Max(S) = m
<1>1. ASSUME NEW x \in S, \A y \in S : x >= y PROVE x = m
  BY <1>1
<1> QED
  BY <1>1 DEF Max

LEMMA LandsOlder ==
  ASSUME NEW h \in HistoryBuffer, NEW b, b = Behind(h.wr, h.rd),
         NEW S, S = {n \in Hits(h) : n > b}
  PROVE  Behind(h.wr, Landing(h, "up")) = IF S = {} THEN 0 ELSE Min(S)
<1>1. PICK k \in 1 .. Depth :
        /\ Landing(h, "up") = Step(h.rd, "up", k) /\ StopsAt(h, Step(h.rd, "up", k))
        /\ \A m \in 1 .. k - 1 : ~StopsAt(h, Step(h.rd, "up", m))
  BY LandingIs DEF Dirs
<1>2. h.wr \in Ring /\ h.rd \in Ring
  BY HistoryFields
<1>3. b \in Nat /\ b < Depth /\ Depth \in Nat /\ k \in Nat /\ k >= 1 /\ k <= Depth
  BY <1>2, BehindIs, RingBounds
<1>4. \A m \in 1 .. Depth :
        StopsAt(h, Step(h.rd, "up", m)) <=>
          \/ b + m = Depth
          \/ b + m < Depth /\ b + m \in Hits(h)
          \/ b + m > Depth /\ b + m - Depth \in Hits(h)
  <2> SUFFICES ASSUME NEW m \in 1 .. Depth
               PROVE  StopsAt(h, Step(h.rd, "up", m)) <=>
                        \/ b + m = Depth
                        \/ b + m < Depth /\ b + m \in Hits(h)
                        \/ b + m > Depth /\ b + m - Depth \in Hits(h)
    OBVIOUS
  <2>1. PICK j, c : j = Step(h.rd, "up", m) /\ c = Behind(h.wr, j)
    OBVIOUS
  <2>2. j \in Ring /\ c = IF b + m < Depth THEN b + m ELSE b + m - Depth
    BY <1>2, <1>3, <2>1, BehindStep
  <2>3. StopsAt(h, j) <=> c = 0 \/ c \in Hits(h)
    BY <2>1, <2>2, StopIs
  <2>4. 0 \notin Hits(h)
    BY DEF Hits, Late
  <2>5. CASE b + m < Depth
    <3>1. c = b + m /\ c # 0 /\ b + m # Depth /\ ~(b + m > Depth)
      BY <1>3, <2>2, <2>5
    <3> QED
      BY <2>1, <2>3, <2>5, <3>1
  <2>6. CASE b + m = Depth
    <3>1. c = 0
      BY <1>3, <2>2, <2>6
    <3> QED
      BY <2>1, <2>3, <2>6, <3>1
  <2>7. CASE b + m > Depth
    <3>1. c = b + m - Depth /\ c # 0 /\ b + m # Depth /\ ~(b + m < Depth)
      BY <1>3, <2>2, <2>7
    <3> QED
      BY <2>1, <2>3, <2>7, <3>1
  <2> QED
    BY <1>3, <2>5, <2>6, <2>7
<1>5. b + k <= Depth
  <2> SUFFICES ASSUME b + k > Depth PROVE FALSE
    BY <1>3
  <2>1. PICK m \in 1 .. k - 1 : b + m = Depth /\ m \in 1 .. Depth
    <3>1. Depth - b \in 1 .. k - 1 /\ b + (Depth - b) = Depth /\ Depth - b \in 1 .. Depth
      BY <1>3
    <3> QED
      BY <3>1
  <2> QED
    BY <1>1, <1>4, <2>1
<1>6. ASSUME NEW n \in S PROVE n \in Nat /\ n > b /\ n < Depth /\ n >= b + k /\ n \in Hits(h)
  <2>1. n \in Late /\ n \in Hits(h) /\ n > b /\ n \in Nat /\ n < Depth
    BY RingBounds DEF Hits, Late
  <2>2. ASSUME n < b + k PROVE FALSE
    <3>1. PICK m \in 1 .. k - 1 : n = b + m /\ m \in 1 .. Depth
      <4>1. n - b \in 1 .. k - 1 /\ n = b + (n - b) /\ n - b \in 1 .. Depth
        BY <1>3, <2>1, <2>2
      <4> QED
        BY <4>1
    <3>2. b + m < Depth /\ b + m \in Hits(h)
      BY <2>1, <3>1
    <3> QED
      BY <1>1, <1>4, <3>1, <3>2
  <2> QED
    BY <1>3, <2>1, <2>2
<1>7. PICK c : c = Behind(h.wr, Landing(h, "up"))
  OBVIOUS
<1>8. c = IF b + k < Depth THEN b + k ELSE b + k - Depth
  BY <1>1, <1>2, <1>3, <1>7, BehindStep
<1>9. CASE b + k = Depth
  <2>1. c = 0
    BY <1>3, <1>8, <1>9
  <2>2. S = {}
    BY <1>3, <1>6, <1>9
  <2> QED
    BY <1>7, <2>1, <2>2
<1>10. CASE b + k < Depth
  <2>1. c = b + k /\ c \in Nat /\ c > b
    BY <1>3, <1>8, <1>10
  <2>2. c \in S
    <3>1. b + k # Depth /\ ~(b + k > Depth)
      BY <1>3, <1>10
    <3> QED
      BY <1>1, <1>4, <2>1, <3>1
  <2>3. S \in SUBSET Nat /\ \A n \in S : c <= n
    BY <1>6, <2>1
  <2>4. Min(S) = c
    BY <2>2, <2>3, MinIs
  <2> QED
    BY <1>7, <2>2, <2>4
<1> QED
  BY <1>3, <1>5, <1>9, <1>10

LEMMA LandsNewer ==
  ASSUME NEW h \in HistoryBuffer, NEW b, b = Behind(h.wr, h.rd),
         NEW S, S = {n \in Hits(h) : b = 0 \/ n < b}
  PROVE  Behind(h.wr, Landing(h, "down")) = IF S = {} THEN 0 ELSE Max(S)
<1>1. PICK k \in 1 .. Depth :
        /\ Landing(h, "down") = Step(h.rd, "down", k) /\ StopsAt(h, Step(h.rd, "down", k))
        /\ \A m \in 1 .. k - 1 : ~StopsAt(h, Step(h.rd, "down", m))
  BY LandingIs DEF Dirs
<1>2. h.wr \in Ring /\ h.rd \in Ring
  BY HistoryFields
<1>3. b \in Nat /\ b < Depth /\ Depth \in Nat /\ k \in Nat /\ k >= 1 /\ k <= Depth
  BY <1>2, BehindIs, RingBounds
(* From the draft, the way down is the way up from the oldest line.        *)
<1>4. PICK o \in Nat : o = (IF b = 0 THEN Depth ELSE b) /\ o >= 1 /\ o <= Depth
  <2>1. (IF b = 0 THEN Depth ELSE b) \in Nat /\ (IF b = 0 THEN Depth ELSE b) >= 1
        /\ (IF b = 0 THEN Depth ELSE b) <= Depth
    BY <1>3
  <2> QED
    BY <2>1
<1>5. \A m \in 1 .. Depth : m <= o =>
        /\ Behind(h.wr, Step(h.rd, "down", m)) = o - m
        /\ StopsAt(h, Step(h.rd, "down", m)) <=> o = m \/ o - m \in Hits(h)
  <2> SUFFICES ASSUME NEW m \in 1 .. Depth, m <= o
               PROVE  /\ Behind(h.wr, Step(h.rd, "down", m)) = o - m
                      /\ StopsAt(h, Step(h.rd, "down", m)) <=> o = m \/ o - m \in Hits(h)
    OBVIOUS
  <2>1. PICK j, c : j = Step(h.rd, "down", m) /\ c = Behind(h.wr, j)
    OBVIOUS
  <2>2. j \in Ring /\ c = IF m <= b THEN b - m ELSE b + Depth - m
    <3>1. PICK w \in Ring, i \in Ring : w = h.wr /\ i = h.rd
      BY <1>2
    <3>2. b = Behind(w, i)
      BY <3>1
    <3>3. /\ Step(i, "down", m) \in Ring
          /\ Behind(w, Step(i, "down", m)) = IF m <= b THEN b - m ELSE b + Depth - m
      BY <1>3, <3>2, BehindStep
    <3> QED
      BY <2>1, <3>1, <3>3
  <2>3. StopsAt(h, j) <=> c = 0 \/ c \in Hits(h)
    BY <2>1, <2>2, StopIs
  <2>4. c = o - m /\ (c = 0 <=> o = m)
    BY <1>3, <1>4, <2>2
  <2> QED
    BY <2>1, <2>3, <2>4
<1>6. k <= o
  <2> SUFFICES ASSUME k > o PROVE FALSE
    BY <1>3, <1>4
  <2>1. o \in 1 .. k - 1 /\ o \in 1 .. Depth /\ o <= o
    BY <1>3, <1>4
  <2> QED
    BY <1>1, <1>5, <2>1
<1>7. ASSUME NEW n \in S PROVE n \in Nat /\ n >= 1 /\ n < o /\ n <= o - k /\ n \in Hits(h)
  <2>1. n \in Late /\ n \in Hits(h) /\ (b = 0 \/ n < b) /\ n \in Nat /\ n >= 1 /\ n < Depth
    BY RingBounds DEF Hits, Late
  <2>2. n < o
    BY <1>4, <2>1
  <2>3. ASSUME n > o - k PROVE FALSE
    <3>1. PICK m \in 1 .. k - 1 : o - m = n /\ m \in 1 .. Depth /\ m <= o
      <4>1. o - n \in 1 .. k - 1 /\ o - (o - n) = n /\ o - n \in 1 .. Depth /\ o - n <= o
        BY <1>3, <1>4, <2>1, <2>2, <2>3
      <4> QED
        BY <4>1
    <3> QED
      BY <1>1, <1>5, <2>1, <3>1
  <2> QED
    BY <1>3, <1>4, <2>1, <2>2, <2>3
<1>8. PICK c : c = Behind(h.wr, Landing(h, "down"))
  OBVIOUS
<1>9. c = o - k /\ (o = k \/ c \in Hits(h))
  BY <1>1, <1>5, <1>6, <1>8
<1>10. CASE o = k
  <2>1. c = 0 /\ o - k = 0
    BY <1>4, <1>9, <1>10
  <2>2. S = {}
    BY <1>7, <2>1
  <2> QED
    BY <1>8, <2>1, <2>2
<1>11. CASE o # k
  <2>1. c \in Hits(h) /\ c \in Nat /\ c < o
    BY <1>3, <1>4, <1>6, <1>9, <1>11
  <2>2. c \in S
    <3>1. b = 0 \/ c < b
      BY <1>4, <2>1
    <3> QED
      BY <2>1, <3>1
  <2>3. S \in SUBSET Nat /\ \A n \in S : c >= n
    BY <1>7, <1>9, <2>1
  <2>4. Max(S) = c
    BY <2>2, <2>3, MaxIs
  <2> QED
    BY <1>8, <2>2, <2>4
<1> QED
  BY <1>10, <1>11

-----------------------------------------------------------------------------
(* TextLine, step by step.                                                 *)

TextInv == EditInv /\ NoGaps(hist) /\ NoGaps(file)

(* TextLine takes these from the same modules.                             *)
LEMMA SameOperators ==
  /\ \A S : Abstract!Min(S) = Min(S) /\ Abstract!Max(S) = Max(S)
  /\ \A s, t : Abstract!IsPrefix(s, t) <=> IsPrefix(s, t)
  /\ \A s : Abstract!Folded(s) = Folded(s)
  /\ \A s : Abstract!Last(s) = Last(s)
  /\ Abstract!Texts = Strings
<1>1. \A S : Abstract!Min(S) = Min(S) /\ Abstract!Max(S) = Max(S)
  BY DEF Abstract!Min, Min, Abstract!Max, Max
<1>2. \A s, t : Abstract!IsPrefix(s, t) <=> IsPrefix(s, t)
  BY DEF Abstract!IsPrefix, IsPrefix
<1>3. \A s : Abstract!Folded(s) = Folded(s)
  BY DEF Abstract!Folded, Folded
<1>4. \A s : Abstract!Last(s) = Last(s)
  BY DEF Abstract!Last, Last
<1>5. Abstract!Texts = Strings
  BY DEF Abstract!Texts, Strings, Abstract!BoundedSeq, BoundedSeq, Abstract!SeqOf, SeqOf
<1> QED
  BY <1>1, <1>2, <1>3, <1>4, <1>5

(* The keys that edit.                                                     *)
LEMMA EditsText ==
  ASSUME NEW e, Edited(e), NEW t, NEW p, Text(e) = t, e.cur = p
  PROVE  Abstract!Edit(t, p)
BY DEF Edited, AnyKey, Abstract!Edit

LEMMA TypeInserts ==
  ASSUME TextInv, Type
  PROVE  Abstract!Insert
<1>1. PICK c \in Chars, n \in Repeats : Edited(proceed_printable_key(ed, c, n))
  BY DEF Type
<1>2. n \in Nat /\ EditorOK(ed)
  BY EditorHere, ConstantsAssumption DEF TextInv
<1>3. PICK r, t : r = proceed_printable_key(ed, c, n) /\ t = Text(ed)
  OBVIOUS
<1>4. PICK k \in 0 .. LineLen - 1 - ed.end :
        /\ r.cur = ed.cur + k
        /\ Text(r) = SubSeq(t, 1, ed.cur) \o [i \in 1 .. k |-> c]
                       \o SubSeq(t, ed.cur + 1, Len(t))
  BY <1>2, <1>3, TypedText
<1>5. k \in 0 .. LineLen - 1 - Len(Text(ed))
  BY EditorHere DEF TextInv
<1>6. Text(r) = Abstract!Left \o Abstract!Repeat(c, k) \o Abstract!Right
  BY <1>3, <1>4 DEF Abstract!Left, Abstract!Right, Abstract!Repeat
<1>7. Abstract!Edit(Abstract!Left \o Abstract!Repeat(c, k) \o Abstract!Right, ed.cur + k)
  BY <1>1, <1>3, <1>4, <1>6, EditsText
<1> QED
  BY <1>5, <1>7 DEF Abstract!Insert

LEMMA BackRubsOut ==
  ASSUME TextInv, BackKey
  PROVE  Abstract!Rubout
<1>1. PICK n \in Repeats : Edited(proceed_back_key(ed, n))
  BY DEF BackKey
<1>2. n \in Nat /\ EditorOK(ed)
  BY EditorHere, ConstantsAssumption DEF TextInv
<1>3. PICK r, t : r = proceed_back_key(ed, n) /\ t = Text(ed)
  OBVIOUS
<1>4. PICK k \in 0 .. ed.cur :
        /\ r.cur = ed.cur - k
        /\ Text(r) = SubSeq(t, 1, ed.cur - k) \o SubSeq(t, ed.cur + 1, Len(t))
  BY <1>2, <1>3, BackedText
<1>5. Text(r) = SubSeq(Text(ed), 1, ed.cur - k) \o Abstract!Right
  BY <1>3, <1>4 DEF Abstract!Right
<1>6. Abstract!Edit(SubSeq(Text(ed), 1, ed.cur - k) \o Abstract!Right, ed.cur - k)
  BY <1>1, <1>3, <1>4, <1>5, EditsText
<1> QED
  BY <1>6 DEF Abstract!Rubout

LEMMA DeleteDeletes ==
  ASSUME TextInv, DeleteKey
  PROVE  Abstract!Delete
<1>1. PICK n \in Repeats : Edited(proceed_delete_key(ed, n))
  BY DEF DeleteKey
<1>2. n \in Nat /\ EditorOK(ed)
  BY EditorHere, ConstantsAssumption DEF TextInv
<1>3. PICK r, t : r = proceed_delete_key(ed, n) /\ t = Text(ed)
  OBVIOUS
<1>4. PICK k \in 0 .. ed.end - ed.cur :
        /\ r.cur = ed.cur
        /\ Text(r) = SubSeq(t, 1, ed.cur) \o SubSeq(t, ed.cur + k + 1, Len(t))
  BY <1>2, <1>3, DeletedText
<1>5. k \in 0 .. Len(Text(ed)) - ed.cur
  BY EditorHere DEF TextInv
<1>6. Text(r) = Abstract!Left \o SubSeq(Text(ed), ed.cur + k + 1, Len(Text(ed)))
  BY <1>3, <1>4 DEF Abstract!Left
<1>7. Abstract!Edit(Abstract!Left \o SubSeq(Text(ed), ed.cur + k + 1, Len(Text(ed))), ed.cur)
  BY <1>1, <1>3, <1>4, <1>6, EditsText
<1> QED
  BY <1>5, <1>7 DEF Abstract!Delete

LEMMA CursorMoves ==
  ASSUME TextInv, NEW p \in Nat, p <= ed.end, Edited(CursorTo(ed, p))
  PROVE  Abstract!Move
<1>1. Text(CursorTo(ed, p)) = Text(ed) /\ CursorTo(ed, p).cur = p
  BY EditorHere, MovedText DEF TextInv
<1>2. Abstract!Edit(Text(ed), p)
  BY <1>1, EditsText
<1>3. p \in 0 .. Len(Text(ed))
  BY EditorHere DEF TextInv
<1> QED
  BY <1>2, <1>3 DEF Abstract!Move

LEMMA KeysMove ==
  ASSUME TextInv, LeftKey \/ RightKey \/ HomeKey \/ EndKey \/ ShiftKey
  PROVE  Abstract!Move
<1>1. /\ ed.cur \in Nat /\ ed.end \in Nat /\ ed.cur <= ed.end /\ Len(Text(ed)) = ed.end
      /\ \A n \in Repeats : n \in Nat
  BY EditorHere, ConstantsAssumption DEF TextInv
<1>2. CASE LeftKey
  <2>1. PICK n \in Repeats : Edited(CursorTo(ed, ed.cur - Min({n, ed.cur})))
    BY <1>2 DEF LeftKey, proceed_left_key
  <2>2. Min({n, ed.cur}) = IF n <= ed.cur THEN n ELSE ed.cur
    BY <1>1, MinOfTwo
  <2>3. PICK p \in Nat : p = ed.cur - Min({n, ed.cur}) /\ p <= ed.end
    <3>1. ed.cur - Min({n, ed.cur}) \in Nat /\ ed.cur - Min({n, ed.cur}) <= ed.end
      BY <1>1, <2>2
    <3> QED
      BY <3>1
  <2> QED
    BY <2>1, <2>3, CursorMoves
<1>3. CASE RightKey
  <2>1. PICK n \in Repeats : Edited(CursorTo(ed, Min({ed.cur + n, ed.end})))
    BY <1>3 DEF RightKey, proceed_right_key
  <2>2. PICK a \in Nat : a = ed.cur + n
    BY <1>1
  <2>3. Min({a, ed.end}) = IF a <= ed.end THEN a ELSE ed.end
    BY <1>1, MinOfTwo
  <2>4. PICK p \in Nat : p = Min({a, ed.end}) /\ p <= ed.end
    BY <1>1, <2>3
  <2> QED
    BY <2>1, <2>2, <2>4, CursorMoves
<1>4. CASE HomeKey
  <2>1. 0 \in Nat /\ 0 <= ed.end
    BY <1>1
  <2> QED
    BY <1>4, <2>1, CursorMoves DEF HomeKey, proceed_home_key
<1>5. CASE EndKey
  BY <1>1, <1>5, CursorMoves DEF EndKey, proceed_end_key
<1>6. CASE ShiftKey
  <2>1. Abstract!Edit(Text(ed), ed.cur)
    BY <1>6, EditsText DEF ShiftKey
  <2>2. ed.cur \in 0 .. Len(Text(ed))
    BY <1>1
  <2> QED
    BY <2>1, <2>2 DEF Abstract!Move
<1> QED
  BY <1>2, <1>3, <1>4, <1>5, <1>6

LEMMA EscapeErases ==
  ASSUME TextInv, EscapeKey
  PROVE  Abstract!Erase
<1>1. PICK r : r = proceed_escape_key(ed)
  OBVIOUS
<1>2. EditorOK(r) /\ r.end = 0
  BY <1>1, EditorHere, NothingBehind, Escaped DEF TextInv
<1>3. Text(r) = <<>> /\ r.cur = 0
  BY <1>2, NoText, LineFields
<1> QED
  BY <1>1, <1>3, EditsText DEF EscapeKey, Abstract!Erase

LEMMA OtherStutters ==
  ASSUME OtherEvent
  PROVE  UNCHANGED Abstract!textVars
BY DEF OtherEvent, AnyKey, Abstract!textVars

(* The arrows.                                                             *)
LEMMA PrefixOf ==
  ASSUME NEW d \in Strings, NEW s \in Strings
  PROVE  /\ d = <<>> => IsPrefix(Folded(d), Folded(s))
         /\ d # <<>> /\ IsPrefix(Folded(d), Folded(s)) => s # <<>>
<1>1. /\ d \in Seq(Chars) /\ s \in Seq(Chars) /\ Len(d) \in Nat /\ Len(s) \in Nat
      /\ d = <<>> <=> Len(d) = 0
      /\ s = <<>> <=> Len(s) = 0
  BY StringsBounds, LenProperties, EmptySeq
<1>2. PICK f, g : f = Folded(d) /\ g = Folded(s)
  OBVIOUS
<1>3. f \in Seq(Chars) /\ g \in Seq(Chars) /\ Len(f) = Len(d) /\ Len(g) = Len(s)
  BY <1>1, <1>2, FoldedLength
<1>4. ASSUME d = <<>> PROVE IsPrefix(f, g)
  <2>1. Len(f) = 0 /\ Len(f) <= Len(g)
    BY <1>1, <1>3, <1>4
  <2>2. PICK z \in Int : z = 0
    OBVIOUS
  <2>3. ASSUME NEW x \in Seq(Chars) PROVE SubSeq(x, 1, z) = <<>>
    <3>1. 1 \in Int /\ \A i \in 1 .. z : x[i] \in Chars
      BY <2>2
    <3>2. SubSeq(x, 1, z) \in Seq(Chars) /\ Len(SubSeq(x, 1, z)) = IF 1 <= z THEN z - 1 + 1 ELSE 0
      BY <3>1, SubSeqProperties
    <3> QED
      BY <2>2, <3>2, EmptySeq
  <2>4. SubSeq(f, 1, z) = SubSeq(g, 1, z)
    BY <1>3, <2>3
  <2> QED
    BY <2>1, <2>2, <2>4 DEF IsPrefix
<1>5. ASSUME d # <<>>, IsPrefix(f, g) PROVE s # <<>>
  <2>1. Len(f) <= Len(g)
    BY <1>5 DEF IsPrefix
  <2> QED
    BY <1>1, <1>3, <1>5, <2>1
<1> QED
  BY <1>2, <1>4, <1>5

LEMMA HitIs ==
  ASSUME NEW h \in HistoryBuffer, NEW n, Holding(h, n), NEW j \in Late,
         NEW l, l = Logged(h), NEW d, d = h.tmpl
  PROVE  /\ j \in Hits(h) <=> /\ j <= Len(l) /\ l[Len(l) + 1 - j] # <<>>
                              /\ IsPrefix(Folded(d), Folded(l[Len(l) + 1 - j]))
         /\ j \in Hits(h) => l[Len(l) + 1 - j] = Older(h, j)
<1>1. Len(l) = n /\ n \in Nat /\ \A i \in 1 .. n : l[n + 1 - i] = Older(h, i)
  BY LogIs
<1>2. PICK s \in Strings : s = Older(h, j)
  BY OlderIs
<1>3. d \in Strings
  BY HistoryFields
<1>4. s # <<>> <=> j <= n
  BY <1>2 DEF Holding
<1>5. j \in Nat /\ j >= 1
  BY DEF Late
<1>6. j <= n => l[Len(l) + 1 - j] = s
  BY <1>1, <1>2, <1>5
<1>7. j \in Hits(h) <=> IF d = <<>> THEN s # <<>> ELSE IsPrefix(Folded(d), Folded(s))
  BY <1>2 DEF Hits, Matches
<1>8. j \in Hits(h) <=> s # <<>> /\ IsPrefix(Folded(d), Folded(s))
  BY <1>3, <1>7, PrefixOf
<1>9. CASE j <= n
  BY <1>1, <1>2, <1>4, <1>6, <1>8, <1>9
<1>10. CASE ~(j <= n)
  BY <1>1, <1>4, <1>8, <1>10
<1> QED
  BY <1>9, <1>10

LEMMA ArrowWalks ==
  ASSUME TextInv, NEW dir \in Dirs, ScrollKey(dir)
  PROVE  Abstract!Walk(dir = "up")
<1>1. PICK h : /\ h = IF prev_key = "scroll" THEN hist ELSE [hist EXCEPT !.tmpl = Text(ed)]
               /\ hist' = scroll_history(h, dir)
               /\ AnyKey(set_cmd_line(ed, Recalled(hist')), "scroll")
  BY DEF ScrollKey
<1>2. hist \in HistoryBuffer /\ Text(ed) \in Strings /\ NoGaps(hist)
  BY EditorHere DEF TextInv
<1> DEFINE D == IF prev_key = "scroll" THEN hist.tmpl ELSE Text(ed)
<1>3. PICK d : d = D
  OBVIOUS
<1>4. /\ h \in HistoryBuffer /\ h.tmpl = d
      /\ h.lines = hist.lines /\ h.rd = hist.rd /\ h.wr = hist.wr
  BY <1>1, <1>2, <1>3 DEF HistoryBuffer
<1> HIDE DEF D
<1>5. NoGaps(h) /\ Logged(h) = Logged(hist)
  BY <1>2, <1>4, SameSlots
<1>6. PICK n : Holding(h, n)
  BY <1>5, HoldsSome
<1>7. PICK l : l = Logged(h)
  OBVIOUS
<1>8. h.wr \in Ring /\ h.rd \in Ring
  BY <1>4, HistoryFields
<1>9. PICK b \in Nat : b = Behind(h.wr, h.rd)
  BY <1>8, BehindIs
<1> DEFINE S == IF dir = "up" THEN {m \in Hits(h) : m > b}
                              ELSE {m \in Hits(h) : b = 0 \/ m < b}
           N == IF S = {} THEN 0 ELSE IF dir = "up" THEN Min(S) ELSE Max(S)
<1>10. PICK m : m = Behind(h.wr, Landing(h, dir))
  OBVIOUS
<1>11. m = N
  <2>1. CASE dir = "up"
    BY <1>4, <1>9, <1>10, <2>1, LandsOlder
  <2>2. CASE dir # "up"
    <3>1. dir = "down"
      BY <2>2 DEF Dirs
    <3> QED
      BY <1>4, <1>9, <1>10, <3>1, LandsNewer
  <2> QED
    BY <2>1, <2>2
<1>12. {i \in 1 .. Depth - 1 : Abstract!Recalled(i, d)} = Hits(h)
  <2>1. ASSUME NEW i \in Late PROVE Abstract!Recalled(i, d) <=> i \in Hits(h)
    <3>1. i \in Hits(h) <=> /\ i <= Len(l) /\ l[Len(l) + 1 - i] # <<>>
                            /\ IsPrefix(Folded(d), Folded(l[Len(l) + 1 - i]))
      BY <1>4, <1>6, <1>7, HitIs
    <3>2. Abstract!Recalled(i, d) <=> /\ i <= Len(l) /\ l[Len(l) + 1 - i] # <<>>
                                      /\ IsPrefix(Folded(d), Folded(l[Len(l) + 1 - i]))
      BY <1>5, <1>7, SameOperators DEF Abstract!Recalled
    <3> QED
      BY <3>1, <3>2
  <2>2. Hits(h) \subseteq Late
    BY DEF Hits
  <2> QED
    BY <2>1, <2>2 DEF Late
<1>13. PICK t : t = hist'
  OBVIOUS
<1>14. /\ t \in HistoryBuffer /\ t.rd = Landing(h, dir) /\ t.wr = h.wr /\ t.lines = h.lines
       /\ t.tmpl = d /\ Landing(h, dir) \in Ring
  BY <1>1, <1>4, <1>13, Scrolled
<1>15. Behind(t.wr, t.rd) = m
  BY <1>10, <1>14
<1>16. Recalled(t) = IF m = 0 THEN d ELSE l[Len(l) + 1 - m]
  <2>1. m = 0 <=> t.rd = t.wr
    BY <1>8, <1>14, <1>15, BehindIs
  <2>2. CASE m = 0
    BY <1>14, <2>1, <2>2 DEF Recalled
  <2>3. CASE m # 0
    <3>1. m \in Late /\ Step(h.wr, "up", m) = t.rd
      BY <1>8, <1>14, <1>15, <2>3, BehindIs
    <3>2. StopsAt(h, t.rd)
      BY <1>1, <1>4, <1>14, LandingIs
    <3>3. m \in Hits(h)
      BY <1>4, <1>10, <1>14, <2>3, <3>2, StopIs
    <3>4. l[Len(l) + 1 - m] = Older(h, m)
      BY <1>4, <1>6, <1>7, <3>1, <3>3, HitIs
    <3>5. Older(h, m) = t.lines[t.rd]
      BY <1>14, <3>1 DEF Older
    <3> QED
      BY <2>1, <2>3, <3>4, <3>5 DEF Recalled
  <2> QED
    BY <2>2, <2>3
<1>17. PICK e : e = set_cmd_line(ed, Recalled(t))
  OBVIOUS
<1>18. Text(e) = Recalled(t) /\ e.cur = Len(Recalled(t))
  <2>1. Recalled(t) \in Strings /\ EditorOK(ed) /\ Buffered(ed)
    BY <1>14, EditorHere, RecalledLine DEF TextInv
  <2>2. \A i \in Cell : i >= Begin(ed) + ed.end => ed.con.cells[i] = Nul
    BY <2>1, NothingBehind
  <2> QED
    BY <1>17, <2>1, <2>2, SetLineShows, SetLineText
<1>19. /\ ed' = e /\ hist' = t /\ prev_key' = "scroll" /\ arg' = arg /\ file' = file
  BY <1>1, <1>13, <1>17 DEF AnyKey
<1>20. Logged(t) = Logged(hist)
  BY <1>4, <1>14, SameSlots
<1> HIDE DEF N, S
<1>21. S = IF dir = "up" THEN {i \in Hits(h) : i > b} ELSE {i \in Hits(h) : b = 0 \/ i < b}
  BY DEF S
<1>22. m = IF S = {} THEN 0 ELSE IF dir = "up" THEN Min(S) ELSE Max(S)
  BY <1>11 DEF N
<1>23. b = (hist.wr - hist.rd) % Depth
  BY <1>4, <1>9 DEF Behind
<1>24. /\ (hist'.wr - hist'.rd) % Depth = m
       /\ hist'.tmpl = d /\ (prev_key' = "scroll") = TRUE
       /\ Text(ed') = IF m = 0 THEN d
                      ELSE Logged(hist)[Len(Logged(hist)) + 1 - m]
       /\ ed'.cur = Len(Text(ed'))
       /\ Logged(hist') = Logged(hist)
  BY <1>5, <1>7, <1>14, <1>15, <1>16, <1>18, <1>19, <1>20 DEF Behind
<1> QED
  BY <1>3, <1>12, <1>19, <1>21, <1>22, <1>23, <1>24, SameOperators DEF Abstract!Walk, D

(* Keys and events that show a prompt.                                     *)
LEMMA ReturnEnters ==
  ASSUME TextInv, ReturnKey
  PROVE  Abstract!Enter
<1>1. /\ hist' = add_to_history(hist, Text(ed))
      /\ ed' = get_line_prompt(proceed_end_key(ed), <<>>, ed.end, "reset")
      /\ arg' = <<>> /\ prev_key' = "other" /\ file' = file
  BY DEF ReturnKey
<1>2. PICK e : e = proceed_end_key(ed) /\ EditorOK(e)
  BY EditorHere, HomeEnd DEF TextInv
<1>3. Text(ed') = <<>> /\ ed'.cur = 0
  <2>1. Buffered(e) /\ <<>> \in Strings /\ Len(<<>>) = 0 /\ ed.end \in Nat
    BY <1>2, EditorHere, EmptyString DEF EditorOK, TextInv
  <2>2. \A i \in Cell : i >= Begin(e) + e.end => e.con.cells[i] = Nul
    BY <1>2, NothingBehind
  <2>3. PICK r, s : r = get_line_prompt(e, s, ed.end, "reset") /\ s = <<>>
    OBVIOUS
  <2>4. Text(r) = s /\ r.cur = IF ed.end > 0 /\ ed.end < Len(s) THEN ed.end ELSE Len(s)
    BY <2>1, <2>2, <2>3, PromptText
  <2>5. r.cur = 0
    BY <2>1, <2>3, <2>4
  <2> QED
    BY <1>1, <1>2, <2>3, <2>4, <2>5
<1>4. PICK s, h, t : s = Text(ed) /\ h = hist /\ t = hist'
  OBVIOUS
<1>5. /\ t \in HistoryBuffer /\ t.rd = t.wr /\ t.tmpl = h.tmpl
      /\ Logged(t) = IF Again(Logged(h), s) THEN Logged(h)
                     ELSE SubSeq(Logged(h), IF Len(Logged(h)) = Depth - 1 THEN 2 ELSE 1,
                                 Len(Logged(h))) \o <<s>>
  BY <1>1, <1>4, EditorHere, EnteredLog DEF TextInv
<1>6. (t.wr - t.rd) % Depth = 0
  <2>1. t.wr \in Ring
    BY <1>5, HistoryFields
  <2> QED
    BY <1>5, <2>1, BehindIs DEF Behind
<1>7. Again(Logged(h), s) <=>
        s = <<>> \/ (Logged(h) # <<>>
                     /\ Abstract!Folded(Abstract!Last(Logged(h))) = Abstract!Folded(s))
  BY SameOperators DEF Again
<1> QED
  BY <1>1, <1>3, <1>4, <1>5, <1>6, <1>7 DEF Abstract!Enter, Abstract!Cleared

(* What a completion leaves: the text, cut one cell early, and the cursor. *)
CutAt(t, n) == SubSeq(t, 1, Min({n, Len(t)}))

LEMMA CompletedText ==
  ASSUME NEW t \in Strings, NEW p \in Nat, p <= Len(t), NEW s \in Seq(Chars), s # <<>>,
         NEW c \in Nat, c = p + Len(s),
         NEW u, u = cmd_auto_complete(t, p, s)
  PROVE  /\ u = CutAt(With(t, p, s), LineLen - 2)
         /\ c > 0 /\ Len(u) \in Nat
         /\ (IF Min({c, LineLen - 2}) > 0 /\ Min({c, LineLen - 2}) < Len(u)
             THEN Min({c, LineLen - 2}) ELSE Len(u))
              = IF c <= Len(u) THEN c ELSE Len(u)
<1>1. /\ t \in Seq(Chars) /\ Len(t) \in Nat /\ LineLen \in Nat /\ LineLen > 2
      /\ Len(s) \in Nat /\ Len(s) # 0
  BY StringsBounds, SlotBounds, LenProperties, EmptySeq
<1>2. PICK all, m : /\ all = With(t, p, s) /\ all \in Seq(Chars)
                    /\ m \in Nat /\ m = Len(all) /\ m = Len(t) + Len(s)
  <2>1. PICK n \in Nat, k \in Nat : n = Len(t) /\ k = Len(s)
    BY <1>1
  <2>2. With(t, p, s) \in Seq(Chars) /\ Len(With(t, p, s)) = n + k
    BY <1>1, <2>1, Spliced
  <2> QED
    BY <2>1, <2>2
<1>3. PICK b \in Nat : b = LineLen - 2 /\ b > 0
  BY <1>1
<1>4. PICK n \in Nat : /\ n = Min({m, b}) /\ n = Min({b, m})
                       /\ n = IF m <= b THEN m ELSE b
  <2>1. {b, m} = {m, b}
    OBVIOUS
  <2>2. Min({m, b}) = IF m <= b THEN m ELSE b
    BY <1>2, MinOfTwo
  <2> QED
    BY <1>2, <2>1, <2>2
<1>5. u = SubSeq(all, 1, n)
  BY <1>2, <1>3, <1>4 DEF cmd_auto_complete, With
<1>6. Len(u) = n
  <2>1. n <= Len(all)
    BY <1>2, <1>4
  <2> QED
    BY <1>2, <1>5, <2>1, FirstOf
<1>7. PICK k \in Nat : k = Min({c, b}) /\ k = IF c <= b THEN c ELSE b
  BY MinOfTwo
<1>8. c > 0 /\ c <= m
  BY <1>1, <1>2
<1>9. (IF k > 0 /\ k < n THEN k ELSE n) = IF c <= n THEN c ELSE n
  BY <1>3, <1>4, <1>7, <1>8
<1> QED
  BY <1>2, <1>3, <1>4, <1>5, <1>6, <1>7, <1>8, <1>9 DEF CutAt

LEMMA TabCompletes ==
  ASSUME TextInv, TabKey
  PROVE  Abstract!Complete
<1>1. PICK s, t, p :
        /\ s \in Inserts /\ t = cmd_auto_complete(Text(ed), ed.cur, s)
        /\ p = IF s = <<>> THEN ed.cur ELSE Min({ed.cur + Len(s), LineLen - 2})
        /\ arg' = t /\ ed' = get_line_prompt(ed, t, p, "continue")
  BY DEF TabKey
<1>2. prev_key' = "tab" /\ hist' = hist /\ file' = file
  BY DEF TabKey
<1>3. s \in Seq(Chars) /\ Len(s) \in Nat /\ LineLen \in Nat /\ LineLen > 2
  BY <1>1, ConstantsAssumption, LenProperties
<1>4. PICK o, q : /\ o = Text(ed) /\ o \in Strings /\ q = ed.cur /\ q \in Nat
                  /\ q <= Len(o) /\ EditorOK(ed) /\ Buffered(ed)
  BY EditorHere DEF TextInv
<1>5. t \in Strings /\ Len(t) \in Nat
  <2>1. t \in Strings
    BY <1>1, <1>3, <1>4, Completed
  <2> QED
    BY <2>1, StringsBounds, SlotBounds
<1>6. PICK c \in Nat : c = q + Len(s)
  BY <1>3, <1>4
<1>7. p \in Nat
  <2>1. LineLen - 2 \in Nat
    BY <1>3
  <2>2. Min({c, LineLen - 2}) = IF c <= LineLen - 2 THEN c ELSE LineLen - 2
    BY <2>1, MinOfTwo
  <2> QED
    BY <1>1, <1>4, <1>6, <2>1, <2>2
<1>8. Text(ed') = t /\ ed'.cur = IF p > 0 /\ p < Len(t) THEN p ELSE Len(t)
  <2>1. \A i \in Cell : i >= Begin(ed) + ed.end => ed.con.cells[i] = Nul
    BY <1>4, NothingBehind
  <2>2. PICK r : r = get_line_prompt(ed, t, p, "continue")
    OBVIOUS
  <2>3. Text(r) = t /\ r.cur = IF p > 0 /\ p < Len(t) THEN p ELSE Len(t)
    BY <1>4, <1>5, <1>7, <2>1, <2>2, PromptText
  <2> QED
    BY <1>1, <2>2, <2>3
<1>9. t = IF s = <<>> THEN o ELSE CutAt(With(o, q, s), LineLen - 2)
  <2>1. CASE s = <<>>
    BY <1>1, <1>4, <2>1 DEF cmd_auto_complete
  <2>2. CASE s # <<>>
    <3>1. t = cmd_auto_complete(o, q, s)
      BY <1>1, <1>4
    <3>2. t = CutAt(With(o, q, s), LineLen - 2)
      BY <1>3, <1>4, <1>6, <2>2, <3>1, CompletedText
    <3> QED
      BY <2>2, <3>2
  <2> QED
    BY <2>1, <2>2
<1>10. ed'.cur = IF c = 0 THEN Len(t) ELSE Min({c, Len(t)})
  <2>1. Min({c, Len(t)}) = IF c <= Len(t) THEN c ELSE Len(t)
    BY <1>5, MinOfTwo
  <2>2. CASE s = <<>>
    <3>1. t = o /\ p = q /\ Len(s) = 0
      BY <1>1, <1>4, <1>9, <2>2, EmptySeq
    <3>2. c = q
      BY <1>4, <1>6, <3>1
    <3> QED
      BY <1>4, <1>5, <1>8, <2>1, <3>1, <3>2
  <2>3. CASE s # <<>>
    <3>1. p = Min({c, LineLen - 2})
      BY <1>1, <1>4, <1>6, <2>3
    <3>2. c > 0 /\ (IF p > 0 /\ p < Len(t) THEN p ELSE Len(t)) = IF c <= Len(t) THEN c ELSE Len(t)
      <4>1. t = cmd_auto_complete(o, q, s)
        BY <1>1, <1>4
      <4>2. PICK k : k = Min({c, LineLen - 2})
        OBVIOUS
      <4>3. c > 0 /\ (IF k > 0 /\ k < Len(t) THEN k ELSE Len(t)) = IF c <= Len(t) THEN c ELSE Len(t)
        BY <1>3, <1>4, <1>6, <2>3, <4>1, <4>2, CompletedText
      <4> QED
        BY <3>1, <4>2, <4>3
    <3> QED
      BY <1>8, <2>1, <3>2
  <2> QED
    BY <2>2, <2>3
<1>11. (LineLen - 1) - 1 = LineLen - 2
  BY <1>3
<1>12. Text(ed') = IF s = <<>> THEN Text(ed)
                   ELSE Abstract!CutTo(Abstract!Left \o s \o Abstract!Right, (LineLen - 1) - 1)
  BY <1>4, <1>8, <1>9, <1>11, SameOperators
     DEF With, CutAt, Abstract!CutTo, Abstract!Left, Abstract!Right
<1>13. ed'.cur = IF ed.cur + Len(s) = 0 THEN Len(Text(ed'))
                 ELSE Abstract!Min({ed.cur + Len(s), Len(Text(ed'))})
  BY <1>4, <1>6, <1>8, <1>10, SameOperators
<1> QED
  BY <1>1, <1>2, <1>8, <1>12, <1>13 DEF Abstract!Complete

LEMMA TabTabCompletes ==
  ASSUME TextInv, TabTabKey
  PROVE  Abstract!Complete
<1>1. /\ arg' = Text(ed) /\ ed' = get_line_prompt(ed, Text(ed), ed.cur, "none")
      /\ prev_key' = "tab" /\ hist' = hist /\ file' = file
  BY DEF TabTabKey
<1>2. PICK o, q, n :
        /\ o = Text(ed) /\ o \in Strings /\ q = ed.cur /\ n = Len(o)
        /\ q \in Nat /\ n \in Nat /\ q <= n /\ EditorOK(ed) /\ Buffered(ed)
  BY EditorHere DEF TextInv
<1>3. Text(ed') = o /\ ed'.cur = IF q > 0 /\ q < n THEN q ELSE n
  <2>1. \A i \in Cell : i >= Begin(ed) + ed.end => ed.con.cells[i] = Nul
    BY <1>2, NothingBehind
  <2>2. PICK r : r = get_line_prompt(ed, o, q, "none")
    OBVIOUS
  <2>3. Text(r) = o /\ r.cur = IF q > 0 /\ q < Len(o) THEN q ELSE Len(o)
    BY <1>2, <2>1, <2>2, PromptText
  <2> QED
    BY <1>1, <1>2, <2>2, <2>3
<1>4. ed'.cur = IF q = 0 THEN n ELSE Min({q, n})
  <2>1. Min({q, n}) = IF q <= n THEN q ELSE n
    BY <1>2, MinOfTwo
  <2> QED
    BY <1>2, <1>3, <2>1
<1>5. PICK s : s = <<>>
  OBVIOUS
<1>6. q + Len(s) = q
  <2>1. Len(s) = 0
    BY <1>5, EmptySeq
  <2> QED
    BY <1>2, <2>1
<1>7. ed'.cur = IF ed.cur + Len(s) = 0 THEN Len(Text(ed'))
                ELSE Abstract!Min({ed.cur + Len(s), Len(Text(ed'))})
  BY <1>2, <1>3, <1>4, <1>6, SameOperators
<1>8. s \in Inserts \union {<<>>}
  BY <1>5
<1> QED
  BY <1>1, <1>2, <1>3, <1>5, <1>7, <1>8 DEF Abstract!Complete

LEMMA RestoreInterrupts ==
  ASSUME TextInv, PromptRestored
  PROVE  Abstract!Interrupt
<1>1. PICK e : e = [ed EXCEPT !.con = AfterMessage]
  OBVIOUS
<1>2. /\ ed' = get_line_prompt(e, arg, n_cur_pos, n_flag)
      /\ prev_key' = prev_key /\ hist' = hist /\ file' = file /\ arg' = arg
  BY <1>1 DEF PromptRestored
<1>3. PICK k, p, f : /\ k = arg /\ k \in Strings /\ p = n_cur_pos /\ p \in Nat
                     /\ f = n_flag
  BY EditorHere DEF TextInv
<1>4. Buffered(e) /\ \A i \in Cell : i >= Begin(e) + e.end => e.con.cells[i] = Nul
  BY <1>1, MessageBehind DEF TextInv
<1>5. PICK r : r = get_line_prompt(e, k, p, f)
  OBVIOUS
<1>6. Text(r) = k /\ r.cur = IF p > 0 /\ p < Len(k) THEN p ELSE Len(k)
  BY <1>3, <1>4, <1>5, PromptText
<1>7. Len(k) \in Nat
  BY <1>3, StringsBounds, SlotBounds
<1>8. r.cur \in 0 .. Len(k)
  BY <1>3, <1>6, <1>7
<1> QED
  BY <1>2, <1>3, <1>5, <1>6, <1>8 DEF Abstract!Interrupt

LEMMA NothingShown == Text(EmptyLine) = <<>> /\ EmptyLine.cur = 0
<1>1. PICK e : e = [con |-> FreshRow]
  OBVIOUS
<1>2. e.con \in Console /\ Blank(e.con)
  BY <1>1, Rows
<1>3. Text(Shown(e, <<>>)) = <<>> /\ Shown(e, <<>>).cur = 0
  BY <1>2, ShownText, ShownLine, EmptyString
<1> QED
  BY <1>1, <1>3 DEF EmptyLine

LEMMA SessionBegins ==
  ASSUME TextInv, Close \/ Kill
  PROVE  Abstract!NewSession
<1>1. /\ ed' = EmptyLine /\ prev_key' = "other" /\ arg' = <<>>
      /\ \/ hist' = hist /\ file' = hist
         \/ hist' = file /\ file' = file
  BY DEF Close, Kill, NewSession
<1>2. Text(ed') = <<>> /\ ed'.cur = 0
  BY <1>1, NothingShown
<1>3. hist'.tmpl \in Strings
  BY <1>1, EditorHere, HistoryFields DEF TextInv
<1> QED
  BY <1>1, <1>2, <1>3, SameOperators DEF Abstract!NewSession, Abstract!Cleared

-----------------------------------------------------------------------------
(* The refinement.                                                         *)

LEMMA TextBegins == Init => TextInv /\ Abstract!Init
<1> SUFFICES ASSUME Init PROVE TextInv /\ Abstract!Init
  OBVIOUS
<1>1. ed = EmptyLine /\ prev_key = "other" /\ arg = <<>> /\ hist = file /\ file \in Files
  BY DEF Init
<1>2. NoGaps(hist) /\ NoGaps(file)
  BY <1>1, FilesAssumption
<1> QED
  BY <1>1, <1>2, EditInit, NothingShown DEF TextInv, Abstract!Init

LEMMA RingKept == TextInv /\ [Next]_vars => TextInv'
<1> SUFFICES ASSUME TextInv, [Next]_vars PROVE TextInv'
  OBVIOUS
<1>1. EditInv'
  BY EditStep DEF TextInv
<1>2. ASSUME hist' = hist \/ hist' = file, file' = hist \/ file' = file
      PROVE  NoGaps(hist') /\ NoGaps(file')
  BY <1>2 DEF TextInv
<1>3. ASSUME ReturnKey PROVE NoGaps(hist') /\ NoGaps(file')
  <2>1. hist' = add_to_history(hist, Text(ed)) /\ file' = file
    BY <1>3 DEF ReturnKey
  <2>2. NoGaps(hist')
    BY <2>1, EditorHere, EnteredLog DEF TextInv
  <2> QED
    BY <2>1, <2>2 DEF TextInv
<1>4. ASSUME NEW dir \in Dirs, ScrollKey(dir) PROVE NoGaps(hist') /\ NoGaps(file')
  <2>1. PICK h : /\ h = IF prev_key = "scroll" THEN hist ELSE [hist EXCEPT !.tmpl = Text(ed)]
                 /\ hist' = scroll_history(h, dir) /\ file' = file
    BY <1>4 DEF ScrollKey, AnyKey
  <2>2. hist \in HistoryBuffer /\ Text(ed) \in Strings
    BY EditorHere DEF TextInv
  <2>3. h \in HistoryBuffer /\ h.lines = hist.lines /\ h.wr = hist.wr
    BY <2>1, <2>2 DEF HistoryBuffer
  <2>4. hist'.lines = h.lines /\ hist'.wr = h.wr
    BY <1>4, <2>1, <2>3, Scrolled
  <2>5. NoGaps(hist')
    BY <2>3, <2>4, SameSlots DEF TextInv
  <2> QED
    BY <2>1, <2>5 DEF TextInv
<1>5. NoGaps(hist') /\ NoGaps(file')
  <2>1. CASE UNCHANGED vars
    BY <1>2, <2>1 DEF vars
  <2>2. ASSUME NEW dir \in {"up", "down"}, ScrollKey(dir) PROVE NoGaps(hist') /\ NoGaps(file')
    BY <1>4, <2>2 DEF Dirs
  <2>3. CASE \/ Type \/ BackKey \/ DeleteKey \/ LeftKey \/ RightKey
             \/ HomeKey \/ EndKey \/ EscapeKey \/ ShiftKey \/ OtherEvent
             \/ TabKey \/ TabTabKey \/ PromptRestored \/ Close \/ Kill
    <3>1. (hist' = hist \/ hist' = file) /\ (file' = hist \/ file' = file)
      BY <2>3 DEF Type, BackKey, DeleteKey, LeftKey, RightKey, HomeKey, EndKey, EscapeKey,
                  ShiftKey, OtherEvent, TabKey, TabTabKey, PromptRestored, Close, Kill,
                  Edited, AnyKey, NewSession
    <3> QED
      BY <1>2, <3>1
  <2>4. CASE ReturnKey
    BY <1>3, <2>4
  <2> QED
    BY <2>1, <2>2, <2>3, <2>4 DEF Next
<1> QED
  BY <1>1, <1>5 DEF TextInv

LEMMA TextSteps == TextInv /\ [Next]_vars => [Abstract!Next]_(Abstract!textVars)
<1> SUFFICES ASSUME TextInv, [Next]_vars PROVE [Abstract!Next]_(Abstract!textVars)
  OBVIOUS
<1>1. CASE UNCHANGED vars
  BY <1>1 DEF vars, Abstract!textVars
<1>2. ASSUME NEW dir \in {"up", "down"}, ScrollKey(dir) PROVE Abstract!Next
  <2>1. Abstract!Walk(dir = "up")
    BY <1>2, ArrowWalks DEF Dirs
  <2>2. (dir = "up") \in BOOLEAN
    OBVIOUS
  <2> QED
    BY <2>1, <2>2 DEF Abstract!Next
<1>3. CASE Type
  BY <1>3, TypeInserts DEF Abstract!Next
<1>4. CASE BackKey \/ DeleteKey \/ EscapeKey
  BY <1>4, BackRubsOut, DeleteDeletes, EscapeErases DEF Abstract!Next
<1>5. CASE LeftKey \/ RightKey \/ HomeKey \/ EndKey \/ ShiftKey
  BY <1>5, KeysMove DEF Abstract!Next
<1>6. CASE OtherEvent
  BY <1>6, OtherStutters
<1>7. CASE ReturnKey
  BY <1>7, ReturnEnters DEF Abstract!Next
<1>8. CASE TabKey \/ TabTabKey
  BY <1>8, TabCompletes, TabTabCompletes DEF Abstract!Next
<1>9. CASE PromptRestored
  BY <1>9, RestoreInterrupts DEF Abstract!Next
<1>10. CASE Close \/ Kill
  BY <1>10, SessionBegins DEF Abstract!Next
<1> QED
  BY <1>1, <1>2, <1>3, <1>4, <1>5, <1>6, <1>7, <1>8, <1>9, <1>10 DEF Next

(* The buffers, the ring and the prompts of cmd_line_wc.c and dbg-ui_inp.c *)
(* are a text line with a log of commands: whatever their sizes, every     *)
(* key, prompt, orderly end and kill is a step of TextLine or changes      *)
(* nothing the user could tell.                                            *)
THEOREM Implements == Spec => IsTextLine
<1>1. Spec => []TextInv
  BY TextBegins, RingKept, PTL DEF Spec
<1> QED
  BY <1>1, TextBegins, TextSteps, PTL DEF Spec, IsTextLine, Abstract!Spec
=============================================================================
