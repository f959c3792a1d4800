---------------------------- MODULE CmdParseProofs ----------------------------
(***************************************************************************)
(* What the parser returns: the words of a line, numbers, texts, buffers,  *)
(* options and the variables they set are of the right types, and two      *)
(* tables with the same names and types accept the same lines.  Loops are  *)
(* followed pass by pass (Loop).  Then the places of the options, what the *)
(* parser has taken when it comes to one, and what it leaves behind.       *)
(***************************************************************************)
EXTENDS CmdMeaning, TLAPS, SequenceTheorems

(* The smallest number of a set, which a search from the left finds.       *)
LEMMA LeastOf ==
  ASSUME NEW S, S \subseteq Nat, S # {}
  PROVE  Min(S) \in S /\ \A y \in S : Min(S) <= y
<1>1. PICK x \in S : \A y \in S : x <= y
  BY Words!Smallest
<1> QED
  BY <1>1, Zenon DEF Min

(* Parts of a sequence are sequences of the same kind. *)
LEMMA PartOf ==
  ASSUME NEW S, NEW s \in Seq(S), NEW i \in Int, NEW j \in Int, i >= 1, j <= Len(s)
  PROVE  SubSeq(s, i, j) \in Seq(S)
<1>1. CASE i <= j
  BY <1>1, LenProperties, SubSeqProperties
<1>2. CASE i > j
  BY <1>2, SubSeqEmpty, EmptySeq
<1> QED
  BY <1>1, <1>2

(* A part that may be empty, element by element. *)
LEMMA PartIs ==
  ASSUME NEW S, NEW s \in Seq(S), NEW m \in Int, NEW n \in Int, 1 <= m, n <= Len(s), m <= n + 1
  PROVE  /\ SubSeq(s, m, n) \in Seq(S) /\ Len(SubSeq(s, m, n)) = n - m + 1
         /\ \A i \in 1 .. n - m + 1 : SubSeq(s, m, n)[i] = s[m + i - 1]
<1>1. CASE m <= n
  BY <1>1, LenProperties, SubSeqProperties
<1>2. CASE m = n + 1
  <2>1. SubSeq(s, m, n) = <<>>
    BY <1>2, SubSeqEmpty
  <2> QED
    BY <1>2, <2>1, EmptySeq
<1> QED
  BY <1>1, <1>2

LEMMA Pop ==
  ASSUME NEW S, NEW s \in Seq(S), s # <<>>
  PROVE  /\ Len(s) \in Nat /\ Len(s) > 0 /\ Head(s) = s[1] /\ Head(s) \in S
         /\ Tail(s) \in Seq(S) /\ Len(Tail(s)) = Len(s) - 1
         /\ Len(s) > 1 => Tail(s) # <<>>
         /\ \A i \in 1 .. Len(s) - 1 : Tail(s)[i] = s[i + 1]
<1>1. Len(s) \in Nat /\ Len(s) > 0
  BY LenProperties, EmptySeq
<1>2. Head(s) = s[1] /\ Head(s) \in S /\ Tail(s) \in Seq(S) /\ Len(Tail(s)) = Len(s) - 1
      /\ \A i \in 1 .. Len(Tail(s)) : Tail(s)[i] = s[i + 1]
  BY <1>1, HeadTailProperties, ElementOfSeq
<1>3. Len(s) > 1 => Tail(s) # <<>>
  BY <1>1, <1>2, EmptySeq
<1> QED
  BY <1>1, <1>2, <1>3

LEMMA PopMore ==
  ASSUME NEW S, NEW s \in Seq(S), s # <<>>, Len(s) # 1
  PROVE  Len(s) \in Nat /\ Len(s) > 1 /\ Tail(s) \in Seq(S) /\ Tail(s) # <<>>
<1>1. Len(s) \in Nat /\ Len(s) > 0 /\ Tail(s) \in Seq(S) /\ (Len(s) > 1 => Tail(s) # <<>>)
  BY Pop
<1>2. \A l \in Nat : l > 0 /\ l # 1 => l > 1
  OBVIOUS
<1> QED
  BY <1>1, <1>2, Zenon

(* The place of a name in a table: the first entry of that name.           *)
LEMMA NamedIs ==
  ASSUME NEW S, NEW entries \in Seq(S), NEW word
  PROVE  /\ Named(entries, word) \in 0 .. Len(entries)
         /\ Named(entries, word) # 0 =>
              /\ SameWord(entries[Named(entries, word)].name, word)
              /\ \A i \in 1 .. Named(entries, word) - 1 : ~SameWord(entries[i].name, word)
         /\ Named(entries, word) = 0 => \A i \in DOMAIN entries : ~SameWord(entries[i].name, word)
<1> DEFINE I == {i \in 1 .. Len(entries) : SameWord(entries[i].name, word)}
<1>1. Named(entries, word) = IF I # {} THEN Min(I) ELSE 0
  BY DEF Named, SelectInSeq
<1>2. Len(entries) \in Nat /\ DOMAIN entries = 1 .. Len(entries) /\ I \subseteq Nat
  BY LenProperties
<1>3. I # {} => Min(I) \in I /\ \A y \in I : Min(I) <= y
  <2> HIDE DEF I
  <2> QED
    BY <1>2, LeastOf
<1>4. \A i : i \in I <=> i \in 1 .. Len(entries) /\ SameWord(entries[i].name, word)
  OBVIOUS
<1> HIDE DEF I
<1>5. CASE I = {}
  BY <1>1, <1>2, <1>4, <1>5
<1>6. CASE I # {}
  <2> DEFINE m == Min(I)
  <2>1. m \in 1 .. Len(entries) /\ SameWord(entries[m].name, word) /\ Named(entries, word) = m
    BY <1>1, <1>3, <1>4, <1>6
  <2>2. ASSUME NEW i \in 1 .. m - 1 PROVE ~SameWord(entries[i].name, word)
    BY <1>2, <1>3, <1>4, <1>6, <2>1
  <2> HIDE DEF m
  <2> QED
    BY <1>2, <2>1, <2>2
<1> QED
  BY <1>5, <1>6
-----------------------------------------------------------------------------
(* Words of a line. *)

(* The first blank of a text.                                              *)
LEMMA GapIs ==
  ASSUME NEW text \in Str
  PROVE  /\ Gap(text) \in 0 .. Len(text)
         /\ Gap(text) # 0 => text[Gap(text)] = Blank
         /\ \A i \in 1 .. Len(text) : i < Gap(text) \/ Gap(text) = 0 => text[i] # Blank
<1> DEFINE I == {i \in 1 .. Len(text) : text[i] = Blank}
<1>1. Gap(text) = IF I # {} THEN Min(I) ELSE 0
  BY DEF Gap, SelectInSeq
<1>2. Len(text) \in Nat /\ I \subseteq Nat
  BY LenProperties DEF Str
<1>3. I # {} => Min(I) \in I /\ \A y \in I : Min(I) <= y
  <2> HIDE DEF I
  <2> QED
    BY <1>2, LeastOf
<1>4. \A i : i \in I <=> i \in 1 .. Len(text) /\ text[i] = Blank
  OBVIOUS
<1> HIDE DEF I
<1>5. CASE I = {}
  BY <1>1, <1>2, <1>4, <1>5
<1>6. CASE I # {}
  <2> DEFINE m == Min(I)
  <2>1. m \in 1 .. Len(text) /\ text[m] = Blank /\ Gap(text) = m
    BY <1>1, <1>3, <1>4, <1>6
  <2>2. ASSUME NEW i \in 1 .. Len(text), i < m PROVE text[i] # Blank
    BY <1>2, <1>3, <1>4, <1>6, <2>1, <2>2
  <2> HIDE DEF m
  <2> QED
    BY <1>2, <2>1, <2>2
<1> QED
  BY <1>5, <1>6

Splitting == [words : Seq(Word), rest : Str]

LEMMA NextWordType ==
  ASSUME NEW t \in Splitting
  PROVE  NextWord(t) \in Splitting
<1> DEFINE gap == Gap(t.rest)
<1>1. t.rest \in Str /\ t.words \in Seq(Word)
  BY DEF Splitting
<1>2. t.rest \in Seq(Alphabet) /\ Len(t.rest) \in Nat /\ t.words \in Seq(Word)
  BY <1>1, LenProperties DEF Str
<1>3. gap \in 0 .. Len(t.rest)
  BY <1>1, GapIs
<1>4. NextWord(t) = CASE t.rest = <<>> -> t
       [] t.rest # <<>> /\ gap = 0 -> [words |-> Append(t.words, t.rest), rest |-> <<>>]
       [] gap = 1 -> [t EXCEPT !.rest = Tail(@)]
       [] OTHER -> [words |-> Append(t.words, SubSeq(t.rest, 1, gap - 1)),
                    rest |-> SubSeq(t.rest, gap + 1, Len(t.rest))]
  BY DEF NextWord
<1> HIDE DEF gap
<1>5. CASE t.rest = <<>>
  BY <1>4, <1>5 DEF Splitting
<1>6. CASE t.rest # <<>> /\ gap = 0
  <2>1. NextWord(t) = [words |-> Append(t.words, t.rest), rest |-> <<>>]
    BY <1>4, <1>6
  <2>2. t.rest \in Word /\ <<>> \in Str
    BY <1>2, <1>6, EmptySeq DEF Str, Word
  <2> QED
    BY <1>2, <2>1, <2>2, AppendProperties DEF Splitting
<1>7. CASE t.rest # <<>> /\ gap = 1
  <2>1. NextWord(t) = [t EXCEPT !.rest = Tail(@)]
    BY <1>4, <1>7
  <2>2. Tail(t.rest) \in Str
    BY <1>2, <1>7, HeadTailProperties DEF Str
  <2> QED
    BY <2>1, <2>2 DEF Splitting
<1>8. CASE t.rest # <<>> /\ gap # 0 /\ gap # 1
  <2>1. NextWord(t) = [words |-> Append(t.words, SubSeq(t.rest, 1, gap - 1)),
                       rest |-> SubSeq(t.rest, gap + 1, Len(t.rest))]
    BY <1>4, <1>8
  <2>2. SubSeq(t.rest, 1, gap - 1) \in Str /\ SubSeq(t.rest, gap + 1, Len(t.rest)) \in Str
    BY <1>2, <1>3, <1>8, PartOf DEF Str
  <2>3. Len(SubSeq(t.rest, 1, gap - 1)) = gap - 1
    BY <1>2, <1>3, <1>8, SubSeqProperties
  <2>4. SubSeq(t.rest, 1, gap - 1) \in Word
    BY <1>3, <1>8, <2>2, <2>3, EmptySeq DEF Word
  <2> QED
    BY <1>2, <2>1, <2>2, <2>4, AppendProperties DEF Splitting
<1> QED
  BY <1>5, <1>6, <1>7, <1>8

LEMMA TokensType ==
  ASSUME NEW text \in Str
  PROVE  Tokens(text) \in Seq(Word)
<1> DEFINE I == Splitting \X Nat
           s == [words |-> <<>>, rest |-> text]
<1>1. s \in Splitting
  BY EmptySeq DEF Splitting
<1>2. \A t \in Splitting : NextWord(t) \in Splitting
  BY NextWordType
<1>3. <<Words!Repeat(s, Len(text)), Len(text)>> \in I
  <2>1. <<s, 0>> \in I
    BY <1>1
  <2>2. \A t : \A k \in 0 .. Len(text) - 1 : <<t, k>> \in I => <<NextWord(t), k + 1>> \in I
    BY <1>2
  <2>3. Len(text) \in Nat
    BY LenProperties DEF Str
  <2> HIDE DEF I, s
  <2> QED
    BY <2>1, <2>2, <2>3, Words!Invariant
<1> QED
  BY <1>3 DEF Tokens, Splitting
-----------------------------------------------------------------------------
(* Numbers. *)

LEMMA RunIs ==
  ASSUME NEW s \in Str, NEW base \in Nat
  PROVE  /\ Run(s, base) \in 0 .. Len(s)
         /\ \A i \in 1 .. Run(s, base) : DigitOf[s[i]] \in 0 .. base - 1
<1> DEFINE Ends(n) == n = Len(s) \/ DigitOf[s[n + 1]] \notin 0 .. base - 1
           S == {n \in 0 .. Len(s) : Ends(n)}
           OK(n) == /\ \A i \in 1 .. n : DigitOf[s[i]] \in 0 .. base - 1
                    /\ n < Len(s) => DigitOf[s[n + 1]] \notin 0 .. base - 1
<1>1. Len(s) \in Nat
  BY LenProperties DEF Str
<1>2. PICK m \in S : \A y \in S : m <= y
  <2>1. S \subseteq Nat /\ Len(s) \in S
    BY <1>1
  <2> HIDE DEF S
  <2> QED
    BY <2>1, Words!Smallest
<1>3. OK(m)
  <2>1. ASSUME NEW i \in 1 .. m PROVE DigitOf[s[i]] \in 0 .. base - 1
    <3>1. i - 1 \in 0 .. Len(s) /\ ~(m <= i - 1) /\ i - 1 # Len(s) /\ (i - 1) + 1 = i
      BY <1>1
    <3>2. i - 1 \notin S
      BY <1>2, <3>1
    <3> QED
      BY <3>1, <3>2
  <2>2. m < Len(s) => DigitOf[s[m + 1]] \notin 0 .. base - 1
    BY <1>1, <1>2
  <2> QED
    BY <2>1, <2>2
<1>4. Run(s, base) = CHOOSE n \in 0 .. Len(s) : OK(n)
  BY DEF Run
<1>5. \E n \in 0 .. Len(s) : OK(n)
  BY <1>2, <1>3
<1>6. Run(s, base) \in 0 .. Len(s) /\ OK(Run(s, base))
  <2> HIDE DEF OK
  <2> QED
    BY <1>4, <1>5
<1> QED
  BY <1>6

LEMMA NumberType ==
  ASSUME NEW s \in Str, NEW base \in Nat
  PROVE  Number(s, base) \in Int
<1> DEFINE m == Run(s, base)
           State == [val : Int, base : Nat, rest : Str]
           I == {p \in State \X Nat : Len(p[1].rest) = Len(s) - p[2]}
           first == [val |-> 0, base |-> base, rest |-> s]
<1>1. m \in Nat /\ m <= Len(s) /\ Len(s) \in Nat
  BY RunIs, LenProperties DEF Str
<1>2. <<first, 0>> \in I
  BY <1>1
<1>3. ASSUME NEW t, NEW k \in 0 .. m - 1, <<t, k>> \in I PROVE <<NextDigit(t), k + 1>> \in I
  <2>1. t \in State /\ Len(t.rest) = Len(s) - k
    BY <1>3
  <2>2. t.rest \in Seq(Alphabet) /\ t.rest # <<>> /\ t.val \in Int /\ t.base \in Nat
    BY <1>1, <2>1, EmptySeq DEF Str
  <2>3. Head(t.rest) \in Alphabet /\ Tail(t.rest) \in Str /\ Len(Tail(t.rest)) = Len(t.rest) - 1
    BY <2>2, HeadTailProperties DEF Str
  <2>4. DigitOf[Head(t.rest)] \in Int
    BY <2>3, DigitsAssumption
  <2>5. NextDigit(t) = [t EXCEPT !.val = t.base * t.val + DigitOf[Head(t.rest)],
                                !.rest = Tail(t.rest)]
    BY DEF NextDigit
  <2>6. t.base * t.val + DigitOf[Head(t.rest)] \in Int
    BY <2>2, <2>4
  <2>7. NextDigit(t) \in State /\ NextDigit(t).rest = Tail(t.rest)
    BY <2>1, <2>3, <2>5, <2>6
  <2>8. Len(NextDigit(t).rest) = Len(s) - (k + 1) /\ k + 1 \in Nat
    BY <1>1, <2>1, <2>3, <2>7
  <2> HIDE DEF State
  <2> QED
    BY <2>7, <2>8
<1>4. <<Digits!Repeat(first, m), m>> \in I
  <2> HIDE DEF I, first, m
  <2> QED
    BY <1>1, <1>2, <1>3, Digits!Invariant
<1> QED
  BY <1>4 DEF Number

Numbers == [read : BOOLEAN, val : Int]

LEMMA MagnitudeType ==
  ASSUME NEW s \in Str, NEW base \in Nat
  PROVE  Magnitude(s, base) \in Numbers
<1>1. Number(s, base) \in Int
  BY NumberType
<1>2. (Run(s, base) > 0) \in BOOLEAN
  OBVIOUS
<1> QED
  BY <1>1, <1>2 DEF Magnitude, Numbers

LEMMA RestOfWord ==
  ASSUME NEW word \in Word
  PROVE  word \in Str /\ Tail(word) \in Str /\ word # <<>> /\ word[1] \in Alphabet
BY HeadTailProperties DEF Word, Str

LEMMA ScanIType ==
  ASSUME NEW word \in Word
  PROVE  ScanI(word) \in Numbers
<1>1. ASSUME NEW s \in Str PROVE AnyBase(s) \in Numbers
  <2>1. Len(s) > 2 => SubSeq(s, 3, Len(s)) \in Str
    BY PartOf, LenProperties DEF Str
  <2> QED
    BY <2>1, MagnitudeType DEF AnyBase
<1>2. AnyBase(word) \in Numbers /\ AnyBase(Tail(word)) \in Numbers
  BY <1>1, RestOfWord
<1>3. ASSUME NEW n \in Numbers PROVE Negative(n) \in Numbers
  BY DEF Negative, Numbers
<1> QED
  BY <1>2, <1>3 DEF ScanI

LEMMA ByteIs ==
  \A n : n \in Byte <=> n \in Int /\ 0 <= n /\ n <= 255
BY DEF Byte

LEMMA ScanDType ==
  ASSUME NEW word \in Word, NEW width \in {1, 2}
  PROVE  /\ ScanD(word, width) \in Numbers
         /\ ScanD(word, width).val \in Nat
         /\ ScanD(word, width).val <= IF width = 1 THEN 255 ELSE 65535
         /\ ScanD(word, width).read = ScanD(word, 1).read
<1> DEFINE n == IF IsOption(word) THEN Minus(Decimal(Tail(word))) ELSE Decimal(word)
<1>1. Decimal(word) \in Numbers /\ Decimal(Tail(word)) \in Numbers
  BY RestOfWord, MagnitudeType DEF Decimal
<1>2. n \in Numbers
  BY <1>1 DEF Minus, Numbers
<1>3. ScanD(word, 1) = Modulo(n, 256) /\ ScanD(word, 2) = Modulo(n, 65536)
  BY DEF ScanD
<1> HIDE DEF n
<1>4. \A l : Modulo(n, l) = [read |-> n.read, val |-> n.val % l]
  <2>1. n.val \in Int /\ n.read \in BOOLEAN /\ n = [read |-> n.read, val |-> n.val]
    BY <1>2 DEF Numbers
  <2> QED
    BY <2>1 DEF Modulo
<1>5. \A x \in Int : /\ x % 256 \in Nat /\ x % 256 <= 255
                     /\ x % 65536 \in Nat /\ x % 65536 <= 65535
  OBVIOUS
<1>6. n.val \in Int /\ n.read \in BOOLEAN
  BY <1>2 DEF Numbers
<1> DEFINE a == n.val % 256
           b == n.val % 65536
<1>7. a \in Nat /\ a <= 255 /\ b \in Nat /\ b <= 65535
  BY <1>5, <1>6
<1>8. ScanD(word, 1) = [read |-> n.read, val |-> a] /\ ScanD(word, 2) = [read |-> n.read, val |-> b]
  BY <1>3, <1>4
<1> HIDE DEF a, b
<1> QED
  BY <1>6, <1>7, <1>8 DEF Numbers
-----------------------------------------------------------------------------
(* What an option takes. *)

(* A search among 1 .. n that ends at n if at nothing before.              *)
LEMMA FirstStop ==
  ASSUME NEW n \in Nat, n > 0, NEW Stop
  PROVE  \E i \in 1 .. n : /\ i = n \/ i \in Stop
                           /\ \A j \in 1 .. i - 1 : j \notin Stop
<1> DEFINE S == {i \in 1 .. n : i = n \/ i \in Stop}
<1>1. PICK i \in S : \A j \in S : i <= j
  <2>1. S \subseteq Nat /\ n \in S
    OBVIOUS
  <2> HIDE DEF S
  <2> QED
    BY <2>1, Words!Smallest
<1>2. ASSUME NEW j \in 1 .. i - 1 PROVE j \notin Stop
  <2>1. j \in 1 .. n /\ ~(i <= j)
    OBVIOUS
  <2> QED
    BY <1>1, <2>1
<1> QED
  BY <1>2

LEMMA TextLenIs ==
  ASSUME NEW words \in Seq(Word), words # <<>>
  PROVE  /\ TextLen(words) \in 1 .. Len(words)
         /\ \A i \in 2 .. TextLen(words) : ~IsOption(words[i])
         /\ TextLen(words) < Len(words) => IsOption(words[TextLen(words) + 1])
<1> DEFINE Stop == {i \in Nat : IsOption(words[i + 1])}
           OK(n) == /\ \A i \in 2 .. n : ~IsOption(words[i])
                    /\ n < Len(words) => IsOption(words[n + 1])
<1>1. Len(words) \in Nat /\ Len(words) > 0
  BY LenProperties, EmptySeq
<1>2. PICK n \in 1 .. Len(words) : /\ n = Len(words) \/ n \in Stop
                                   /\ \A j \in 1 .. n - 1 : j \notin Stop
  <2> HIDE DEF Stop
  <2> QED
    BY <1>1, FirstStop
<1>3. OK(n)
  <2>1. ASSUME NEW i \in 2 .. n PROVE ~IsOption(words[i])
    <3>1. i - 1 \in 1 .. n - 1 /\ i - 1 \in Nat /\ (i - 1) + 1 = i
      BY <1>1
    <3>2. i - 1 \notin Stop
      BY <1>2, <3>1
    <3> QED
      BY <3>1, <3>2
  <2>2. n < Len(words) => IsOption(words[n + 1])
    BY <1>1, <1>2
  <2> QED
    BY <2>1, <2>2
<1>4. TextLen(words) = CHOOSE m \in 1 .. Len(words) : OK(m)
  BY DEF TextLen
<1>5. TextLen(words) \in 1 .. Len(words) /\ OK(TextLen(words))
  <2> HIDE DEF OK
  <2> QED
    BY <1>3, <1>4
<1> QED
  BY <1>5

LEMMA RawLenIs ==
  ASSUME NEW words \in Seq(Word), words # <<>>
  PROVE  /\ RawLen(words) \in 1 .. Len(words)
         /\ \A i \in 1 .. RawLen(words) - 1 :
              ScanD(words[i], 1).read /\ ~IsOption(words[i + 1])
         /\ \/ RawLen(words) = Len(words) \/ IsOption(words[RawLen(words) + 1])
            \/ ~ScanD(words[RawLen(words)], 1).read
<1> DEFINE Stop == {i \in Nat : IsOption(words[i + 1]) \/ ~ScanD(words[i], 1).read}
           OK(n) == /\ \A i \in 1 .. n - 1 : ScanD(words[i], 1).read /\ ~IsOption(words[i + 1])
                    /\ \/ n = Len(words) \/ IsOption(words[n + 1])
                       \/ ~ScanD(words[n], 1).read
<1>1. Len(words) \in Nat /\ Len(words) > 0
  BY LenProperties, EmptySeq
<1>2. PICK n \in 1 .. Len(words) : /\ n = Len(words) \/ n \in Stop
                                   /\ \A j \in 1 .. n - 1 : j \notin Stop
  <2> HIDE DEF Stop
  <2> QED
    BY <1>1, FirstStop
<1>3. OK(n)
  <2>1. \A j \in 1 .. n - 1 : j \in Nat /\ j \notin Stop
    BY <1>1, <1>2
  <2> QED
    BY <1>2, <2>1
<1>4. RawLen(words) = CHOOSE m \in 1 .. Len(words) : OK(m)
  BY DEF RawLen
<1>5. RawLen(words) \in 1 .. Len(words) /\ OK(RawLen(words))
  <2> HIDE DEF OK
  <2> QED
    BY <1>3, <1>4
<1> QED
  BY <1>5

LEMMA JoinedType ==
  ASSUME NEW words \in Seq(Str), words # <<>>
  PROVE  Joined(words) \in Str
<1> DEFINE m == Len(words) - 1
           State == [text : Str, rest : Seq(Str)]
           I == {p \in State \X Nat : Len(p[1].rest) = m - p[2]}
           first == [text |-> Head(words), rest |-> Tail(words)]
<1>1. m \in Nat /\ first \in State /\ Len(first.rest) = m
  BY LenProperties, EmptySeq, HeadTailProperties
<1>2. <<first, 0>> \in I
  BY <1>1
<1>3. ASSUME NEW t, NEW k \in 0 .. m - 1, <<t, k>> \in I PROVE <<NextJoined(t), k + 1>> \in I
  <2>1. t \in State /\ Len(t.rest) = m - k
    BY <1>3
  <2>2. t.rest \in Seq(Str) /\ t.rest # <<>> /\ t.text \in Str
    <3>1. t.rest \in Seq(Str) /\ t.text \in Str
      BY <2>1
    <3> HIDE DEF m, State
    <3> QED
      BY <1>1, <2>1, <3>1, EmptySeq
  <2>3. Head(t.rest) \in Str /\ Tail(t.rest) \in Seq(Str) /\ Len(Tail(t.rest)) = Len(t.rest) - 1
    BY <2>2, HeadTailProperties
  <2>4. (t.text \o <<Blank>>) \o Head(t.rest) \in Str
    <3>1. <<Blank>> \in Seq(Alphabet)
      BY BlankAssumption
    <3>2. t.text \in Seq(Alphabet) /\ Head(t.rest) \in Seq(Alphabet)
      BY <2>2, <2>3 DEF Str
    <3>3. t.text \o <<Blank>> \in Seq(Alphabet)
      BY <3>1, <3>2, ConcatProperties
    <3> QED
      BY <3>2, <3>3, ConcatProperties DEF Str
  <2>5. NextJoined(t) = [text |-> (t.text \o <<Blank>>) \o Head(t.rest), rest |-> Tail(t.rest)]
    BY Zenon DEF NextJoined
  <2>6. NextJoined(t) \in State /\ NextJoined(t).rest = Tail(t.rest)
    BY <2>3, <2>4, <2>5
  <2>7. Len(NextJoined(t).rest) = m - (k + 1) /\ k + 1 \in Nat
    <3> HIDE DEF m, State
    <3> QED
      BY <1>1, <2>1, <2>3, <2>6
  <2> HIDE DEF State, m
  <2> QED
    BY <2>6, <2>7
<1>4. <<Joining!Repeat(first, m), m>> \in I
  <2> HIDE DEF I, first, m
  <2> QED
    BY <1>1, <1>2, <1>3, Joining!Invariant
<1> QED
  BY <1>4 DEF Joined

LEMMA RawBytesType ==
  ASSUME NEW words \in Seq(Word), NEW width \in {1, 2}, NEW n \in 0 .. Len(words)
  PROVE  RawBytes(words, n, width) \in Seq(Byte)
<1>1. Len(words) \in Nat /\ n * width \in Nat
  BY LenProperties
<1>2. ASSUME NEW j \in 1 .. n * width
      PROVE  ByteOf(ScanD(words[(j - 1) \div width + 1], width).val, (j - 1) % width) \in Byte
  <2> DEFINE v == ScanD(words[(j - 1) \div width + 1], width).val
  <2>1. (j - 1) \div width + 1 \in 1 .. n /\ (j - 1) % width \in {0, 1}
        /\ (width = 1 => (j - 1) % width = 0)
    BY <1>1
  <2>2. words[(j - 1) \div width + 1] \in Word
    BY <1>1, <2>1, ElementOfSeq
  <2>3. v \in Nat /\ v <= IF width = 1 THEN 255 ELSE 65535
    BY <2>2, ScanDType
  <2> HIDE DEF v
  <2>4. v % 256 \in Byte
    BY <2>3, ByteIs
  <2>5. width = 2 => v \div 256 \in Byte
    BY <2>3, ByteIs
  <2>6. ByteOf(v, (j - 1) % width) \in Byte
    BY <2>1, <2>4, <2>5 DEF ByteOf
  <2> QED
    BY <2>6 DEF v
<1> DEFINE B(j) == ByteOf(ScanD(words[(j - 1) \div width + 1], width).val, (j - 1) % width)
<1>3. RawBytes(words, n, width) = [j \in 1 .. n * width |-> B(j)]
  BY DEF RawBytes
<1> HIDE DEF B
<1>4. \A j \in 1 .. n * width : B(j) \in Byte
  BY <1>2 DEF B
<1> QED
  BY <1>1, <1>3, <1>4, IsASeq

Values(type) == IF type = CFT_NUM THEN Int ELSE IF type = CFT_TXT THEN Str ELSE Seq(Byte)

LEMMA TakeIs ==
  ASSUME NEW words \in Seq(Word), words # <<>>
  PROVE  /\ Take(CFT_NUM, words) = TakeNum(words)
         /\ Take(CFT_TXT, words) = Text(words, TextLen(words))
         /\ Take(CFT_RAW8, words) = Raw(words, RawLen(words), 1)
         /\ Take(CFT_RAW16, words) = Raw(words, RawLen(words), 2)
BY DEF Take, TakeTxt, TakeRaw, CFT_NUM, CFT_TXT, CFT_RAW8, CFT_RAW16

LEMMA WordsAreStrings ==
  ASSUME NEW words \in Seq(Word)
  PROVE  words \in Seq(Str)
BY SeqMonotonic DEF Word

LEMMA TakeType ==
  ASSUME NEW words \in Seq(Word), words # <<>>, NEW type \in 0 .. 3
  PROVE  /\ Take(type, words).rest \in Seq(Word)
         /\ Len(Take(type, words).rest) < Len(words)
         /\ \A v \in Take(type, words).vals : v \in Values(type)
<1> USE DEF Taken
<1>1. Len(words) \in Nat /\ Len(words) > 0 /\ Head(words) \in Word
      /\ Tail(words) \in Seq(Word) /\ Len(Tail(words)) < Len(words)
  BY LenProperties, EmptySeq, HeadTailProperties
<1>2. ASSUME NEW n \in 1 .. Len(words)
      PROVE  /\ SubSeq(words, n + 1, Len(words)) \in Seq(Word)
             /\ Len(SubSeq(words, n + 1, Len(words))) < Len(words)
             /\ SubSeq(words, 1, n) \in Seq(Word) /\ SubSeq(words, 1, n) # <<>>
  <2>1. SubSeq(words, n + 1, Len(words)) \in Seq(Word) /\ SubSeq(words, 1, n) \in Seq(Word)
    BY <1>1, PartOf
  <2>2. Len(SubSeq(words, n + 1, Len(words))) = Len(words) - n /\ Len(SubSeq(words, 1, n)) = n
    BY <1>1, SubSeqProperties, SubSeqEmpty, EmptySeq
  <2> QED
    BY <1>1, <2>1, <2>2, EmptySeq
<1>3. CASE type = CFT_NUM
  <2>1. ScanI(Head(words)).val \in Int
    BY <1>1, ScanIType DEF Numbers
  <2>2. /\ Take(type, words).rest = Tail(words)
        /\ Take(type, words).vals \subseteq {ScanI(Head(words)).val}
    BY <1>3, TakeIs DEF TakeNum, Num
  <2> QED
    BY <1>1, <1>3, <2>1, <2>2 DEF Values
<1>4. CASE type = CFT_TXT
  <2> DEFINE n == TextLen(words)
  <2>1. n \in 1 .. Len(words)
    BY TextLenIs
  <2>2. /\ Take(type, words).rest = SubSeq(words, n + 1, Len(words))
        /\ Take(type, words).vals = {Joined(SubSeq(words, 1, n))}
    BY <1>4, TakeIs DEF Text
  <2> HIDE DEF n
  <2>3. Joined(SubSeq(words, 1, n)) \in Str
    BY <1>2, <2>1, JoinedType, WordsAreStrings
  <2>4. Values(type) = Str
    BY <1>4 DEF Values, CFT_NUM, CFT_TXT
  <2> QED
    BY <1>2, <2>1, <2>2, <2>3, <2>4
<1>5. CASE type \in {CFT_RAW8, CFT_RAW16}
  <2> DEFINE n == RawLen(words)
             w == IF type = CFT_RAW8 THEN 1 ELSE 2
             l == IF ScanD(words[n], 1).read THEN n ELSE n - 1
  <2>1. n \in 1 .. Len(words)
    BY RawLenIs
  <2>2. w \in {1, 2} /\ Take(type, words) = Raw(words, n, w)
    BY <1>5, TakeIs DEF CFT_RAW8, CFT_RAW16
  <2>3. /\ Take(type, words).rest = SubSeq(words, n + 1, Len(words))
        /\ Take(type, words).vals = {RawBytes(words, l, w)}
    <3>1. Raw(words, n, w) = [vals |-> {RawBytes(words, l, w)}, rest |-> SubSeq(words, n + 1, Len(words))]
      <4> HIDE DEF n, w
      <4> QED
        BY DEF Raw
    <3> HIDE DEF n, w, l
    <3>2. Take(type, words) = [vals |-> {RawBytes(words, l, w)},
                               rest |-> SubSeq(words, n + 1, Len(words))]
      BY <2>2, <3>1, Zenon
    <3> QED
      BY <1>1, <2>1, <3>2
  <2>4. l \in 0 .. Len(words)
    BY <1>1, <2>1
  <2> HIDE DEF n, w, l
  <2>5. RawBytes(words, l, w) \in Seq(Byte)
    BY <2>2, <2>4, RawBytesType
  <2>6. Values(type) = Seq(Byte)
    BY <1>5 DEF Values, CFT_NUM, CFT_TXT, CFT_RAW8, CFT_RAW16
  <2> QED
    BY <1>2, <2>1, <2>3, <2>5, <2>6
<1> QED
  BY <1>3, <1>4, <1>5 DEF CFT_NUM, CFT_TXT, CFT_RAW8, CFT_RAW16

LEMMA UpdatedType ==
  ASSUME NEW store \in Stores, NEW type \in 0 .. 3, NEW cell, Fits(type, cell),
         NEW v \in Values(type)
  PROVE  [store EXCEPT ![cell] = v] \in Stores
<1>1. CASE type = CFT_NUM
  <2>1. v \in Int
    BY <1>1 DEF Values
  <2>2. cell \in {"br_addr", "rd_addr", "rd_len", "wr8_addr", "wr16_addr"}
    BY <1>1 DEF Fits, CFT_NUM, CFT_TXT
  <2> QED
    BY <2>1, <2>2 DEF Stores
<1>2. CASE type = CFT_TXT
  <2>1. v \in Str
    BY <1>2 DEF Values, CFT_NUM, CFT_TXT
  <2>2. cell \in {"fin", "fout", "lbs"}
    BY <1>2 DEF Fits, CFT_NUM, CFT_TXT
  <2> QED
    BY <2>1, <2>2 DEF Stores
<1>3. CASE type \notin {CFT_NUM, CFT_TXT}
  <2>1. v \in Seq(Byte)
    BY <1>3 DEF Values
  <2>2. cell = "raw_buff"
    BY <1>3 DEF Fits
  <2> QED
    BY <2>1, <2>2 DEF Stores
<1> QED
  BY <1>1, <1>2, <1>3
-----------------------------------------------------------------------------
(* The loop over the options. *)

Parsing(fields) == [rest : Seq(Word), fields : {fields}, store : Stores, n_update : BOOLEAN,
                    ok : BOOLEAN]
First(words, fields, store, n_update) ==
  [rest |-> words, fields |-> fields, store |-> store, n_update |-> n_update, ok |-> TRUE]

LEMMA OptionType ==
  ASSUME NEW fields \in Seq(Option), NEW t \in Parsing(fields)
  PROVE  /\ TakeOption(t) \in Parsing(fields)
         /\ TakeOption(t).n_update = t.n_update
         /\ ~t.n_update => TakeOption(t).store = t.store
<1> DEFINE f == Named(fields, Tail(Head(t.rest)))
           u == Take(fields[f].type, Tail(t.rest))
<1>1. /\ t.rest \in Seq(Word) /\ t.fields = fields /\ t.store \in Stores
      /\ t.n_update \in BOOLEAN /\ t.ok \in BOOLEAN
  BY DEF Parsing
<1>2. Refused(t) \in Parsing(fields) /\ Refused(t).n_update = t.n_update /\ Refused(t).store = t.store
  BY <1>1 DEF Parsing, Refused
<1>3. ASSUME t.rest # <<>>, f # 0, Len(t.rest) # 1
      PROVE  /\ NextOption(t, f, u) \in Parsing(fields)
             /\ NextOption(t, f, u).n_update = t.n_update
             /\ ~t.n_update => NextOption(t, f, u).store = t.store
  <2>1. f \in DOMAIN fields /\ fields[f] \in Option
    BY <1>3, NamedIs, LenProperties, ElementOfSeq
  <2>2. fields[f].type \in 0 .. 3 /\ Fits(fields[f].type, fields[f].cell)
    BY <2>1 DEF Option
  <2>3. Tail(t.rest) \in Seq(Word) /\ Tail(t.rest) # <<>>
    <3>1. t.rest # <<>> /\ Len(t.rest) # 1 /\ t.rest \in Seq(Word)
      BY <1>1, <1>3
    <3> QED
      BY <3>1, PopMore, Zenon
  <2>4. u.rest \in Seq(Word) /\ \A v \in u.vals : v \in Values(fields[f].type)
    BY <2>2, <2>3, TakeType
  <2> HIDE DEF f, u
  <2> DEFINE s == IF t.n_update /\ u.vals # {}
                  THEN Updated(t.store, fields[f].cell, u.vals) ELSE t.store
  <2>5. s \in Stores
    <3>1. u.vals # {} => (CHOOSE v \in u.vals : TRUE) \in u.vals
      OBVIOUS
    <3>2. u.vals # {} => Updated(t.store, fields[f].cell, u.vals) \in Stores
      BY <1>1, <2>2, <2>4, <3>1, UpdatedType, Zenon DEF Updated
    <3> QED
      BY <1>1, <3>2
  <2>6. NextOption(t, f, u) = [t EXCEPT !.rest = u.rest, !.store = s]
    BY <1>1, Zenon DEF NextOption
  <2>7. ~t.n_update => s = t.store
    OBVIOUS
  <2> HIDE DEF s
  <2> QED
    BY <1>1, <2>4, <2>5, <2>6, <2>7 DEF Parsing
<1>4. TakeOption(t) \in {t, Refused(t)}
      \/ (t.rest # <<>> /\ f # 0 /\ Len(t.rest) # 1 /\ TakeOption(t) = NextOption(t, f, u))
  BY <1>1, Zenon DEF TakeOption, WithOption
<1> HIDE DEF f, u
<1> QED
  BY <1>2, <1>3, <1>4

LEMMA UpdateType ==
  ASSUME NEW fields \in Seq(Option), NEW words \in Seq(Word), NEW store \in Stores,
         NEW n_update \in BOOLEAN
  PROVE  /\ update_cmd_int(words, fields, store, n_update) \in Parsing(fields)
         /\ ~n_update => update_cmd_int(words, fields, store, n_update).store = store
<1> DEFINE I == {p \in Parsing(fields) \X Nat :
                   p[1].n_update = n_update /\ (~n_update => p[1].store = store)}
           s == First(words, fields, store, n_update)
<1>1. <<s, 0>> \in I
  BY DEF First, Parsing
<1>2. ASSUME NEW t, NEW k \in 0 .. Len(words) - 1, <<t, k>> \in I
      PROVE  <<TakeOption(t), k + 1>> \in I
  BY <1>2, OptionType
<1>3. <<Options!Repeat(s, Len(words)), Len(words)>> \in I
  <2>1. Len(words) \in Nat
    BY LenProperties
  <2> HIDE DEF I, s
  <2> QED
    BY <1>1, <1>2, <2>1, Options!Invariant
<1>4. update_cmd_int(words, fields, store, n_update) = Options!Repeat(s, Len(words))
  BY Zenon DEF update_cmd_int, First
<1> HIDE DEF s
<1> QED
  BY <1>3, <1>4

(* Two tables that agree in names and types, as the UI's and the IO        *)
(* process's, make the same of a line.                                     *)
LEMMA NamedSame ==
  ASSUME NEW e, NEW d, Len(d) = Len(e), \A i \in 1 .. Len(e) : d[i].name = e[i].name,
         NEW word
  PROVE  Named(d, word) = Named(e, word)
<1>1. {i \in 1 .. Len(d) : SameWord(d[i].name, word)}
        = {i \in 1 .. Len(e) : SameWord(e[i].name, word)}
  OBVIOUS
<1> QED
  BY <1>1 DEF Named, SelectInSeq

SameFields(d, e) ==
  /\ Len(d) = Len(e)
  /\ \A i \in 1 .. Len(e) : d[i].name = e[i].name /\ d[i].type = e[i].type

Accepts(words, fields, vals) == update_cmd_int(words, fields, vals, FALSE).ok

LEMMA SameShape ==
  ASSUME NEW words \in Seq(Word), NEW T, NEW e \in Seq(Option), NEW d \in Seq(T),
         SameFields(d, e), NEW vals, NEW others
  PROVE  Accepts(words, d, vals) = Accepts(words, e, others)
<1> DEFINE A == [rest : Seq(Word), fields : {d}, store : {vals}, n_update : {FALSE}, ok : BOOLEAN]
           B == [rest : Seq(Word), fields : {e}, store : {others}, n_update : {FALSE}, ok : BOOLEAN]
           Same(a, b) == a \in A /\ b \in B /\ a.rest = b.rest /\ a.ok = b.ok
           s == First(words, d, vals, FALSE)
           r == First(words, e, others, FALSE)
           N == {k \in Nat : Same(Options!Repeat(s, k), Options!Repeat(r, k))}
<1>1. 0 \in N
  <2>1. Same(s, r)
    BY DEF First
  <2> HIDE DEF Same, s, r
  <2> QED
    BY <2>1, Options!Unfold
<1>2. ASSUME NEW a, NEW b, Same(a, b) PROVE Same(TakeOption(a), TakeOption(b))
  <2> DEFINE w == Tail(Head(a.rest))
             f == Named(d, w)
  <2>1. /\ a \in A /\ b \in B /\ a.rest = b.rest /\ a.ok = b.ok /\ a.rest \in Seq(Word)
        /\ a.fields = d /\ b.fields = e /\ a.n_update = FALSE /\ b.n_update = FALSE
    BY <1>2
  <2>2. Named(e, w) = f /\ f \in 0 .. Len(e) /\ f \in 0 .. Len(d)
    BY NamedSame, NamedIs DEF SameFields
  <2>3. f # 0 => d[f].type = e[f].type /\ e[f].type \in 0 .. 3
    BY <2>2, LenProperties DEF Option, SameFields
  <2> HIDE DEF f, w
  <2>4. Same(Refused(a), Refused(b))
    BY <2>1 DEF Refused
  <2>5. ASSUME NEW x, x.rest \in Seq(Word) PROVE Same(NextOption(a, f, x), NextOption(b, f, x))
    <3>1. NextOption(a, f, x) = [a EXCEPT !.rest = x.rest, !.store = a.store]
      BY <2>1, Zenon DEF NextOption
    <3>2. NextOption(b, f, x) = [b EXCEPT !.rest = x.rest, !.store = b.store]
      BY <2>1, Zenon DEF NextOption
    <3> DEFINE y == x.rest
    <3>3. y \in Seq(Word) /\ a.store = vals /\ b.store = others
      BY <2>1, <2>5
    <3> HIDE DEF y
    <3> DEFINE na == [a EXCEPT !.rest = y, !.store = vals]
               nb == [b EXCEPT !.rest = y, !.store = others]
    <3>4. na \in A /\ nb \in B /\ na.rest = nb.rest /\ na.ok = nb.ok
      BY <2>1, <3>3
    <3>5. NextOption(a, f, x) = na /\ NextOption(b, f, x) = nb
      BY <3>1, <3>2, <3>3, Zenon DEF y
    <3> HIDE DEF A, B, na, nb
    <3> QED
      BY <3>4, <3>5
  <2>6. f # 0 /\ a.rest # <<>> /\ Len(a.rest) # 1 => Take(e[f].type, Tail(a.rest)).rest \in Seq(Word)
    <3> SUFFICES ASSUME f # 0, a.rest # <<>>, Len(a.rest) # 1
                 PROVE  Take(e[f].type, Tail(a.rest)).rest \in Seq(Word)
      OBVIOUS
    <3>1. Tail(a.rest) \in Seq(Word) /\ Tail(a.rest) # <<>>
      BY <2>1, PopMore, Zenon
    <3> QED
      BY <2>3, <3>1, TakeType
  <2> HIDE DEF A, B, Same
  <2>7. \/ TakeOption(a) = a /\ TakeOption(b) = b
        \/ TakeOption(a) = Refused(a) /\ TakeOption(b) = Refused(b)
        \/ a.rest # <<>> /\ TakeOption(a) = WithOption(a, f) /\ TakeOption(b) = WithOption(b, f)
    BY <2>1, <2>2, Zenon DEF TakeOption, w, f
  <2>8. \/ WithOption(a, f) = Refused(a) /\ WithOption(b, f) = Refused(b)
        \/ /\ f # 0 /\ Len(a.rest) # 1
           /\ WithOption(a, f) = NextOption(a, f, Take(d[f].type, Tail(a.rest)))
           /\ WithOption(b, f) = NextOption(b, f, Take(e[f].type, Tail(a.rest)))
    BY <2>1, Zenon DEF WithOption
  <2> QED
    BY <1>2, <2>3, <2>4, <2>5, <2>6, <2>7, <2>8
<1>3. ASSUME NEW k \in Nat, k \in N PROVE k + 1 \in N
  <2>1. Same(Options!Repeat(s, k), Options!Repeat(r, k))
    BY <1>3
  <2> HIDE DEF Same, s, r
  <2>2. Same(TakeOption(Options!Repeat(s, k)), TakeOption(Options!Repeat(r, k)))
    BY <1>2, <2>1
  <2>3. Same(Options!Repeat(s, k + 1), Options!Repeat(r, k + 1))
    BY <2>2, Options!Unfold
  <2> QED
    BY <2>3
<1>4. Nat \subseteq N
  <2> HIDE DEF N
  <2> QED
    BY <1>1, <1>3, Options!Induction
<1>5. Len(words) \in N
  BY <1>4, LenProperties
<1>6. /\ update_cmd_int(words, d, vals, FALSE) = Options!Repeat(s, Len(words))
      /\ update_cmd_int(words, e, others, FALSE) = Options!Repeat(r, Len(words))
  BY Zenon DEF update_cmd_int, First
<1>7. Same(Options!Repeat(s, Len(words)), Options!Repeat(r, Len(words)))
  BY <1>5
<1> HIDE DEF s, r
<1>8. Options!Repeat(s, Len(words)).ok = Options!Repeat(r, Len(words)).ok
  BY <1>7
<1> QED
  BY <1>6, <1>8, Zenon DEF Accepts
-----------------------------------------------------------------------------
(* Where options begin. *)

(* Behind an option comes a value, whatever it begins with; the next option *)
(* is the first word after it that begins with "-".                        *)
LEMMA PlaceAfter ==
  ASSUME NEW words \in Seq(Word), NEW p \in OptionPlaces(words)
  PROVE  /\ p \in 2 .. Len(words) /\ IsOption(words[p]) /\ p + 1 \notin OptionPlaces(words)
         /\ \A i \in p + 2 .. Len(words) :
              (\A k \in p + 2 .. i - 1 : ~IsOption(words[k]))
                => (i \in OptionPlaces(words) <=> IsOption(words[i]))
<1> DEFINE From(i, j) == /\ (i - j) % 2 = 0
                         /\ \A k \in j .. i : IsOption(words[k])
                         /\ j = 2 \/ ~IsOption(words[j - 1])
           O == OptionPlaces(words)
<1>1. \A i : i \in O <=> i \in 2 .. Len(words) /\ \E j \in 2 .. i : From(i, j)
  BY DEF OptionPlaces
<1>2. Len(words) \in Nat
  BY LenProperties
<1> HIDE DEF O
<1>3. p \in 2 .. Len(words)
  BY <1>1 DEF O
<1>4. PICK j \in 2 .. p : From(p, j)
  BY <1>1 DEF O
<1>5. IsOption(words[p])
  BY <1>3, <1>4
<1>6. p + 1 \notin O
  <2> SUFFICES ASSUME p + 1 \in O PROVE FALSE
    OBVIOUS
  <2>1. PICK l \in 2 .. p + 1 : From(p + 1, l)
    BY <1>1
  <2>2. l = j
    <3>1. CASE l < j
      <4>1. j # 2 /\ j - 1 \in l .. p + 1
        BY <1>2, <1>3, <3>1
      <4> QED
        BY <1>4, <2>1, <4>1
    <3>2. CASE l > j
      <4>1. l # 2 /\ l - 1 \in j .. p
        BY <1>2, <1>3, <3>2
      <4> QED
        BY <1>4, <2>1, <4>1
    <3> QED
      BY <1>3, <3>1, <3>2
  <2> DEFINE x == p - j
  <2>3. x \in Int /\ x % 2 = 0 /\ (x + 1) % 2 = 0
    <3>1. (p + 1) - j = x + 1
      BY <1>3
    <3> QED
      BY <1>3, <1>4, <2>1, <2>2, <3>1
  <2> HIDE DEF x
  <2> QED
    BY <2>3
<1>7. ASSUME NEW i \in p + 2 .. Len(words), \A k \in p + 2 .. i - 1 : ~IsOption(words[k])
      PROVE  i \in O <=> IsOption(words[i])
  <2>1. i \in 2 .. Len(words) /\ i \in Int /\ i >= p + 2
    BY <1>2, <1>3
  <2>2. i \in O => IsOption(words[i])
    BY <1>1, <2>1
  <2>3. ASSUME IsOption(words[i]), ~IsOption(words[i - 1]) PROVE i \in O
    <3>1. From(i, i)
      BY <2>1, <2>3
    <3> QED
      BY <1>1, <2>1, <3>1
  <2>4. ASSUME IsOption(words[i]), IsOption(words[i - 1]) PROVE i \in O
    <3>1. i = p + 2
      <4> SUFFICES ASSUME i # p + 2 PROVE FALSE
        OBVIOUS
      <4>1. i - 1 \in p + 2 .. i - 1
        BY <1>3, <2>1
      <4> QED
        BY <1>7, <2>4, <4>1
    <3>2. \A k \in j .. i : k \in j .. p \/ k = i - 1 \/ k = i
      BY <1>3, <3>1
    <3>3. (i - j) % 2 = 0
      <4> DEFINE x == p - j
      <4>1. i - j = x + 2 /\ x \in Int /\ x % 2 = 0
        BY <1>3, <1>4, <3>1
      <4> HIDE DEF x
      <4> QED
        BY <4>1
    <3>4. From(i, j) /\ j \in 2 .. i
      BY <1>3, <1>4, <2>1, <2>4, <3>2, <3>3
    <3> QED
      BY <1>1, <2>1, <3>4
  <2> QED
    BY <2>2, <2>3, <2>4
<1> QED
  BY <1>3, <1>5, <1>6, <1>7 DEF O

LEMMA PlaceFirst ==
  ASSUME NEW words \in Seq(Word), Len(words) > 1
  PROVE  2 \in OptionPlaces(words) <=> IsOption(words[2])
<1>1. Len(words) \in Nat
  BY LenProperties
<1>2. IsOption(words[2]) => 2 \in OptionPlaces(words)
  BY <1>1 DEF OptionPlaces
<1>3. 2 \in OptionPlaces(words) => IsOption(words[2])
  BY PlaceAfter
<1> QED
  BY <1>2, <1>3

(* The values of the option at p are the words from p + 1 to m. *)
Span(words, p, m) ==
  /\ m \in p .. Len(words)
  /\ m = p => p = Len(words)
  /\ m < Len(words) => m + 1 \in OptionPlaces(words) /\ IsOption(words[m + 1])
  /\ \A k \in p + 1 .. m : k \notin OptionPlaces(words)
  /\ \A k \in p + 2 .. m : ~IsOption(words[k])

LEMMA SpanOf ==
  ASSUME NEW words \in Seq(Word), NEW p \in OptionPlaces(words)
  PROVE  \E m : Span(words, p, m) /\ ValuesAt(words, p) = SubSeq(words, p + 1, m)
<1> DEFINE O == OptionPlaces(words)
           n == Len(words)
           OK(m) == /\ m = n \/ m + 1 \in O
                    /\ \A k \in p + 1 .. m : k \notin O
           last == CHOOSE m \in p .. n : OK(m)
<1>1. n \in Nat /\ p \in 2 .. n /\ p + 1 \notin O
  BY LenProperties, PlaceAfter
<1>2. ValuesAt(words, p) = SubSeq(words, p + 1, last)
  BY Zenon DEF ValuesAt
<1>3. \E m \in p .. n : OK(m)
  <2> DEFINE S == {m \in p .. n : m = n \/ m + 1 \in O}
  <2> HIDE DEF O, n
  <2>1. S \subseteq Nat /\ n \in S
    BY <1>1
  <2>2. PICK m \in S : \A y \in S : m <= y
    <3> HIDE DEF S
    <3> QED
      BY <2>1, Words!Smallest
  <2>3. ASSUME NEW k \in p + 1 .. m PROVE k \notin O
    <3>1. k - 1 \in p .. n /\ k - 1 < m /\ (k - 1) + 1 = k
      BY <1>1, <2>2
    <3> QED
      BY <1>1, <2>2, <3>1
  <2> QED
    BY <2>2, <2>3
<1>4. last \in p .. n /\ OK(last)
  <2> HIDE DEF OK, n
  <2> QED
    BY <1>3
<1> HIDE DEF last
<1>5. ASSUME NEW k \in p + 2 .. last PROVE ~IsOption(words[k])
  <2> DEFINE S == {i \in p + 2 .. last : IsOption(words[i])}
  <2> SUFFICES ASSUME S # {} PROVE FALSE
    OBVIOUS
  <2>1. S \subseteq Nat
    BY <1>1, <1>4
  <2>2. PICK i \in S : \A y \in S : i <= y
    <3> HIDE DEF S
    <3> QED
      BY <2>1, Words!Smallest
  <2>3. i \in p + 2 .. n /\ i \in p + 1 .. last /\ IsOption(words[i])
    BY <1>1, <1>4, <2>2
  <2>4. \A l \in p + 2 .. i - 1 : ~IsOption(words[l])
    <3> SUFFICES ASSUME NEW l \in p + 2 .. i - 1, IsOption(words[l]) PROVE FALSE
      OBVIOUS
    <3>1. l \in S /\ ~(i <= l)
      BY <1>1, <1>4, <2>3
    <3> QED
      BY <2>2, <3>1
  <2>5. i \in O
    BY <2>3, <2>4, PlaceAfter
  <2> QED
    BY <1>4, <2>3, <2>5
<1>6. last < n => last + 1 \in O /\ IsOption(words[last + 1])
  BY <1>1, <1>4, PlaceAfter
<1>7. last = p => p = n
  BY <1>1, <1>4
<1> QED
  BY <1>2, <1>4, <1>5, <1>6, <1>7 DEF Span
-----------------------------------------------------------------------------
(* What an option takes of the words behind it. *)

LEMMA PartOfPart ==
  ASSUME NEW S, NEW s \in Seq(S), NEW m \in Nat, NEW n \in Nat, 1 <= m, n <= Len(s), m <= n + 1,
         NEW a \in Nat, NEW b \in Nat, 1 <= a, b <= n - m + 1, a <= b + 1
  PROVE  SubSeq(SubSeq(s, m, n), a, b) = SubSeq(s, m + a - 1, m + b - 1)
<1> DEFINE t == SubSeq(s, m, n)
           u == SubSeq(t, a, b)
           v == SubSeq(s, m + a - 1, m + b - 1)
<1>1. t \in Seq(S) /\ Len(t) = n - m + 1 /\ \A i \in 1 .. n - m + 1 : t[i] = s[m + i - 1]
  BY PartIs
<1>2. /\ m + a - 1 \in Int /\ m + b - 1 \in Int /\ 1 <= m + a - 1 /\ m + b - 1 <= Len(s)
      /\ m + a - 1 <= (m + b - 1) + 1 /\ (m + b - 1) - (m + a - 1) + 1 = b - a + 1
  BY LenProperties
<1>3. v \in Seq(S) /\ Len(v) = b - a + 1 /\ \A i \in 1 .. b - a + 1 : v[i] = s[(m + a - 1) + i - 1]
  <2> DEFINE x == m + a - 1
             y == m + b - 1
  <2>1. y - x + 1 = b - a + 1 /\ x \in Int /\ y \in Int /\ 1 <= x /\ y <= Len(s) /\ x <= y + 1
    BY <1>2
  <2> HIDE DEF x, y
  <2>2. /\ SubSeq(s, x, y) \in Seq(S) /\ Len(SubSeq(s, x, y)) = y - x + 1
        /\ \A i \in 1 .. y - x + 1 : SubSeq(s, x, y)[i] = s[x + i - 1]
    BY <2>1, PartIs
  <2>3. /\ SubSeq(s, x, y) \in Seq(S) /\ Len(SubSeq(s, x, y)) = b - a + 1
        /\ \A i \in 1 .. b - a + 1 : SubSeq(s, x, y)[i] = s[x + i - 1]
    BY <2>1, <2>2
  <2> QED
    BY <2>3 DEF x, y
<1> HIDE DEF t
<1>4. u \in Seq(S) /\ Len(u) = b - a + 1 /\ \A i \in 1 .. b - a + 1 : u[i] = t[a + i - 1]
  <2>1. a \in Int /\ b \in Int /\ b <= Len(t)
    BY <1>1
  <2> QED
    BY <1>1, <2>1, PartIs
<1> HIDE DEF u, v
<1>5. ASSUME NEW i \in 1 .. b - a + 1 PROVE u[i] = v[i]
  <2>1. a + i - 1 \in 1 .. n - m + 1 /\ m + (a + i - 1) - 1 = (m + a - 1) + i - 1
    OBVIOUS
  <2>2. t[a + i - 1] = s[m + (a + i - 1) - 1]
    BY <1>1, <2>1
  <2> QED
    BY <1>3, <1>4, <2>1, <2>2
<1>6. u = v
  BY <1>3, <1>4, <1>5, SeqEqual
<1> QED
  BY <1>6 DEF u, v, t

(* The words from the p-th one on. *)
Behind(words, p) == SubSeq(words, p, Len(words))

BehindFacts(words, p, l) ==
  LET b == Behind(words, p)
  IN /\ b \in Seq(Word) /\ b # <<>> /\ Len(b) = l
     /\ \A i \in 1 .. l : b[i] = words[p + i - 1]
     /\ Head(b) = words[p] /\ Tail(b) = Behind(words, p + 1)
     /\ \A k \in 0 .. l : /\ SubSeq(b, 1, k) = SubSeq(words, p, p + k - 1)
                          /\ SubSeq(b, k + 1, l) = Behind(words, p + k)

LEMMA BehindIs ==
  ASSUME NEW words \in Seq(Word), NEW p \in 1 .. Len(words), NEW l, l = Len(words) - p + 1
  PROVE  BehindFacts(words, p, l)
<1> DEFINE n == Len(words)
           b == Behind(words, p)
<1>1. n \in Nat /\ p \in Nat /\ 1 <= p /\ p <= n /\ l \in Nat /\ l = n - p + 1
  BY LenProperties
<1>2. /\ b \in Seq(Word) /\ Len(b) = l /\ \A i \in 1 .. l : b[i] = words[p + i - 1]
  BY <1>1, PartIs DEF Behind
<1>3. Head(b) = words[p] /\ Tail(b) = Behind(words, p + 1)
  BY <1>1, HeadTailOfSubSeq DEF Behind
<1>4. b # <<>>
  <2> HIDE DEF b, n
  <2> QED
    BY <1>1, <1>2, EmptySeq
<1>5. ASSUME NEW k \in 0 .. l
      PROVE  /\ SubSeq(b, 1, k) = SubSeq(words, p, p + k - 1)
             /\ SubSeq(b, k + 1, l) = Behind(words, p + k)
  <2>1. k \in Nat /\ k + 1 \in Nat /\ n \in Nat
    BY <1>1
  <2>2. SubSeq(b, 1, k) = SubSeq(words, p + 1 - 1, p + k - 1)
    BY <1>1, <2>1, PartOfPart DEF Behind
  <2>3. SubSeq(b, k + 1, l) = SubSeq(words, p + (k + 1) - 1, p + l - 1)
    BY <1>1, <2>1, PartOfPart DEF Behind
  <2>4. p + 1 - 1 = p /\ p + (k + 1) - 1 = p + k /\ p + l - 1 = n
    BY <1>1
  <2> QED
    BY <2>2, <2>3, <2>4 DEF Behind
<1> HIDE DEF b
<1>6. /\ b \in Seq(Word) /\ b # <<>> /\ Len(b) = l
      /\ \A i \in 1 .. l : b[i] = words[p + i - 1]
      /\ Head(b) = words[p] /\ Tail(b) = Behind(words, p + 1)
      /\ \A k \in 0 .. l : /\ SubSeq(b, 1, k) = SubSeq(words, p, p + k - 1)
                           /\ SubSeq(b, k + 1, l) = Behind(words, p + k)
  BY <1>2, <1>3, <1>4, <1>5
<1> QED
  BY <1>6, Zenon DEF BehindFacts, b

(* The words behind the p-th one. *)
AfterFacts(words, p, d) ==
  LET w == Behind(words, p + 1)
  IN /\ w \in Seq(Word) /\ w # <<>> /\ Len(w) = d
     /\ \A i \in 1 .. d : w[i] = words[p + i]
     /\ Head(w) = words[p + 1] /\ Tail(w) = Behind(words, p + 2)
     /\ \A k \in 0 .. d : /\ SubSeq(w, 1, k) = SubSeq(words, p + 1, p + k)
                          /\ SubSeq(w, k + 1, d) = Behind(words, p + 1 + k)
LEMMA WordsAfter ==
  ASSUME NEW words \in Seq(Word), NEW p \in Nat, p < Len(words)
  PROVE  AfterFacts(words, p, Len(words) - p)
<1> DEFINE q == p + 1
           d == Len(words) - p
           w == Behind(words, q)
<1>1. /\ q \in 1 .. Len(words) /\ d = Len(words) - q + 1 /\ q + 1 = p + 2
      /\ \A i \in 1 .. d : q + i - 1 = p + i
      /\ \A k \in 0 .. d : q + k - 1 = p + k
  BY LenProperties
<1> HIDE DEF q, d
<1>2. q \in 1 .. Len(words) /\ d = Len(words) - q + 1
  BY <1>1
<1>3. /\ w \in Seq(Word) /\ w # <<>> /\ Len(w) = d
      /\ \A i \in 1 .. d : w[i] = words[q + i - 1]
      /\ Head(w) = words[q] /\ Tail(w) = Behind(words, q + 1)
      /\ \A k \in 0 .. d :
            /\ SubSeq(w, 1, k) = SubSeq(words, q, q + k - 1)
            /\ SubSeq(w, k + 1, d) = Behind(words, q + k)
  <2>1. BehindFacts(words, q, d)
    BY <1>2, BehindIs, Zenon
  <2> QED
    BY <2>1, Zenon DEF BehindFacts
<1> HIDE DEF w
<1>4. /\ \A i \in 1 .. d : w[i] = words[p + i]
      /\ \A k \in 0 .. d : SubSeq(w, 1, k) = SubSeq(words, q, p + k)
  BY <1>1, <1>3
<1>5. AfterFacts(words, p, d)
  BY <1>1, <1>3, <1>4, Zenon DEF AfterFacts, q, w
<1> QED
  BY <1>5 DEF d

LEMMA SpanBounds ==
  ASSUME NEW words \in Seq(Word), NEW p \in OptionPlaces(words), NEW m, Span(words, p, m),
         p < Len(words)
  PROVE  /\ Len(words) \in Nat /\ p \in 2 .. Len(words) /\ p + 1 \in 1 .. Len(words)
         /\ m \in p + 1 .. Len(words) /\ m \in Nat /\ m - p \in 1 .. Len(words) - p
         /\ SubSeq(words, p + 1, m) \in Seq(Word) /\ Len(SubSeq(words, p + 1, m)) = m - p
         /\ \A i \in 1 .. m - p : SubSeq(words, p + 1, m)[i] = words[p + i]
<1>1. Len(words) \in Nat /\ p \in 2 .. Len(words)
  BY LenProperties, PlaceAfter
<1>2. m \in p .. Len(words) /\ m # p
  <2>1. m \in p .. Len(words) /\ (m = p => p = Len(words))
    BY Zenon DEF Span
  <2> QED
    BY <1>1, <2>1
<1>3. m \in p + 1 .. Len(words) /\ p + 1 \in Int /\ m \in Int
  BY <1>1, <1>2
<1>4. /\ SubSeq(words, p + 1, m) \in Seq(Word) /\ Len(SubSeq(words, p + 1, m)) = m - (p + 1) + 1
      /\ \A i \in 1 .. m - (p + 1) + 1 : SubSeq(words, p + 1, m)[i] = words[p + 1 + i - 1]
  BY <1>1, <1>3, PartIs
<1>5. m - (p + 1) + 1 = m - p /\ \A i \in Int : p + 1 + i - 1 = p + i
  BY <1>1, <1>3
<1> QED
  BY <1>1, <1>3, <1>4, <1>5

(* A text is all the values. *)
LEMMA TextSpan ==
  ASSUME NEW words \in Seq(Word), NEW p \in OptionPlaces(words), NEW m, Span(words, p, m),
         p < Len(words)
  PROVE  Take(CFT_TXT, Behind(words, p + 1))
           = Taken({Joined(SubSeq(words, p + 1, m))}, Behind(words, m + 1))
<1> DEFINE w == Behind(words, p + 1)
           n == Len(words)
           l == m - p
           x == TextLen(w)
<1>1. n \in Nat /\ p \in 2 .. n /\ m \in p + 1 .. n /\ m \in Nat /\ p + 1 \in 1 .. n
      /\ n - (p + 1) + 1 = n - p
  BY SpanBounds
<1>2. /\ w \in Seq(Word) /\ w # <<>> /\ Len(w) = n - p
      /\ \A i \in 1 .. n - p : w[i] = words[p + i]
      /\ \A k \in 0 .. n - p : /\ SubSeq(w, 1, k) = SubSeq(words, p + 1, p + k)
                               /\ SubSeq(w, k + 1, n - p) = Behind(words, p + 1 + k)
  <2>1. AfterFacts(words, p, n - p)
    BY <1>1, WordsAfter
  <2> QED
    BY <2>1, Zenon DEF AfterFacts
<1> HIDE DEF w, n
<1>4. /\ x \in 1 .. n - p /\ \A i \in 2 .. x : ~IsOption(w[i])
      /\ x < n - p => IsOption(w[x + 1])
  BY <1>2, TextLenIs
<1>5. /\ \A k \in p + 2 .. m : ~IsOption(words[k])
      /\ m < n => IsOption(words[m + 1])
  BY DEF Span, n
<1> HIDE DEF x
<1>6. ~(x < l)
  <2> SUFFICES ASSUME x < l PROVE FALSE
    OBVIOUS
  <2>1. x + 1 \in 1 .. n - p /\ p + (x + 1) \in p + 2 .. m /\ x < n - p
    BY <1>1, <1>4
  <2> QED
    BY <1>2, <1>4, <1>5, <2>1
<1>7. ~(x > l)
  <2> SUFFICES ASSUME x > l PROVE FALSE
    OBVIOUS
  <2>1. l + 1 \in 2 .. x /\ l + 1 \in 1 .. n - p /\ m < n /\ p + (l + 1) = m + 1
    BY <1>1, <1>4
  <2> QED
    BY <1>2, <1>4, <1>5, <2>1
<1>8. x = l /\ l \in 0 .. n - p /\ p + l = m /\ p + 1 + l = m + 1
  BY <1>1, <1>4, <1>6, <1>7
<1>9. /\ SubSeq(w, 1, x) = SubSeq(words, p + 1, m)
      /\ SubSeq(w, x + 1, Len(w)) = Behind(words, m + 1)
  BY <1>2, <1>8
<1>10. Take(CFT_TXT, w) = Text(w, x)
  BY <1>2, TakeIs, Zenon DEF x
<1> QED
  BY <1>9, <1>10, Zenon DEF Text, w

(* A buffer is all the values, if only the last one may be unreadable; if  *)
(* not, it ends before another value.                                      *)
LEMMA RawSpan ==
  ASSUME NEW words \in Seq(Word), NEW p \in OptionPlaces(words), NEW m, Span(words, p, m),
         p < Len(words)
  PROVE  LET w == Behind(words, p + 1)
             readable == \A i \in p + 1 .. m - 1 : ScanD(words[i], 1).read
         IN /\ readable => RawLen(w) = m - p
            /\ ~readable => RawLen(w) \in 1 .. m - p - 1
<1> DEFINE w == Behind(words, p + 1)
           n == Len(words)
           l == m - p
           x == RawLen(w)
           readable == \A i \in p + 1 .. m - 1 : ScanD(words[i], 1).read
<1>1. n \in Nat /\ p \in 2 .. n /\ m \in p + 1 .. n /\ m \in Nat /\ p + 1 \in 1 .. n
      /\ n - p = n - (p + 1) + 1
  BY SpanBounds
<1>2. /\ w \in Seq(Word) /\ w # <<>> /\ Len(w) = n - p
      /\ \A i \in 1 .. n - p : w[i] = words[p + i]
  <2>1. AfterFacts(words, p, n - p)
    BY <1>1, WordsAfter
  <2> QED
    BY <2>1, Zenon DEF AfterFacts
<1> HIDE DEF w, n
<1>3. /\ x \in 1 .. n - p
      /\ \A i \in 1 .. x - 1 : ScanD(w[i], 1).read /\ ~IsOption(w[i + 1])
      /\ x = n - p \/ IsOption(w[x + 1]) \/ ~ScanD(w[x], 1).read
  BY <1>2, RawLenIs
<1>4. /\ \A k \in p + 2 .. m : ~IsOption(words[k])
      /\ m < n => IsOption(words[m + 1])
  BY DEF Span, n
<1> HIDE DEF x
<1>5. ~(x > l)
  <2> SUFFICES ASSUME x > l PROVE FALSE
    OBVIOUS
  <2>1. l \in 1 .. x - 1 /\ l + 1 \in 1 .. n - p /\ m < n /\ p + (l + 1) = m + 1
    BY <1>1, <1>3
  <2> QED
    BY <1>2, <1>3, <1>4, <2>1
<1>6. x < l => ~ScanD(words[p + x], 1).read /\ p + x \in p + 1 .. m - 1
  <2> SUFFICES ASSUME x < l PROVE ~ScanD(words[p + x], 1).read /\ p + x \in p + 1 .. m - 1
    OBVIOUS
  <2>1. x + 1 \in 1 .. n - p /\ p + (x + 1) \in p + 2 .. m /\ x # n - p /\ p + x \in p + 1 .. m - 1
    BY <1>1, <1>3
  <2> QED
    BY <1>2, <1>3, <1>4, <2>1
<1>7. ASSUME x = l, NEW i \in p + 1 .. m - 1 PROVE ScanD(words[i], 1).read
  <2>1. i - p \in 1 .. x - 1 /\ i - p \in 1 .. n - p /\ p + (i - p) = i
    BY <1>1, <1>7
  <2> QED
    BY <1>2, <1>3, <2>1
<1>8. x = l \/ x \in 1 .. l - 1
  BY <1>1, <1>3, <1>5
<1>9. readable <=> x = l
  BY <1>1, <1>6, <1>7, <1>8
<1> HIDE DEF readable
<1>10. (readable => x = l) /\ (~readable => x \in 1 .. l - 1)
  BY <1>8, <1>9
<1> QED
  BY <1>10 DEF readable, x, w

(* The bytes of the first k values are those of the words they are. *)
LEMMA RawOf ==
  ASSUME NEW w, NEW v, NEW k \in Nat, NEW width \in {1, 2}, \A i \in 1 .. k : w[i] = v[i]
  PROVE  RawBytes(w, k, width) = RawBytes(v, k, width)
<1>1. ASSUME NEW j \in 1 .. k * width PROVE (j - 1) \div width + 1 \in 1 .. k
  <2>1. width = 1 \/ width = 2
    OBVIOUS
  <2> QED
    BY <2>1
<1>2. \A j \in 1 .. k * width : w[(j - 1) \div width + 1] = v[(j - 1) \div width + 1]
  BY <1>1
<1> QED
  BY <1>2 DEF RawBytes

LEMMA RawTaken ==
  ASSUME NEW words \in Seq(Word), NEW p \in OptionPlaces(words), NEW m, Span(words, p, m),
         p < Len(words), NEW type \in {CFT_RAW8, CFT_RAW16}
  PROVE  LET v == SubSeq(words, p + 1, m)
             t == Take(type, Behind(words, p + 1))
         IN IF \A i \in 1 .. m - p - 1 : ScanD(v[i], 1).read
            THEN t = Taken({RawBytes(v, IF ScanD(v[m - p], 1).read THEN m - p ELSE m - p - 1,
                                     Width(type))},
                           Behind(words, m + 1))
            ELSE \E q \in p + 2 .. m : t.rest = Behind(words, q)
<1> DEFINE w == Behind(words, p + 1)
           n == Len(words)
           l == m - p
           x == RawLen(w)
           v == SubSeq(words, p + 1, m)
           t == Take(type, w)
           last(s, k) == IF ScanD(s[k], 1).read THEN k ELSE k - 1
           read == \A i \in p + 1 .. m - 1 : ScanD(words[i], 1).read
           good == \A i \in 1 .. l - 1 : ScanD(v[i], 1).read
<1>1. /\ n \in Nat /\ p \in 2 .. n /\ m \in p + 1 .. n /\ m \in Nat /\ p + 1 \in 1 .. n
      /\ n - p = n - (p + 1) + 1 /\ l \in 1 .. n - p
      /\ \A i \in 1 .. l : v[i] = words[p + i]
  <2>1. /\ n \in Nat /\ p \in 2 .. n /\ p + 1 \in 1 .. n /\ m \in p + 1 .. n /\ m \in Nat
        /\ l \in 1 .. n - p /\ \A i \in 1 .. l : v[i] = words[p + i]
    BY SpanBounds, Zenon
  <2> HIDE DEF n, v
  <2> QED
    BY <2>1
<1>2. /\ w \in Seq(Word) /\ w # <<>> /\ Len(w) = n - p
      /\ \A i \in 1 .. n - p : w[i] = words[p + i]
      /\ \A k \in 0 .. n - p : SubSeq(w, k + 1, n - p) = Behind(words, p + 1 + k)
  <2>1. AfterFacts(words, p, n - p)
    BY <1>1, WordsAfter
  <2> QED
    BY <2>1, Zenon DEF AfterFacts
<1>3. (read => x = l) /\ (~read => x \in 1 .. l - 1)
  BY RawSpan
<1>4. t = Raw(w, x, Width(type)) /\ Width(type) \in {1, 2}
  <2>1. t = Raw(w, x, Width(type))
    BY <1>2, TakeIs DEF Width, CFT_RAW8, CFT_RAW16
  <2> QED
    BY <2>1 DEF Width
<1>5. \A k : Raw(w, k, Width(type))
               = Taken({RawBytes(w, last(w, k), Width(type))}, SubSeq(w, k + 1, Len(w)))
  BY Zenon DEF Raw
<1> HIDE DEF w, v, n, x, read, last
<1>6. good <=> read
  <2>1. ASSUME good, NEW i \in p + 1 .. m - 1 PROVE ScanD(words[i], 1).read
    <3>1. i - p \in 1 .. l - 1 /\ i - p \in 1 .. l /\ p + (i - p) = i
      BY <1>1
    <3> QED
      BY <1>1, <2>1, <3>1
  <2>2. ASSUME read, NEW i \in 1 .. l - 1 PROVE ScanD(v[i], 1).read
    <3>1. p + i \in p + 1 .. m - 1 /\ i \in 1 .. l
      BY <1>1
    <3> QED
      BY <1>1, <2>2, <3>1 DEF read
  <2> QED
    BY <2>1, <2>2 DEF read
<1> HIDE DEF good, t
<1>7. CASE good
  <2>1. x = l /\ SubSeq(w, x + 1, Len(w)) = Behind(words, m + 1)
    <3>1. x = l /\ l \in 0 .. n - p /\ p + 1 + l = m + 1
      BY <1>1, <1>3, <1>6, <1>7
    <3> QED
      BY <1>2, <3>1
  <2>2. \A i \in 1 .. l : w[i] = v[i]
    <3>1. \A i \in 1 .. l : i \in 1 .. n - p
      BY <1>1
    <3> QED
      BY <1>1, <1>2, <3>1
  <2>3. w[l] = v[l]
    BY <1>1, <2>2
  <2>4. last(w, l) = last(v, l) /\ last(v, l) \in Nat /\ last(v, l) <= l
    BY <1>1, <2>3 DEF last
  <2>5. RawBytes(w, last(w, l), Width(type)) = RawBytes(v, last(v, l), Width(type))
    <3> DEFINE k == last(v, l)
    <3>1. k \in Nat /\ \A i \in 1 .. k : i \in 1 .. l
      BY <1>1, <2>4
    <3> HIDE DEF k
    <3>2. \A i \in 1 .. k : w[i] = v[i]
      BY <2>2, <3>1
    <3>3. RawBytes(w, k, Width(type)) = RawBytes(v, k, Width(type))
      BY <1>4, <3>1, <3>2, RawOf
    <3> QED
      BY <2>4, <3>3 DEF k
  <2>6. t = Taken({RawBytes(v, last(v, l), Width(type))}, Behind(words, m + 1))
    BY <1>4, <1>5, <2>1, <2>5, Zenon
  <2> QED
    BY <1>7, <2>6, Zenon DEF good, last, v, t, w
<1>8. CASE ~good
  <2>1. x \in 1 .. l - 1
    BY <1>3, <1>6, <1>8
  <2>2. p + 1 + x \in p + 2 .. m /\ x \in 0 .. n - p
    BY <1>1, <2>1
  <2>3. SubSeq(w, x + 1, Len(w)) = Behind(words, p + 1 + x)
    BY <1>2, <2>2
  <2>4. t = Taken({RawBytes(w, last(w, x), Width(type))}, SubSeq(w, x + 1, Len(w)))
    BY <1>4, <1>5, Zenon
  <2> DEFINE b == SubSeq(w, x + 1, Len(w))
  <2> HIDE DEF b
  <2>5. t.rest = b
    BY <2>4 DEF Taken, b
  <2>6. t.rest = Behind(words, p + 1 + x)
    BY <2>3, <2>5, Zenon DEF b
  <2> QED
    BY <1>8, <2>2, <2>6, Zenon DEF good, v, t, w
<1> QED
  BY <1>7, <1>8

(* What is made of the values of an option. *)
Made(type, v) ==
  CASE type = CFT_NUM -> Num(ScanI(v[1]), <<>>).vals
    [] type = CFT_TXT -> {Joined(v)}
    [] OTHER -> {RawBytes(v, IF ScanD(v[Len(v)], 1).read THEN Len(v) ELSE Len(v) - 1, Width(type))}

(* An option takes all its values, and leaves the next option first, if    *)
(* the values are good; if not, a word is left first that is no option.    *)
LEMMA TakenAt ==
  ASSUME NEW words \in Seq(Word), NEW p \in OptionPlaces(words), NEW m, Span(words, p, m),
         p < Len(words), NEW type \in 0 .. 3
  PROVE  LET v == SubSeq(words, p + 1, m)
             t == Take(type, Behind(words, p + 1))
         IN IF GoodValues(type, v)
            THEN t.rest = Behind(words, m + 1) /\ t.vals = Made(type, v)
            ELSE \E q \in p + 2 .. m : t.rest = Behind(words, q)
<1> DEFINE w == Behind(words, p + 1)
           n == Len(words)
           v == SubSeq(words, p + 1, m)
           t == Take(type, w)
<1>1. /\ n \in Nat /\ p \in 2 .. n /\ p < n /\ m \in p + 1 .. n /\ m \in Nat
      /\ m - p \in 1 .. n - p /\ v \in Seq(Word) /\ Len(v) = m - p
      /\ \A i \in 1 .. m - p : v[i] = words[p + i]
  BY SpanBounds, Zenon
<1>2. /\ w \in Seq(Word) /\ w # <<>>
      /\ Head(w) = words[p + 1] /\ Tail(w) = Behind(words, p + 2)
  <2>1. AfterFacts(words, p, n - p)
    BY <1>1, WordsAfter
  <2> QED
    BY <2>1, Zenon DEF AfterFacts
<1>3. \A vals, rest : Taken(vals, rest).vals = vals /\ Taken(vals, rest).rest = rest
  BY DEF Taken
<1> DEFINE Goal == IF GoodValues(type, v)
                   THEN t.rest = Behind(words, m + 1) /\ t.vals = Made(type, v)
                   ELSE \E q \in p + 2 .. m : t.rest = Behind(words, q)
<1>4. CASE type = CFT_NUM
  <2> DEFINE x == ScanI(words[p + 1])
  <2>1. t = Num(x, Behind(words, p + 2))
    <3>1. t = TakeNum(w)
      BY <1>2, <1>4, TakeIs, Zenon
    <3> QED
      BY <1>2, <3>1, Zenon DEF TakeNum
  <2>2. v[1] = words[p + 1]
    BY <1>1
  <2> HIDE DEF w, v, t, n
  <2>3. Made(type, v) = Num(x, <<>>).vals
    BY <1>4, <2>2 DEF Made, CFT_NUM, CFT_TXT
  <2>4. GoodValues(type, v) <=> m = p + 1
    <3>1. GoodValues(type, v) <=> Len(v) = 1
      BY <1>4 DEF GoodValues, CFT_NUM, CFT_TXT, CFT_RAW8, CFT_RAW16
    <3> QED
      BY <1>1, <3>1
  <2> HIDE DEF x
  <2>5. \A rest : Num(x, rest).rest = rest /\ Num(x, rest).vals = Num(x, <<>>).vals
    BY <1>3, Zenon DEF Num
  <2>6. t.rest = Behind(words, p + 2) /\ t.vals = Made(type, v)
    BY <2>1, <2>3, <2>5, Zenon
  <2>7. m = p + 1 => m + 1 = p + 2
    BY <1>1
  <2>8. m # p + 1 => p + 2 \in p + 2 .. m
    BY <1>1
  <2>9. Goal
    <3>1. CASE m = p + 1
      <4>1. m + 1 = p + 2 /\ GoodValues(type, v)
        BY <2>4, <2>7, <3>1
      <4> HIDE DEF Goal
      <4> QED
        BY <2>6, <4>1, Zenon DEF Goal
    <3>2. CASE m # p + 1
      BY <2>4, <2>6, <2>8, <3>2, Zenon
    <3> QED
      BY <3>1, <3>2
  <2> QED
    BY <2>9 DEF t, w, v
<1>5. CASE type = CFT_TXT
  <2>1. t = Taken({Joined(v)}, Behind(words, m + 1))
    BY <1>5, TextSpan, Zenon
  <2> HIDE DEF w, v, t, n
  <2>2. GoodValues(type, v)
    <3>1. GoodValues(type, v) <=> Len(v) > 0
      BY <1>5 DEF GoodValues, CFT_NUM, CFT_TXT, CFT_RAW8, CFT_RAW16
    <3> QED
      BY <1>1, <3>1
  <2>3. Made(type, v) = {Joined(v)}
    BY <1>5 DEF Made, CFT_NUM, CFT_TXT
  <2>4. Goal
    BY <1>3, <2>1, <2>2, <2>3, Zenon
  <2> QED
    BY <2>4 DEF t, w, v
<1>6. CASE type \in {CFT_RAW8, CFT_RAW16}
  <2> DEFINE l == m - p
             good == \A i \in 1 .. l - 1 : ScanD(v[i], 1).read
             bytes == RawBytes(v, IF ScanD(v[l], 1).read THEN l ELSE l - 1, Width(type))
  <2>1. IF good THEN t = Taken({bytes}, Behind(words, m + 1))
                ELSE \E q \in p + 2 .. m : t.rest = Behind(words, q)
    BY <1>6, RawTaken, Zenon
  <2>2. Len(v) = l /\ l > 0
    BY <1>1
  <2> HIDE DEF w, v, t, n, l
  <2>3. GoodValues(type, v) <=> good
    <3>1. GoodValues(type, v) <=> Len(v) > 0 /\ \A i \in 1 .. Len(v) - 1 : ScanD(v[i], 1).read
      BY <1>6 DEF GoodValues, CFT_NUM, CFT_TXT, CFT_RAW8, CFT_RAW16
    <3> QED
      BY <2>2, <3>1
  <2>4. Made(type, v) = {bytes}
    <3>1. type # CFT_NUM /\ type # CFT_TXT
      BY <1>6 DEF CFT_NUM, CFT_TXT, CFT_RAW8, CFT_RAW16
    <3>2. Made(type, v) = {RawBytes(v, IF ScanD(v[Len(v)], 1).read THEN Len(v) ELSE Len(v) - 1, Width(type))}
      BY <3>1, Zenon DEF Made
    <3> QED
      BY <2>2, <3>2, Zenon
  <2> HIDE DEF good, bytes
  <2>5. Goal
    BY <1>3, <2>1, <2>3, <2>4, Zenon
  <2> QED
    BY <2>5 DEF t, w, v
<1> QED
  BY <1>4, <1>5, <1>6 DEF CFT_NUM, CFT_TXT, CFT_RAW8, CFT_RAW16
-----------------------------------------------------------------------------
(* One pass over the options. *)

OptionOf(fields, words, i) ==
  LET f == Named(fields, Tail(words[i]))
  IN IF f = 0 THEN [type |-> -1] ELSE fields[f]
GoodAt(fields, words, i) == GoodValues(OptionOf(fields, words, i).type, ValuesAt(words, i))

LEMMA GoodIs ==
  ASSUME NEW type, NEW v \in Seq(Word), GoodValues(type, v)
  PROVE  type \in 0 .. 3 /\ Len(v) > 0
BY LenProperties DEF GoodValues, CFT_NUM, CFT_TXT, CFT_RAW8, CFT_RAW16

(* What an option with its values makes of the variables. *)
Stored(s, cell, made) == IF s.n_update /\ made # {} THEN Updated(s.store, cell, made) ELSE s.store

(* The state of the loop when it has come to a place in the line. *)
ComesTo(r, s, words, q) ==
  /\ r.ok /\ r.rest = Behind(words, q) /\ r.fields = s.fields /\ r.n_update = s.n_update

LEMMA NextOptionIs ==
  ASSUME NEW fields, NEW s \in Parsing(fields), NEW f, NEW t
  PROVE  /\ NextOption(s, f, t).rest = t.rest /\ NextOption(s, f, t).ok = s.ok
         /\ NextOption(s, f, t).fields = s.fields /\ NextOption(s, f, t).n_update = s.n_update
         /\ NextOption(s, f, t).store = Stored(s, s.fields[f].cell, t.vals)
<1> DEFINE a == t.rest
           b == Stored(s, s.fields[f].cell, t.vals)
<1>1. NextOption(s, f, t) = [s EXCEPT !.rest = a, !.store = b]
  BY Zenon DEF NextOption, Stored
<1>2. s = [rest |-> s.rest, fields |-> s.fields, store |-> s.store, n_update |-> s.n_update,
           ok |-> s.ok]
  BY DEF Parsing
<1> HIDE DEF a, b
<1>3. NextOption(s, f, t) = [rest |-> a, fields |-> s.fields, store |-> b,
                             n_update |-> s.n_update, ok |-> s.ok]
  BY <1>1, <1>2
<1>4. /\ NextOption(s, f, t).rest = a /\ NextOption(s, f, t).ok = s.ok
      /\ NextOption(s, f, t).fields = s.fields /\ NextOption(s, f, t).n_update = s.n_update
      /\ NextOption(s, f, t).store = b
  BY <1>3
<1> QED
  BY <1>4 DEF a, b

LEMMA OnePass ==
  ASSUME NEW fields \in Seq(Option), NEW words \in Seq(Word), NEW p \in OptionPlaces(words),
         NEW s \in Parsing(fields), s.ok, s.rest = Behind(words, p),
         NEW m, Span(words, p, m), ValuesAt(words, p) = SubSeq(words, p + 1, m)
  PROVE  LET r == TakeOption(s)
             o == OptionOf(fields, words, p)
         IN IF GoodAt(fields, words, p)
            THEN /\ m \in p + 1 .. Len(words) /\ o \in Option /\ ComesTo(r, s, words, m + 1)
                 /\ r.store = Stored(s, o.cell, Made(o.type, ValuesAt(words, p)))
            ELSE ~r.ok \/ \E q \in p + 2 .. m : ComesTo(r, s, words, q)
<1> DEFINE n == Len(words)
           f == Named(fields, Tail(words[p]))
           o == OptionOf(fields, words, p)
           v == ValuesAt(words, p)
           w == Behind(words, p + 1)
           t == Take(fields[f].type, w)
           r == TakeOption(s)
           good == GoodValues(o.type, v)
<1>1. /\ n \in Nat /\ p \in 2 .. n /\ IsOption(words[p])
      /\ s.fields = fields /\ s.rest \in Seq(Word)
  BY LenProperties, PlaceAfter DEF Parsing
<1>2. /\ s.rest # <<>> /\ Head(s.rest) = words[p] /\ Tail(s.rest) = w
      /\ Len(s.rest) = n - p + 1
  <2>1. p \in 1 .. n
    BY <1>1
  <2> DEFINE l == n - p + 1
  <2>2. BehindFacts(words, p, l)
    BY <2>1, BehindIs, Zenon
  <2> QED
    BY <2>2, Zenon DEF BehindFacts
<1>3. r = IF f = 0 \/ Len(s.rest) = 1 THEN Refused(s) ELSE NextOption(s, f, t)
  <2>1. r = WithOption(s, f)
    BY <1>1, <1>2, Zenon DEF TakeOption
  <2> HIDE DEF r
  <2> QED
    BY <1>1, <1>2, <2>1, Zenon DEF WithOption
<1>4. ~Refused(s).ok
  BY DEF Refused, Parsing
<1>5. v = SubSeq(words, p + 1, m)
  OBVIOUS
<1>6. o = (IF f = 0 THEN [type |-> -1] ELSE fields[f]) /\ (good <=> GoodAt(fields, words, p))
  BY Zenon DEF OptionOf, GoodAt
<1> DEFINE Goal == IF good
                   THEN /\ m \in p + 1 .. n /\ o \in Option /\ ComesTo(r, s, words, m + 1)
                        /\ r.store = Stored(s, o.cell, Made(o.type, v))
                   ELSE ~r.ok \/ \E q \in p + 2 .. m : ComesTo(r, s, words, q)
<1> HIDE DEF n, f, o, v, w, r, good
<1>7. CASE f = 0
  <2>1. o.type = -1
    BY <1>6, <1>7
  <2>2. v \in Seq(Word)
    BY <1>1, <1>5, PartOf DEF Span, n
  <2>3. ~good
    BY <2>1, <2>2, GoodIs DEF good
  <2> QED
    BY <1>3, <1>4, <1>6, <1>7, <2>3, Zenon DEF r, n, o, v
<1>8. CASE p = n
  <2>1. Len(s.rest) = 1
    BY <1>1, <1>2, <1>8
  <2>2. m = p
    <3>1. m \in p .. Len(words)
      BY DEF Span
    <3> QED
      BY <1>1, <1>8, <3>1 DEF n
  <2>3. v = <<>>
    BY <1>1, <1>5, <2>2, SubSeqEmpty
  <2>4. v \in Seq(Word) /\ ~(Len(v) > 0)
    BY <2>3, EmptySeq
  <2>5. ~good
    BY <2>4, GoodIs, Zenon DEF good
  <2> QED
    BY <1>3, <1>4, <1>6, <2>1, <2>5, Zenon DEF r, n, o, v
<1>9. CASE f # 0 /\ p # n
  <2>1. p < n /\ Len(s.rest) # 1
    BY <1>1, <1>2, <1>9
  <2>2. r = NextOption(s, f, t)
    BY <1>3, <1>9, <2>1, Zenon
  <2>3. o = fields[f] /\ o \in Option
    <3>1. f \in 0 .. Len(fields)
      BY NamedIs DEF f
    <3>2. f \in 1 .. Len(fields)
      BY <1>9, <3>1
    <3> QED
      BY <1>6, <1>9, <3>2, ElementOfSeq
  <2>4. o.type \in 0 .. 3
    BY <2>3 DEF Option
  <2>5. IF good THEN t.rest = Behind(words, m + 1) /\ t.vals = Made(o.type, v)
                ELSE \E q \in p + 2 .. m : t.rest = Behind(words, q)
    <3>1. p < Len(words)
      BY <2>1 DEF n
    <3> DEFINE y == o.type
    <3>2. y \in 0 .. 3 /\ t = Take(y, w)
      BY <2>3, <2>4
    <3> HIDE DEF t, y
    <3>3. LET v2 == SubSeq(words, p + 1, m)
              t2 == Take(y, Behind(words, p + 1))
          IN IF GoodValues(y, v2)
             THEN t2.rest = Behind(words, m + 1) /\ t2.vals = Made(y, v2)
             ELSE \E q \in p + 2 .. m : t2.rest = Behind(words, q)
      BY <3>1, <3>2, TakenAt
    <3> QED
      BY <1>5, <3>2, <3>3, Zenon DEF good, w, y
  <2> HIDE DEF t
  <2>6. /\ r.rest = t.rest /\ r.ok = s.ok /\ r.fields = s.fields /\ r.n_update = s.n_update
        /\ r.store = Stored(s, o.cell, t.vals)
    <3>1. /\ NextOption(s, f, t).rest = t.rest /\ NextOption(s, f, t).ok = s.ok
          /\ NextOption(s, f, t).fields = s.fields /\ NextOption(s, f, t).n_update = s.n_update
          /\ NextOption(s, f, t).store = Stored(s, s.fields[f].cell, t.vals)
      BY NextOptionIs, Zenon
    <3>2. s.fields[f].cell = o.cell
      BY <1>1, <2>3
    <3> QED
      BY <2>2, <3>1, <3>2, Zenon
  <2>7. m \in p + 1 .. n
    BY <2>1, SpanBounds DEF n
  <2>8. Goal
    <3>1. CASE good
      BY <2>3, <2>5, <2>6, <2>7, <3>1, Zenon DEF ComesTo
    <3>2. CASE ~good
      BY <2>5, <2>6, <3>2, Zenon DEF ComesTo
    <3> QED
      BY <3>1, <3>2
  <2> QED
    BY <1>6, <2>8, Zenon DEF r, n, o, v
<1> QED
  BY <1>7, <1>8, <1>9
-----------------------------------------------------------------------------
(* All passes: what is accepted, and what the variables are then. *)

MadeAt(fields, words, i) == Made(OptionOf(fields, words, i).type, ValuesAt(words, i))

(* The options before a place that set a variable, and what it is then. *)
Sets(fields, words, cell, p) ==
  {i \in OptionPlaces(words) : /\ i < p /\ OptionOf(fields, words, i).cell = cell
                               /\ MadeAt(fields, words, i) # {}}
AnyOf(S) == CHOOSE v \in S : TRUE
Latest(S) == CHOOSE i \in S : \A j \in S : j <= i
ValueAt(fields, words, vals, cell, p) ==
  LET S == Sets(fields, words, cell, p)
  IN IF S = {} THEN vals[cell] ELSE AnyOf(MadeAt(fields, words, Latest(S)))

GoodOptions(fields, words) ==
  /\ Len(words) > 1 => 2 \in OptionPlaces(words)
  /\ \A i \in OptionPlaces(words) : GoodAt(fields, words, i)

LEMMA LatestIs ==
  ASSUME NEW S, NEW p \in Int, p \in S, S \subseteq Int, \A j \in S : j <= p
  PROVE  Latest(S) = p
<1>1. \E i \in S : \A j \in S : j <= i
  OBVIOUS
<1>2. Latest(S) \in S /\ \A j \in S : j <= Latest(S)
  BY <1>1, Zenon DEF Latest
<1>3. Latest(S) \in Int /\ p <= Latest(S) /\ Latest(S) <= p
  BY <1>2
<1> QED
  BY <1>3

LEMMA ValueNext ==
  ASSUME NEW fields, NEW words \in Seq(Word), NEW vals, NEW cell,
         NEW p \in OptionPlaces(words), NEW m \in Int, m >= p,
         \A k \in p + 1 .. m : k \notin OptionPlaces(words)
  PROVE  ValueAt(fields, words, vals, cell, m + 1) =
           IF OptionOf(fields, words, p).cell = cell /\ MadeAt(fields, words, p) # {}
           THEN AnyOf(MadeAt(fields, words, p))
           ELSE ValueAt(fields, words, vals, cell, p)
<1> DEFINE O == OptionPlaces(words)
           A(i) == OptionOf(fields, words, i).cell = cell /\ MadeAt(fields, words, i) # {}
           S == Sets(fields, words, cell, p)
           T == Sets(fields, words, cell, m + 1)
<1>1. O \subseteq Int
  BY LenProperties DEF OptionPlaces
<1>2. /\ \A i : i \in S <=> i \in O /\ i < p /\ A(i)
      /\ \A i : i \in T <=> i \in O /\ i < m + 1 /\ A(i)
  BY DEF Sets
<1> HIDE DEF O, A, S, T
<1>3. p \in O /\ \A k \in p + 1 .. m : k \notin O
  BY DEF O
<1>4. \A i \in O : i < m + 1 <=> i < p \/ i = p
  <2> SUFFICES ASSUME NEW i \in O, i < m + 1, ~(i < p) PROVE i = p
    BY <1>1, <1>3
  <2>1. i \in Int /\ p \in Int
    BY <1>1, <1>3
  <2>2. i \notin p + 1 .. m
    BY <1>3
  <2> QED
    BY <2>1, <2>2
<1> DEFINE x(i) == AnyOf(MadeAt(fields, words, i))
<1>5. /\ ValueAt(fields, words, vals, cell, p) = IF S = {} THEN vals[cell] ELSE x(Latest(S))
      /\ ValueAt(fields, words, vals, cell, m + 1) = IF T = {} THEN vals[cell] ELSE x(Latest(T))
  BY Zenon DEF ValueAt, S, T
<1> HIDE DEF x
<1>6. CASE A(p)
  <2>1. p \in Int /\ p < m + 1
    BY <1>1, <1>3
  <2>2. p \in T
    BY <1>2, <1>3, <1>6, <2>1
  <2>3. T \subseteq Int /\ \A j \in T : j < p \/ j = p
    BY <1>1, <1>2, <1>4
  <2>4. \A j \in T : j <= p
    BY <2>1, <2>3
  <2>5. Latest(T) = p
    BY <2>1, <2>2, <2>3, <2>4, LatestIs
  <2>6. ValueAt(fields, words, vals, cell, m + 1) = x(p)
    BY <1>5, <2>2, <2>5, Zenon
  <2> QED
    BY <1>6, <2>6, Zenon DEF A, x
<1>7. CASE ~A(p)
  <2>1. S = T
    BY <1>1, <1>2, <1>3, <1>4, <1>7
  <2>2. ValueAt(fields, words, vals, cell, m + 1) = ValueAt(fields, words, vals, cell, p)
    BY <1>5, <2>1
  <2> QED
    BY <1>7, <2>2, Zenon DEF A
<1> QED
  BY <1>6, <1>7

LEMMA ValueFirst ==
  ASSUME NEW fields, NEW words \in Seq(Word), NEW vals, NEW cell
  PROVE  ValueAt(fields, words, vals, cell, 2) = vals[cell]
<1>1. Sets(fields, words, cell, 2) = {}
  BY LenProperties DEF Sets, OptionPlaces
<1> QED
  BY <1>1 DEF ValueAt

LEMMA StoredCell ==
  ASSUME NEW store \in Stores, NEW c, NEW made, NEW cell \in Cells
  PROVE  (IF made # {} THEN Updated(store, c, made) ELSE store)[cell] =
           IF c = cell /\ made # {} THEN AnyOf(made) ELSE store[cell]
<1>1. DOMAIN store = Cells
  BY DEF Stores, Cells, FirstStore
<1> DEFINE x == AnyOf(made)
<1>2. Updated(store, c, made) = [store EXCEPT ![c] = x]
  BY Zenon DEF Updated, AnyOf
<1> HIDE DEF x
<1>3. [store EXCEPT ![c] = x][cell] = IF c = cell THEN x ELSE store[cell]
  BY <1>1
<1>4. (IF made # {} THEN Updated(store, c, made) ELSE store)[cell]
         = IF c = cell /\ made # {} THEN x ELSE store[cell]
  BY <1>2, <1>3
<1> QED
  BY <1>4, Zenon DEF x

(* Whether a line is accepted or not, other variables than those of the    *)
(* command's options are left alone.                                       *)
LEMMA OwnPass ==
  ASSUME NEW fields \in Seq(Option), NEW t \in Parsing(fields), NEW cell \in Cells,
         \A i \in DOMAIN fields : fields[i].cell # cell
  PROVE  TakeOption(t).store[cell] = t.store[cell]
<1> DEFINE f == Named(fields, Tail(Head(t.rest)))
           u == Take(fields[f].type, Tail(t.rest))
<1>1. t.fields = fields /\ t.store \in Stores
  BY DEF Parsing
<1>2. Refused(t).store = t.store
  BY DEF Parsing, Refused
<1>3. TakeOption(t) \in {t, Refused(t)} \/ (f # 0 /\ TakeOption(t) = NextOption(t, f, u))
  BY <1>1, Zenon DEF TakeOption, WithOption
<1>4. f # 0 => f \in DOMAIN fields
  BY NamedIs, LenProperties
<1> HIDE DEF f, u
<1>5. ASSUME f # 0 PROVE NextOption(t, f, u).store[cell] = t.store[cell]
  <2> DEFINE c == fields[f].cell
             made == u.vals
             store == t.store
  <2>1. NextOption(t, f, u).store = Stored(t, c, made) /\ c # cell
    BY <1>1, <1>4, <1>5, NextOptionIs
  <2>2. Stored(t, c, made) = store
        \/ Stored(t, c, made) = IF made # {} THEN Updated(store, c, made) ELSE store
    BY Zenon DEF Stored
  <2>3. store \in Stores
    BY <1>1
  <2> HIDE DEF c, made, store
  <2>4. (IF made # {} THEN Updated(store, c, made) ELSE store)[cell] = store[cell]
    BY <2>1, <2>3, StoredCell
  <2>5. Stored(t, c, made)[cell] = store[cell]
    BY <2>2, <2>4, Zenon
  <2> QED
    BY <2>1, <2>5, Zenon DEF store
<1> QED
  BY <1>2, <1>3, <1>5

LEMMA UpdateOwn ==
  ASSUME NEW fields \in Seq(Option), NEW words \in Seq(Word), NEW store \in Stores,
         NEW n_update \in BOOLEAN, NEW cell \in Cells,
         \A i \in DOMAIN fields : fields[i].cell # cell
  PROVE  update_cmd_int(words, fields, store, n_update).store[cell] = store[cell]
<1> DEFINE I == {p \in Parsing(fields) \X Nat : p[1].store[cell] = store[cell]}
           s == First(words, fields, store, n_update)
<1>1. <<s, 0>> \in I
  BY DEF First, Parsing
<1>2. ASSUME NEW t, NEW k \in 0 .. Len(words) - 1, <<t, k>> \in I
      PROVE  <<TakeOption(t), k + 1>> \in I
  BY <1>2, OptionType, OwnPass
<1>3. <<Options!Repeat(s, Len(words)), Len(words)>> \in I
  <2>1. Len(words) \in Nat
    BY LenProperties
  <2> HIDE DEF I, s
  <2> QED
    BY <1>1, <1>2, <2>1, Options!Invariant
<1>4. update_cmd_int(words, fields, store, n_update) = Options!Repeat(s, Len(words))
  BY Zenon DEF update_cmd_int, First
<1> HIDE DEF s
<1> QED
  BY <1>3, <1>4

(* The loop is before an option, or behind the last one, and has set what  *)
(* the options before say; or it is about to refuse the line, or has.      *)
OnItsWay(fields, words, vals, u) ==
  {pair \in {s \in Parsing(fields) : s.n_update = u} \X Nat :
     \E p \in OptionPlaces(words) \cup {Len(words) + 1} :
       /\ p >= pair[2] + 2 \/ p = Len(words) + 1
       /\ pair[1].ok /\ pair[1].rest = Behind(words, p)
       /\ Len(words) > 1 => 2 \in OptionPlaces(words)
       /\ \A i \in OptionPlaces(words) : i < p => GoodAt(fields, words, i)
       /\ u => \A cell \in Cells :
                 pair[1].store[cell] = ValueAt(fields, words, vals, cell, p)}
Doomed(fields, words, u) ==
  {pair \in {s \in Parsing(fields) : s.n_update = u} \X Nat :
     /\ ~GoodOptions(fields, words)
     /\ \/ ~pair[1].ok
        \/ \E q \in 2 .. Len(words) : /\ q >= pair[2] + 2 /\ ~IsOption(words[q])
                                      /\ pair[1].ok /\ pair[1].rest = Behind(words, q)}

LEMMA DoomedOn ==
  ASSUME NEW fields \in Seq(Option), NEW words \in Seq(Word), NEW u \in BOOLEAN,
         NEW s, NEW k \in Nat, <<s, k>> \in Doomed(fields, words, u)
  PROVE  <<TakeOption(s), k + 1>> \in Doomed(fields, words, u)
<1> DEFINE r == TakeOption(s)
<1>1. s \in Parsing(fields) /\ s.n_update = u /\ ~GoodOptions(fields, words)
  BY DEF Doomed
<1>2. r \in Parsing(fields) /\ r.n_update = u
  BY <1>1, OptionType
<1>3. ~r.ok
  <2>1. CASE ~s.ok
    <3>1. r = s
      BY <2>1, Zenon DEF TakeOption
    <3> QED
      BY <2>1, <3>1
  <2>2. CASE s.ok
    <3>1. PICK q \in 2 .. Len(words) : ~IsOption(words[q]) /\ s.rest = Behind(words, q)
      BY <2>2 DEF Doomed
    <3>2. s.rest # <<>> /\ Head(s.rest) = words[q]
      <4>1. q \in 1 .. Len(words)
        BY LenProperties
      <4> DEFINE l == Len(words) - q + 1
      <4>2. BehindFacts(words, q, l)
        BY <4>1, BehindIs, Zenon
      <4> QED
        BY <3>1, <4>2, Zenon DEF BehindFacts
    <3>3. r = Refused(s)
      BY <2>2, <3>1, <3>2, Zenon DEF TakeOption
    <3>4. ~Refused(s).ok
      BY <1>1 DEF Refused, Parsing
    <3> QED
      BY <3>3, <3>4, Zenon
  <2> QED
    BY <2>1, <2>2
<1> HIDE DEF r
<1>4. <<r, k + 1>> \in Doomed(fields, words, u)
  BY <1>1, <1>2, <1>3 DEF Doomed
<1> QED
  BY <1>4 DEF r

LEMMA OnePassOn ==
  ASSUME NEW fields \in Seq(Option), NEW words \in Seq(Word), NEW vals, NEW u \in BOOLEAN,
         NEW s, NEW k \in Nat, <<s, k>> \in OnItsWay(fields, words, vals, u)
  PROVE  <<TakeOption(s), k + 1>> \in OnItsWay(fields, words, vals, u) \cup Doomed(fields, words, u)
<1> DEFINE r == TakeOption(s)
           n == Len(words)
           O == OptionPlaces(words)
           Before(p) == \A i \in O : i < p => GoodAt(fields, words, i)
           Set(t, p) == u => \A cell \in Cells : t.store[cell] = ValueAt(fields, words, vals, cell, p)
           At(t, l, p) == /\ p >= l + 2 \/ p = n + 1
                          /\ t.ok /\ t.rest = Behind(words, p) /\ Before(p) /\ Set(t, p)
           Two == n > 1 => 2 \in O
<1>1. /\ s \in Parsing(fields) /\ s.n_update = u /\ Two
      /\ \E p \in O \cup {n + 1} : At(s, k, p)
  BY DEF OnItsWay
<1>2. r \in Parsing(fields) /\ r.n_update = u
  BY <1>1, OptionType
<1>3. n \in Nat /\ O \subseteq 2 .. n
  BY LenProperties DEF OptionPlaces
<1>4. \A t, l, p : /\ t \in Parsing(fields) /\ t.n_update = u /\ l \in Nat
                   /\ p \in O \cup {n + 1} /\ At(t, l, p)
                   => <<t, l>> \in OnItsWay(fields, words, vals, u)
  BY <1>1 DEF OnItsWay
<1>5. PICK p \in O \cup {n + 1} : At(s, k, p)
  BY <1>1
<1> HIDE DEF r, n, Before, Set, Two
<1>6. CASE p = n + 1
  <2>1. s.rest = <<>>
    <3>1. Behind(words, n + 1) = <<>>
      BY <1>3, SubSeqEmpty DEF Behind, n
    <3> QED
      BY <1>5, <1>6, <3>1
  <2>2. r = s
    BY <2>1, Zenon DEF TakeOption, r
  <2>3. At(s, k + 1, p)
    BY <1>5, <1>6
  <2>4. k + 1 \in Nat
    OBVIOUS
  <2> HIDE DEF At
  <2>5. <<s, k + 1>> \in OnItsWay(fields, words, vals, u)
    BY <1>1, <1>4, <2>3, <2>4, Zenon
  <2> QED
    BY <2>2, <2>5 DEF r
<1>7. CASE p \in O
  <2>1. PICK m : Span(words, p, m) /\ ValuesAt(words, p) = SubSeq(words, p + 1, m)
    BY <1>7, SpanOf
  <2> DEFINE o == OptionOf(fields, words, p)
             made == Made(o.type, ValuesAt(words, p))
  <2>2. IF GoodAt(fields, words, p)
        THEN /\ m \in p + 1 .. n /\ o \in Option /\ ComesTo(r, s, words, m + 1)
             /\ r.store = Stored(s, o.cell, made)
        ELSE ~r.ok \/ \E q \in p + 2 .. m : ComesTo(r, s, words, q)
    BY <1>1, <1>5, <1>7, <2>1, OnePass, Zenon DEF r, n
  <2>3. /\ p \in 2 .. n /\ m \in p .. n
        /\ \A q \in p + 1 .. m : q \notin O
        /\ \A q \in p + 2 .. m : ~IsOption(words[q])
        /\ m < n => m + 1 \in O
    BY <1>3, <1>7, <2>1 DEF Span, n
  <2>4. p >= k + 2
    BY <1>3, <1>5, <2>3
  <2> HIDE DEF o, made
  <2>5. CASE GoodAt(fields, words, p)
    <3>1. /\ m \in p + 1 .. n /\ o \in Option /\ r.ok /\ r.rest = Behind(words, m + 1)
          /\ r.store = Stored(s, o.cell, made)
      BY <2>2, <2>5 DEF ComesTo
    <3>2. m + 1 >= (k + 1) + 2 /\ m \in Int /\ m >= p /\ m + 1 \in O \cup {n + 1}
      BY <1>3, <2>3, <2>4, <3>1
    <3>3. Before(m + 1)
      <4> SUFFICES ASSUME NEW i \in O, i < m + 1 PROVE GoodAt(fields, words, i)
        BY DEF Before
      <4>1. i \in Int /\ p \in Int /\ i \notin p + 1 .. m
        BY <1>3, <2>3
      <4>2. i < p \/ i = p
        BY <3>2, <4>1
      <4> QED
        BY <1>5, <2>5, <4>2 DEF Before
    <3>4. Set(r, m + 1)
      <4> SUFFICES ASSUME u, NEW cell \in Cells
                   PROVE  r.store[cell] = ValueAt(fields, words, vals, cell, m + 1)
        BY DEF Set
      <4>1. s.store[cell] = ValueAt(fields, words, vals, cell, p)
        BY <1>5 DEF Set
      <4>2. s.n_update /\ s \in Parsing(fields) /\ o \in Option /\ cell \in Cells
        BY <1>1, <3>1
      <4>3. Stored(s, o.cell, made)[cell] = IF o.cell = cell /\ made # {} THEN AnyOf(made) ELSE s.store[cell]
        <5> DEFINE store == s.store
                   c == o.cell
        <5>1. store \in Stores
          BY <4>2 DEF Parsing
        <5>2. Stored(s, c, made) = IF made # {} THEN Updated(store, c, made) ELSE store
          BY <4>2, Zenon DEF Stored
        <5> HIDE DEF store, c
        <5>3. Stored(s, c, made)[cell] = IF c = cell /\ made # {} THEN AnyOf(made) ELSE store[cell]
          BY <4>2, <5>1, <5>2, StoredCell
        <5> QED
          BY <5>3, Zenon DEF store, c
      <4>4. ValueAt(fields, words, vals, cell, m + 1) =
              IF OptionOf(fields, words, p).cell = cell /\ MadeAt(fields, words, p) # {}
              THEN AnyOf(MadeAt(fields, words, p))
              ELSE ValueAt(fields, words, vals, cell, p)
        <5>1. p \in OptionPlaces(words) /\ m \in Int /\ m >= p
          BY <1>7, <3>2
        <5>2. \A q \in p + 1 .. m : q \notin OptionPlaces(words)
          BY <2>3
        <5> QED
          BY <5>1, <5>2, ValueNext
      <4>5. MadeAt(fields, words, p) = made /\ OptionOf(fields, words, p) = o
        BY Zenon DEF MadeAt, made, o
      <4>6. ValueAt(fields, words, vals, cell, m + 1) =
              IF o.cell = cell /\ made # {} THEN AnyOf(made) ELSE ValueAt(fields, words, vals, cell, p)
        BY <4>4, <4>5
      <4> QED
        BY <3>1, <4>1, <4>3, <4>6
    <3>5. At(r, k + 1, m + 1) /\ k + 1 \in Nat
      BY <3>1, <3>2, <3>3, <3>4
    <3> HIDE DEF At
    <3> QED
      BY <1>2, <1>4, <3>2, <3>5, Zenon DEF r
  <2>6. CASE ~GoodAt(fields, words, p)
    <3>1. ~GoodOptions(fields, words)
      BY <1>7, <2>6, Zenon DEF GoodOptions
    <3>2. \/ ~r.ok
          \/ \E q \in 2 .. Len(words) : /\ q >= (k + 1) + 2 /\ ~IsOption(words[q])
                                        /\ r.ok /\ r.rest = Behind(words, q)
      <4>1. ASSUME NEW q \in p + 2 .. m, ComesTo(r, s, words, q)
            PROVE  \E l \in 2 .. Len(words) : /\ l >= (k + 1) + 2 /\ ~IsOption(words[l])
                                              /\ r.ok /\ r.rest = Behind(words, l)
        <5>1. q \in 2 .. Len(words) /\ q >= (k + 1) + 2 /\ ~IsOption(words[q])
          BY <1>3, <2>3, <2>4 DEF n
        <5> QED
          BY <4>1, <5>1 DEF ComesTo
      <4> QED
        BY <2>2, <2>6, <4>1
    <3>3. <<r, k + 1>> \in Doomed(fields, words, u)
      BY <1>2, <3>1, <3>2 DEF Doomed
    <3> QED
      BY <3>3 DEF r
  <2> QED
    BY <2>5, <2>6
<1> QED
  BY <1>6, <1>7

(* The parser's loop accepts just the lines whose options are good, and    *)
(* leaves in each variable what the last of its options says.              *)
LEMMA Parsed ==
  ASSUME NEW fields \in Seq(Option), NEW words \in Seq(Word), words # <<>>,
         NEW vals \in Stores, NEW u \in BOOLEAN
  PROVE  LET r == update_cmd_int(Tail(words), fields, vals, u)
         IN /\ r.ok <=> GoodOptions(fields, words)
            /\ r.ok /\ u => \A cell \in Cells :
                 r.store[cell] = ValueAt(fields, words, vals, cell, Len(words) + 1)
<1> DEFINE n == Len(words)
           O == OptionPlaces(words)
           w == Tail(words)
           s == First(w, fields, vals, u)
           Way == OnItsWay(fields, words, vals, u)
           Doom == Doomed(fields, words, u)
           I == Way \cup Doom
           r == Options!Repeat(s, n - 1)
<1>1. n \in Nat /\ n > 0 /\ w \in Seq(Word) /\ Len(w) = n - 1 /\ w = Behind(words, 2)
  BY Pop, TailIsSubSeq DEF Behind
<1>2. O \subseteq 2 .. n /\ (n > 1 => (2 \in O <=> IsOption(words[2])))
  BY <1>1, PlaceFirst DEF OptionPlaces
<1>3. /\ s \in Parsing(fields) /\ s.n_update = u /\ s.ok /\ s.rest = w /\ s.store = vals
  BY <1>1 DEF First, Parsing
<1> HIDE DEF w, s, n, r
<1>4. <<s, 0>> \in I
  <2>1. CASE n = 1 \/ 2 \in O
    <3>1. 2 \in O \cup {n + 1} /\ (n > 1 => 2 \in O)
      BY <1>1, <2>1
    <3>2. \A i \in O : ~(i < 2)
      BY <1>1, <1>2
    <3>3. \A cell \in Cells : s.store[cell] = ValueAt(fields, words, vals, cell, 2)
      BY <1>3, ValueFirst
    <3>4. <<s, 0>> \in Way
      BY <1>1, <1>3, <3>1, <3>2, <3>3 DEF OnItsWay, n
    <3> QED
      BY <3>4
  <2>2. CASE n > 1 /\ 2 \notin O
    <3>1. ~GoodOptions(fields, words)
      BY <2>2 DEF GoodOptions, n
    <3>2. 2 \in 2 .. n /\ 2 >= 0 + 2 /\ ~IsOption(words[2])
      BY <1>1, <1>2, <2>2
    <3>3. <<s, 0>> \in Doom
      BY <1>1, <1>3, <3>1, <3>2 DEF Doomed, n
    <3> QED
      BY <3>3
  <2> QED
    BY <1>1, <2>1, <2>2
<1>5. \A t : \A k \in 0 .. (n - 1) - 1 : <<t, k>> \in I => <<TakeOption(t), k + 1>> \in I
  <2> SUFFICES ASSUME NEW t, NEW k \in 0 .. (n - 1) - 1, <<t, k>> \in I
               PROVE  <<TakeOption(t), k + 1>> \in I
    OBVIOUS
  <2>1. k \in Nat
    BY <1>1
  <2>2. <<t, k>> \in Way => <<TakeOption(t), k + 1>> \in Way \cup Doom
    BY <2>1, OnePassOn
  <2>3. <<t, k>> \in Doom => <<TakeOption(t), k + 1>> \in Doom
    BY <2>1, DoomedOn
  <2> QED
    BY <2>2, <2>3
<1>6. <<r, n - 1>> \in I
  <2> DEFINE l == n - 1
  <2>1. l \in Nat /\ \A t : \A k \in 0 .. l - 1 : <<t, k>> \in I => <<TakeOption(t), k + 1>> \in I
    BY <1>1, <1>5
  <2> HIDE DEF I, l
  <2>2. <<Options!Repeat(s, l), l>> \in I
    BY <1>4, <2>1, Options!Invariant
  <2> QED
    BY <2>2 DEF r, l
<1>7. ASSUME <<r, n - 1>> \in Way
      PROVE  /\ r.ok /\ GoodOptions(fields, words)
             /\ u => \A cell \in Cells : r.store[cell] = ValueAt(fields, words, vals, cell, n + 1)
  <2>1. PICK p \in O \cup {n + 1} :
          /\ p >= (n - 1) + 2 \/ p = n + 1
          /\ r.ok
          /\ n > 1 => 2 \in O
          /\ \A i \in O : i < p => GoodAt(fields, words, i)
          /\ u => \A cell \in Cells : r.store[cell] = ValueAt(fields, words, vals, cell, p)
    BY <1>7 DEF OnItsWay, n
  <2>2. p = n + 1 /\ \A i \in O : i < n + 1
    BY <1>1, <1>2, <2>1
  <2>3. GoodOptions(fields, words)
    BY <2>1, <2>2 DEF GoodOptions, n
  <2>4. /\ r.ok /\ GoodOptions(fields, words)
        /\ u => \A cell \in Cells : r.store[cell] = ValueAt(fields, words, vals, cell, n + 1)
    BY <2>1, <2>2, <2>3
  <2> QED
    BY <2>4
<1>8. ASSUME <<r, n - 1>> \in Doom
      PROVE  ~GoodOptions(fields, words) /\ ~r.ok
  <2>1. /\ ~GoodOptions(fields, words)
        /\ ~r.ok \/ \E q \in 2 .. n : q >= (n - 1) + 2
    BY <1>8 DEF Doomed, n
  <2> QED
    BY <1>1, <2>1
<1>9. /\ r.ok <=> GoodOptions(fields, words)
      /\ r.ok /\ u => \A cell \in Cells : r.store[cell] = ValueAt(fields, words, vals, cell, n + 1)
  <2> HIDE DEF Way, Doom
  <2>1. CASE <<r, n - 1>> \in Way
    <3>1. /\ r.ok /\ GoodOptions(fields, words)
          /\ u => \A cell \in Cells : r.store[cell] = ValueAt(fields, words, vals, cell, n + 1)
      BY <1>7, <2>1
    <3> QED
      BY <3>1
  <2>2. CASE <<r, n - 1>> \in Doom
    <3>1. ~GoodOptions(fields, words) /\ ~r.ok
      BY <1>8, <2>2
    <3> QED
      BY <3>1
  <2> QED
    BY <1>6, <2>1, <2>2
<1>10. update_cmd_int(w, fields, vals, u) = r
  <2>1. update_cmd_int(w, fields, vals, u) = Options!Repeat(s, Len(w))
    BY Zenon DEF update_cmd_int, First, s
  <2> QED
    BY <1>1, <2>1, Zenon DEF r
<1> QED
  BY <1>9, <1>10, Zenon DEF w, n
-----------------------------------------------------------------------------
(* The value of an option is the one that the line means. *)

(* What FlattenSeq returns, if g are the joined beginnings.                *)
Accumulated(g, seqs, n) ==
  /\ n \in Nat /\ n > 0 /\ Len(seqs) = n
  /\ g[1] = seqs[1] /\ \A i \in 2 .. n : g[i] = g[i - 1] \o seqs[i]

LEMMA FlattenIs ==
  ASSUME NEW seqs, NEW n, NEW g, Accumulated(g, seqs, n)
  PROVE  FlattenSeq(seqs) = g[n]
<1> DEFINE D(f) == [i \in 1 .. Len(seqs) |-> IF i = 1 THEN seqs[i] ELSE f[i - 1] \o seqs[i]]
           h == [i \in 1 .. n |-> g[i]]
           c == CHOOSE f : f = D(f)
           S == {k \in Nat : k < n => c[k + 1] = g[k + 1]}
<1>0. /\ n \in Nat /\ n > 0 /\ Len(seqs) = n
      /\ g[1] = seqs[1] /\ \A i \in 2 .. n : g[i] = g[i - 1] \o seqs[i]
  BY DEF Accumulated
<1> USE <1>0
<1>1. h = D(h)
  <2>1. ASSUME NEW i \in 1 .. n PROVE h[i] = IF i = 1 THEN seqs[i] ELSE h[i - 1] \o seqs[i]
    <3>1. CASE i = 1
      BY <3>1
    <3>2. CASE i # 1
      <4>1. i \in 2 .. n /\ i - 1 \in 1 .. n
        BY <3>2
      <4>2. h[i] = g[i] /\ h[i - 1] = g[i - 1] /\ g[i] = g[i - 1] \o seqs[i]
        BY <4>1
      <4> QED
        BY <3>2, <4>2
    <3> QED
      BY <3>1, <3>2
  <2> DEFINE V(i) == IF i = 1 THEN seqs[i] ELSE h[i - 1] \o seqs[i]
  <2>2. D(h) = [i \in 1 .. n |-> V(i)]
    OBVIOUS
  <2>3. \A i \in 1 .. n : h[i] = V(i)
    BY <2>1
  <2>4. h = [i \in 1 .. n |-> V(i)]
    <3>1. \A i \in 1 .. n : g[i] = V(i)
      <4> HIDE DEF V
      <4> QED
        BY <2>3
    <3> HIDE DEF V
    <3> QED
      BY <3>1
  <2> QED
    BY <2>2, <2>4
<1>2. c = D(c)
  <2> HIDE DEF h, D
  <2> QED
    BY <1>1
<1>3. FlattenSeq(seqs) = c[n]
  BY DEF FlattenSeq
<1> HIDE DEF c
<1>4. /\ c[1] = seqs[1]
      /\ \A i \in 2 .. n : c[i] = c[i - 1] \o seqs[i]
  <2>1. \A i \in 1 .. n : c[i] = IF i = 1 THEN seqs[i] ELSE c[i - 1] \o seqs[i]
    BY <1>2
  <2>2. 1 \in 1 .. n /\ \A i \in 2 .. n : i \in 1 .. n /\ i # 1
    OBVIOUS
  <2> QED
    BY <2>1, <2>2
<1>5. 0 \in S
  BY <1>4
<1>6. ASSUME NEW k \in Nat, k \in S PROVE k + 1 \in S
  <2> SUFFICES ASSUME k + 1 < n PROVE c[(k + 1) + 1] = g[(k + 1) + 1]
    BY <1>6
  <2>1. c[k + 1] = g[k + 1]
    BY <1>6
  <2> DEFINE i == k + 2
  <2>2. i \in 2 .. n /\ i - 1 = k + 1 /\ (k + 1) + 1 = i
    OBVIOUS
  <2> HIDE DEF i
  <2>3. c[i] = c[i - 1] \o seqs[i] /\ g[i] = g[i - 1] \o seqs[i]
    BY <1>4, <2>2
  <2>4. c[i - 1] = g[i - 1]
    BY <2>1, <2>2
  <2> QED
    BY <2>2, <2>3, <2>4
<1>7. n - 1 \in S
  <2>1. Nat \subseteq S
    <3> HIDE DEF S
    <3> QED
      BY <1>5, <1>6, Words!Induction
  <2> QED
    BY <2>1
<1>8. c[n] = g[n]
  BY <1>7
<1> QED
  BY <1>3, <1>8

(* Words joined in a loop, with blanks between them. *)
LEMMA JoinedIs ==
  ASSUME NEW v \in Seq(Word), v # <<>>
  PROVE  Joined(v) = ValueMeant(CFT_TXT, v)
<1> DEFINE n == Len(v)
           first == [text |-> Head(v), rest |-> Tail(v)]
           At(k) == Joining!Repeat(first, k)
           T(k) == At(k).text
           seqs == [i \in 1 .. 2 * n - 1 |-> IF i % 2 = 1 THEN v[(i + 1) \div 2] ELSE <<Blank>>]
           g == [i \in 1 .. 2 * n - 1 |->
                  IF i % 2 = 1 THEN T((i - 1) \div 2) ELSE T(i \div 2 - 1) \o <<Blank>>]
           S == {k \in Nat : k < n => At(k).rest = Behind(v, k + 2)}
<1>1. n \in Nat /\ n > 0 /\ Head(v) = v[1] /\ Tail(v) = Behind(v, 2)
  BY Pop, TailIsSubSeq DEF Behind
<1>2. At(0) = first /\ \A k \in Nat : At(k + 1) = NextJoined(At(k))
  <2> HIDE DEF first
  <2> QED
    BY Joining!Unfold
<1>3. T(0) = v[1] /\ At(0).rest = Behind(v, 2)
  <2>1. first.text = v[1] /\ first.rest = Behind(v, 2)
    BY <1>1
  <2> HIDE DEF first
  <2> QED
    BY <1>2, <2>1, Zenon
<1> HIDE DEF first, n, At
<1>4. \A k \in Nat : /\ T(k + 1) = (T(k) \o <<Blank>>) \o Head(At(k).rest)
                     /\ At(k + 1).rest = Tail(At(k).rest)
  <2> SUFFICES ASSUME NEW k \in Nat
               PROVE  /\ T(k + 1) = (T(k) \o <<Blank>>) \o Head(At(k).rest)
                      /\ At(k + 1).rest = Tail(At(k).rest)
    OBVIOUS
  <2> DEFINE s == At(k)
             a == (s.text \o <<Blank>>) \o Head(s.rest)
             b == Tail(s.rest)
  <2>1. At(k + 1) = [text |-> a, rest |-> b]
    BY <1>2, Zenon DEF NextJoined
  <2> HIDE DEF a, b
  <2>2. At(k + 1).text = a /\ At(k + 1).rest = b
    BY <2>1
  <2> QED
    BY <2>2 DEF a, b
<1>5. \A k \in Nat : k + 1 < n => /\ Head(Behind(v, k + 2)) = v[k + 2]
                                  /\ Tail(Behind(v, k + 2)) = Behind(v, k + 3)
  <2> SUFFICES ASSUME NEW k \in Nat, k + 1 < n
               PROVE  /\ Head(Behind(v, k + 2)) = v[k + 2]
                      /\ Tail(Behind(v, k + 2)) = Behind(v, k + 3)
    OBVIOUS
  <2> DEFINE p == k + 1
             q == p + 1
             d == Len(v) - p
  <2>1. p \in Nat /\ p < Len(v) /\ q = k + 2 /\ p + 2 = k + 3
    BY <1>1 DEF n
  <2> HIDE DEF p
  <2>2. AfterFacts(v, p, d)
    BY <2>1, WordsAfter
  <2>3. Head(Behind(v, q)) = v[q] /\ Tail(Behind(v, q)) = Behind(v, p + 2)
    BY <2>2, Zenon DEF AfterFacts
  <2> QED
    BY <2>1, <2>3
<1>6. Nat \subseteq S
  <2>1. 0 \in S
    BY <1>3
  <2>2. ASSUME NEW k \in Nat, k \in S PROVE k + 1 \in S
    <3> SUFFICES ASSUME k + 1 < n PROVE At(k + 1).rest = Behind(v, (k + 1) + 2)
      OBVIOUS
    <3>1. At(k).rest = Behind(v, k + 2) /\ (k + 1) + 2 = k + 3
      BY <1>1, <2>2
    <3> QED
      BY <1>4, <1>5, <3>1
  <2> HIDE DEF S
  <2> QED
    BY <2>1, <2>2, Words!Induction
<1>7. \A k \in Nat : k + 1 < n => T(k + 1) = (T(k) \o <<Blank>>) \o v[k + 2]
  <2> SUFFICES ASSUME NEW k \in Nat, k + 1 < n PROVE T(k + 1) = (T(k) \o <<Blank>>) \o v[k + 2]
    OBVIOUS
  <2>1. At(k).rest = Behind(v, k + 2)
    BY <1>1, <1>6
  <2> QED
    BY <1>4, <1>5, <2>1
<1> HIDE DEF S, T
<1> DEFINE m == 2 * n - 1
<1>8. m \in Nat /\ m > 0 /\ 1 \in 1 .. m /\ m % 2 = 1 /\ (m - 1) \div 2 = n - 1
  BY <1>1
<1>9. Len(seqs) = m
  BY <1>8
<1>10. g[1] = seqs[1]
  BY <1>3, <1>8 DEF T
<1>11. ASSUME NEW i \in 2 .. m PROVE g[i] = g[i - 1] \o seqs[i]
  <2>1. i \in 1 .. m /\ i - 1 \in 1 .. m
    BY <1>8
  <2>2. CASE i % 2 = 1
    <3> DEFINE k == (i - 1) \div 2 - 1
    <3>1. /\ k \in Nat /\ k + 1 < n /\ (i - 1) % 2 # 1
          /\ (i - 1) \div 2 = k + 1 /\ (i + 1) \div 2 = k + 2
      BY <1>1, <2>2
    <3> HIDE DEF k
    <3>2. g[i] = T(k + 1) /\ g[i - 1] = T(k) \o <<Blank>> /\ seqs[i] = v[k + 2]
      <4>1. (k + 1) - 1 = k
        BY <3>1
      <4> QED
        BY <2>1, <2>2, <3>1, <4>1
    <3> QED
      BY <1>7, <3>1, <3>2
  <2>3. CASE i % 2 # 1
    <3> DEFINE k == i \div 2 - 1
    <3>1. k \in Nat /\ (i - 1) % 2 = 1 /\ ((i - 1) - 1) \div 2 = k
      BY <1>1, <2>3
    <3> HIDE DEF k
    <3>2. g[i] = T(k) \o <<Blank>> /\ g[i - 1] = T(k) /\ seqs[i] = <<Blank>>
      BY <2>1, <2>3, <3>1 DEF k
    <3> QED
      BY <3>2
  <2> QED
    BY <2>2, <2>3
<1>12. g[m] = T(n - 1)
  BY <1>8
<1> HIDE DEF g, m, seqs
<1>13. FlattenSeq(seqs) = T(n - 1)
  <2>1. Accumulated(g, seqs, m)
    BY <1>8, <1>9, <1>10, <1>11 DEF Accumulated
  <2> QED
    BY <1>12, <2>1, FlattenIs, Zenon
<1>14. ValueMeant(CFT_TXT, v) = FlattenSeq(seqs)
  <2>1. \A x, y, z, t : (CASE t = CFT_NUM -> x [] t = CFT_TXT -> y [] OTHER -> z)
                          = IF t = CFT_NUM THEN x ELSE IF t = CFT_TXT THEN y ELSE z
    BY DEF CFT_NUM, CFT_TXT
  <2>2. CFT_TXT # CFT_NUM
    BY DEF CFT_NUM, CFT_TXT
  <2> QED
    BY <2>1, <2>2, Zenon DEF ValueMeant, seqs, n
<1>15. Joined(v) = T(n - 1)
  BY Zenon DEF Joined, T, At, first, n
<1> QED
  BY <1>13, <1>14, <1>15

(* Adding what a sequence goes on with.                                    *)
LEMMA GoesOn ==
  ASSUME NEW S, NEW F(_), NEW a \in Nat, NEW b \in Nat, \A j \in 1 .. a + b : F(j) \in S,
         NEW t \in Seq(S), Len(t) = b, \A j \in 1 .. b : t[j] = F(a + j)
  PROVE  [j \in 1 .. a + b |-> F(j)] = [j \in 1 .. a |-> F(j)] \o t
<1> DEFINE s == [j \in 1 .. a |-> F(j)]
           u == [j \in 1 .. a + b |-> F(j)]
           w == s \o t
<1>1. s \in Seq(S) /\ Len(s) = a /\ \A j \in 1 .. a : s[j] = F(j)
  <2>1. \A j \in 1 .. a : F(j) \in S
    OBVIOUS
  <2> QED
    BY <2>1, IsASeq
<1>2. u \in Seq(S) /\ Len(u) = a + b /\ \A j \in 1 .. a + b : u[j] = F(j)
  BY IsASeq
<1> HIDE DEF s, u
<1>3. /\ w \in Seq(S) /\ Len(w) = a + b
      /\ \A j \in 1 .. a + b : w[j] = IF j <= a THEN s[j] ELSE t[j - a]
  BY <1>1, ConcatProperties
<1> HIDE DEF w
<1>4. ASSUME NEW j \in 1 .. a + b PROVE u[j] = w[j]
  <2>1. CASE j <= a
    BY <1>1, <1>2, <1>3, <2>1
  <2>2. CASE ~(j <= a)
    <3>1. j - a \in 1 .. b /\ a + (j - a) = j
      BY <2>2
    <3>2. t[j - a] = F(j)
      BY <3>1
    <3> QED
      BY <1>2, <1>3, <2>2, <3>2
  <2> QED
    BY <2>1, <2>2
<1>5. u = w
  BY <1>2, <1>3, <1>4, SeqEqual
<1> QED
  BY <1>5 DEF u, w, s

(* The bytes of a buffer are those of its values one after the other.      *)
FirstOf(good, v, n) == /\ n \in 0 .. Len(v) /\ DOMAIN good = 1 .. n
                       /\ \A i \in 1 .. n : good[i] = v[i]

LEMMA RawIs ==
  ASSUME NEW v \in Seq(Word), NEW width \in {1, 2}, NEW n, NEW good, FirstOf(good, v, n)
  PROVE  RawBytes(v, n, width)
           = FlattenSeq([i \in DOMAIN good |-> Bytes(ScanD(good[i], width).val, width)])
<1> DEFINE V(i) == ScanD(v[i], width).val
           B(i) == Bytes(V(i), width)
           F(j) == ByteOf(V((j - 1) \div width + 1), (j - 1) % width)
           seqs == [i \in 1 .. n |-> B(i)]
           g == [i \in 1 .. n |-> RawBytes(v, i, width)]
<1>1. n \in Nat /\ Len(v) \in Nat /\ \A i \in 1 .. n : i \in 1 .. Len(v)
  BY LenProperties DEF FirstOf
<1>2. [i \in DOMAIN good |-> Bytes(ScanD(good[i], width).val, width)] = seqs
  BY DEF FirstOf
<1>3. \A i \in Nat : RawBytes(v, i, width) = [j \in 1 .. i * width |-> F(j)]
  BY DEF RawBytes
<1>4. ASSUME NEW i \in 1 .. n
      PROVE  V(i) \in Nat /\ V(i) <= IF width = 1 THEN 255 ELSE 65535
  <2>1. v[i] \in Word
    BY <1>1, ElementOfSeq
  <2> QED
    BY <2>1, ScanDType
<1>5. ASSUME NEW i \in 1 .. n, NEW j \in 1 .. i * width PROVE F(j) \in Byte
  <2>1. (j - 1) \div width + 1 \in 1 .. n /\ (j - 1) % width \in {0, 1}
        /\ (width = 1 => (j - 1) % width = 0)
    <3>1. width = 1 \/ width = 2
      OBVIOUS
    <3> QED
      BY <1>1, <3>1
  <2> DEFINE x == V((j - 1) \div width + 1)
             y == (j - 1) % width
  <2>2. x \in Nat /\ x <= IF width = 1 THEN 255 ELSE 65535
    BY <1>4, <2>1
  <2>3. y \in {0, 1} /\ (width = 1 => y = 0)
    BY <2>1
  <2> HIDE DEF x, y
  <2>4. x % 256 \in Byte /\ (width = 2 => x \div 256 \in Byte)
    BY <2>2, ByteIs
  <2>5. ByteOf(x, y) \in Byte
    BY <2>3, <2>4 DEF ByteOf
  <2> QED
    BY <2>5 DEF x, y
<1>6. ASSUME NEW i \in 1 .. n
      PROVE  /\ B(i) \in Seq(Byte) /\ Len(B(i)) = width
             /\ \A j \in 1 .. width : B(i)[j] = F((i - 1) * width + j)
  <2> DEFINE x == V(i)
  <2>1. x \in Nat /\ x <= IF width = 1 THEN 255 ELSE 65535
    BY <1>4
  <2>2. \A j \in 1 .. width : F((i - 1) * width + j) = ByteOf(x, j - 1)
    <3> SUFFICES ASSUME NEW j \in 1 .. width PROVE F((i - 1) * width + j) = ByteOf(x, j - 1)
      OBVIOUS
    <3> DEFINE q == (i - 1) * width + j
    <3>1. (q - 1) \div width + 1 = i /\ (q - 1) % width = j - 1
      <4>1. width = 1 \/ width = 2
        OBVIOUS
      <4> QED
        BY <1>1, <4>1
    <3> HIDE DEF q
    <3>2. F(q) = ByteOf(x, j - 1)
      BY <3>1
    <3> QED
      BY <3>2 DEF q
  <2> HIDE DEF x, F
  <2>3. CASE width = 1
    <3>1. x \in Byte /\ x % 256 = x
      BY <2>1, <2>3, ByteIs
    <3>2. B(i) = <<x>>
      BY <2>3 DEF Bytes, x
    <3>3. ByteOf(x, 0) = x
      BY <3>1 DEF ByteOf
    <3> HIDE DEF B
    <3>4. B(i) \in Seq(Byte) /\ Len(B(i)) = 1 /\ B(i)[1] = x
      BY <3>1, <3>2
    <3>5. \A j \in 1 .. 1 : B(i)[j] = ByteOf(x, j - 1)
      BY <3>3, <3>4
    <3> QED
      BY <2>2, <2>3, <3>4, <3>5
  <2>4. CASE width = 2
    <3> DEFINE a == x % 256
               b == x \div 256
    <3>1. a \in Byte /\ b \in Byte
      BY <2>1, <2>4, ByteIs
    <3>2. B(i) = <<a, b>>
      BY <2>4 DEF Bytes, x
    <3>3. ByteOf(x, 0) = a /\ ByteOf(x, 1) = b
      BY DEF ByteOf
    <3> HIDE DEF B, a, b
    <3>4. B(i) \in Seq(Byte) /\ Len(B(i)) = 2 /\ B(i)[1] = a /\ B(i)[2] = b
      BY <3>1, <3>2
    <3>5. \A j \in 1 .. 2 : B(i)[j] = ByteOf(x, j - 1)
      <4>1. \A j \in 1 .. 2 : j = 1 \/ j = 2
        OBVIOUS
      <4>2. 1 - 1 = 0 /\ 2 - 1 = 1
        OBVIOUS
      <4> QED
        BY <3>3, <3>4, <4>1, <4>2, Zenon
    <3> QED
      BY <2>2, <2>4, <3>4, <3>5
  <2> QED
    BY <2>3, <2>4
<1> HIDE DEF B, F
<1>7. ASSUME NEW i \in 1 .. n
      PROVE  RawBytes(v, i, width) = RawBytes(v, i - 1, width) \o B(i)
  <2> DEFINE a == (i - 1) * width
             t == B(i)
  <2>1. a \in Nat /\ a + width = i * width /\ i - 1 \in Nat /\ i \in Nat /\ width \in Nat
    <3>1. width = 1 \/ width = 2
      OBVIOUS
    <3> QED
      BY <1>1, <3>1
  <2>2. t \in Seq(Byte) /\ Len(t) = width /\ \A j \in 1 .. width : t[j] = F(a + j)
    BY <1>6
  <2>3. RawBytes(v, i, width) = [j \in 1 .. a + width |-> F(j)]
        /\ RawBytes(v, i - 1, width) = [j \in 1 .. a |-> F(j)]
    BY <1>3, <2>1
  <2>4. \A j \in 1 .. a + width : F(j) \in Byte
    BY <1>5, <2>1
  <2> HIDE DEF a, t
  <2>5. [j \in 1 .. a + width |-> F(j)] = [j \in 1 .. a |-> F(j)] \o t
    BY <2>1, <2>2, <2>4, GoesOn
  <2> QED
    BY <2>3, <2>5 DEF t
<1>8. CASE n = 0
  <2>1. FlattenSeq(seqs) = seqs
    <3>1. Len(seqs) = 0
      BY <1>8
    <3> HIDE DEF seqs
    <3> QED
      BY <3>1 DEF FlattenSeq
  <2>2. RawBytes(v, n, width) = [j \in 1 .. 0 |-> F(j)]
    <3>1. 0 * width = 0
      <4>1. width = 1 \/ width = 2
        OBVIOUS
      <4> QED
        BY <4>1
    <3>2. n * width = 0
      BY <1>8, <3>1
    <3> QED
      BY <1>1, <1>3, <3>2
  <2>3. seqs = [i \in 1 .. 0 |-> B(i)]
    BY <1>8
  <2>4. [j \in 1 .. 0 |-> F(j)] = [i \in 1 .. 0 |-> B(i)]
    OBVIOUS
  <2> QED
    BY <1>2, <2>1, <2>2, <2>3, <2>4
<1>9. CASE n # 0
  <2>1. n > 0 /\ 1 \in 1 .. n /\ n \in 1 .. n /\ Len(seqs) = n
    BY <1>1, <1>9
  <2>2. g[1] = seqs[1]
    <3>1. RawBytes(v, 1, width) = RawBytes(v, 0, width) \o B(1)
      BY <1>7, <2>1
    <3>2. RawBytes(v, 0, width) = <<>>
      <4>1. 0 * width = 0
        <5>1. width = 1 \/ width = 2
          OBVIOUS
        <5> QED
          BY <5>1
      <4>2. RawBytes(v, 0, width) = [j \in 1 .. 0 |-> F(j)]
        BY <1>3, <4>1
      <4>3. [j \in 1 .. 0 |-> F(j)] = <<>>
        <5> DEFINE e == [j \in 1 .. 0 |-> F(j)]
        <5>1. e \in Seq(Byte) /\ Len(e) = 0
          BY IsASeq
        <5> HIDE DEF e
        <5>2. e = <<>>
          BY <5>1, EmptySeq
        <5> QED
          BY <5>2 DEF e
      <4> QED
        BY <4>2, <4>3
    <3>3. B(1) \in Seq(Byte)
      BY <1>6, <2>1
    <3>4. <<>> \o B(1) = B(1)
      BY <3>3, ConcatEmptySeq
    <3> QED
      BY <2>1, <3>1, <3>2, <3>4
  <2>3. ASSUME NEW i \in 2 .. n PROVE g[i] = g[i - 1] \o seqs[i]
    <3>1. i \in 1 .. n /\ i - 1 \in 1 .. n
      BY <1>1
    <3> QED
      BY <1>7, <3>1
  <2>4. g[n] = RawBytes(v, n, width)
    BY <2>1
  <2> HIDE DEF g, seqs
  <2>5. FlattenSeq(seqs) = g[n]
    <3>1. Accumulated(g, seqs, n)
      BY <1>1, <2>1, <2>2, <2>3 DEF Accumulated
    <3> QED
      BY <3>1, FlattenIs, Zenon
  <2> QED
    BY <1>2, <2>4, <2>5 DEF seqs
<1> QED
  BY <1>8, <1>9

(* What is made of good values is what they mean, but of a number that     *)
(* cannot be read nothing is made.                                         *)
LEMMA MadeIs ==
  ASSUME NEW type \in 0 .. 3, NEW v \in Seq(Word), v # <<>>
  PROVE  Made(type, v) = IF type = CFT_NUM /\ ~ScanI(v[1]).read THEN {} ELSE {ValueMeant(type, v)}
<1>1. CASE type = CFT_NUM
  <2>1. Made(type, v) = Num(ScanI(v[1]), <<>>).vals /\ ValueMeant(type, v) = ScanI(v[1]).val
    BY <1>1 DEF Made, ValueMeant, CFT_NUM, CFT_TXT
  <2> DEFINE x == ScanI(v[1])
  <2> HIDE DEF x
  <2>2. Num(x, <<>>).vals = IF x.read THEN {x.val} ELSE {}
    BY DEF Num, Taken
  <2> QED
    BY <1>1, <2>1, <2>2, Zenon DEF x
<1>2. CASE type = CFT_TXT
  <2>1. Made(type, v) = {Joined(v)} /\ type # CFT_NUM
    BY <1>2 DEF Made, CFT_NUM, CFT_TXT
  <2> QED
    BY <1>2, <2>1, JoinedIs, Zenon
<1>3. CASE type # CFT_NUM /\ type # CFT_TXT
  <2> DEFINE read == ScanD(v[Len(v)], 1).read
             n == IF read THEN Len(v) ELSE Len(v) - 1
             width == Width(type)
             good == IF read THEN v ELSE Front(v)
             b == FlattenSeq([i \in DOMAIN good |-> Bytes(ScanD(good[i], width).val, width)])
  <2>1. Made(type, v) = {RawBytes(v, n, width)}
    BY <1>3, Zenon DEF Made
  <2>2. ValueMeant(type, v) = b
    <3>1. Last(v) = v[Len(v)]
      BY Zenon DEF Last
    <3> QED
      BY <1>3, <3>1, Zenon DEF ValueMeant
  <2>3. Len(v) \in Nat /\ Len(v) > 0 /\ DOMAIN v = 1 .. Len(v)
    BY LenProperties, EmptySeq
  <2>4. n \in 0 .. Len(v) /\ width \in {1, 2}
    BY <2>3 DEF Width
  <2>5. DOMAIN good = 1 .. n /\ \A i \in 1 .. n : good[i] = v[i]
    <3>1. CASE read
      BY <2>3, <3>1
    <3>2. CASE ~read
      <4> DEFINE k == Len(v) - 1
                 f == SubSeq(v, 1, k)
      <4>1. k \in Nat /\ k <= Len(v) /\ k - 1 + 1 = k /\ 1 <= k + 1 /\ \A i \in 1 .. k : 1 + i - 1 = i
        BY <2>3
      <4>2. f \in Seq(Word) /\ Len(f) = k - 1 + 1 /\ \A i \in 1 .. k - 1 + 1 : f[i] = v[1 + i - 1]
        <5> HIDE DEF k
        <5> QED
          BY <2>3, <4>1, PartIs
      <4>3. good = f
        BY <3>2, Zenon DEF Front
      <4>4. n = k
        BY <3>2, Zenon
      <4> HIDE DEF f, good, k, n
      <4>5. DOMAIN f = 1 .. k /\ \A i \in 1 .. k : f[i] = v[i]
        BY <4>1, <4>2, LenProperties
      <4> QED
        BY <4>3, <4>4, <4>5
    <3> QED
      BY <3>1, <3>2
  <2> HIDE DEF n, good, width
  <2>6. FirstOf(good, v, n)
    BY <2>4, <2>5 DEF FirstOf
  <2>7. RawBytes(v, n, width) = b
    <3>1. RawBytes(v, n, width)
            = FlattenSeq([i \in DOMAIN good |-> Bytes(ScanD(good[i], width).val, width)])
      BY <2>4, <2>6, RawIs, Zenon
    <3> QED
      BY <3>1
  <2> QED
    BY <1>3, <2>1, <2>2, <2>7, Zenon
<1> QED
  BY <1>1, <1>2, <1>3, Zenon
=============================================================================
