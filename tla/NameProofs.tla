------------------------------ MODULE NameProofs ------------------------------
(***************************************************************************)
(* What the operators of modules FileNames and Multipart return, for every *)
(* name and part: the facts that the proofs about HttpHandler cite.        *)
(***************************************************************************)
EXTENDS Multipart, SequenceTheorems, FiniteSetTheorems, TLAPS

\* Every set of natural numbers that is not empty has a least element.
LEMMA LeastNat ==
  ASSUME NEW T \in SUBSET Nat, T # {}
  PROVE  \E x \in T : \A y \in T : x <= y
<1> DEFINE R == StrictSubsetOrdering(Nat)
           B == {0..n : n \in T}
<1>1. B \subseteq FiniteSubsetsOf(Nat) /\ B # {}
  <2>1. \A n \in T : 0..n \in SUBSET Nat /\ IsFiniteSet(0..n)
    BY FS_Interval
  <2> QED
    BY <2>1 DEF FiniteSubsetsOf
<1>2. PICK b \in B : \A c \in B : ~ (<<c, b>> \in R)
  <2>1. IsWellFoundedOn(R, FiniteSubsetsOf(Nat))
    BY FS_StrictSubsetOrderingWellFounded
  <2> HIDE DEF R, B
  <2> QED
    BY <1>1, <2>1, WFMin
<1>3. PICK x \in T : b = 0..x
  OBVIOUS
<1>4. ASSUME NEW y \in T, y < x
      PROVE  FALSE
  <2>1. x \in Nat /\ y \in Nat
    OBVIOUS
  <2>2. 0..y \subseteq 0..x /\ x \in 0..x /\ x \notin 0..y
    BY <2>1, <1>4
  <2>3. <<0..y, 0..x>> \in R
    BY <2>1, <2>2 DEF StrictSubsetOrdering
  <2> QED
    BY <1>2, <1>3, <2>3
<1> QED
  BY <1>3, <1>4

\* The first element of an interval that is in a set.
LEMMA FirstIn ==
  ASSUME NEW a \in Nat, NEW b \in Int, NEW S \in SUBSET (a..b), S # {}
  PROVE  \E k \in a..b : k \in S /\ \A j \in a..(k - 1) : j \notin S
<1>1. S \in SUBSET Nat
  OBVIOUS
<1>2. PICK k \in S : \A y \in S : k <= y
  BY <1>1, LeastNat
<1> QED
  BY <1>2

\* A part of a sequence.
LEMMA SubSeqType ==
  ASSUME NEW X, NEW s \in Seq(X), NEW a \in Nat \ {0}, NEW b \in Int, b <= Len(s)
  PROVE  /\ SubSeq(s, a, b) \in Seq(X)
         /\ Len(SubSeq(s, a, b)) = IF a <= b THEN b - a + 1 ELSE 0
         /\ \A i \in 1..(b - a + 1) : SubSeq(s, a, b)[i] = s[a + i - 1]
<1>1. \A i \in a..b : s[i] \in X
  BY ElementOfSeq, LenProperties
<1> QED
  BY <1>1, SubSeqProperties

\* The ends of a set of positions.
LEMMA Ends ==
  ASSUME NEW n \in Nat, NEW S \in SUBSET (0..n), S # {}
  PROVE  /\ (CHOOSE i \in S : \A j \in S : i <= j) \in S
         /\ \A j \in S : (CHOOSE i \in S : \A k \in S : i <= k) <= j
         /\ (CHOOSE i \in S : \A j \in S : j <= i) \in S
         /\ \A j \in S : j <= (CHOOSE i \in S : \A k \in S : k <= i)
<1>1. \E i \in S : \A j \in S : i <= j
  BY LeastNat
<1>2. \E i \in S : \A j \in S : j <= i
  <2> DEFINE T == {n - i : i \in S}
  <2>1. PICK i \in S : TRUE
    OBVIOUS
  <2>2. n - i \in T /\ \A j \in S : n - j \in Nat
    OBVIOUS
  <2>3. PICK x \in T : \A y \in T : x <= y
    BY <2>2, LeastNat
  <2>4. PICK k \in S : x = n - k
    OBVIOUS
  <2>5. \A j \in S : n - k <= n - j
    BY <2>3, <2>4
  <2> QED
    BY <2>5
<1> QED
  BY <1>1, <1>2

------------------------------------------------------------------------------
\* The rules for names.

\* Cleaning leaves a valid name alone.
LEMMA CleanStays ==
  ASSUME NEW X, NEW n \in Seq(X), n # <<>>,
         \A i \in 1..Len(n) : n[i] \notin Dangerous,
         n[1] # Dot, n[Len(n)] # Dot
  PROVE  sanitize_filename(n) = n
<1> DEFINE clean == [i \in 1..Len(n) |-> IF n[i] \in Dangerous THEN Underscore ELSE n[i]]
           solid == {i \in 1..Len(n) : clean[i] # Dot}
<1>1. Len(n) \in Nat \ {0} /\ n = [i \in 1..Len(n) |-> n[i]]
  BY EmptySeq, LenProperties
<1>2. clean = n
  BY <1>1
<1>3. 1 \in solid /\ Len(n) \in solid /\ solid \in SUBSET (1..Len(n))
  BY <1>1, <1>2
<1>4. (CHOOSE i \in solid : \A j \in solid : i <= j) = 1
  BY <1>1, <1>3, Ends
<1>5. (CHOOSE i \in solid : \A j \in solid : j <= i) = Len(n)
  BY <1>1, <1>3, Ends
<1>6. SubSeq(n, 1, Len(n)) = n
  BY SubSeqFull
<1> QED
  BY <1>2, <1>3, <1>4, <1>5, <1>6 DEF sanitize_filename

LEMMA AcceptedStays ==
  ASSUME NEW X, NEW n \in Seq(X), name_accepted(n)
  PROVE  sanitize_filename(n) = n
<1>1. \A i \in 1..Len(n) : n[i] \notin Dangerous
  BY DEF name_accepted, Dangerous
<1> QED
  BY <1>1, CleanStays DEF name_accepted

LEMMA ValidStays ==
  ASSUME NEW X, NEW n \in Seq(X), is_valid_filename(n)
  PROVE  sanitize_filename(n) = n
<1>1. n # <<>>
  BY EmptySeq DEF is_valid_filename
<1> QED
  BY <1>1, CleanStays DEF is_valid_filename

\* A cleaned name is a name.
LEMMA CleanType ==
  ASSUME NEW n \in Seq(Byte)
  PROVE  sanitize_filename(n) \in Seq(Byte)
<1> DEFINE clean == [i \in 1..Len(n) |-> IF n[i] \in Dangerous THEN Underscore ELSE n[i]]
           solid == {i \in 1..Len(n) : clean[i] # Dot}
           first == CHOOSE i \in solid : \A j \in solid : i <= j
           last == CHOOSE i \in solid : \A j \in solid : j <= i
<1>1. Len(n) \in Nat /\ \A i \in 1..Len(n) : clean[i] \in Byte
  BY LenProperties, ElementOfSeq DEF Byte, Underscore
<1>2. CASE solid = {}
  BY <1>2 DEF sanitize_filename, Byte
<1>3. CASE solid # {}
  <2>1. first \in 1..Len(n) /\ last \in 1..Len(n)
    <3>1. solid \in SUBSET (0..Len(n))
      BY <1>1
    <3>2. first \in solid /\ last \in solid
      BY <1>1, <1>3, <3>1, Ends
    <3> QED
      BY <3>2
  <2>2. SubSeq(clean, first, last) \in Seq(Byte)
    <3> HIDE DEF clean, first, last
    <3> QED
      BY <1>1, <2>1, SubSeqProperties
  <2> QED
    BY <1>3, <2>2 DEF sanitize_filename
<1> QED
  BY <1>2, <1>3

\* Path n leads to the file named by its first k bytes.
LeadsTo(n, k) == /\ DiskName(n) = SubSeq(n, 1, k)
                 /\ k # 0 => n[k] \notin {Dot, Blank}
                 /\ \A j \in 1..k : n[j] # Nul

\* The file a path leads to: a prefix of it that ends in no dot and no blank.
LEMMA DiskShape ==
  ASSUME NEW X, NEW n \in Seq(X)
  PROVE  \E k \in 0..Len(n) : LeadsTo(n, k)
<1> DEFINE ends == {i \in 0..Len(n) : \A j \in 1..i : n[j] # Nul}
           cut == CHOOSE i \in ends : \A j \in ends : j <= i
           solid == {0} \cup {i \in 1..cut : n[i] \notin {Dot, Blank}}
           last == CHOOSE i \in solid : \A j \in solid : j <= i
<1>1. Len(n) \in Nat
  BY LenProperties
<1>2. ends \in SUBSET (0..Len(n)) /\ 0 \in ends
  BY <1>1
<1>3. cut \in ends
  <2> HIDE DEF ends
  <2>1. ends # {}
    BY <1>2
  <2> QED
    BY <1>1, <1>2, <2>1, Ends, Zenon
<1>4. cut \in 0..Len(n) /\ \A j \in 1..cut : n[j] # Nul
  BY <1>3
<1> HIDE DEF cut
<1>5. solid \in SUBSET (0..cut) /\ solid # {} /\ cut \in Nat
  BY <1>1, <1>4
<1>6. last \in solid
  BY <1>5, Ends
<1>7. DiskName(n) = SubSeq(n, 1, last)
  BY DEF DiskName, cut
<1>8. /\ last \in 0..Len(n)
      /\ last # 0 => n[last] \notin {Dot, Blank}
      /\ \A j \in 1..last : n[j] # Nul
  <2> HIDE DEF last
  <2> QED
    BY <1>1, <1>4, <1>6
<1> QED
  BY <1>7, <1>8 DEF LeadsTo

\* A path that ends in no dot and no blank and has no NUL leads to the file of its name.
LEMMA DiskFixed ==
  ASSUME NEW X, NEW n \in Seq(X), n # <<>> => n[Len(n)] \notin {Dot, Blank},
         \A j \in 1..Len(n) : n[j] # Nul
  PROVE  DiskName(n) = n
<1> DEFINE ends == {i \in 0..Len(n) : \A j \in 1..i : n[j] # Nul}
           cut == CHOOSE i \in ends : \A j \in ends : j <= i
           solid == {0} \cup {i \in 1..cut : n[i] \notin {Dot, Blank}}
           last == CHOOSE i \in solid : \A j \in solid : j <= i
<1>1. Len(n) \in Nat /\ (n # <<>> <=> Len(n) # 0)
  BY LenProperties, EmptySeq
<1>2. ends \in SUBSET (0..Len(n)) /\ Len(n) \in ends
  BY <1>1
<1>3. cut \in ends /\ Len(n) <= cut
  BY <1>1, <1>2, Ends
<1>4. cut = Len(n)
  BY <1>1, <1>3
<1> HIDE DEF cut
<1>5. solid \in SUBSET (0..Len(n)) /\ Len(n) \in solid
  BY <1>1, <1>4
<1>6. last \in solid /\ Len(n) <= last
  BY <1>1, <1>5, Ends
<1>7. last = Len(n)
  BY <1>1, <1>5, <1>6
<1>8. DiskName(n) = SubSeq(n, 1, last)
  BY DEF DiskName, cut
<1> QED
  BY <1>7, <1>8, SubSeqFull

LEMMA DiskType ==
  ASSUME NEW X, NEW n \in Seq(X)
  PROVE  DiskName(n) \in Seq(X) /\ DiskName(DiskName(n)) = DiskName(n)
<1>0. PICK k \in 0..Len(n) : LeadsTo(n, k)
  BY DiskShape
<1>1. /\ DiskName(n) = SubSeq(n, 1, k)
      /\ k # 0 => n[k] \notin {Dot, Blank}
      /\ \A j \in 1..k : n[j] # Nul
  BY <1>0 DEF LeadsTo
<1>2. Len(n) \in Nat
  BY LenProperties
<1> DEFINE d == SubSeq(n, 1, k)
<1>3. d \in Seq(X) /\ Len(d) = k /\ \A i \in 1..k : d[i] = n[i]
  BY <1>2, SubSeqType
<1>4. d # <<>> => d[Len(d)] \notin {Dot, Blank}
  BY <1>1, <1>2, <1>3, EmptySeq
<1>5. \A j \in 1..Len(d) : d[j] # Nul
  BY <1>1, <1>2, <1>3
<1> HIDE DEF d
<1>6. DiskName(d) = d
  BY <1>3, <1>4, <1>5, DiskFixed
<1> QED
  BY <1>1, <1>3, <1>6 DEF d

\* Both rules accept the same names, and accept what a valid path leads to.
LEMMA DiskValid ==
  ASSUME NEW X, NEW n \in Seq(X), is_valid_filename(n)
  PROVE  /\ name_accepted(n)
         /\ DiskName(n) # <<>> => is_valid_filename(DiskName(n))
<1>1. n # <<>> /\ Len(n) \in Nat
  BY EmptySeq, LenProperties DEF is_valid_filename
<1>2. name_accepted(n)
  BY <1>1 DEF is_valid_filename, name_accepted, Dangerous
<1>0. PICK k \in 0..Len(n) : LeadsTo(n, k)
  BY DiskShape
<1>3. DiskName(n) = SubSeq(n, 1, k) /\ (k # 0 => n[k] \notin {Dot, Blank})
  BY <1>0 DEF LeadsTo
<1> DEFINE d == SubSeq(n, 1, k)
<1>4. d \in Seq(X) /\ Len(d) = k /\ \A i \in 1..k : d[i] = n[i]
  BY <1>1, SubSeqType
<1>5. ASSUME d # <<>>
      PROVE  is_valid_filename(d)
  <2>1. k \in 1..Len(n)
    BY <1>1, <1>4, <1>5, EmptySeq
  <2> HIDE DEF d
  <2>2. Len(d) \in 1..NameLimit
    BY <1>1, <1>4, <2>1, NameAssumption DEF is_valid_filename
  <2>3. d[1] # Dot /\ d[Len(d)] # Dot
    BY <1>1, <1>3, <1>4, <2>1 DEF is_valid_filename
  <2>4. \A i \in 1..Len(d) : d[i] \notin Dangerous
    BY <1>1, <1>4, <2>1 DEF is_valid_filename
  <2>5. \A i \in 1..(Len(d) - 1) : ~(d[i] = Dot /\ d[i + 1] = Dot)
    BY <1>1, <1>4, <2>1 DEF is_valid_filename
  <2> QED
    BY <2>2, <2>3, <2>4, <2>5 DEF is_valid_filename
<1> QED
  BY <1>2, <1>3, <1>5

------------------------------------------------------------------------------
\* Escapes.

\* A byte is written as itself or as an escape whose digits give it back.
LEMMA CodeShape ==
  ASSUME NEW b \in Byte
  PROVE  /\ Code(b) \in Seq(Byte)
         /\ \/ /\ b \in Unreserved
               /\ Code(b) = <<b>>
            \/ /\ Len(Code(b)) = 3
               /\ Code(b)[1] = Percent
               /\ Code(b)[2] \in HexDigits /\ Code(b)[3] \in HexDigits
               /\ 16 * HexValue(Code(b)[2]) + HexValue(Code(b)[3]) = b
<1> DEFINE h == b \div 16
           l == b % 16
<1>1. h \in 0..15 /\ l \in 0..15 /\ 16 * h + l = b
  BY DEF Byte
<1>2. \A v \in 0..15 : /\ HexDigit(v) \in HexDigits /\ HexDigit(v) \in Byte
                       /\ HexValue(HexDigit(v)) = v
  BY DEF HexDigit, HexDigits, HexValue, Digits, Byte
<1>3. CASE b \in Unreserved
  BY <1>3 DEF Code
<1>4. CASE b \notin Unreserved
  <2>1. Code(b) = <<Percent, HexDigit(h), HexDigit(l)>>
    BY <1>4 DEF Code
  <2>2. Percent \in Byte
    BY DEF Percent, Byte
  <2> HIDE DEF h, l
  <2> QED
    BY <1>1, <1>2, <2>1, <2>2
<1> QED
  BY <1>3, <1>4

\* The digits of an escape are a byte.
LEMMA HexByte ==
  /\ \A h \in HexDigits : HexValue(h) \in 0..15
  /\ \A a, b \in HexDigits : 16 * HexValue(a) + HexValue(b) \in Byte
<1>1. \A h \in HexDigits : HexValue(h) \in 0..15
  BY DEF HexDigits, HexValue, Digits
<1> QED
  BY <1>1 DEF Byte

LEMMA UrlStep ==
  ASSUME NEW s \in Seq(Byte), NEW i \in 1..Len(s)
  PROVE  UrlByte(s, i) \in Byte /\ UrlNext(s, i) \in (i + 1)..(Len(s) + 1)
<1>1. Len(s) \in Nat /\ s[i] \in Byte
  BY LenProperties, ElementOfSeq
<1>2. Blank \in Byte
  BY DEF Blank, Byte
<1> QED
  BY <1>1, <1>2, HexByte DEF UrlByte, UrlNext, Escape

\* What scanning two characters gives, if it gives anything.
LEMMA ScanType ==
  ASSUME NEW a \in Units, NEW b \in Units
  PROVE  Scan(a, b) \in SUBSET Byte
<1>1. \A h \in HexDigits : HexValue(h) \in Byte /\ (256 - HexValue(h)) % 256 \in Byte
  BY HexByte DEF Byte
<1> QED
  BY <1>1, HexByte DEF Scan

LEMMA NameStep ==
  ASSUME NEW s \in Seq(Units), NEW i \in 1..Len(s), NEW ii \in SUBSET Byte
  PROVE  /\ Scanned(s, i, ii) \in SUBSET Byte
         /\ NameBytes(s, i, ii) \in SUBSET Units
         /\ NameNext(s, i) \in (i + 1)..(Len(s) + 1)
<1>1. Len(s) \in Nat /\ \A j \in 1..Len(s) : s[j] \in Units
  BY LenProperties, ElementOfSeq
<1>2. Byte \subseteq Units
  BY DEF Units
<1>3. ASSUME NameEscape(s, i)
      PROVE  Scan(s[i + 1], s[i + 2]) \in SUBSET Byte
  <2>1. i + 1 \in 1..Len(s) /\ i + 2 \in 1..Len(s)
    BY <1>1, <1>3 DEF NameEscape
  <2> QED
    BY <1>1, <2>1, ScanType
<1> QED
  BY <1>1, <1>2, <1>3 DEF Scanned, NameBytes, NameNext, NameEscape

\* Text t stands in s from position i on.
Stands(t, s, i) == /\ i + Len(t) <= Len(s) + 1
                   /\ \A k \in 1..Len(t) : s[i + k - 1] = t[k]

\* Both decoders take a byte that url_encode has written for what it was.
LEMMA CodeRead ==
  ASSUME NEW s \in Seq(Units), NEW i \in Nat \ {0}, NEW b \in Byte, Stands(Code(b), s, i),
         NEW ii
  PROVE  /\ UrlByte(s, i) = b /\ UrlNext(s, i) = i + Len(Code(b))
         /\ NameBytes(s, i, ii) = {b} /\ NameNext(s, i) = i + Len(Code(b))
         /\ Len(Code(b)) \in {1, 3}
<1>1. CASE b \in Unreserved /\ Code(b) = <<b>>
  <2>1. s[i] = b /\ Len(Code(b)) = 1
    BY <1>1 DEF Stands
  <2>2. b # Percent /\ b # Plus
    BY <1>1 DEF Unreserved, Percent, Plus, Digits, Upper, Lower, Underscore, Dot
  <2> QED
    BY <2>1, <2>2 DEF UrlByte, UrlNext, Escape, NameBytes, NameNext, NameEscape
<1>2. CASE /\ Len(Code(b)) = 3
           /\ Code(b)[1] = Percent
           /\ Code(b)[2] \in HexDigits /\ Code(b)[3] \in HexDigits
           /\ 16 * HexValue(Code(b)[2]) + HexValue(Code(b)[3]) = b
  <2>1. s[i] = Code(b)[1] /\ s[i + 1] = Code(b)[2] /\ s[i + 2] = Code(b)[3] /\ i + 2 <= Len(s)
    <3>1. Len(s) \in Nat
      BY LenProperties
    <3> QED
      BY <1>2, <3>1 DEF Stands
  <2>2. Escape(s, i) /\ NameEscape(s, i)
    BY <1>2, <2>1 DEF Escape, NameEscape
  <2>3. Scan(s[i + 1], s[i + 2]) = {b}
    <3>1. Blank \notin HexDigits /\ Plus \notin HexDigits /\ 45 \notin HexDigits
      BY DEF HexDigits, Digits, Blank, Plus
    <3>2. \A x, y \in HexDigits : Scan(x, y) = {16 * HexValue(x) + HexValue(y)}
      BY <3>1 DEF Scan
    <3> QED
      BY <1>2, <2>1, <3>2
  <2> QED
    BY <1>2, <2>1, <2>2, <2>3 DEF UrlByte, UrlNext, NameBytes, NameNext, Scanned
<1> QED
  BY <1>1, <1>2, CodeShape

------------------------------------------------------------------------------
\* The code page.

NonEmpty == Seq(Byte) \ {<<>>}

CodePageAt(s, i) == {c \in NonAscii : /\ i + Len(c.utf8) <= Len(s) + 1
                                     /\ SubSeq(s, i, i + Len(c.utf8) - 1) = c.utf8}

\* One step of utf8_to_acp, where f has the rest.
AcpStep(s, f, i) ==
  IF i > Len(s) \/ s[i] = Nul THEN <<Nul>>
  ELSE IF s[i] < 128 THEN <<s[i]>> \o f[i + 1]
  ELSE IF CodePageAt(s, i) = {} THEN <<Question>> \o f[i + 1]
  ELSE LET c == CHOOSE c \in CodePageAt(s, i) : TRUE IN c.acp \o f[i + Len(c.utf8)]

LEMMA AcpUnfolded ==
  ASSUME NEW s
  PROVE  utf8_to_acp(s) = (CHOOSE f : f = [i \in 1..(Len(s) + 1) |-> AcpStep(s, f, i)])[1]
BY DEF utf8_to_acp, AcpStep, CodePageAt

\* A step looks only at what is behind it, and makes a text of texts.
LEMMA AcpStepType ==
  ASSUME NEW s \in Seq(Units), NEW i \in 1..(Len(s) + 1), NEW f,
         \A j \in (i + 1)..(Len(s) + 1) : f[j] \in NonEmpty
  PROVE  AcpStep(s, f, i) \in NonEmpty
<1>0. Len(s) \in Nat /\ \A j \in 1..Len(s) : s[j] \in Units
  BY LenProperties, ElementOfSeq
<1>1. \A x \in Seq(Byte), y \in NonEmpty : x \o y \in NonEmpty
  BY ConcatProperties, ConcatEqualIffEmpty DEF NonEmpty
<1>2. \A b \in Byte : <<b>> \in NonEmpty
  BY DEF NonEmpty
<1>3. Nul \in Byte /\ Question \in Byte
  BY DEF Nul, Question, Byte
<1>4. CASE i > Len(s) \/ s[i] = Nul
  BY <1>2, <1>3, <1>4 DEF AcpStep
<1>5. CASE ~(i > Len(s) \/ s[i] = Nul)
  <2>1. i \in 1..Len(s) /\ i + 1 \in (i + 1)..(Len(s) + 1)
    BY <1>0, <1>5
  <2>2. CASE s[i] < 128
    <3>0. s[i] \in Units
      BY <1>0, <2>1
    <3>1. s[i] \in Byte
      <4>1. \A u \in Units : u \in Byte \/ u \in 256..260
        BY DEF Units, Delim, Crlf, NameEq, NameStar, Charset
      <4> QED
        BY <2>2, <3>0, <4>1
    <3> QED
      BY <1>1, <1>2, <1>5, <2>1, <2>2, <3>1 DEF AcpStep, NonEmpty
  <2>3. CASE ~(s[i] < 128) /\ CodePageAt(s, i) = {}
    BY <1>1, <1>2, <1>3, <1>5, <2>1, <2>3 DEF AcpStep, NonEmpty
  <2>4. CASE ~(s[i] < 128) /\ CodePageAt(s, i) # {}
    <3> DEFINE c == CHOOSE c \in CodePageAt(s, i) : TRUE
    <3>1. c \in CodePageAt(s, i)
      BY <2>4
    <3>2. /\ c.utf8 \in Seq(128..255) /\ c.utf8 # <<>> /\ c.acp \in Seq(1..255)
          /\ i + Len(c.utf8) <= Len(s) + 1
      BY <3>1, NameAssumption DEF CodePageAt
    <3> HIDE DEF c
    <3>3. Len(c.utf8) \in Nat \ {0}
      BY <3>2, EmptySeq
    <3>4. i + Len(c.utf8) \in (i + 1)..(Len(s) + 1)
      BY <1>0, <3>2, <3>3
    <3>5. c.acp \in Seq(Byte)
      <4>1. 1..255 \subseteq Byte
        BY DEF Byte
      <4> QED
        BY <3>2, <4>1, SeqMonotonic
    <3>6. AcpStep(s, f, i) = c.acp \o f[i + Len(c.utf8)]
      BY <1>5, <2>4 DEF AcpStep, c
    <3> QED
      BY <1>1, <3>4, <3>5, <3>6
  <2> QED
    BY <2>2, <2>3, <2>4
<1> QED
  BY <1>4, <1>5

LEMMA AcpStepLocal ==
  ASSUME NEW s \in Seq(Units), NEW i \in 1..(Len(s) + 1), NEW f, NEW g,
         \A j \in (i + 1)..(Len(s) + 1) : f[j] = g[j]
  PROVE  AcpStep(s, f, i) = AcpStep(s, g, i)
<1>0. Len(s) \in Nat
  BY LenProperties
<1>1. CASE i > Len(s) \/ s[i] = Nul
  BY <1>1 DEF AcpStep
<1>2. CASE ~(i > Len(s) \/ s[i] = Nul)
  <2>1. f[i + 1] = g[i + 1]
    BY <1>0, <1>2
  <2>2. CASE s[i] < 128 \/ CodePageAt(s, i) = {}
    BY <2>1, <2>2 DEF AcpStep
  <2>3. CASE ~(s[i] < 128) /\ CodePageAt(s, i) # {}
    <3> DEFINE c == CHOOSE c \in CodePageAt(s, i) : TRUE
    <3>1. c \in CodePageAt(s, i)
      BY <2>3
    <3>2. c.utf8 \in Seq(128..255) /\ c.utf8 # <<>> /\ i + Len(c.utf8) <= Len(s) + 1
      BY <3>1, NameAssumption DEF CodePageAt
    <3> HIDE DEF c
    <3>3. Len(c.utf8) \in Nat \ {0}
      BY <3>2, EmptySeq
    <3>4. f[i + Len(c.utf8)] = g[i + Len(c.utf8)]
      BY <1>0, <3>2, <3>3
    <3>5. /\ AcpStep(s, f, i) = c.acp \o f[i + Len(c.utf8)]
          /\ AcpStep(s, g, i) = c.acp \o g[i + Len(c.utf8)]
      BY <1>2, <2>3 DEF AcpStep, c
    <3> QED
      BY <3>4, <3>5
  <2> QED
    BY <2>2, <2>3
<1> QED
  BY <1>1, <1>2

\* The recursion of utf8_to_acp has a solution: built from the end, one byte at a time.
LEMMA AcpExists ==
  ASSUME NEW s \in Seq(Units)
  PROVE  \E f : f = [i \in 1..(Len(s) + 1) |-> AcpStep(s, f, i)]
<1> DEFINE N == Len(s) + 1
           Solves(f, k) == \A i \in k..N : f[i] = AcpStep(s, f, i)
           Bad == {j \in 0..Len(s) : ~ \E f : f = [i \in 1..N |-> f[i]] /\ Solves(f, N - j)}
<1>1. Len(s) \in Nat
  BY LenProperties
<1>2. ASSUME Bad # {}
      PROVE  FALSE
  <2>1. Bad \in SUBSET Nat
    BY <1>1
  <2>2. PICK j \in Bad : \A y \in Bad : j <= y
    BY <1>2, <2>1, LeastNat
  <2> DEFINE k == N - j
  <2>3. k \in 1..N /\ j \in 0..Len(s)
    BY <1>1, <2>2
  <2>4. \E f : \A i \in (k + 1)..N : f[i] = AcpStep(s, f, i)
    <3>1. CASE j = 0
      BY <1>1, <3>1
    <3>2. CASE j # 0
      <4>1. j - 1 \in 0..Len(s) /\ j - 1 \notin Bad
        BY <1>1, <2>1, <2>2, <2>3, <3>2
      <4>2. PICK f : Solves(f, N - (j - 1))
        BY <4>1
      <4>3. N - (j - 1) = k + 1
        BY <1>1, <2>3
      <4> QED
        BY <4>2, <4>3
    <3> QED
      BY <3>1, <3>2
  <2>5. PICK f : \A i \in (k + 1)..N : f[i] = AcpStep(s, f, i)
    BY <2>4
  <2> DEFINE g == [i \in 1..N |-> IF i = k THEN AcpStep(s, f, k) ELSE f[i]]
  <2>6. \A i \in 1..N : i # k => g[i] = f[i]
    OBVIOUS
  <2>7. g[k] = AcpStep(s, f, k)
    BY <2>3
  <2>8. g = [i \in 1..N |-> g[i]]
    OBVIOUS
  <2> HIDE DEF g
  <2>9. \A i \in k..N : AcpStep(s, g, i) = AcpStep(s, f, i)
    <3> TAKE i \in k..N
    <3>1. i \in 1..(Len(s) + 1) /\ \A m \in (i + 1)..(Len(s) + 1) : f[m] = g[m]
      BY <1>1, <2>3, <2>6
    <3> QED
      BY <3>1, AcpStepLocal
  <2>10. Solves(g, k)
    <3> SUFFICES ASSUME NEW i \in k..N
                 PROVE  g[i] = AcpStep(s, g, i)
      OBVIOUS
    <3>1. CASE i = k
      BY <2>7, <2>9, <3>1
    <3>2. CASE i # k
      BY <1>1, <2>3, <2>5, <2>6, <2>9, <3>2
    <3> QED
      BY <3>1, <3>2
  <2>11. j \notin Bad
    BY <2>8, <2>10
  <2> QED
    BY <2>2, <2>11
<1>3. Len(s) \notin Bad /\ N - Len(s) = 1
  BY <1>1, <1>2
<1>4. PICK f : f = [i \in 1..N |-> f[i]] /\ Solves(f, 1)
  BY <1>1, <1>3
<1>5. [i \in 1..N |-> f[i]] = [i \in 1..N |-> AcpStep(s, f, i)]
  BY <1>4
<1> QED
  BY <1>4, <1>5

\* The name in the code page is a text that is not empty: it has at least the NUL.
LEMMA AcpType ==
  ASSUME NEW s \in Seq(Units)
  PROVE  utf8_to_acp(s) \in Seq(Byte) /\ utf8_to_acp(s) # <<>>
<1> DEFINE N == Len(s) + 1
           f == CHOOSE f : f = [i \in 1..(Len(s) + 1) |-> AcpStep(s, f, i)]
           Bad == {j \in 0..Len(s) : f[N - j] \notin NonEmpty}
<1>1. Len(s) \in Nat
  BY LenProperties
<1>2. f = [i \in 1..N |-> AcpStep(s, f, i)]
  BY AcpExists
<1>3. \A i \in 1..N : f[i] = AcpStep(s, f, i)
  BY <1>2
<1> HIDE DEF f
<1>4. ASSUME Bad # {}
      PROVE  FALSE
  <2>1. Bad \in SUBSET Nat
    BY <1>1
  <2>2. PICK j \in Bad : \A y \in Bad : j <= y
    BY <1>4, <2>1, LeastNat
  <2>3. j \in 0..Len(s) /\ N - j \in 1..N
    BY <1>1, <2>2
  <2>4. \A m \in (N - j + 1)..N : f[m] \in NonEmpty
    <3> SUFFICES ASSUME NEW m \in (N - j + 1)..N
                 PROVE  f[m] \in NonEmpty
      OBVIOUS
    <3>1. N - m \in 0..Len(s) /\ N - m < j /\ N - (N - m) = m
      BY <1>1, <2>3
    <3>2. N - m \notin Bad
      BY <1>1, <2>1, <2>2, <2>3, <3>1
    <3> QED
      BY <3>1, <3>2
  <2>5. AcpStep(s, f, N - j) \in NonEmpty
    BY <2>3, <2>4, AcpStepType
  <2> QED
    BY <1>3, <2>2, <2>3, <2>5
<1>5. f[1] \in NonEmpty
  <2>1. Len(s) \in 0..Len(s) /\ N - Len(s) = 1
    BY <1>1
  <2> QED
    BY <1>4, <2>1
<1> QED
  BY <1>5, AcpUnfolded DEF NonEmpty, f

------------------------------------------------------------------------------
\* Searching.

LEMMA LeastResult ==
  ASSUME NEW n \in Nat, NEW S \in SUBSET (1..n)
  PROVE  /\ Least(S) = 0 <=> S = {}
         /\ S # {} => Least(S) \in S /\ \A j \in S : Least(S) <= j
<1>1. CASE S = {}
  BY <1>1 DEF Least
<1>2. CASE S # {}
  <2>1. Least(S) = CHOOSE i \in S : \A j \in S : i <= j
    BY <1>2 DEF Least
  <2>2. Least(S) \in S /\ \A j \in S : Least(S) <= j
    BY <1>2, <2>1, Ends
  <2>3. 0 \notin S
    OBVIOUS
  <2> QED
    BY <1>2, <2>2, <2>3
<1> QED
  BY <1>1, <1>2

LEMMA FindResult ==
  ASSUME NEW X, NEW s \in Seq(X), NEW u, NEW from \in Nat \ {0}
  PROVE  /\ Find(s, u, from) \in 0..Len(s)
         /\ Find(s, u, from) = 0 => \A i \in from..Len(s) : s[i] # u
         /\ Find(s, u, from) # 0 => /\ Find(s, u, from) \in from..Len(s)
                                   /\ s[Find(s, u, from)] = u
                                   /\ \A i \in from..(Find(s, u, from) - 1) : s[i] # u
<1> DEFINE S == {i \in from..Len(s) : s[i] = u}
<1>1. Len(s) \in Nat
  BY LenProperties
<1>2. S \in SUBSET (1..Len(s))
  BY <1>1
<1>3. /\ Least(S) = 0 <=> S = {}
      /\ S # {} => Least(S) \in S /\ \A j \in S : Least(S) <= j
  BY <1>1, <1>2, LeastResult
<1>4. Find(s, u, from) = Least(S)
  BY DEF Find
<1>5. CASE S = {}
  BY <1>1, <1>3, <1>4, <1>5
<1>6. CASE S # {}
  <2>1. Least(S) \in from..Len(s) /\ s[Least(S)] = u /\ \A j \in S : Least(S) <= j
    BY <1>3, <1>6
  <2>2. \A i \in from..(Least(S) - 1) : s[i] # u
    BY <1>1, <2>1
  <2> QED
    BY <1>1, <1>3, <1>4, <1>6, <2>1, <2>2
<1> QED
  BY <1>5, <1>6

\* A search that meets u at p and not before.
LEMMA FoundAt ==
  ASSUME NEW X, NEW s \in Seq(X), NEW u, NEW from \in Nat \ {0}, NEW p \in from..Len(s),
         s[p] = u, \A i \in from..(p - 1) : s[i] # u
  PROVE  Find(s, u, from) = p
<1>1. Len(s) \in Nat
  BY LenProperties
<1> QED
  BY <1>1, FindResult

LEMMA BlankResult ==
  ASSUME NEW X, NEW s \in Seq(X)
  PROVE  /\ FindBlankLine(s) \in 0..Len(s)
         /\ FindBlankLine(s) # 0 => FindBlankLine(s) < Len(s)
<1> DEFINE S == {i \in 1..(Len(s) - 1) : s[i] = Crlf /\ s[i + 1] = Crlf}
<1>1. Len(s) \in Nat
  BY LenProperties
<1>2. S \in SUBSET (1..Len(s))
  BY <1>1
<1>3. /\ Least(S) = 0 <=> S = {}
      /\ S # {} => Least(S) \in S
  BY <1>1, <1>2, LeastResult
<1>4. FindBlankLine(s) = Least(S)
  BY DEF FindBlankLine
<1> QED
  BY <1>1, <1>3, <1>4

\* The first empty line is the first of two line ends in a row.
LEMMA BlankAt ==
  ASSUME NEW X, NEW s \in Seq(X), NEW p \in 1..(Len(s) - 1), s[p] = Crlf, s[p + 1] = Crlf,
         \A i \in 1..(p - 1) : ~(s[i] = Crlf /\ s[i + 1] = Crlf)
  PROVE  FindBlankLine(s) = p
<1> DEFINE S == {i \in 1..(Len(s) - 1) : s[i] = Crlf /\ s[i + 1] = Crlf}
<1>1. Len(s) \in Nat
  BY LenProperties
<1>2. S \in SUBSET (1..Len(s)) /\ p \in S
  BY <1>1
<1>3. Least(S) \in S /\ Least(S) <= p
  BY <1>1, <1>2, LeastResult
<1>4. ~(Least(S) < p)
  BY <1>1, <1>3
<1> QED
  BY <1>1, <1>3, <1>4 DEF FindBlankLine

LEMMA BetweenType ==
  ASSUME NEW X, NEW s \in Seq(X), NEW from \in Nat \ {0}, NEW end \in 0..(Len(s) + 1)
  PROVE  Between(s, from, end) \in Seq(X)
<1>1. Len(s) \in Nat
  BY LenProperties
<1> QED
  BY <1>1, SubSeqType DEF Between

\* What parse_filename cuts out is text.
LEMMA ParseType ==
  ASSUME NEW part \in Seq(Units)
  PROVE  /\ PlainName(part) \in Seq(Units)
         /\ HasExtendedName(part) => ExtendedName(part) \in Seq(Units)
<1>1. Len(part) \in Nat
  BY LenProperties
<1>2. PlainName(part) \in Seq(Units)
  <2> DEFINE start == Find(part, NameEq, 1) + 1
  <2>1. start \in 1..(Len(part) + 1)
    BY <1>1, FindResult
  <2>2. Find(part, Quote, start) \in 0..Len(part)
    BY <2>1, FindResult
  <2> QED
    BY <1>1, <2>1, <2>2, BetweenType DEF PlainName
<1>3. ASSUME HasExtendedName(part)
      PROVE  ExtendedName(part) \in Seq(Units)
  <2>1. StarAt(part) \in 1..Len(part)
    BY <1>3, FindResult DEF HasExtendedName, StarAt
  <2>2. CharsetAt(part) \in 0..Len(part) /\ LineEnd(part) \in 0..Len(part)
    BY <2>1, FindResult DEF CharsetAt, LineEnd
  <2>3. CharsetAt(part) + 1 \in Nat \ {0} /\ LineEnd(part) \in 0..(Len(part) + 1)
    BY <1>1, <2>2
  <2> QED
    BY <2>3, BetweenType DEF ExtendedName
<1> QED
  BY <1>2, <1>3

\* The next delimiter, and what lies before it.
LEMMA NextDelimType ==
  ASSUME NEW s \in Seq(Units), NEW p \in 0..Len(s)
  PROVE  /\ NextDelim(s, p) \in 0..Len(s)
         /\ p # 0 => PartAt(s, p) \in Seq(Units)
<1>1. Len(s) \in Nat
  BY LenProperties
<1>2. NextDelim(s, p) \in 0..Len(s)
  BY <1>1, FindResult DEF NextDelim
<1>3. p # 0 => PartAt(s, p) \in Seq(Units)
  BY <1>1, <1>2, BetweenType DEF PartAt
<1> QED
  BY <1>2, <1>3

LEMMA DataOfType ==
  ASSUME NEW s \in Seq(Units)
  PROVE  DataOf(s) \in Seq(Units)
<1>1. FindBlankLine(s) + 2 \in Nat \ {0} /\ Len(s) \in Nat
  BY LenProperties, BlankResult
<1> QED
  BY <1>1, BetweenType DEF DataOf

------------------------------------------------------------------------------
\* What the client writes.

EscStep(n, f, i) == IF i = 0 THEN <<>> ELSE f[i - 1] \o Code(n[i])

LEMMA EscUnfolded ==
  ASSUME NEW n
  PROVE  Escaped(n) = (CHOOSE f : f = [i \in 0..Len(n) |-> EscStep(n, f, i)])[Len(n)]
BY DEF Escaped, EscStep

\* The recursion of Escaped has a solution: built from the front.
LEMMA EscExists ==
  ASSUME NEW n \in Seq(Byte)
  PROVE  \E f : f = [i \in 0..Len(n) |-> EscStep(n, f, i)]
<1> DEFINE N == Len(n)
           Solves(f, k) == \A i \in 0..k : f[i] = EscStep(n, f, i)
           Bad == {j \in 0..N : ~ \E f : f = [i \in 0..N |-> f[i]] /\ Solves(f, j)}
<1>1. N \in Nat
  BY LenProperties
<1>2. ASSUME Bad # {}
      PROVE  FALSE
  <2>1. PICK j \in Bad : \A y \in Bad : j <= y
    <3>1. Bad \in SUBSET Nat
      BY <1>1
    <3> QED
      BY <1>2, <3>1, LeastNat
  <2>2. j \in 0..N
    BY <2>1
  <2>3. \E f : \A i \in 0..(j - 1) : f[i] = EscStep(n, f, i)
    <3>1. CASE j = 0
      BY <3>1
    <3>2. CASE j # 0
      <4>1. j - 1 \in 0..N /\ j - 1 \notin Bad
        BY <1>1, <2>1, <2>2, <3>2
      <4> QED
        BY <4>1
    <3> QED
      BY <3>1, <3>2
  <2>4. PICK f : \A i \in 0..(j - 1) : f[i] = EscStep(n, f, i)
    BY <2>3
  <2> DEFINE g == [i \in 0..N |-> IF i = j THEN EscStep(n, f, j) ELSE f[i]]
  <2>5. g[j] = EscStep(n, f, j) /\ \A i \in 0..N : i # j => g[i] = f[i]
    BY <2>2
  <2>6. g = [i \in 0..N |-> g[i]]
    OBVIOUS
  <2> HIDE DEF g
  <2>7. \A i \in 0..j : EscStep(n, g, i) = EscStep(n, f, i)
    <3> SUFFICES ASSUME NEW i \in 0..j, i # 0
                 PROVE  g[i - 1] = f[i - 1]
      BY DEF EscStep
    <3> QED
      BY <1>1, <2>2, <2>5
  <2>8. Solves(g, j)
    <3> SUFFICES ASSUME NEW i \in 0..j
                 PROVE  g[i] = EscStep(n, g, i)
      OBVIOUS
    <3>1. CASE i = j
      BY <2>2, <2>5, <2>7, <3>1
    <3>2. CASE i # j
      <4>1. i \in 0..(j - 1) /\ i \in 0..N
        BY <1>1, <2>2, <3>2
      <4> QED
        BY <2>4, <2>5, <2>7, <3>2, <4>1
    <3> QED
      BY <3>1, <3>2
  <2> QED
    BY <2>1, <2>6, <2>8
<1>3. PICK f : f = [i \in 0..N |-> f[i]] /\ Solves(f, N)
  BY <1>1, <1>2
<1>4. [i \in 0..N |-> f[i]] = [i \in 0..N |-> EscStep(n, f, i)]
  BY <1>3
<1> QED
  BY <1>3, <1>4

\* e has what name n escapes to, byte by byte.
Beginnings(e, n) == /\ e[0] = <<>> /\ e[Len(n)] = Escaped(n)
                    /\ \A i \in 1..Len(n) : e[i] = e[i - 1] \o Code(n[i])

LEMMA BeginningsExist ==
  ASSUME NEW n \in Seq(Byte)
  PROVE  \E e : Beginnings(e, n)
<1> DEFINE N == Len(n)
           e == CHOOSE f : f = [i \in 0..Len(n) |-> EscStep(n, f, i)]
<1>1. N \in Nat
  BY LenProperties
<1>2. e = [i \in 0..N |-> EscStep(n, e, i)]
  BY EscExists
<1>3. \A i \in 0..N : e[i] = EscStep(n, e, i)
  BY <1>2
<1>4. Escaped(n) = e[N]
  BY EscUnfolded
<1> HIDE DEF e
<1>5. e[0] = <<>> /\ \A i \in 1..N : e[i] = e[i - 1] \o Code(n[i])
  <2>1. 0 \in 0..N /\ \A i \in 1..N : i \in 0..N /\ i # 0
    BY <1>1
  <2> QED
    BY <1>3, <2>1 DEF EscStep
<1> QED
  BY <1>4, <1>5, Zenon DEF Beginnings

\* A text made of N pieces: e has its beginnings.
Composed(e, c, N) == e[0] = <<>> /\ \A i \in 1..N : e[i] = e[i - 1] \o c[i]

\* Each piece stands where the pieces before it end, and stays there.
LEMMA Pieces ==
  ASSUME NEW X, NEW N \in Nat, NEW e, NEW c, \A i \in 1..N : c[i] \in Seq(X), Composed(e, c, N)
  PROVE  /\ \A i \in 0..N : e[i] \in Seq(X) /\ Len(e[i]) \in Nat /\ Len(e[i]) <= Len(e[N])
         /\ \A i \in 1..N : /\ Len(e[i]) = Len(e[i - 1]) + Len(c[i])
                            /\ Stands(c[i], e[N], Len(e[i - 1]) + 1)
<1>1. \A i \in 0..N : e[i] \in Seq(X)
  <2> DEFINE Bad == {i \in 0..N : ~ (e[i] \in Seq(X))}
  <2> SUFFICES ASSUME Bad # {} PROVE FALSE
    OBVIOUS
  <2>1. PICK i \in 0..N : i \in Bad /\ \A j \in 0..(i - 1) : j \notin Bad
    <3>1. Bad \in SUBSET (0..N) /\ 0 \in Nat /\ N \in Int
      OBVIOUS
    <3> HIDE DEF Bad
    <3> QED
      BY <3>1, FirstIn, Zenon
  <2>2. i # 0
    <3>1. e[0] \in Seq(X)
      BY DEF Composed
    <3> QED
      BY <2>1, <3>1
  <2>3. i \in 1..N /\ i - 1 \in 0..N /\ i - 1 \in 0..(i - 1)
    BY <2>2
  <2>4. e[i - 1] \in Seq(X)
    BY <2>1, <2>3
  <2>5. e[i] \in Seq(X)
    <3>1. e[i] = e[i - 1] \o c[i]
      BY <2>3 DEF Composed
    <3> QED
      BY <2>3, <2>4, <3>1, ConcatProperties
  <2> QED
    BY <2>1, <2>5
<1>2. \A i \in 0..N : Len(e[i]) \in Nat
  BY <1>1, LenProperties
<1>3. ASSUME NEW i \in 1..N
      PROVE  /\ i - 1 \in 0..N /\ i \in 0..N /\ Len(c[i]) \in Nat
             /\ Len(e[i]) = Len(e[i - 1]) + Len(c[i])
             /\ \A j \in 1..Len(e[i - 1]) : e[i][j] = e[i - 1][j]
             /\ \A j \in 1..Len(c[i]) : e[i][Len(e[i - 1]) + j] = c[i][j]
  <2>1. i - 1 \in 0..N /\ i \in 0..N
    OBVIOUS
  <2>2. e[i - 1] \in Seq(X) /\ c[i] \in Seq(X)
    BY <1>1, <2>1
  <2>3. e[i] = e[i - 1] \o c[i]
    BY DEF Composed
  <2> DEFINE d == e[i - 1]
             t == c[i]
  <2>4. d \in Seq(X) /\ t \in Seq(X) /\ e[i] = d \o t
    BY <2>2, <2>3
  <2> HIDE DEF d, t
  <2>5. /\ Len(t) \in Nat /\ Len(d \o t) = Len(d) + Len(t)
        /\ \A j \in 1..Len(d) : (d \o t)[j] = d[j]
        /\ \A j \in 1..Len(t) : (d \o t)[Len(d) + j] = t[j]
    BY <2>4
  <2> QED
    BY <2>1, <2>4, <2>5 DEF d, t
<1>4. ASSUME NEW i \in 0..N, NEW k \in i..N
      PROVE  Len(e[i]) <= Len(e[k]) /\ \A j \in 1..Len(e[i]) : e[k][j] = e[i][j]
  <2> DEFINE Same(h) == Len(e[i]) <= Len(e[h]) /\ \A j \in 1..Len(e[i]) : e[h][j] = e[i][j]
             Bad == {h \in i..N : ~ Same(h)}
  <2> SUFFICES ASSUME Bad # {} PROVE FALSE
    OBVIOUS
  <2>1. PICK h \in i..N : h \in Bad /\ \A j \in i..(h - 1) : j \notin Bad
    <3>1. Bad \in SUBSET (i..N) /\ i \in Nat /\ N \in Int
      OBVIOUS
    <3> HIDE DEF Bad
    <3> QED
      BY <3>1, FirstIn, Zenon
  <2>2. Same(i)
    BY <1>2
  <2>3. h # i /\ ~ Same(h)
    BY <2>1, <2>2
  <2>4. h \in 1..N /\ h - 1 \in i..N /\ h - 1 \in i..(h - 1)
    <3> HIDE DEF Bad, Same
    <3> QED
      BY <2>3
  <2>5. Same(h - 1)
    <3> HIDE DEF Same
    <3> QED
      BY <2>1, <2>4
  <2>6. Same(h)
    <3>1. h - 1 \in 0..N /\ h \in 0..N /\ Len(e[i]) \in Nat /\ Len(e[h - 1]) \in Nat /\ Len(c[h]) \in Nat
      BY <1>2, <1>3, <2>4
    <3>2. Len(e[h]) = Len(e[h - 1]) + Len(c[h]) /\ \A j \in 1..Len(e[h - 1]) : e[h][j] = e[h - 1][j]
      BY <1>3, <2>4
    <3>3. Len(e[i]) <= Len(e[h - 1]) /\ \A j \in 1..Len(e[i]) : e[h - 1][j] = e[i][j]
      BY <2>5
    <3>4. Len(e[i]) <= Len(e[h])
      <4> DEFINE x == Len(e[i])
                 y == Len(e[h - 1])
                 z == Len(c[h])
      <4>1. x \in Nat /\ y \in Nat /\ z \in Nat /\ x <= y /\ Len(e[h]) = y + z
        BY <3>1, <3>2, <3>3
      <4> HIDE DEF x, y, z
      <4>2. x <= y + z
        BY <4>1
      <4> QED
        BY <4>1, <4>2 DEF x
    <3>5. \A j \in 1..Len(e[i]) : e[h][j] = e[i][j]
      <4> TAKE j \in 1..Len(e[i])
      <4>1. j \in 1..Len(e[h - 1])
        BY <3>1, <3>3
      <4> QED
        BY <3>2, <3>3, <4>1
    <3> QED
      BY <3>4, <3>5
  <2> QED
    BY <2>3, <2>6
<1>5. ASSUME NEW i \in 1..N
      PROVE  Stands(c[i], e[N], Len(e[i - 1]) + 1)
  <2> DEFINE b == Len(e[i - 1])
             l == Len(c[i])
  <2>1. i \in 0..N /\ N \in i..N
    OBVIOUS
  <2>2. b \in Nat /\ l \in Nat /\ Len(e[i]) = b + l /\ Len(e[N]) \in Nat
    <3>1. i - 1 \in 0..N /\ N \in 0..N
      OBVIOUS
    <3> QED
      BY <1>2, <1>3, <3>1, Zenon
  <2>3. Len(e[i]) <= Len(e[N]) /\ \A j \in 1..Len(e[i]) : e[N][j] = e[i][j]
    BY <1>4, <2>1
  <2>4. \A j \in 1..l : e[i][b + j] = c[i][j]
    BY <1>3
  <2> HIDE DEF b, l
  <2>5. \A j \in 1..l : e[N][b + 1 + j - 1] = c[i][j]
    <3> TAKE j \in 1..l
    <3>1. b + j \in 1..Len(e[i]) /\ b + 1 + j - 1 = b + j
      BY <2>2
    <3> QED
      BY <2>3, <2>4, <3>1
  <2>6. b + 1 + l <= Len(e[N]) + 1
    BY <2>2, <2>3
  <2> QED
    BY <2>5, <2>6 DEF Stands, b, l
<1>6. \A i \in 0..N : N \in i..N
  OBVIOUS
<1> QED
  BY <1>1, <1>2, <1>3, <1>4, <1>5, <1>6

\* The escaped name is made of the codes of its bytes.
LEMMA EscapedShape ==
  ASSUME NEW n \in Seq(Byte)
  PROVE  /\ Escaped(n) \in Seq(Byte)
         /\ \E e : /\ e[0] = <<>> /\ e[Len(n)] = Escaped(n)
                   /\ \A i \in 0..Len(n) : e[i] \in Seq(Byte) /\ Len(e[i]) \in Nat
                                           /\ Len(e[i]) <= Len(Escaped(n))
                   /\ \A i \in 1..Len(n) : /\ Stands(Code(n[i]), Escaped(n), Len(e[i - 1]) + 1)
                                           /\ Len(e[i]) = Len(e[i - 1]) + Len(Code(n[i]))
<1> DEFINE N == Len(n)
           c == [i \in 1..N |-> Code(n[i])]
<1>1. N \in Nat /\ \A i \in 1..N : n[i] \in Byte
  BY LenProperties, ElementOfSeq
<1>2. PICK e : Beginnings(e, n)
  BY BeginningsExist
<1>4. Escaped(n) = e[N]
  BY <1>2 DEF Beginnings
<1>5. e[0] = <<>> /\ \A i \in 1..N : e[i] = e[i - 1] \o Code(n[i])
  BY <1>2, Zenon DEF Beginnings
<1>6. \A i \in 1..N : Code(n[i]) \in Seq(Byte) /\ c[i] = Code(n[i])
  BY <1>1, CodeShape
<1> HIDE DEF c, N
<1>7. /\ \A i \in 0..N : e[i] \in Seq(Byte) /\ Len(e[i]) \in Nat /\ Len(e[i]) <= Len(e[N])
      /\ \A i \in 1..N : /\ Len(e[i]) = Len(e[i - 1]) + Len(c[i])
                         /\ Stands(c[i], e[N], Len(e[i - 1]) + 1)
  <2>1. /\ \A i \in 1..N : c[i] \in Seq(Byte)
        /\ Composed(e, c, N)
    BY <1>5, <1>6 DEF Composed
  <2> QED
    BY <1>1, <2>1, Pieces
<1>8. N \in 0..N
  BY <1>1
<1> QED
  BY <1>4, <1>5, <1>6, <1>7, <1>8 DEF N

\* A part is text.
LEMMA PartTextType ==
  ASSUME NEW p \in PartType
  PROVE  Disposition(p) \in Seq(Units) /\ PartText(p) \in Seq(Units)
<1>1. p.name \in Seq(Byte) /\ p.data \in Seq(Units) /\ p.style \in {"plain", "extended", "both", "field"}
  BY DEF PartType
<1>2. p.name \in Seq(Units) /\ Escaped(p.name) \in Seq(Units)
  <2>1. Escaped(p.name) \in Seq(Byte)
    BY <1>1, EscapedShape
  <2> QED
    BY <1>1, <2>1 DEF Units
<1>3. /\ {Delim, Crlf, NameEq, NameStar, Charset, Quote, Underscore} \subseteq Units
  BY DEF Units, Byte, Quote, Underscore
<1>4. Disposition(p) \in Seq(Units)
  <2>1. CASE p.style = "plain"
    BY <1>2, <1>3, <2>1, ConcatProperties DEF Disposition
  <2>2. CASE p.style = "extended"
    BY <1>2, <1>3, <2>2, ConcatProperties DEF Disposition
  <2>3. CASE p.style = "both"
    BY <1>2, <1>3, <2>3, ConcatProperties DEF Disposition
  <2>4. CASE p.style = "field"
    BY <1>2, <1>3, <2>4 DEF Disposition
  <2> QED
    BY <1>1, <2>1, <2>2, <2>3, <2>4
<1>5. Heading(p) \in Seq(Units)
  <2>1. <<Delim, Crlf>> \in Seq(Units) /\ <<Crlf, Crlf>> \in Seq(Units)
    BY <1>3
  <2> QED
    BY <1>4, <2>1, ConcatProperties DEF Heading
<1>6. <<Crlf>> \in Seq(Units)
  BY <1>3
<1> QED
  BY <1>1, <1>4, <1>5, <1>6, ConcatProperties DEF PartText

\* A sequence made of known elements.
LEMMA CutOut ==
  ASSUME NEW X, NEW t \in Seq(X), NEW Y, NEW u \in Seq(Y), NEW a \in Nat \ {0},
         a + Len(u) <= Len(t) + 1, \A j \in 1..Len(u) : t[a + j - 1] = u[j]
  PROVE  SubSeq(t, a, a + Len(u) - 1) = u
<1> DEFINE b == a + Len(u) - 1
<1>1. Len(u) \in Nat /\ Len(t) \in Nat
  BY LenProperties
<1>2. b \in Int /\ b <= Len(t) /\ b - a + 1 = Len(u)
  BY <1>1
<1>3. /\ SubSeq(t, a, b) \in Seq(X)
      /\ Len(SubSeq(t, a, b)) = IF a <= b THEN b - a + 1 ELSE 0
      /\ \A i \in 1..(b - a + 1) : SubSeq(t, a, b)[i] = t[a + i - 1]
  BY <1>2, SubSeqType
<1>4. Len(SubSeq(t, a, b)) = Len(u)
  BY <1>1, <1>2, <1>3
<1> HIDE DEF b
<1>5. \A i \in 1..Len(u) : SubSeq(t, a, b)[i] = u[i]
  BY <1>2, <1>3
<1> QED
  BY <1>3, <1>4, <1>5, SeqEqual DEF b

\* What stands where in a part.
Laid(t, d, x) == /\ Len(t) = Len(d) + Len(x) + 5
                 /\ t[1] = Delim /\ t[2] = Crlf
                 /\ \A j \in 1..Len(d) : t[2 + j] = d[j]
                 /\ t[Len(d) + 3] = Crlf /\ t[Len(d) + 4] = Crlf
                 /\ \A j \in 1..Len(x) : t[Len(d) + 4 + j] = x[j]
                 /\ t[Len(d) + Len(x) + 5] = Crlf

LEMMA LaidOut ==
  ASSUME NEW X, NEW d \in Seq(X), NEW x \in Seq(X), {Delim, Crlf} \subseteq X
  PROVE  Laid(<<Delim, Crlf>> \o d \o <<Crlf, Crlf>> \o x \o <<Crlf>>, d, x)
<1> DEFINE a == <<Delim, Crlf>> \o d
           b == a \o <<Crlf, Crlf>>
           c == b \o x
           t == c \o <<Crlf>>
<1>1. Len(d) \in Nat /\ Len(x) \in Nat
  BY LenProperties
<1>2. /\ a \in Seq(X) /\ Len(a) = Len(d) + 2 /\ a[1] = Delim /\ a[2] = Crlf
      /\ \A j \in 1..Len(d) : a[2 + j] = d[j]
  BY <1>1
<1> HIDE DEF a
<1>3. /\ b \in Seq(X) /\ Len(b) = Len(d) + 4
      /\ \A j \in 1..(Len(d) + 2) : b[j] = a[j]
      /\ b[Len(d) + 3] = Crlf /\ b[Len(d) + 4] = Crlf
  BY <1>1, <1>2
<1> HIDE DEF b
<1>4. /\ c \in Seq(X) /\ Len(c) = Len(d) + 4 + Len(x)
      /\ \A j \in 1..(Len(d) + 4) : c[j] = b[j]
      /\ \A j \in 1..Len(x) : c[Len(d) + 4 + j] = x[j]
  BY <1>1, <1>3
<1> HIDE DEF c
<1>5. /\ Len(t) = Len(d) + 5 + Len(x)
      /\ \A j \in 1..(Len(d) + 4 + Len(x)) : t[j] = c[j]
      /\ t[Len(d) + 5 + Len(x)] = Crlf
  <2>1. Len(c) \in Nat /\ c \in Seq(X)
    BY <1>4, LenProperties
  <2>2. Len(t) = Len(c) + 1 /\ (\A j \in 1..Len(c) : t[j] = c[j]) /\ t[Len(c) + 1] = Crlf
    BY <2>1
  <2>3. Len(c) + 1 = Len(d) + 5 + Len(x) /\ Len(c) = Len(d) + 4 + Len(x)
    BY <1>1, <1>4
  <2> HIDE DEF t
  <2> QED
    BY <2>2, <2>3
<1> HIDE DEF t
<1>6. \A j \in 1..(Len(d) + 4) : t[j] = b[j]
  BY <1>1, <1>4, <1>5
<1>7. \A j \in 1..(Len(d) + 2) : t[j] = a[j]
  BY <1>1, <1>3, <1>6
<1>8. t[1] = Delim /\ t[2] = Crlf
  BY <1>1, <1>2, <1>7
<1>9. \A j \in 1..Len(d) : t[2 + j] = d[j]
  <2> TAKE j \in 1..Len(d)
  <2>1. 2 + j \in 1..(Len(d) + 2)
    BY <1>1
  <2> QED
    BY <1>2, <1>7, <2>1
<1>10. t[Len(d) + 3] = Crlf /\ t[Len(d) + 4] = Crlf
  BY <1>1, <1>3, <1>6
<1>11. \A j \in 1..Len(x) : t[Len(d) + 4 + j] = x[j]
  <2> TAKE j \in 1..Len(x)
  <2>1. Len(d) + 4 + j \in 1..(Len(d) + 4 + Len(x))
    BY <1>1
  <2> QED
    BY <1>4, <1>5, <2>1
<1>12. Len(t) = Len(d) + Len(x) + 5 /\ t[Len(d) + Len(x) + 5] = Crlf
  BY <1>1, <1>5
<1> QED
  BY <1>8, <1>9, <1>10, <1>11, <1>12 DEF Laid, t, c, b, a

\* d is the line of part p that names its file, e the escaped name: it has no line end and
\* no delimiter.
NamesFile(d, p, e) ==
  /\ d \in Seq(Units) /\ Len(d) \in Nat \ {0}
  /\ \A j \in 1..Len(d) : d[j] \notin {Delim, Crlf}
  /\ p.style = "plain" =>
       /\ Len(d) = Len(p.name) + 2
       /\ d[1] = NameEq /\ d[Len(p.name) + 2] = Quote
       /\ \A j \in 1..Len(p.name) : d[1 + j] = p.name[j]
  /\ p.style = "extended" =>
       /\ Len(d) = Len(e) + 2
       /\ d[1] = NameStar /\ d[2] = Charset
       /\ \A j \in 1..Len(e) : d[2 + j] = e[j]
  /\ p.style = "both" =>
       /\ Len(d) = Len(e) + 5
       /\ d[1] = NameEq /\ d[2] = Underscore /\ d[3] = Quote
       /\ d[4] = NameStar /\ d[5] = Charset
       /\ \A j \in 1..Len(e) : d[5 + j] = e[j]
  /\ p.style = "field" => d = <<Underscore>>

LEMMA DispositionShape ==
  ASSUME NEW p \in PartType, NEW e, e = Escaped(p.name)
  PROVE  NamesFile(Disposition(p), p, e)
<1>1. p.name \in Seq(Byte) /\ p.style \in {"plain", "extended", "both", "field"}
  BY DEF PartType
<1>2. e \in Seq(Byte)
  BY <1>1, EscapedShape
<1>3. /\ \A j \in 1..Len(p.name) : p.name[j] \in Byte
      /\ \A j \in 1..Len(e) : e[j] \in Byte
      /\ Len(p.name) \in Nat /\ Len(e) \in Nat
  BY <1>1, <1>2, LenProperties, ElementOfSeq
<1>4. \A u \in Byte \cup {NameEq, NameStar, Charset, Quote, Underscore} : u \notin {Delim, Crlf}
  BY DEF Byte, NameEq, NameStar, Charset, Quote, Underscore, Delim, Crlf
<1>5. Disposition(p) \in Seq(Units)
  BY PartTextType
<1> DEFINE d == Disposition(p)
<1>6. CASE p.style = "plain"
  <2>1. d = <<NameEq>> \o p.name \o <<Quote>>
    BY <1>6 DEF Disposition
  <2>2. /\ Len(d) = Len(p.name) + 2 /\ d[1] = NameEq /\ d[Len(p.name) + 2] = Quote
        /\ \A j \in 1..Len(p.name) : d[1 + j] = p.name[j]
    <3> DEFINE a == <<NameEq>> \o p.name
    <3>1. /\ a \in Seq(Byte \cup {NameEq}) /\ Len(a) = Len(p.name) + 1 /\ a[1] = NameEq
          /\ \A j \in 1..Len(p.name) : a[1 + j] = p.name[j]
      BY <1>1, <1>3
    <3>2. d = a \o <<Quote>>
      BY <2>1
    <3> HIDE DEF a, d
    <3>3. /\ Len(a \o <<Quote>>) = Len(p.name) + 2 /\ (a \o <<Quote>>)[Len(p.name) + 2] = Quote
          /\ \A j \in 1..(Len(p.name) + 1) : (a \o <<Quote>>)[j] = a[j]
      BY <1>3, <3>1
    <3>4. \A j \in 1..Len(p.name) : 1 + j \in 1..(Len(p.name) + 1)
      BY <1>3
    <3>5. /\ Len(d) = Len(p.name) + 2 /\ d[Len(p.name) + 2] = Quote
          /\ \A j \in 1..(Len(p.name) + 1) : d[j] = a[j]
      BY <3>2, <3>3
    <3>6. d[1] = NameEq
      <4>1. 1 \in 1..(Len(p.name) + 1)
        BY <1>3
      <4> QED
        BY <3>1, <3>5, <4>1
    <3>7. \A j \in 1..Len(p.name) : d[1 + j] = p.name[j]
      BY <3>1, <3>4, <3>5
    <3> QED
      BY <3>5, <3>6, <3>7
  <2> HIDE DEF d
  <2>3. \A j \in 1..Len(d) : d[j] \in Byte \cup {NameEq, Quote}
    <3> TAKE j \in 1..Len(d)
    <3>1. j = 1 \/ j = Len(p.name) + 2 \/ (j - 1 \in 1..Len(p.name) /\ 1 + (j - 1) = j)
      BY <1>3, <2>2
    <3> QED
      BY <1>3, <2>2, <3>1
  <2>4. \A j \in 1..Len(d) : d[j] \notin {Delim, Crlf}
    BY <1>4, <2>3
  <2>5. Len(d) \in Nat \ {0} /\ d \in Seq(Units)
    BY <1>3, <1>5, <2>2 DEF d
  <2>6. NamesFile(d, p, e)
    BY <1>6, <2>2, <2>4, <2>5 DEF NamesFile
  <2> QED
    BY <2>6 DEF d
<1>7. CASE p.style = "extended"
  <2>1. d = <<NameStar, Charset>> \o e
    BY <1>7 DEF Disposition
  <2>2. /\ Len(d) = Len(e) + 2 /\ d[1] = NameStar /\ d[2] = Charset
        /\ \A j \in 1..Len(e) : d[2 + j] = e[j]
    BY <1>2, <1>3, <2>1
  <2> HIDE DEF d
  <2>3. \A j \in 1..Len(d) : d[j] \in Byte \cup {NameStar, Charset}
    <3> TAKE j \in 1..Len(d)
    <3>1. j = 1 \/ j = 2 \/ (j - 2 \in 1..Len(e) /\ 2 + (j - 2) = j)
      BY <1>3, <2>2
    <3> QED
      BY <1>3, <2>2, <3>1
  <2>4. \A j \in 1..Len(d) : d[j] \notin {Delim, Crlf}
    BY <1>4, <2>3
  <2>5. Len(d) \in Nat \ {0} /\ d \in Seq(Units)
    BY <1>3, <1>5, <2>2 DEF d
  <2>6. NamesFile(d, p, e)
    BY <1>7, <2>2, <2>4, <2>5 DEF NamesFile
  <2> QED
    BY <2>6 DEF d
<1>8. CASE p.style = "both"
  <2>1. d = <<NameEq, Underscore, Quote, NameStar, Charset>> \o e
    BY <1>8 DEF Disposition
  <2>2. /\ Len(d) = Len(e) + 5 /\ d[1] = NameEq /\ d[2] = Underscore /\ d[3] = Quote
        /\ d[4] = NameStar /\ d[5] = Charset
        /\ \A j \in 1..Len(e) : d[5 + j] = e[j]
    BY <1>2, <1>3, <2>1
  <2> HIDE DEF d
  <2>3. \A j \in 1..Len(d) : d[j] \in Byte \cup {NameStar, Charset, NameEq, Underscore, Quote}
    <3> TAKE j \in 1..Len(d)
    <3>1. j \in {1, 2, 3, 4, 5} \/ (j - 5 \in 1..Len(e) /\ 5 + (j - 5) = j)
      BY <1>3, <2>2
    <3> QED
      BY <1>3, <2>2, <3>1
  <2>4. \A j \in 1..Len(d) : d[j] \notin {Delim, Crlf}
    BY <1>4, <2>3
  <2>5. Len(d) \in Nat \ {0} /\ d \in Seq(Units)
    BY <1>3, <1>5, <2>2 DEF d
  <2>6. NamesFile(d, p, e)
    BY <1>8, <2>2, <2>4, <2>5 DEF NamesFile
  <2> QED
    BY <2>6 DEF d
<1>9. CASE p.style = "field"
  <2>1. d = <<Underscore>>
    BY <1>9 DEF Disposition
  <2>2. Len(d) = 1 /\ \A j \in 1..1 : d[j] = Underscore
    BY <2>1
  <2>3. \A j \in 1..Len(d) : d[j] \notin {Delim, Crlf}
    BY <1>4, <2>2
  <2> HIDE DEF d
  <2>4. d \in Seq(Units)
    BY <1>5 DEF d
  <2>5. NamesFile(d, p, e)
    BY <1>9, <2>1, <2>2, <2>3, <2>4 DEF NamesFile
  <2> QED
    BY <2>5 DEF d
<1> QED
  BY <1>1, <1>6, <1>7, <1>8, <1>9

\* The elements of a part, by where they stand.
LEMMA LaidWhere ==
  ASSUME NEW t, NEW d, NEW x, Len(d) \in Nat \ {0}, Len(x) \in Nat, Laid(t, d, x), NEW i \in 1..Len(t)
  PROVE  \/ i = 1 /\ t[i] = Delim
         \/ i \in {2, Len(d) + 3, Len(d) + 4, Len(d) + Len(x) + 5} /\ t[i] = Crlf
         \/ i \in 3..(Len(d) + 2) /\ i - 2 \in 1..Len(d) /\ t[i] = d[i - 2]
         \/ i \in (Len(d) + 5)..(Len(d) + Len(x) + 4) /\ i - Len(d) - 4 \in 1..Len(x)
            /\ t[i] = x[i - Len(d) - 4]
<1> DEFINE m == Len(d)
           l == Len(x)
<1>1. m \in Nat \ {0} /\ l \in Nat /\ Len(t) = m + l + 5
  BY DEF Laid
<1>2. /\ t[1] = Delim /\ t[2] = Crlf
      /\ \A j \in 1..m : t[2 + j] = d[j]
      /\ t[m + 3] = Crlf /\ t[m + 4] = Crlf
      /\ \A j \in 1..l : t[m + 4 + j] = x[j]
      /\ t[m + l + 5] = Crlf
  BY DEF Laid
<1> HIDE DEF m, l
<1>3. \/ i \in {1, 2, m + 3, m + 4, m + l + 5}
      \/ i \in 3..(m + 2) /\ i - 2 \in 1..m /\ 2 + (i - 2) = i
      \/ i \in (m + 5)..(m + l + 4) /\ i - m - 4 \in 1..l /\ m + 4 + (i - m - 4) = i
  BY <1>1
<1>4. CASE i \in {1, 2, m + 3, m + 4, m + l + 5}
  BY <1>2, <1>4 DEF m, l
<1>5. CASE i \in 3..(m + 2) /\ i - 2 \in 1..m /\ 2 + (i - 2) = i
  <2>1. t[i] = d[i - 2]
    BY <1>2, <1>5
  <2> QED
    BY <1>5, <2>1 DEF m
<1>6. CASE i \in (m + 5)..(m + l + 4) /\ i - m - 4 \in 1..l /\ m + 4 + (i - m - 4) = i
  <2>1. t[i] = x[i - m - 4]
    BY <1>2, <1>6
  <2> QED
    BY <1>6, <2>1 DEF m, l
<1> QED
  BY <1>3, <1>4, <1>5, <1>6

\* A name that parse_filename finds behind filename*= in a text, it finds in the text's end
\* alone, if there is no filename*= before that.
LEMMA SpelledBehind ==
  ASSUME NEW t \in Seq(Units), NEW u \in Seq(Units), NEW q \in Nat, Len(t) = q + Len(u),
         \A i \in 1..Len(u) : t[q + i] = u[i], \A i \in 1..q : t[i] # NameStar,
         HasExtendedName(t)
  PROVE  HasExtendedName(u)
<1> DEFINE a == StarAt(t)
           c == CharsetAt(t)
<1>1. Len(u) \in Nat /\ Len(t) \in Nat
  BY LenProperties
<1>2. a # 0 /\ c # 0 /\ (LineEnd(t) = 0 \/ c < LineEnd(t))
  BY DEF HasExtendedName
<1>3. a \in 1..Len(t) /\ t[a] = NameStar /\ \A i \in 1..(a - 1) : t[i] # NameStar
  BY <1>2, FindResult DEF StarAt
<1>4. a \in Nat \ {0}
  BY <1>1, <1>3
<1>5. c \in a..Len(t) /\ t[c] = Charset /\ \A i \in a..(c - 1) : t[i] # Charset
  BY <1>2, <1>4, FindResult DEF CharsetAt
<1>6. /\ LineEnd(t) = 0 => \A i \in a..Len(t) : t[i] # Crlf
      /\ LineEnd(t) # 0 => \A i \in a..(LineEnd(t) - 1) : t[i] # Crlf
      /\ LineEnd(t) \in 0..Len(t)
  BY <1>4, FindResult DEF LineEnd
<1> HIDE DEF a, c
<1>7. \A i \in a..c : t[i] # Crlf
  BY <1>1, <1>2, <1>4, <1>5, <1>6 DEF Charset, Crlf
<1> DEFINE b == a - q
           d == c - q
<1>8. a > q
  BY <1>1, <1>3
<1>9. b \in 1..Len(u) /\ d \in b..Len(u) /\ q + b = a /\ q + d = c /\ b \in Nat \ {0}
  BY <1>1, <1>3, <1>5, <1>8
<1> HIDE DEF b, d
<1>10. StarAt(u) = b
  <2>1. u[b] = NameStar
    BY <1>3, <1>9
  <2>2. \A i \in 1..(b - 1) : u[i] # NameStar
    <3> TAKE i \in 1..(b - 1)
    <3>1. q + i \in 1..(a - 1) /\ i \in 1..Len(u)
      BY <1>1, <1>9
    <3> QED
      BY <1>3, <3>1
  <2> QED
    BY <1>9, <2>1, <2>2, FoundAt DEF StarAt
<1>11. CharsetAt(u) = d
  <2>1. u[d] = Charset
    <3>1. d \in 1..Len(u)
      BY <1>1, <1>9
    <3> QED
      BY <1>5, <1>9, <3>1
  <2>2. \A i \in b..(d - 1) : u[i] # Charset
    <3> TAKE i \in b..(d - 1)
    <3>1. q + i \in a..(c - 1) /\ i \in 1..Len(u)
      BY <1>1, <1>9
    <3> QED
      BY <1>5, <3>1
  <2> QED
    BY <1>9, <1>10, <2>1, <2>2, FoundAt DEF CharsetAt
<1>12. LineEnd(u) = 0 \/ d < LineEnd(u)
  <2>1. /\ LineEnd(u) \in 0..Len(u)
        /\ LineEnd(u) # 0 => LineEnd(u) \in b..Len(u) /\ u[LineEnd(u)] = Crlf
    BY <1>9, <1>10, FindResult DEF LineEnd
  <2>2. ASSUME NEW r \in b..Len(u), u[r] = Crlf  PROVE d < r
    <3>1. q + r \notin a..c
      <4>1. r \in 1..Len(u)
        BY <1>1, <1>9
      <4> QED
        BY <1>7, <2>2, <4>1
    <3> QED
      BY <1>1, <1>4, <1>9, <3>1
  <2> QED
    BY <2>1, <2>2
<1>13. d # 0 /\ b # 0
  BY <1>1, <1>9
<1> QED
  BY <1>10, <1>11, <1>12, <1>13 DEF HasExtendedName

\* The loop of handle_upload gets from a part what the client has put into it: the data
\* from behind the first empty line on, whatever empty lines the data has, and, unless the
\* data are taken for one, the name.
LEMMA PartRead ==
  ASSUME NEW p \in PartType, WellFormed(p), NEW t, t = PartText(p)
  PROVE  /\ t \in Seq(Units) /\ Len(t) \in Nat \ {0}
         /\ t[1] = Delim /\ \A i \in 2..Len(t) : t[i] # Delim
         /\ FindBlankLine(t) # 0 /\ DataOf(t) = Append(p.data, Crlf)
         /\ ~Misleads(p) => /\ HasExtendedName(t) <=> p.style \in {"extended", "both"}
                            /\ HasExtendedName(t) => ExtendedName(t) = Escaped(p.name)
                            /\ ~HasExtendedName(t) => PlainName(t) = GivenName(p)
<1> DEFINE d == Disposition(p)
           x == p.data
           e == Escaped(p.name)
           m == Len(d)
           l == Len(x)
<1>1. p.name \in Seq(Byte) /\ x \in Seq(Units) /\ p.style \in {"plain", "extended", "both", "field"}
  BY DEF PartType
<1>2. /\ d \in Seq(Units) /\ m \in Nat \ {0}
      /\ \A j \in 1..m : d[j] \notin {Delim, Crlf}
  BY DispositionShape DEF NamesFile
<1>3. t \in Seq(Units) /\ Len(t) \in Nat /\ l \in Nat
  BY <1>1, PartTextType, LenProperties
<1>4. Laid(t, d, x)
  <2>1. {Delim, Crlf} \subseteq Units
    BY DEF Units
  <2>2. t = <<Delim, Crlf>> \o d \o <<Crlf, Crlf>> \o x \o <<Crlf>>
    BY DEF PartText, Heading
  <2> HIDE DEF d, x
  <2> QED
    BY <1>1, <1>2, <2>1, <2>2, LaidOut
<1>5. /\ \A j \in 1..l : x[j] # Delim
      /\ \A j \in 1..Len(p.name) : p.name[j] \notin {Quote, Nul}
  <2>1. DOMAIN x = 1..l /\ DOMAIN p.name = 1..Len(p.name)
    BY <1>1, LenProperties
  <2> QED
    BY <2>1 DEF WellFormed
<1>6. e \in Seq(Byte) /\ e \in Seq(Units) /\ Len(e) \in Nat
  <2>1. e \in Seq(Byte)
    BY <1>1, EscapedShape
  <2> QED
    BY <2>1, LenProperties DEF Units
<1>7. \A j \in 1..Len(e) : e[j] \in Byte
  BY <1>6, ElementOfSeq
<1>8. /\ p.style = "plain" =>
              /\ m = Len(p.name) + 2
              /\ d[1] = NameEq /\ d[Len(p.name) + 2] = Quote
              /\ \A j \in 1..Len(p.name) : d[1 + j] = p.name[j]
      /\ p.style = "extended" =>
              /\ m = Len(e) + 2
              /\ d[1] = NameStar /\ d[2] = Charset
              /\ \A j \in 1..Len(e) : d[2 + j] = e[j]
      /\ p.style = "both" =>
              /\ m = Len(e) + 5
              /\ d[1] = NameEq /\ d[2] = Underscore /\ d[3] = Quote
              /\ d[4] = NameStar /\ d[5] = Charset
              /\ \A j \in 1..Len(e) : d[5 + j] = e[j]
      /\ p.style = "field" => d = <<Underscore>>
  BY DispositionShape DEF NamesFile
<1> HIDE DEF d, x, e, m, l
<1>9. \A i \in 1..Len(t) :
         \/ i = 1 /\ t[i] = Delim
         \/ i \in {2, m + 3, m + 4, m + l + 5} /\ t[i] = Crlf
         \/ i \in 3..(m + 2) /\ i - 2 \in 1..m /\ t[i] = d[i - 2]
         \/ i \in (m + 5)..(m + l + 4) /\ i - m - 4 \in 1..l /\ t[i] = x[i - m - 4]
  <2>1. Len(d) \in Nat \ {0} /\ Len(x) \in Nat
    BY <1>2, <1>3 DEF m, l
  <2> TAKE i \in 1..Len(t)
  <2>2. \/ i = 1 /\ t[i] = Delim
        \/ i \in {2, Len(d) + 3, Len(d) + 4, Len(d) + Len(x) + 5} /\ t[i] = Crlf
        \/ i \in 3..(Len(d) + 2) /\ i - 2 \in 1..Len(d) /\ t[i] = d[i - 2]
        \/ i \in (Len(d) + 5)..(Len(d) + Len(x) + 4) /\ i - Len(d) - 4 \in 1..Len(x)
            /\ t[i] = x[i - Len(d) - 4]
    BY <1>4, <2>1, LaidWhere
  <2> QED
    BY <2>2, Zenon DEF m, l
<1>10. /\ Len(t) = m + l + 5 /\ t[1] = Delim /\ t[2] = Crlf
       /\ \A j \in 1..m : t[2 + j] = d[j]
       /\ t[m + 3] = Crlf /\ t[m + 4] = Crlf
       /\ \A j \in 1..l : t[m + 4 + j] = x[j]
       /\ t[m + l + 5] = Crlf
  BY <1>4 DEF Laid, m, l
<1>11. \A i \in 2..Len(t) : t[i] # Delim
  <2> TAKE i \in 2..Len(t)
  <2>1. i \in 1..Len(t) /\ i # 1 /\ Crlf # Delim
    BY <1>3 DEF Delim, Crlf
  <2>2. \/ t[i] = Crlf
        \/ i - 2 \in 1..m /\ t[i] = d[i - 2]
        \/ i - m - 4 \in 1..l /\ t[i] = x[i - m - 4]
    BY <1>9, <2>1, Zenon
  <2> QED
    BY <1>2, <1>5, <2>1, <2>2
<1>12. FindBlankLine(t) = m + 3
  <2>1. m + 3 \in 1..(Len(t) - 1)
    BY <1>2, <1>3, <1>10
  <2>2. ASSUME NEW i \in 1..(m + 2), t[i] = Crlf, t[i + 1] = Crlf
        PROVE  FALSE
    <3>1. CASE i = 1
      BY <1>10, <2>2, <3>1 DEF Delim, Crlf
    <3>2. CASE i = 2
      <4>1. t[2 + 1] = d[1] /\ d[1] # Crlf
        BY <1>2, <1>10
      <4> QED
        BY <2>2, <3>2, <4>1
    <3>3. CASE i \notin {1, 2}
      <4>1. i - 2 \in 1..m /\ 2 + (i - 2) = i
        BY <1>2, <3>3
      <4>2. t[i] = d[i - 2] /\ d[i - 2] # Crlf
        BY <1>2, <1>10, <4>1
      <4> QED
        BY <2>2, <4>2
    <3> QED
      BY <3>1, <3>2, <3>3
  <2> PICK q \in Nat : q = m + 3
    BY <1>2
  <2>3. q \in 1..(Len(t) - 1)
    BY <2>1
  <2>4. t[q] = Crlf
    BY <1>10
  <2>5. t[q + 1] = Crlf
    <3>1. q + 1 = m + 4
      BY <1>2
    <3> QED
      BY <1>10, <3>1
  <2>6. \A i \in 1..(q - 1) : ~(t[i] = Crlf /\ t[i + 1] = Crlf)
    <3> TAKE i \in 1..(q - 1)
    <3>1. i \in 1..(m + 2)
      BY <1>2
    <3> QED
      BY <2>2, <3>1, Zenon
  <2>7. FindBlankLine(t) = q
    BY <1>3, <2>3, <2>4, <2>5, <2>6, BlankAt
  <2> QED
    BY <2>7
<1>13. DataOf(t) = Append(x, Crlf)
  <2> DEFINE u == Append(x, Crlf)
  <2>1. u \in Seq(Units) /\ Len(u) = l + 1 /\ (\A j \in 1..l : u[j] = x[j]) /\ u[l + 1] = Crlf
    BY <1>1, <1>3 DEF Units, l, x
  <2> HIDE DEF u
  <2>2. \A j \in 1..Len(u) : t[m + 5 + j - 1] = u[j]
    <3> TAKE j \in 1..Len(u)
    <3>1. (j \in 1..l /\ m + 5 + j - 1 = m + 4 + j) \/ (j = l + 1 /\ m + 5 + j - 1 = m + l + 5)
      BY <1>2, <1>3, <2>1
    <3> QED
      BY <1>10, <2>1, <3>1
  <2>3. m + 5 + Len(u) <= Len(t) + 1 /\ m + 5 \in Nat \ {0} /\ m + 5 + Len(u) - 1 = Len(t) /\ m + 3 + 2 = m + 5
    BY <1>2, <1>3, <1>10, <2>1
  <2>4. SubSeq(t, m + 5, m + 5 + Len(u) - 1) = u
    <3> DEFINE q == m + 5
    <3>1. q \in Nat \ {0} /\ q + Len(u) <= Len(t) + 1 /\ \A j \in 1..Len(u) : t[q + j - 1] = u[j]
      BY <2>2, <2>3
    <3> HIDE DEF q
    <3>2. SubSeq(t, q, q + Len(u) - 1) = u
      BY <1>3, <2>1, <3>1, CutOut
    <3> QED
      BY <3>2 DEF q
  <2> QED
    BY <1>12, <2>3, <2>4 DEF DataOf, Between, u
<1>14. CASE p.style \in {"plain", "field"} /\ ~Misleads(p)
  <2>1. \A i \in 1..(m + 4) : t[i] # NameStar
    <3>1. \A j \in 1..m : d[j] # NameStar
      <4>1. CASE p.style = "plain"
        <5> TAKE j \in 1..m
        <5>1. /\ \A k \in 1..Len(p.name) : p.name[k] \in Byte
              /\ Len(p.name) \in Nat
          BY <1>1, LenProperties, ElementOfSeq
        <5>2. j = 1 \/ j = Len(p.name) + 2 \/ (j - 1 \in 1..Len(p.name) /\ 1 + (j - 1) = j)
          BY <1>8, <4>1, <5>1
        <5> QED
          <6>1. d[1] = NameEq /\ d[Len(p.name) + 2] = Quote /\ \A k \in 1..Len(p.name) : d[1 + k] \in Byte
            BY <1>8, <4>1, <5>1
          <6>2. d[j] \in Byte \cup {NameEq, Quote}
            BY <5>2, <6>1
          <6> QED
            BY <6>2 DEF NameStar, NameEq, Quote, Byte
      <4>2. CASE p.style = "field"
        <5>1. d = <<Underscore>>
          BY <1>8, <4>2
        <5>2. m = 1 /\ d[1] = Underscore
          BY <5>1 DEF m
        <5> QED
          BY <5>2 DEF NameStar, Underscore
      <4> QED
        BY <1>14, <4>1, <4>2
    <3> QED
      BY <1>2, <1>3, <1>9, <1>10, <3>1 DEF NameStar, Delim, Crlf
  <2>2. ~HasExtendedName(Append(x, Crlf)) /\ (p.style = "field" => Find(x, NameEq, 1) = 0)
    BY <1>14 DEF Misleads, x
  <2>3. ~HasExtendedName(t)
    <3> DEFINE u == Append(x, Crlf)
               q == m + 4
    <3>1. u \in Seq(Units) /\ Len(u) = l + 1 /\ (\A j \in 1..l : u[j] = x[j]) /\ u[l + 1] = Crlf
      BY <1>1, <1>3 DEF Units, l, x
    <3>2. \A j \in 1..Len(u) : t[q + j] = u[j]
      <4> TAKE j \in 1..Len(u)
      <4>1. j \in 1..l \/ (j = l + 1 /\ q + j = m + l + 5)
        BY <1>2, <1>3, <3>1
      <4> QED
        BY <1>10, <3>1, <4>1
    <3>3. q \in Nat /\ Len(t) = q + Len(u)
      BY <1>2, <1>3, <1>10, <3>1
    <3>4. \A i \in 1..q : t[i] # NameStar
      BY <2>1
    <3>5. ~HasExtendedName(u)
      BY <2>2
    <3> HIDE DEF u, q
    <3> QED
      BY <1>3, <3>1, <3>2, <3>3, <3>4, <3>5, SpelledBehind
  <2>4. PlainName(t) = GivenName(p)
    <3>1. CASE p.style = "plain"
      <4>1. Len(p.name) \in Nat
        BY <1>1, LenProperties
      <4>2. t[2 + 1] = NameEq /\ t[2 + (Len(p.name) + 2)] = Quote
            /\ \A j \in 1..Len(p.name) : t[2 + (1 + j)] = p.name[j]
        <5>1. 1 \in 1..m /\ Len(p.name) + 2 \in 1..m /\ \A j \in 1..Len(p.name) : 1 + j \in 1..m
          BY <1>2, <1>8, <3>1, <4>1
        <5> QED
          BY <1>8, <1>10, <3>1, <5>1
      <4>3. 3 \in 1..Len(t) /\ t[3] = NameEq /\ \A i \in 1..(3 - 1) : t[i] # NameEq
        BY <1>2, <1>3, <1>10, <4>2 DEF NameEq, Delim, Crlf
      <4>4. Find(t, NameEq, 1) = 3
        BY <1>3, <4>3, FoundAt
      <4> DEFINE q == Len(p.name) + 4
      <4>5. q \in 4..Len(t) /\ t[q] = Quote
        BY <1>2, <1>3, <1>8, <1>10, <3>1, <4>1, <4>2
      <4>6. \A i \in 4..(q - 1) : t[i] # Quote
        <5> TAKE i \in 4..(q - 1)
        <5>1. i - 3 \in 1..Len(p.name) /\ 2 + (1 + (i - 3)) = i
          BY <4>1
        <5> QED
          BY <1>5, <4>2, <5>1
      <4>7. Find(t, Quote, 4) = q
        <5> HIDE DEF q
        <5> QED
          BY <1>3, <4>5, <4>6, FoundAt
      <4>8. SubSeq(t, 4, 4 + Len(p.name) - 1) = p.name
        <5>1. \A j \in 1..Len(p.name) : t[4 + j - 1] = p.name[j]
          <6> TAKE j \in 1..Len(p.name)
          <6>1. 4 + j - 1 = 2 + (1 + j)
            BY <4>1
          <6> QED
            BY <4>2, <6>1
        <5>2. 4 + Len(p.name) <= Len(t) + 1
          BY <1>3, <4>1, <4>5
        <5> QED
          BY <1>1, <1>3, <5>1, <5>2, CutOut
      <4>9. q - 1 = 4 + Len(p.name) - 1 /\ q # 0
        BY <4>1
      <4> HIDE DEF q
      <4> QED
        <5>1. Find(t, NameEq, 1) + 1 = 4
          BY <4>4
        <5>2. PlainName(t) = Between(t, 4, Find(t, Quote, 4))
          BY <5>1 DEF PlainName
        <5>3. Between(t, 4, q) = SubSeq(t, 4, q - 1)
          BY <4>9 DEF Between
        <5> QED
          BY <3>1, <4>7, <4>8, <4>9, <5>2, <5>3 DEF GivenName
    <3>2. CASE p.style = "field"
      <4>1. \A i \in 1..Len(t) : t[i] # NameEq
        <5>1. \A j \in 1..m : d[j] # NameEq
          <6>1. d = <<Underscore>>
            BY <1>8, <3>2
          <6>2. m = 1 /\ d[1] = Underscore
            BY <6>1 DEF m
          <6> QED
            BY <6>2 DEF NameEq, Underscore
        <5>2. \A j \in 1..l : x[j] # NameEq
          BY <1>1, <2>2, <3>2, FindResult DEF l
        <5> QED
          BY <1>9, <5>1, <5>2 DEF NameEq, Delim, Crlf
      <4>2. /\ Find(t, NameEq, 1) \in 0..Len(t)
            /\ Find(t, NameEq, 1) # 0 => Find(t, NameEq, 1) \in 1..Len(t) /\ t[Find(t, NameEq, 1)] = NameEq
        BY <1>3, FindResult
      <4>3. Find(t, NameEq, 1) = 0
        BY <4>1, <4>2
      <4> QED
        BY <3>2, <4>3 DEF PlainName, GivenName
    <3> QED
      BY <1>14, <3>1, <3>2
  <2> QED
    BY <1>2, <1>3, <1>10, <1>11, <1>12, <1>13, <1>14, <2>3, <2>4 DEF x
<1>15. CASE p.style \in {"extended", "both"}
  <2> DEFINE k == IF p.style = "extended" THEN 3 ELSE 6
  <2>1. /\ m = Len(e) + k - 1 /\ k \in {3, 6}
        /\ \A i \in 1..(k - 1) : t[i] # NameStar
        /\ t[k] = NameStar /\ t[k + 1] = Charset
        /\ \A j \in 1..Len(e) : t[k + 1 + j] = e[j]
    <3>1. CASE p.style = "extended"
      <4>1. k = 3 /\ m = Len(e) + k - 1 /\ 1 \in 1..m /\ 2 \in 1..m /\ \A j \in 1..Len(e) : 2 + j \in 1..m
        BY <1>6, <1>8, <3>1
      <4>2. t[2 + 1] = d[1] /\ t[2 + 2] = d[2] /\ \A j \in 1..Len(e) : t[2 + (2 + j)] = d[2 + j]
        BY <1>10, <4>1
      <4>3. \A j \in 1..Len(e) : k + 1 + j = 2 + (2 + j)
        BY <1>6, <4>1
      <4>4. \A i \in 1..(k - 1) : t[i] # NameStar
        BY <1>10, <4>1 DEF NameStar, Delim, Crlf
      <4> QED
        BY <1>8, <3>1, <4>1, <4>2, <4>3, <4>4
    <3>2. CASE p.style = "both"
      <4>1. k = 6 /\ m = Len(e) + k - 1 /\ {1, 2, 3, 4, 5} \subseteq 1..m /\ \A j \in 1..Len(e) : 5 + j \in 1..m
        BY <1>6, <1>8, <3>2
      <4>2. /\ t[2 + 1] = d[1] /\ t[2 + 2] = d[2] /\ t[2 + 3] = d[3] /\ t[2 + 4] = d[4] /\ t[2 + 5] = d[5]
            /\ \A j \in 1..Len(e) : t[2 + (5 + j)] = d[5 + j]
        BY <1>10, <4>1
      <4>3. \A j \in 1..Len(e) : k + 1 + j = 2 + (5 + j)
        BY <1>6, <4>1
      <4>4. \A i \in 1..(k - 1) : t[i] # NameStar
        <5>1. \A i \in 1..(k - 1) : i \in {1, 2, 2 + 1, 2 + 2, 2 + 3}
          BY <4>1
        <5> QED
          BY <1>8, <1>10, <3>2, <4>2, <5>1 DEF NameStar, NameEq, Underscore, Quote, Delim, Crlf
      <4> QED
        BY <1>8, <3>2, <4>1, <4>2, <4>3, <4>4
    <3> QED
      BY <1>15, <3>1, <3>2
  <2> HIDE DEF k
  <2> DEFINE h == k + 1
             r == m + 3
  <2>2. k \in 1..Len(t) /\ h \in k..Len(t) /\ r \in k..Len(t) /\ h < r /\ h = r - Len(e) - 1 /\ h + 1 + Len(e) - 1 = r - 1
    BY <1>3, <1>6, <1>10, <2>1
  <2>3. StarAt(t) = k
    BY <1>3, <2>1, <2>2, FoundAt DEF StarAt
  <2>4. CharsetAt(t) = h
    <3>1. t[h] = Charset /\ \A i \in k..(h - 1) : t[i] # Charset
      BY <2>1 DEF Charset, NameStar
    <3>2. k \in Nat \ {0}
      BY <2>1
    <3> HIDE DEF h, r
    <3> QED
      BY <1>3, <2>2, <2>3, <3>1, <3>2, FoundAt DEF CharsetAt
  <2>5. LineEnd(t) = r
    <3>1. t[r] = Crlf
      BY <1>10
    <3>2. \A i \in k..(r - 1) : t[i] # Crlf
      <4> TAKE i \in k..(r - 1)
      <4>1. i - 2 \in 1..m /\ 2 + (i - 2) = i
        BY <1>2, <2>1
      <4>2. t[2 + (i - 2)] = d[i - 2] /\ d[i - 2] # Crlf
        BY <1>2, <1>10, <4>1
      <4> QED
        BY <4>1, <4>2
    <3>3. k \in Nat \ {0}
      BY <2>1
    <3> HIDE DEF h, r
    <3> QED
      BY <1>3, <2>2, <2>3, <3>1, <3>2, <3>3, FoundAt DEF LineEnd
  <2>6. HasExtendedName(t)
    <3>1. k # 0 /\ h # 0 /\ r # 0
      BY <1>2, <2>1
    <3> QED
      BY <2>2, <2>3, <2>4, <2>5, <3>1 DEF HasExtendedName
  <2>7. ExtendedName(t) = e
    <3>1. \A j \in 1..Len(e) : t[h + 1 + j - 1] = e[j]
      <4> TAKE j \in 1..Len(e)
      <4>1. h + 1 + j - 1 = k + 1 + j
        BY <1>6, <2>1
      <4> QED
        BY <2>1, <4>1
    <3>2. h + 1 \in Nat \ {0} /\ h + 1 + Len(e) <= Len(t) + 1 /\ r # 0
      BY <1>2, <1>3, <1>6, <1>10, <2>1
    <3>3. SubSeq(t, h + 1, h + 1 + Len(e) - 1) = e
      <4> HIDE DEF h, r
      <4> QED
        BY <1>3, <1>6, <3>1, <3>2, CutOut
    <3> QED
      BY <2>2, <2>4, <2>5, <3>2, <3>3 DEF ExtendedName, Between
  <2> QED
    BY <1>2, <1>3, <1>10, <1>11, <1>12, <1>13, <1>15, <2>6, <2>7 DEF x, e
<1>16. CASE Misleads(p)
  BY <1>2, <1>3, <1>10, <1>11, <1>12, <1>13, <1>16 DEF x
<1> QED
  BY <1>1, <1>14, <1>15, <1>16
===============================================================================
