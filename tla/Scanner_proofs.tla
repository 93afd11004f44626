--------------------------- MODULE Scanner_proofs ---------------------------
(***************************************************************************)
(* Theorems about the scanner, for every set of texts.                     *)
(***************************************************************************)
EXTENDS Scanner, FiniteSetTheorems, TLAPS

(* The line of position n of a text, counted as advanceBy counts.          *)
CountsIn(t, i) == i \in DOMAIN t /\ t[i] = NL /\ i + 1 \in DOMAIN t
BreaksIn(t, i, j) == {k \in i..j : CountsIn(t, k)}
LineAt(t, n) == (IF t = <<>> THEN 0 ELSE 1) + Cardinality(BreaksIn(t, 1, n - 1))

Modes == {"gap", "int", "hex", "string", "id", "line", "block"}
Kinds == {"int", "id", "string", "op", "note", "comment"}
PieceType == [kind : Kinds, from : Int, to : Int, line : Int]

(* Everything before it has been read.                                     *)
Front == IF mode = "gap" THEN pos ELSE from

(* The inductive invariant: where the scanner is, ...                      *)
PositionInv ==
  /\ text \in Texts
  /\ pos \in 1..End /\ from \in 1..pos
  /\ mode \in Modes /\ status \in {"scan", "eof", "unknown"}

(* ... what line it is on there and at the start of the piece under way,   *)
LineInv ==
  /\ lineNo = LineAt(text, pos) /\ line \in 0..lineNo
  /\ mode # "gap" => from \in 1..Len(text) /\ line = LineAt(text, from)
  /\ mode = "id" => \A k \in from..pos - 1 : text[k] # NL

(* ... and what it has read.                                               *)
PieceOK(t, front, p) ==
  /\ p.from \in 1..Len(t) /\ p.to \in p.from - 1..front - 1
  /\ p.line = LineAt(t, p.from)

Consecutive(ps) == \A p \in 1..Len(ps) - 1 : ps[p].to < ps[p + 1].from

Covered(t, ps, front) ==
  \A i \in 1..front - 1 : t[i] \in Gaps \/ \E p \in DOMAIN ps : i \in ps[p].from..ps[p].to

PiecesInv ==
  /\ pieces \in Seq(PieceType)
  /\ \A p \in DOMAIN pieces : PieceOK(text, Front, pieces[p])
  /\ Consecutive(pieces)
  /\ Covered(text, pieces, Front)

EofInv == status = "eof" => pos = End \/ text[pos] = NUL

SInv == PositionInv /\ LineInv /\ PiecesInv /\ EofInv
-----------------------------------------------------------------------------
(* Counting lines.                                                         *)

(* The characters that a proof tells apart.                                *)
LEMMA Marks == Quote # NUL /\ Backslash # NUL /\ Quote # Backslash
  BY Zenon DEF Quote, Backslash, NUL

LEMMA BreaksFinite ==
  ASSUME NEW t, NEW i \in Int, NEW j \in Int
  PROVE  /\ IsFiniteSet(BreaksIn(t, i, j))
         /\ Cardinality(BreaksIn(t, i, j)) \in Nat
<1>1. IsFiniteSet(i..j)
  BY FS_Interval
<1>2. BreaksIn(t, i, j) \subseteq i..j
  BY DEF BreaksIn
<1>3. IsFiniteSet(BreaksIn(t, i, j))
  BY <1>1, <1>2, FS_Subset
<1> QED
  BY <1>3, FS_CardinalityType

LEMMA LineType == ASSUME NEW t, NEW n \in Int PROVE LineAt(t, n) \in Nat
  BY BreaksFinite DEF LineAt

(* The breaks up to k are those up to j and those between.                 *)
LEMMA BreaksSplit ==
  ASSUME NEW t, NEW j \in Int, NEW k \in Int, 0 <= j, j <= k
  PROVE  Cardinality(BreaksIn(t, 1, k))
           = Cardinality(BreaksIn(t, 1, j)) + Cardinality(BreaksIn(t, j + 1, k))
<1> DEFINE A == BreaksIn(t, 1, j)
           B == BreaksIn(t, j + 1, k)
<1>1. IsFiniteSet(A) /\ IsFiniteSet(B) /\ Cardinality(A) \in Nat /\ Cardinality(B) \in Nat
  BY BreaksFinite
<1>2. BreaksIn(t, 1, k) = A \cup B
  BY DEF BreaksIn
<1>3. A \cap B = {}
  BY DEF BreaksIn
<1>4. Cardinality(A \cup B) = Cardinality(A) + Cardinality(B) - Cardinality(A \cap B)
  BY <1>1, FS_Union
<1>5. Cardinality(A \cap B) = 0
  BY <1>3, FS_EmptySet
<1> HIDE DEF A, B
<1>6. Cardinality(A \cup B) = Cardinality(A) + Cardinality(B)
  BY <1>1, <1>4, <1>5
<1> QED
  BY <1>2, <1>6 DEF A, B

LEMMA LineGrows ==
  ASSUME NEW t, NEW j \in Int, NEW k \in Int, 1 <= j, j <= k
  PROVE  LineAt(t, k) = LineAt(t, j) + Cardinality(BreaksIn(t, j, k - 1))
<1>1. Cardinality(BreaksIn(t, 1, k - 1))
        = Cardinality(BreaksIn(t, 1, j - 1)) + Cardinality(BreaksIn(t, (j - 1) + 1, k - 1))
  BY BreaksSplit
<1>2. (j - 1) + 1 = j
  OBVIOUS
<1>3. /\ Cardinality(BreaksIn(t, 1, j - 1)) \in Nat
      /\ Cardinality(BreaksIn(t, j, k - 1)) \in Nat
  BY BreaksFinite
<1> QED
  BY <1>1, <1>2, <1>3 DEF LineAt

(* A position is on the line its own number says.                          *)
LEMMA LineBound ==
  ASSUME NEW t, NEW n \in Int, 1 <= n
  PROVE  LineAt(t, n) <= n
<1>1. IsFiniteSet(1..n - 1) /\ Cardinality(1..n - 1) = n - 1
  BY FS_Interval
<1>2. BreaksIn(t, 1, n - 1) \subseteq 1..n - 1
  BY DEF BreaksIn
<1>3. Cardinality(BreaksIn(t, 1, n - 1)) <= n - 1
  BY <1>1, <1>2, FS_Subset
<1> QED
  BY <1>3, BreaksFinite DEF LineAt

(* On one line with no break between.                                      *)
LEMMA SameLine ==
  ASSUME NEW t, NEW j \in Int, NEW k \in Int, 1 <= j, j <= k,
         \A i \in j..k - 1 : t[i] # NL
  PROVE  LineAt(t, k) = LineAt(t, j)
<1>1. BreaksIn(t, j, k - 1) = {}
  BY DEF BreaksIn, CountsIn
<1>2. Cardinality(BreaksIn(t, j, k - 1)) = 0
  BY <1>1, FS_EmptySet
<1> QED
  BY <1>2, LineGrows, LineType

LEMMA TextShape ==
  ASSUME PositionInv
  PROVE  /\ Len(text) \in Nat /\ DOMAIN text = 1..Len(text) /\ End = Len(text) + 1
         /\ pos \in Int /\ from \in Int
  BY TextsAssumption DEF PositionInv, End

(* advanceBy keeps the line number true.                                   *)
LEMMA AdvanceFacts ==
  ASSUME SInv, NEW n \in 0..2, AdvanceBy(n), text' = text
  PROVE  /\ pos' \in 1..End /\ pos' >= pos
         /\ pos' = IF pos + n > End THEN End ELSE pos + n
         /\ lineNo' = LineAt(text, pos') /\ lineNo' >= lineNo /\ lineNo' \in Nat
<1>1. /\ pos' \in 1..End /\ pos' >= pos
      /\ pos' = IF pos + n > End THEN End ELSE pos + n
  BY TextShape DEF SInv, PositionInv, AdvanceBy
<1>2. {i \in pos..pos + n - 1 : Counts(i)} = BreaksIn(text, pos, pos' - 1)
  BY <1>1, TextShape DEF SInv, PositionInv, Counts, BreaksIn, CountsIn
<1>3. LineAt(text, pos') = LineAt(text, pos) + Cardinality(BreaksIn(text, pos, pos' - 1))
  BY <1>1, LineGrows, TextShape DEF SInv, PositionInv
<1>4. Cardinality(BreaksIn(text, pos, pos' - 1)) \in Nat
  BY <1>1, BreaksFinite, TextShape DEF SInv
<1>5. lineNo \in Nat /\ lineNo = LineAt(text, pos)
  BY LineType, TextShape DEF SInv, LineInv
<1>6. lineNo' = lineNo + Cardinality(BreaksIn(text, pos, pos' - 1))
  BY <1>2 DEF AdvanceBy
<1> QED
  BY <1>1, <1>3, <1>4, <1>5, <1>6

LEMMA StayAdvances == ASSUME SInv, Stay PROVE AdvanceBy(0)
<1>1. {i \in pos..pos + 0 - 1 : Counts(i)} = {}
  BY TextShape DEF SInv
<1>2. Cardinality({i \in pos..pos + 0 - 1 : Counts(i)}) = 0
  BY <1>1, FS_EmptySet
<1>3. lineNo \in Nat
  BY LineType, TextShape DEF SInv, LineInv
<1> QED
  BY <1>2, <1>3, TextShape DEF SInv, PositionInv, Stay, AdvanceBy
-----------------------------------------------------------------------------
(* The invariant at the start.                                             *)
LEMMA InitSInv == Init => SInv
<1> SUFFICES ASSUME Init PROVE SInv
  OBVIOUS
<1>1. PositionInv
  BY TextsAssumption DEF Init, PositionInv, End, Modes
<1>2. LineAt(text, 1) = IF text = <<>> THEN 0 ELSE 1
  <2>1. BreaksIn(text, 1, 0) = {}
    BY DEF BreaksIn
  <2>2. Cardinality(BreaksIn(text, 1, 1 - 1)) = 0
    BY <2>1, FS_EmptySet
  <2> QED
    BY <2>2 DEF LineAt
<1>3. LineInv
  BY <1>2 DEF Init, LineInv
<1>4. PiecesInv
  BY DEF Init, PiecesInv, Consecutive, Covered, Front
<1> QED
  BY <1>1, <1>3, <1>4 DEF SInv, EofInv, Init

(* What holds of the pieces holds of them from any later front, as long as *)
(* what lies between is spaces.                                            *)
LEMMA FrontMoves ==
  ASSUME NEW t, NEW f \in Int, NEW g \in Int, f <= g,
         NEW ps \in Seq(PieceType),
         \A p \in DOMAIN ps : PieceOK(t, f, ps[p]),
         Covered(t, ps, f),
         \A i \in f..g - 1 : t[i] \in Gaps
  PROVE  /\ \A p \in DOMAIN ps : PieceOK(t, g, ps[p])
         /\ Covered(t, ps, g)
<1>1. \A p \in DOMAIN ps : PieceOK(t, g, ps[p])
  <2> SUFFICES ASSUME NEW p \in DOMAIN ps PROVE PieceOK(t, g, ps[p])
    OBVIOUS
  <2>1. ps[p] \in PieceType
    OBVIOUS
  <2>2. PieceOK(t, f, ps[p])
    OBVIOUS
  <2> QED
    BY <2>1, <2>2 DEF PieceOK, PieceType
<1>2. Covered(t, ps, g)
  BY DEF Covered
<1> QED
  BY <1>1, <1>2

(* One more piece that begins at the front.                                *)
LEMMA PieceAdded ==
  ASSUME NEW t, NEW f \in Int, NEW g \in Int, f <= g,
         NEW ps \in Seq(PieceType), NEW x \in PieceType,
         \A p \in DOMAIN ps : PieceOK(t, f, ps[p]),
         Consecutive(ps), Covered(t, ps, f),
         x.from = f, PieceOK(t, g, x),
         \A i \in x.to + 1..g - 1 : t[i] \in Gaps
  PROVE  /\ Append(ps, x) \in Seq(PieceType)
         /\ \A p \in DOMAIN Append(ps, x) : PieceOK(t, g, Append(ps, x)[p])
         /\ Consecutive(Append(ps, x))
         /\ Covered(t, Append(ps, x), g)
<1> DEFINE qs == Append(ps, x)
           n == Len(ps)
<1>1. /\ qs \in Seq(PieceType) /\ n \in Nat /\ DOMAIN ps = 1..n
      /\ Len(qs) = n + 1 /\ DOMAIN qs = 1..n + 1
      /\ \A p \in 1..n : qs[p] = ps[p]
      /\ qs[n + 1] = x
  OBVIOUS
<1> HIDE DEF qs, n
<1>u. \A p \in 1..n : ps[p] \in PieceType
  BY <1>1
<1>t. /\ \A p \in 1..n : ps[p].from \in Int /\ ps[p].to \in Int
      /\ x.from \in Int /\ x.to \in Int
  BY <1>u DEF PieceType
<1>2. \A p \in DOMAIN qs : PieceOK(t, g, qs[p])
  <2> SUFFICES ASSUME NEW p \in 1..n PROVE PieceOK(t, g, ps[p])
    BY <1>1
  <2>1. PieceOK(t, f, ps[p])
    BY <1>1
  <2> QED
    BY <2>1, <1>t DEF PieceOK
<1>3. Consecutive(qs)
  <2> SUFFICES ASSUME NEW p \in 1..n PROVE qs[p].to < qs[p + 1].from
    BY <1>1 DEF Consecutive
  <2>1. CASE p = n
    <3>1. PieceOK(t, f, ps[n])
      BY <1>1, <2>1
    <3> QED
      BY <1>1, <1>t, <2>1, <3>1 DEF PieceOK
  <2>2. CASE p < n
    BY <1>1, <2>2 DEF Consecutive, n
  <2> QED
    BY <1>1, <2>1, <2>2
<1>4. Covered(t, qs, g)
  <2> SUFFICES ASSUME NEW i \in 1..g - 1, t[i] \notin Gaps
               PROVE  \E p \in DOMAIN qs : i \in qs[p].from..qs[p].to
    BY DEF Covered
  <2>1. CASE i < f
    <3>1. PICK p \in 1..n : i \in ps[p].from..ps[p].to
      BY <1>1, <2>1 DEF Covered
    <3> QED
      BY <1>1, <3>1
  <2>2. CASE i >= f
    <3>1. i <= x.to
      BY <2>2, <1>t
    <3>2. i \in qs[n + 1].from..qs[n + 1].to
      BY <1>1, <1>t, <2>2, <3>1
    <3> QED
      BY <1>1, <3>2
  <2> QED
    BY <2>1, <2>2
<1> QED
  BY <1>1, <1>2, <1>3, <1>4 DEF qs
-----------------------------------------------------------------------------
(* The steps, by their form.                                               *)

(* Between two pieces, over a space.                                       *)
LEMMA SkipStep == ASSUME SInv, SkipSpace PROVE SInv'
<1>1. AdvanceBy(1) /\ UNCHANGED <<text, mode, from, line, pieces, status>>
  BY DEF SkipSpace, More
<1>2. mode = "gap" /\ pos \in 1..Len(text) /\ text[pos] \in Gaps /\ status = "scan"
  <2>1. Cur \in Gaps /\ mode = "gap" /\ status = "scan"
    BY DEF SkipSpace, Scanning
  <2>2. NUL \notin Gaps
    BY DEF NUL, NL, Gaps
  <2>3. pos + 0 = pos
    BY TextShape DEF SInv
  <2>4. pos \in DOMAIN text /\ text[pos] = Cur
    BY <2>1, <2>2, <2>3 DEF Cur, Peek
  <2> QED
    BY <2>1, <2>4, TextShape DEF SInv
<1>3. /\ pos' = pos + 1 /\ pos' \in 1..End
      /\ lineNo' = LineAt(text, pos') /\ lineNo' >= lineNo /\ lineNo' \in Nat
  BY <1>1, <1>2, AdvanceFacts, TextShape DEF SInv, PositionInv
<1>4. PositionInv'
  BY <1>1, <1>3, TextShape DEF SInv, PositionInv, End
<1>5. LineInv'
  BY <1>1, <1>2, <1>3, LineType, TextShape DEF SInv, LineInv
<1>6. PiecesInv'
  <2>1. Front = pos /\ Front' = pos'
    BY <1>1, <1>2 DEF Front
  <2>2. /\ \A p \in DOMAIN pieces : PieceOK(text, pos', pieces[p])
        /\ Covered(text, pieces, pos')
    BY <1>2, <1>3, <2>1, FrontMoves, TextShape DEF SInv, PiecesInv, PositionInv
  <2> QED
    BY <1>1, <2>1, <2>2 DEF SInv, PiecesInv
<1> QED
  BY <1>1, <1>2, <1>4, <1>5, <1>6 DEF SInv, EofInv

(* The first turn of a loop.                                               *)
LEMMA StartStep ==
  ASSUME SInv, NEW m \in Modes \ {"gap"}, NEW n \in 0..2,
         Scanning("gap"), Cur # NUL, Start(m, n), m = "id" => n = 0
  PROVE  SInv'
<1>1. /\ AdvanceBy(n) /\ UNCHANGED <<text, pieces, status>>
      /\ mode' = m /\ from' = pos /\ line' = lineNo
  BY DEF Start
<1>2. mode = "gap" /\ pos \in 1..Len(text) /\ status = "scan"
  BY TextShape DEF Scanning, Cur, Peek, SInv, PositionInv
<1>3. /\ pos' \in 1..End /\ pos' >= pos
      /\ pos' = IF pos + n > End THEN End ELSE pos + n
      /\ lineNo' = LineAt(text, pos') /\ lineNo' >= lineNo /\ lineNo' \in Nat
  BY <1>1, AdvanceFacts
<1>t. pos \in Int /\ Len(text) \in Nat /\ End = Len(text) + 1
  BY TextShape DEF SInv
<1>4. PositionInv'
  BY <1>1, <1>2, <1>3, <1>t DEF SInv, PositionInv, End
<1>5. LineInv'
  <2>1. lineNo \in Nat /\ lineNo = LineAt(text, pos)
    BY LineType, <1>t DEF SInv, LineInv
  <2>2. m = "id" => pos' = pos
    BY <1>2, <1>3, <1>t
  <2> QED
    BY <1>1, <1>2, <1>3, <1>t, <2>1, <2>2 DEF LineInv
<1>6. PiecesInv'
  BY <1>1, <1>2 DEF SInv, PiecesInv, Front
<1> QED
  BY <1>1, <1>2, <1>4, <1>5, <1>6 DEF SInv, EofInv

(* One more turn.                                                          *)
LEMMA MoreStep ==
  ASSUME SInv, NEW n \in 1..2, mode # "gap", status = "scan", More(n),
         mode = "id" => n = 1 /\ Cur # NL
  PROVE  SInv'
<1>1. AdvanceBy(n) /\ UNCHANGED <<text, mode, from, line, pieces, status>>
  BY DEF More
<1>3. /\ pos' \in 1..End /\ pos' >= pos
      /\ pos' = IF pos + n > End THEN End ELSE pos + n
      /\ lineNo' = LineAt(text, pos') /\ lineNo' >= lineNo /\ lineNo' \in Nat
  BY <1>1, AdvanceFacts
<1>t. pos \in Int /\ from \in Int /\ Len(text) \in Nat /\ End = Len(text) + 1 /\ lineNo \in Nat
      /\ DOMAIN text = 1..Len(text)
  BY TextShape, LineType DEF SInv, LineInv
<1>4. PositionInv'
  BY <1>1, <1>3, <1>t DEF SInv, PositionInv, End
<1>5. LineInv'
  <2>1. line' \in 0..lineNo'
    BY <1>1, <1>3, <1>t DEF SInv, LineInv
  <2>2. mode' = "id" => \A k \in from'..pos' - 1 : text'[k] # NL
    BY <1>1, <1>3, <1>t DEF SInv, LineInv, PositionInv, Cur, Peek
  <2> QED
    BY <1>1, <1>3, <2>1, <2>2 DEF SInv, LineInv
<1>6. PiecesInv'
  BY <1>1 DEF SInv, PiecesInv, Front
<1> QED
  BY <1>1, <1>4, <1>5, <1>6 DEF SInv, EofInv

(* The end of a piece.                                                     *)
LEMMA TakeStep ==
  ASSUME SInv, NEW kind \in Kinds, NEW last \in Int, NEW l, NEW n \in 0..2,
         mode # "gap", status = "scan",
         Take(kind, last, l), AdvanceBy(n), l = LineAt(text, from),
         last \in from - 1..pos' - 1,
         \A i \in last + 1..pos' - 1 : text[i] \in Gaps
  PROVE  SInv'
<1>1. /\ pieces' = Append(pieces, Piece(kind, from, last, l)) /\ mode' = "gap"
      /\ UNCHANGED <<text, from, line, status>>
  BY DEF Take
<1>3. /\ pos' \in 1..End /\ pos' >= pos
      /\ lineNo' = LineAt(text, pos') /\ lineNo' >= lineNo /\ lineNo' \in Nat
  BY <1>1, AdvanceFacts
<1>t. pos \in Int /\ from \in Int /\ Len(text) \in Nat /\ End = Len(text) + 1 /\ lineNo \in Nat
  BY TextShape, LineType DEF SInv, LineInv
<1>4. PositionInv'
  BY <1>1, <1>3, <1>t DEF SInv, PositionInv, End, Modes
<1>5. LineInv'
  BY <1>1, <1>3, <1>t DEF SInv, LineInv
<1>6. PiecesInv'
  <2> DEFINE x == Piece(kind, from, last, l)
  <2>1. Front = from /\ Front' = pos'
    BY <1>1 DEF Front
  <2>2. x \in PieceType /\ x.from = from /\ x.to = last
    BY <1>t, LineType DEF Piece, PieceType
  <2>3. from \in 1..Len(text)
    BY DEF SInv, LineInv
  <2>4. PieceOK(text, pos', x)
    <3>1. x.line = LineAt(text, x.from)
      BY <2>2 DEF Piece
    <3> QED
      BY <2>2, <2>3, <3>1 DEF PieceOK
  <2>5. from <= pos'
    BY <1>3, <1>t DEF SInv, PositionInv
  <2>8. /\ pieces \in Seq(PieceType) /\ Consecutive(pieces) /\ Covered(text, pieces, from)
        /\ \A p \in DOMAIN pieces : PieceOK(text, from, pieces[p])
    BY <2>1 DEF SInv, PiecesInv
  <2> HIDE DEF x
  <2>9. pos' \in Int /\ \A i \in x.to + 1..pos' - 1 : text[i] \in Gaps
    <3>1. \A i \in last + 1..pos' - 1 : text[i] \in Gaps
      OBVIOUS
    <3>2. pos' \in Int
      BY <1>3, <1>t
    <3> QED
      BY <2>2, <3>1, <3>2
  <2>6. /\ Append(pieces, x) \in Seq(PieceType)
        /\ \A p \in DOMAIN Append(pieces, x) : PieceOK(text, pos', Append(pieces, x)[p])
        /\ Consecutive(Append(pieces, x))
        /\ Covered(text, Append(pieces, x), pos')
    BY <1>t, <2>2, <2>4, <2>5, <2>8, <2>9, PieceAdded
  <2>7. pieces' = Append(pieces, x)
    BY <1>1 DEF x
  <2> QED
    BY <1>1, <2>1, <2>6, <2>7 DEF PiecesInv
<1> QED
  BY <1>1, <1>4, <1>5, <1>6 DEF SInv, EofInv
-----------------------------------------------------------------------------
(* An operator begins and ends between two pieces.                         *)
LEMMA OperatorStep ==
  ASSUME SInv, NEW n \in 1..2, Scanning("gap"), pos + n <= End, Operator(n)
  PROVE  SInv'
<1>1. /\ pieces' = Append(pieces, Piece("op", pos, pos + n - 1, lineNo))
      /\ AdvanceBy(n) /\ UNCHANGED <<text, mode, from, line, status>>
  BY DEF Operator
<1>2. mode = "gap" /\ status = "scan"
  BY DEF Scanning
<1>3. /\ pos' \in 1..End /\ pos' = IF pos + n > End THEN End ELSE pos + n
      /\ lineNo' = LineAt(text, pos') /\ lineNo' >= lineNo /\ lineNo' \in Nat
  BY <1>1, AdvanceFacts
<1>t. /\ pos \in Int /\ pos >= 1 /\ from \in Int /\ Len(text) \in Nat /\ End = Len(text) + 1
      /\ lineNo \in Nat /\ lineNo = LineAt(text, pos)
  BY TextShape, LineType DEF SInv, LineInv, PositionInv
<1>5. pos' = pos + n /\ pos \in 1..Len(text)
  BY <1>3, <1>t
<1>4. PositionInv'
  BY <1>1, <1>3, <1>5, <1>t DEF SInv, PositionInv, End
<1>6. LineInv'
  BY <1>1, <1>2, <1>3, <1>t DEF SInv, LineInv
<1>7. PiecesInv'
  <2> DEFINE x == Piece("op", pos, pos + n - 1, lineNo)
  <2>1. Front = pos /\ Front' = pos'
    BY <1>1, <1>2 DEF Front
  <2>2. x \in PieceType /\ x.from = pos /\ x.to = pos + n - 1 /\ x.line = LineAt(text, pos)
    BY <1>t DEF Piece, PieceType, Kinds
  <2>3. PieceOK(text, pos', x)
    BY <1>5, <1>t, <2>2 DEF PieceOK
  <2>4. pos' \in Int /\ pos <= pos' /\ \A i \in x.to + 1..pos' - 1 : text[i] \in Gaps
    BY <1>5, <1>t, <2>2
  <2>5. /\ pieces \in Seq(PieceType) /\ Consecutive(pieces) /\ Covered(text, pieces, pos)
        /\ \A p \in DOMAIN pieces : PieceOK(text, pos, pieces[p])
    BY <2>1 DEF SInv, PiecesInv
  <2> HIDE DEF x
  <2>6. /\ Append(pieces, x) \in Seq(PieceType)
        /\ \A p \in DOMAIN Append(pieces, x) : PieceOK(text, pos', Append(pieces, x)[p])
        /\ Consecutive(Append(pieces, x))
        /\ Covered(text, Append(pieces, x), pos')
    BY <1>t, <2>2, <2>3, <2>4, <2>5, PieceAdded
  <2>7. pieces' = Append(pieces, x)
    BY <1>1 DEF x
  <2> QED
    BY <1>1, <2>1, <2>6, <2>7 DEF PiecesInv
<1> QED
  BY <1>1, <1>2, <1>4, <1>6, <1>7 DEF SInv, EofInv

(* The end of the text, or an unknown character.                           *)
LEMMA StopStep ==
  ASSUME SInv, NEW s \in {"eof", "unknown"}, Stop(s), s = "eof" => Cur = NUL
  PROVE  SInv'
<1>1. status' = s /\ UNCHANGED <<text, pos, lineNo, mode, from, line, pieces>>
  BY DEF Stop
<1>2. PositionInv' /\ LineInv' /\ PiecesInv'
  BY <1>1 DEF SInv, PositionInv, LineInv, PiecesInv, End, Front
<1>3. EofInv'
  BY <1>1, TextShape DEF SInv, PositionInv, EofInv, Cur, Peek, End
<1> QED
  BY <1>2, <1>3 DEF SInv

(* A number that is empty: the same front, a piece more or the same pieces.*)
LEMMA EmptyStep == ASSUME SInv, EmptyInt PROVE SInv'
<1> DEFINE x == Piece("int", from, pos - 1, line)
<1>1. /\ mode = "int" /\ status = "scan" /\ pos = from
      /\ mode' = "gap" /\ UNCHANGED <<text, pos, lineNo, from, line, status>>
      /\ pieces' \in {pieces, Append(pieces, x)}
  BY DEF EmptyInt, Scanning
<1>t. /\ pos \in Int /\ from \in 1..Len(text) /\ line = LineAt(text, from) /\ line \in Int
  BY <1>1, TextShape, LineType DEF SInv, LineInv
<1>2. PositionInv'
  BY <1>1 DEF SInv, PositionInv, End, Modes
<1>3. LineInv'
  BY <1>1 DEF SInv, LineInv
<1>4. PiecesInv'
  <2>1. Front = from /\ Front' = from
    BY <1>1 DEF Front
  <2>2. /\ x \in PieceType /\ x.from = from /\ x.to = from - 1 /\ x.line = LineAt(text, from)
    BY <1>1, <1>t DEF Piece, PieceType, Kinds
  <2>3. PieceOK(text, from, x)
    BY <1>t, <2>2 DEF PieceOK
  <2>4. from \in Int /\ \A i \in x.to + 1..from - 1 : text[i] \in Gaps
    BY <1>t, <2>2
  <2>5. /\ pieces \in Seq(PieceType) /\ Consecutive(pieces) /\ Covered(text, pieces, from)
        /\ \A p \in DOMAIN pieces : PieceOK(text, from, pieces[p])
    BY <2>1 DEF SInv, PiecesInv
  <2> HIDE DEF x
  <2>6. CASE pieces' = Append(pieces, x)
    <3>1. /\ Append(pieces, x) \in Seq(PieceType)
          /\ \A p \in DOMAIN Append(pieces, x) : PieceOK(text, from, Append(pieces, x)[p])
          /\ Consecutive(Append(pieces, x))
          /\ Covered(text, Append(pieces, x), from)
      <4>1. from \in Int /\ from <= from /\ x \in PieceType /\ x.from = from
        BY <2>2, <2>4
      <4>2. \A i \in x.to + 1..from - 1 : text[i] \in Gaps
        BY <2>4
      <4> QED
        BY <2>3, <2>5, <4>1, <4>2, PieceAdded
    <3> QED
      BY <1>1, <2>1, <2>6, <3>1 DEF PiecesInv
  <2>7. CASE pieces' = pieces
    BY <1>1, <2>1, <2>5, <2>7 DEF PiecesInv
  <2> QED
    BY <1>1, <2>6, <2>7
<1> QED
  BY <1>1, <1>2, <1>3, <1>4 DEF SInv, EofInv
-----------------------------------------------------------------------------
(* One step per action.                                                    *)
LEMMA NextSInv == SInv /\ [Next]_vars => SInv'
<1> SUFFICES ASSUME SInv, [Next]_vars PROVE SInv'
  OBVIOUS
<1>t. /\ pos \in 1..Len(text) + 1 /\ from \in 1..pos /\ Len(text) \in Nat
      /\ DOMAIN text = 1..Len(text) /\ End = Len(text) + 1 /\ mode \in Modes
  BY TextShape DEF SInv, PositionInv, End
<1>c. /\ Cur = IF pos \in 1..Len(text) THEN text[pos] ELSE NUL
      /\ Peek(1) = IF pos + 1 \in 1..Len(text) THEN text[pos + 1] ELSE NUL
  BY <1>t DEF Cur, Peek
<1>l. mode # "gap" => from \in 1..Len(text) /\ line = LineAt(text, from)
  BY DEF SInv, LineInv
<1>1. CASE SkipSpace
  BY <1>1, SkipStep
<1>2. CASE Eof
  BY <1>2, StopStep DEF Eof
<1>3. CASE Unknown
  BY <1>3, StopStep DEF Unknown
<1>4. CASE StartHex
  <2>1. "hex" \in Modes \ {"gap"} /\ Cur # NUL /\ Scanning("gap") /\ Start("hex", 2)
    BY <1>4 DEF StartHex, Modes, NUL
  <2> QED
    BY <2>1, StartStep
<1>5. CASE StartInt
  <2>1. "int" \in Modes \ {"gap"} /\ Cur # NUL /\ Scanning("gap") /\ Start("int", 0)
    BY <1>5 DEF StartInt, Modes, NUL, Digits, ForeignDigits
  <2> QED
    BY <2>1, StartStep
<1>6. CASE StartId
  <2>1. "id" \in Modes \ {"gap"} /\ Cur # NUL /\ Scanning("gap") /\ Start("id", 0)
    BY <1>6 DEF StartId, Modes, NUL, Letters
  <2> QED
    BY <2>1, StartStep
<1>7. CASE StartString
  <2>1. "string" \in Modes \ {"gap"} /\ Cur # NUL /\ Scanning("gap") /\ Start("string", 1)
    BY <1>7, Marks DEF StartString, Modes
  <2> QED
    BY <2>1, StartStep
<1>8. CASE StartBlock
  <2>1. "block" \in Modes \ {"gap"} /\ Cur # NUL /\ Scanning("gap") /\ Start("block", 0)
    BY <1>8 DEF StartBlock, Modes, NUL
  <2> QED
    BY <2>1, StartStep
<1>9. CASE StartLine
  <2>1. "line" \in Modes \ {"gap"} /\ Cur # NUL /\ Scanning("gap") /\ Start("line", 0)
    BY <1>9 DEF StartLine, Modes, NUL
  <2> QED
    BY <2>1, StartStep
<1>10. CASE Op2
  <2>1. Scanning("gap") /\ Operator(2) /\ <<Cur, Peek(1)>> \in Pairs
    BY <1>10 DEF Op2
  <2>2. \A p \in Pairs : p[1] # NUL /\ p[2] # NUL
    BY DEF Pairs, NUL
  <2>3. Cur # NUL /\ Peek(1) # NUL
    BY <2>1, <2>2
  <2>4. pos + 2 <= End
    BY <2>3, <1>c, <1>t
  <2> QED
    BY <2>1, <2>4, OperatorStep
<1>11. CASE Op1
  <2>1. Scanning("gap") /\ Operator(1) /\ Cur \in Singles
    BY <1>11 DEF Op1
  <2>2. NUL \notin Singles
    BY DEF Singles, Pairs, NUL
  <2>3. pos + 1 <= End
    BY <2>1, <2>2, <1>c, <1>t
  <2> QED
    BY <2>1, <2>3, OperatorStep
<1>12. CASE MoreInt
  <2>1. mode = "int" /\ status = "scan" /\ More(1)
    BY <1>12 DEF MoreInt, Scanning
  <2> QED
    BY <2>1, MoreStep
<1>13. CASE MoreHex
  <2>1. mode = "hex" /\ status = "scan" /\ More(1)
    BY <1>13 DEF MoreHex, Scanning
  <2> QED
    BY <2>1, MoreStep
<1>14. CASE MoreId
  <2>1. mode = "id" /\ status = "scan" /\ More(1) /\ Cur # NL
    BY <1>14 DEF MoreId, Scanning, IdChars, Letters, Digits, ForeignDigits, NL
  <2> QED
    BY <2>1, MoreStep
<1>15. CASE Escape
  <2>1. mode = "string" /\ status = "scan" /\ More(2)
    BY <1>15 DEF Escape, Scanning
  <2> QED
    BY <2>1, MoreStep
<1>16. CASE MoreString
  <2>1. mode = "string" /\ status = "scan" /\ More(1)
    BY <1>16 DEF MoreString, Scanning
  <2> QED
    BY <2>1, MoreStep
<1>17. CASE MoreBlock
  <2>1. mode = "block" /\ status = "scan" /\ More(1)
    BY <1>17 DEF MoreBlock, Scanning
  <2> QED
    BY <2>1, MoreStep
<1>18. CASE MoreLine
  <2>1. mode = "line" /\ status = "scan" /\ More(1)
    BY <1>18 DEF MoreLine, Scanning
  <2> QED
    BY <2>1, MoreStep
<1>19. CASE EmptyInt
  BY <1>19, EmptyStep
(* A piece that ends before the current character.                         *)
<1>b. ASSUME NEW kind \in Kinds, NEW l, mode # "gap", status = "scan",
             Take(kind, pos - 1, l), Stay, l = LineAt(text, from)
      PROVE  SInv'
  <2>1. AdvanceBy(0) /\ pos' = pos
    BY <1>b, StayAdvances DEF Stay
  <2>2. pos - 1 \in Int /\ pos - 1 \in from - 1..pos' - 1
    BY <1>t, <2>1
  <2>3. \A i \in (pos - 1) + 1..pos' - 1 : text[i] \in Gaps
    BY <1>t, <2>1
  <2> QED
    BY <1>b, <2>1, <2>2, <2>3, TakeStep
<1>20. CASE EndInt
  <2>1. mode = "int" /\ status = "scan" /\ Take("int", pos - 1, line) /\ Stay
    BY <1>20 DEF EndInt, Scanning
  <2> QED
    BY <2>1, <1>b, <1>l DEF Kinds
<1>21. CASE EndHex
  <2>1. mode = "hex" /\ status = "scan" /\ Take("int", pos - 1, line) /\ Stay
    BY <1>21 DEF EndHex, Scanning
  <2> QED
    BY <2>1, <1>b, <1>l DEF Kinds
<1>22. CASE EndId
  <2>1. mode = "id" /\ status = "scan" /\ Take("id", pos - 1, lineNo) /\ Stay
    BY <1>22 DEF EndId, Scanning
  <2>2. lineNo = LineAt(text, pos) /\ \A k \in from..pos - 1 : text[k] # NL
    BY <2>1 DEF SInv, LineInv
  <2>3. LineAt(text, pos) = LineAt(text, from)
    BY <1>t, <2>2, SameLine
  <2> QED
    BY <2>1, <2>2, <2>3, <1>b DEF Kinds
<1>23. CASE EndString
  <2>1. mode = "string" /\ status = "scan" /\ Take("string", pos, line) /\ AdvanceBy(1) /\ Cur # NUL
    BY <1>23, Marks DEF EndString, Scanning
  <2>2. text' = text
    BY <2>1 DEF Take
  <2>3. pos' = pos + 1
    BY <2>1, <1>c, <1>t DEF AdvanceBy
  <2>4. pos \in Int /\ pos \in from - 1..pos' - 1
    BY <1>t, <2>3
  <2>5. \A i \in pos + 1..pos' - 1 : text[i] \in Gaps
    BY <1>t, <2>3
  <2> QED
    BY <2>1, <2>4, <2>5, <1>l, TakeStep DEF Kinds
<1>24. CASE CloseBlock
  <2>1. /\ mode = "block" /\ status = "scan" /\ Take("comment", pos + 1, line) /\ AdvanceBy(2)
        /\ Peek(1) # NUL
    BY <1>24 DEF CloseBlock, AtClose, Scanning, NUL
  <2>3. pos' = pos + 2
    BY <2>1, <1>c, <1>t DEF AdvanceBy
  <2>4. pos + 1 \in Int /\ pos + 1 \in from - 1..pos' - 1
    BY <1>t, <2>3
  <2>5. \A i \in (pos + 1) + 1..pos' - 1 : text[i] \in Gaps
    BY <1>t, <2>3
  <2> QED
    BY <2>1, <2>4, <2>5, <1>l, TakeStep DEF Kinds
<1>25. CASE OpenBlock
  <2>1. mode = "block" /\ status = "scan" /\ Take("comment", pos - 1, line) /\ Stay
    BY <1>25 DEF OpenBlock, Scanning
  <2> QED
    BY <2>1, <1>b, <1>l DEF Kinds
<1>26. CASE EndLine
  <2>1. /\ mode = "line" /\ status = "scan" /\ Take(LineKind, pos - 1, line) /\ AdvanceBy(1)
        /\ pos = End \/ Cur = NL
    BY <1>26 DEF EndLine, Scanning
  <2>2. LineKind \in Kinds
    BY DEF LineKind, Kinds
  <2>3. pos' = IF pos + 1 > End THEN End ELSE pos + 1
    BY <2>1 DEF AdvanceBy
  <2>4. pos - 1 \in Int /\ pos - 1 \in from - 1..pos' - 1
    BY <1>t, <2>3
  <2>5. \A i \in (pos - 1) + 1..pos' - 1 : text[i] \in Gaps
    <3>1. CASE pos = End
      BY <3>1, <1>t, <2>3
    <3>2. CASE pos # End /\ Cur = NL
      <4>1. text[pos] = NL /\ pos' = pos + 1
        BY <3>2, <1>c, <1>t, <2>3
      <4>2. \A i \in (pos - 1) + 1..pos' - 1 : i = pos
        BY <4>1, <1>t
      <4>3. text[pos] \in Gaps
        BY <4>1 DEF Gaps
      <4> QED
        BY <4>2, <4>3
    <3> QED
      BY <2>1, <3>1, <3>2
  <2> QED
    BY <2>1, <2>2, <2>4, <2>5, <1>l, TakeStep
<1>27. CASE UNCHANGED vars
  BY <1>27 DEF vars, SInv, PositionInv, LineInv, PiecesInv, EofInv, End, Front
<1> QED
  BY <1>1, <1>2, <1>3, <1>4, <1>5, <1>6, <1>7, <1>8, <1>9, <1>10, <1>11, <1>12, <1>13, <1>14,
     <1>15, <1>16, <1>17, <1>18, <1>19, <1>20, <1>21, <1>22, <1>23, <1>24, <1>25, <1>26, <1>27
  DEF Next
LEMMA InvariantSInv == Spec => []SInv
  BY InitSInv, NextSInv, PTL DEF Spec
-----------------------------------------------------------------------------
(* The scanner's position stays in the text, the piece under way begins    *)
(* before it, and no line number exceeds it (advanceBy, getNextToken).     *)
THEOREM TypeCorrect == Spec => []TypeOK
<1>1. SInv => TypeOK
  <2> SUFFICES ASSUME SInv PROVE TypeOK
    OBVIOUS
  <2>1. pos \in Int /\ from \in Int /\ pos \in 1..End /\ from \in 1..pos /\ Len(text) \in Nat
    BY TextShape DEF SInv, PositionInv
  <2>2. lineNo \in 0..End
    <3>1. lineNo = LineAt(text, pos) /\ lineNo \in Nat /\ lineNo <= pos
      BY <2>1, LineType, LineBound DEF SInv, LineInv
    <3> QED
      BY <2>1, <3>1 DEF End
  <2>3. \A p \in DOMAIN pieces : pieces[p].to < pos
    <3> SUFFICES ASSUME NEW p \in DOMAIN pieces PROVE pieces[p].to < pos
      OBVIOUS
    <3>1. pieces[p] \in PieceType
      BY DEF SInv, PiecesInv
    <3>2. PieceOK(text, Front, pieces[p])
      BY DEF SInv, PiecesInv
    <3>3. Front \in Int /\ Front <= pos
      BY <2>1 DEF Front
    <3> QED
      BY <2>1, <3>1, <3>2, <3>3 DEF PieceOK, PieceType
  <2> QED
    BY <2>1, <2>2, <2>3 DEF SInv, PositionInv, LineInv, Modes, TypeOK
<1> QED
  BY <1>1, InvariantSInv, PTL

(* Of any text no character is dropped or read twice (getNextToken and the *)
(* loops it calls).                                                        *)
THEOREM TextTiled == Spec => []Tiled
<1>1. SInv => Tiled
  <2> SUFFICES ASSUME SInv PROVE Tiled
    OBVIOUS
  <2>1. \A p \in 1..Len(pieces) - 1 : pieces[p].to < pieces[p + 1].from
    BY DEF SInv, PiecesInv, Consecutive
  <2>2. Read = 1..Front - 1
    BY DEF Read, Front
  <2>3. \A i \in Read : \/ text[i] \in Gaps
                        \/ \E p \in DOMAIN pieces : i \in pieces[p].from..pieces[p].to
    BY <2>2 DEF SInv, PiecesInv, Covered
  <2> QED
    BY <2>1, <2>3 DEF SInv, EofInv, Tiled
<1> QED
  BY <1>1, InvariantSInv, PTL

(* Every token of any text knows the line it begins on, whatever strings,  *)
(* comments and line breaks come before it (advanceBy, getNextToken).      *)
THEOREM LinesExact == Spec => []LineExact
<1>1. SInv => LineExact
  <2> SUFFICES ASSUME SInv, NEW p \in DOMAIN pieces
               PROVE  pieces[p].line = 1 + Cardinality({i \in 1..pieces[p].from - 1 : text[i] = NL})
    BY DEF LineExact
  <2>1. PieceOK(text, Front, pieces[p])
    BY DEF SInv, PiecesInv
  <2>2. Len(text) \in Nat /\ DOMAIN text = 1..Len(text)
    BY TextShape DEF SInv
  <2>3. pieces[p].from \in 1..Len(text) /\ pieces[p].line = LineAt(text, pieces[p].from)
    BY <2>1 DEF PieceOK
  <2>4. text # <<>>
    BY <2>2, <2>3
  <2>5. {i \in 1..pieces[p].from - 1 : text[i] = NL} = BreaksIn(text, 1, pieces[p].from - 1)
    BY <2>2, <2>3 DEF BreaksIn, CountsIn
  <2> QED
    BY <2>3, <2>4, <2>5 DEF LineAt
<1> QED
  BY <1>1, InvariantSInv, PTL

-----------------------------------------------------------------------------
(***************************************************************************)
(* Every piece is what its kind says and as long as it can be.             *)
(***************************************************************************)

(* The piece under way, from i on, with everything before j read.          *)
IntGoing(i, j) == /\ At(i) \in Digits \cup ForeignDigits
                  /\ ~(At(i) = "0" /\ At(i + 1) = "x")
                  /\ Every(i, j - 1, Digits)
HexGoing(i, j) == /\ At(i) = "0" /\ At(i + 1) = "x" /\ j >= i + 2
                  /\ Every(i + 2, j - 1, HexDigits)
IdGoing(i, j) == At(i) \in Letters /\ Every(i, j - 1, IdChars)
StringGoing(i, j) == /\ At(i) = Quote /\ i < j
                     /\ \A k \in i + 1..j - 1 : At(k) = Quote => Escaped(i + 1, k)
                     /\ j <= Len(text) => ~Escaped(i + 1, j)
BlockGoing(i, j) == /\ At(i) = "/" /\ At(i + 1) = "*"
                    /\ \A k \in i + 1..j - 1 : ~Closes(k)
LineGoing(i, j) == /\ At(i) = "/" /\ At(i + 1) = "/"
                   /\ \A k \in i..j - 1 : At(k) # NL

Going(m, i, j) ==
  /\ m = "int"    => IntGoing(i, j)
  /\ m = "hex"    => HexGoing(i, j)
  /\ m = "id"     => IdGoing(i, j)
  /\ m = "string" => StringGoing(i, j)
  /\ m = "block"  => BlockGoing(i, j)
  /\ m = "line"   => LineGoing(i, j)

GoingInv == Going(mode, from, pos)

(* A character is escaped when the one before it is a backslash that is    *)
(* not escaped itself.                                                     *)
LEMMA EscapedFirst == ASSUME NEW i \in Int PROVE ~Escaped(i, i)
<1>1. {k \in i..i - 1 : Every(k, i - 1, {Backslash})} = {}
  OBVIOUS
<1>2. Cardinality({k \in i..i - 1 : Every(k, i - 1, {Backslash})}) = 0
  BY <1>1, FS_EmptySet
<1> QED
  BY <1>2 DEF Escaped

LEMMA EscapedNext ==
  ASSUME NEW first \in Int, NEW i \in Int, first <= i
  PROVE  Escaped(first, i + 1) <=> text[i] = Backslash /\ ~Escaped(first, i)
<1> DEFINE A == {k \in first..i - 1 : Every(k, i - 1, {Backslash})}
           B == {k \in first..(i + 1) - 1 : Every(k, (i + 1) - 1, {Backslash})}
<1>1. CASE text[i] # Backslash
  <2>1. B = {}
    BY <1>1 DEF Every
  <2>2. Cardinality(B) = 0
    BY <2>1, FS_EmptySet
  <2> QED
    BY <1>1, <2>2 DEF Escaped
<1>2. CASE text[i] = Backslash
  <2>1. B = A \cup {i}
    BY <1>2 DEF Every
  <2>2. i \notin A
    OBVIOUS
  <2>3. IsFiniteSet(A)
    <3>1. IsFiniteSet(first..i - 1) /\ A \subseteq first..i - 1
      BY FS_Interval
    <3> QED
      BY <3>1, FS_Subset
  <2>4. Cardinality(A) \in Nat
    BY <2>3, FS_CardinalityType
  <2>5. Cardinality(B) = Cardinality(A) + 1
    <3> HIDE DEF A, B
    <3> QED
      BY <2>1, <2>2, <2>3, FS_AddElement
  <2>6. Escaped(first, i) <=> Cardinality(A) % 2 = 1
    BY DEF Escaped
  <2>7. Escaped(first, i + 1) <=> Cardinality(B) % 2 = 1
    BY DEF Escaped
  <2> HIDE DEF A, B
  <2> QED
    BY <1>2, <2>4, <2>5, <2>6, <2>7
<1> QED
  BY <1>1, <1>2

LEMMA Sees ==
  ASSUME SInv
  PROVE  /\ Cur = At(pos) /\ Peek(1) = At(pos + 1)
         /\ \A i : At(i) # NUL => i \in 1..Len(text) /\ At(i) = text[i]
         /\ pos \in 1..Len(text) => At(pos) = text[pos]
         /\ pos \in Int /\ from \in Int /\ from \in 1..pos /\ pos \in 1..End
         /\ Len(text) \in Nat /\ End = Len(text) + 1
  BY TextShape DEF SInv, PositionInv, Cur, Peek, At

(* What is said of a piece depends on the text only.                       *)
LEMMA SameText ==
  ASSUME text' = text, NEW kind, NEW i, NEW j
  PROVE  PieceRead(kind, i, j)' <=> PieceRead(kind, i, j)
<1>1. \A k : At(k)' = At(k)
  BY DEF At
<1>2. \A a, b, S : Every(a, b, S)' <=> Every(a, b, S)
  BY DEF Every
<1>3. \A a, b : Escaped(a, b)' <=> Escaped(a, b)
  BY DEF Escaped, Every
<1>4. \A k : Closes(k)' <=> Closes(k)
  BY <1>1 DEF Closes
<1>5. IntRead(i, j)' <=> IntRead(i, j)
  BY <1>1, <1>2 DEF IntRead
<1>6. StringRead(i, j)' <=> StringRead(i, j)
  BY <1>1, <1>3 DEF StringRead
<1>7. OpRead(i, j)' <=> OpRead(i, j)
  BY <1>1 DEF OpRead
<1>8. \A k : LineRead(k, i, j)' <=> LineRead(k, i, j)
  BY <1>1 DEF LineRead
<1>9. BlockRead(i, j)' <=> BlockRead(i, j)
  BY <1>1, <1>4 DEF BlockRead
<1>10. At(i)' = At(i) /\ At(j + 1)' = At(j + 1) /\ (Every(i, j, IdChars)' <=> Every(i, j, IdChars))
  BY <1>1, <1>2
<1> QED
  BY <1>5, <1>6, <1>7, <1>8, <1>9, <1>10 DEF PieceRead

(* A step that leaves the pieces alone, and one that adds a piece.         *)
LEMMA ReadKept == ASSUME WellRead, UNCHANGED <<text, pieces>> PROVE WellRead'
<1>1. SUFFICES ASSUME NEW p \in DOMAIN pieces
               PROVE  PieceRead(pieces[p].kind, pieces[p].from, pieces[p].to)'
  BY DEF WellRead
<1>2. PieceRead(pieces[p].kind, pieces[p].from, pieces[p].to)
  BY DEF WellRead
<1>3. PICK kind, i, j : kind = pieces[p].kind /\ i = pieces[p].from /\ j = pieces[p].to
  OBVIOUS
<1>4. PieceRead(kind, i, j)' <=> PieceRead(kind, i, j)
  BY SameText
<1> QED
  BY <1>2, <1>3, <1>4

LEMMA ReadAdded ==
  ASSUME SInv, WellRead, text' = text,
         NEW kind, NEW i, NEW j, NEW l, pieces' = Append(pieces, Piece(kind, i, j, l)),
         PieceRead(kind, i, j)
  PROVE  WellRead'
<1> DEFINE x == Piece(kind, i, j, l)
<1>1. x.kind = kind /\ x.from = i /\ x.to = j
  BY DEF Piece
<1>2. pieces' = Append(pieces, x) /\ pieces \in Seq(PieceType)
  BY DEF SInv, PiecesInv
<1> HIDE DEF x
<1>3. SUFFICES ASSUME NEW p \in DOMAIN pieces'
               PROVE  PieceRead(pieces[p].kind, pieces[p].from, pieces[p].to)'
  BY DEF WellRead
<1>4. PICK k, a, b : k = pieces'[p].kind /\ a = pieces'[p].from /\ b = pieces'[p].to
  OBVIOUS
<1>5. PieceRead(k, a, b)
  <2>1. CASE p \in DOMAIN pieces
    <3>1. pieces'[p] = pieces[p]
      BY <1>2, <2>1
    <3> QED
      BY <1>4, <2>1, <3>1 DEF WellRead
  <2>2. CASE p \notin DOMAIN pieces
    <3>1. pieces'[p] = x
      BY <1>2, <1>3, <2>2
    <3> QED
      BY <1>1, <1>4, <3>1
  <2> QED
    BY <2>1, <2>2
<1>6. PieceRead(k, a, b)' <=> PieceRead(k, a, b)
  BY SameText
<1> QED
  BY <1>4, <1>5, <1>6

LEMMA GoingNext ==
  ASSUME text' = text, NEW m, NEW i, NEW j, mode' = m, from' = i, pos' = j, Going(m, i, j)
  PROVE  GoingInv'
<1>1. \A k : At(k)' = At(k)
  BY DEF At
<1>2. \A a, b, S : Every(a, b, S)' <=> Every(a, b, S)
  BY DEF Every
<1>3. \A a, b : Escaped(a, b)' <=> Escaped(a, b)
  BY DEF Escaped, Every
<1>4. \A k : Closes(k)' <=> Closes(k)
  BY <1>1 DEF Closes
<1>5. /\ IntGoing(i, j)' <=> IntGoing(i, j)
      /\ HexGoing(i, j)' <=> HexGoing(i, j)
      /\ IdGoing(i, j)' <=> IdGoing(i, j)
  BY <1>1, <1>2 DEF IntGoing, HexGoing, IdGoing
<1>6. StringGoing(i, j)' <=> StringGoing(i, j)
  BY <1>1, <1>3 DEF StringGoing
<1>7. BlockGoing(i, j)' <=> BlockGoing(i, j)
  BY <1>1, <1>4 DEF BlockGoing
<1>8. LineGoing(i, j)' <=> LineGoing(i, j)
  BY <1>1 DEF LineGoing
<1>9. Going(m, i, j)'
  BY <1>5, <1>6, <1>7, <1>8 DEF Going
<1> QED
  BY <1>9 DEF GoingInv

RInv == GoingInv /\ WellRead

(* Between two pieces, over a space or to the end.                         *)
LEMMA GapRead ==
  ASSUME RInv, UNCHANGED <<text, pieces>>, mode' = "gap" PROVE RInv'
<1>1. PICK i, j : i = from' /\ j = pos'
  OBVIOUS
<1>2. Going("gap", i, j)
  BY DEF Going
<1> QED
  BY <1>1, <1>2, GoingNext, ReadKept DEF RInv

(* The first turn of a loop.                                               *)
LEMMA StartRead ==
  ASSUME SInv, RInv, NEW m, NEW n, Start(m, n), NEW j, pos' = j, Going(m, pos, j)
  PROVE  RInv'
  BY GoingNext, ReadKept DEF Start, RInv

(* One more turn.                                                          *)
LEMMA MoreRead ==
  ASSUME SInv, RInv, NEW n, More(n), NEW j, pos' = j, Going(mode, from, j)
  PROVE  RInv'
  BY GoingNext, ReadKept DEF More, RInv

(* The end of a piece.                                                     *)
LEMMA TakeRead ==
  ASSUME SInv, RInv, NEW kind, NEW last, NEW l, Take(kind, last, l), PieceRead(kind, from, last)
  PROVE  RInv'
<1>1. /\ text' = text /\ mode' = "gap" /\ from' = from
      /\ pieces' = Append(pieces, Piece(kind, from, last, l))
  BY DEF Take
<1>2. PICK j : j = pos'
  OBVIOUS
<1>3. Going("gap", from, j)
  BY DEF Going
<1>4. GoingInv'
  BY <1>1, <1>2, <1>3, GoingNext
<1>5. WellRead'
  BY <1>1, ReadAdded DEF RInv
<1> QED
  BY <1>4, <1>5 DEF RInv

(* The turns that begin a piece.                                           *)
LEMMA StartsRead ==
  ASSUME SInv, RInv,
         StartHex \/ StartInt \/ StartId \/ StartString \/ StartBlock \/ StartLine
  PROVE  RInv'
<1>s. /\ Cur = At(pos) /\ Peek(1) = At(pos + 1)
      /\ \A i : At(i) # NUL => i \in 1..Len(text) /\ At(i) = text[i]
      /\ pos \in Int /\ pos \in 1..End /\ End = Len(text) + 1 /\ Len(text) \in Nat
  BY Sees
<1>0. ASSUME NEW m, Start(m, 0) PROVE pos' = pos
  BY <1>0, <1>s DEF Start, AdvanceBy
<1>1. CASE StartHex
  <2>1. Start("hex", 2) /\ At(pos) = "0" /\ At(pos + 1) = "x"
    BY <1>1, <1>s DEF StartHex
  <2>2. pos + 1 \in 1..Len(text)
    BY <1>s, <2>1 DEF NUL
  <2>3. pos' = pos + 2
    BY <1>s, <2>1, <2>2 DEF Start, AdvanceBy
  <2>4. Going("hex", pos, pos + 2)
    BY <1>s, <2>1 DEF Going, HexGoing, Every
  <2> QED
    BY <2>1, <2>3, <2>4, StartRead
<1>2. CASE StartInt
  <2>1. /\ Start("int", 0) /\ At(pos) \in Digits \cup ForeignDigits
        /\ ~(At(pos) = "0" /\ At(pos + 1) = "x")
    BY <1>2, <1>s DEF StartInt
  <2>2. Going("int", pos, pos)
    BY <1>s, <2>1 DEF Going, IntGoing, Every
  <2> QED
    BY <1>0, <2>1, <2>2, StartRead
<1>3. CASE StartId
  <2>1. Start("id", 0) /\ At(pos) \in Letters
    BY <1>3, <1>s DEF StartId
  <2>2. Going("id", pos, pos)
    BY <1>s, <2>1 DEF Going, IdGoing, Every
  <2> QED
    BY <1>0, <2>1, <2>2, StartRead
<1>4. CASE StartString
  <2>1. Start("string", 1) /\ At(pos) = Quote
    BY <1>4, <1>s DEF StartString
  <2>2. pos \in 1..Len(text)
    BY <1>s, <2>1, Marks
  <2>3. pos' = pos + 1
    BY <1>s, <2>1, <2>2 DEF Start, AdvanceBy
  <2>4. ~Escaped(pos + 1, pos + 1)
    BY <1>s, EscapedFirst
  <2>5. Going("string", pos, pos + 1)
    BY <1>s, <2>1, <2>4 DEF Going, StringGoing
  <2> QED
    BY <2>1, <2>3, <2>5, StartRead
<1>5. CASE StartBlock
  <2>1. Start("block", 0) /\ At(pos) = "/" /\ At(pos + 1) = "*"
    BY <1>5, <1>s DEF StartBlock
  <2>2. Going("block", pos, pos)
    BY <1>s, <2>1 DEF Going, BlockGoing
  <2> QED
    BY <1>0, <2>1, <2>2, StartRead
<1>6. CASE StartLine
  <2>1. Start("line", 0) /\ At(pos) = "/" /\ At(pos + 1) = "/"
    BY <1>6, <1>s DEF StartLine
  <2>2. Going("line", pos, pos)
    BY <1>s, <2>1 DEF Going, LineGoing
  <2> QED
    BY <1>0, <2>1, <2>2, StartRead
<1> QED
  BY <1>1, <1>2, <1>3, <1>4, <1>5, <1>6

(* One more character of a string: the quotes passed were escaped, the     *)
(* next character is not.                                                  *)
LEMMA StringRest ==
  ASSUME SInv, RInv, mode = "string", Escape \/ MoreString PROVE RInv'
<1>s. /\ Cur = At(pos) /\ pos \in Int /\ from \in Int /\ pos \in 1..End
      /\ End = Len(text) + 1 /\ Len(text) \in Nat
      /\ \A i : At(i) # NUL => i \in 1..Len(text) /\ At(i) = text[i]
      /\ pos \in 1..Len(text) => At(pos) = text[pos]
  BY Sees
<1>g. /\ At(from) = Quote /\ from < pos
      /\ \A k \in from + 1..pos - 1 : At(k) = Quote => Escaped(from + 1, k)
      /\ pos <= Len(text) => ~Escaped(from + 1, pos)
  BY DEF RInv, GoingInv, Going, StringGoing
<1>1. CASE Escape
  <2>1. More(2) /\ At(pos) = Backslash
    BY <1>1, <1>s DEF Escape
  <2>2. pos \in 1..Len(text) /\ text[pos] = Backslash /\ At(pos) # Quote
    BY <1>s, <2>1, Marks
  <2>3. Escaped(from + 1, pos + 1)
    <3>1. from + 1 \in Int /\ from + 1 <= pos /\ ~Escaped(from + 1, pos)
      BY <1>g, <1>s, <2>2
    <3> QED
      BY <1>s, <2>2, <3>1, EscapedNext
  <2>4. ~Escaped(from + 1, (pos + 1) + 1)
    BY <1>g, <1>s, <2>3, EscapedNext
  <2>5. PICK j \in Int : j = (IF pos + 2 > End THEN End ELSE pos + 2) /\ pos' = j
    BY <1>s, <2>1 DEF More, AdvanceBy
  <2>6. CASE j = pos + 1
    <3>1. pos = Len(text)
      BY <1>s, <2>2, <2>5, <2>6
    <3>2. \A k \in from + 1..j - 1 : At(k) = Quote => Escaped(from + 1, k)
      BY <1>g, <1>s, <2>2, <2>6
    <3> QED
      BY <1>g, <1>s, <2>1, <2>5, <2>6, <3>1, <3>2, MoreRead DEF Going, StringGoing
  <2>7. CASE j = pos + 2
    <3>1. \A k \in from + 1..j - 1 : k \in from + 1..pos - 1 \/ k = pos \/ k = pos + 1
      BY <1>g, <1>s, <2>7
    <3>2. \A k \in from + 1..j - 1 : At(k) = Quote => Escaped(from + 1, k)
      BY <1>g, <2>2, <2>3, <3>1
    <3>3. ~Escaped(from + 1, j)
      BY <1>s, <2>4, <2>7
    <3>4. from < j
      BY <1>g, <1>s, <2>7
    <3>5. Going("string", from, j)
      BY <1>g, <3>2, <3>3, <3>4 DEF Going, StringGoing
    <3> QED
      BY <2>1, <2>5, <3>5, MoreRead
  <2> QED
    BY <1>s, <2>2, <2>5, <2>6, <2>7
<1>2. CASE MoreString
  <2>1. More(1) /\ At(pos) \notin {Quote, Backslash}
    BY <1>2, <1>s DEF MoreString
  <2>2. CASE pos = End
    <3>1. pos' = pos
      BY <1>s, <2>1, <2>2 DEF More, AdvanceBy
    <3> QED
      BY <2>1, <3>1, MoreRead DEF RInv, GoingInv
  <2>3. CASE pos # End
    <3>1. pos \in 1..Len(text) /\ pos' = pos + 1
      BY <1>s, <2>1, <2>3 DEF More, AdvanceBy
    <3>2. ~Escaped(from + 1, pos + 1)
      <4>1. from + 1 \in Int /\ from + 1 <= pos /\ text[pos] # Backslash
        BY <1>g, <1>s, <2>1, <3>1
      <4> QED
        BY <1>s, <4>1, EscapedNext
    <3>3. \A k \in from + 1..(pos + 1) - 1 : At(k) = Quote => Escaped(from + 1, k)
      BY <1>g, <1>s, <2>1
    <3>4. Going("string", from, pos + 1)
      BY <1>g, <1>s, <3>2, <3>3 DEF Going, StringGoing
    <3> QED
      BY <2>1, <3>1, <3>4, MoreRead
  <2> QED
    BY <2>2, <2>3
<1> QED
  BY <1>1, <1>2

(* One more character of any other piece.                                  *)
LEMMA MoresRead ==
  ASSUME SInv, RInv, MoreInt \/ MoreHex \/ MoreId \/ MoreBlock \/ MoreLine
  PROVE  RInv'
<1>s. /\ Cur = At(pos) /\ Peek(1) = At(pos + 1) /\ pos \in Int /\ from \in Int
      /\ from \in 1..pos /\ pos \in 1..End /\ End = Len(text) + 1 /\ Len(text) \in Nat
      /\ \A i : At(i) # NUL => i \in 1..Len(text) /\ At(i) = text[i]
  BY Sees
<1>0. ASSUME More(1), pos < End PROVE pos' = pos + 1
  BY <1>0, <1>s DEF More, AdvanceBy
<1>e. ASSUME NEW i \in Int, NEW S, Every(i, pos - 1, S), At(pos) \in S, At(pos) # NUL
      PROVE  Every(i, (pos + 1) - 1, S)
  <2>1. \A k \in i..(pos + 1) - 1 : k \in i..pos - 1 \/ k = pos
    BY <1>s
  <2>2. text[pos] \in S
    BY <1>e, <1>s
  <2> QED
    BY <1>e, <2>1, <2>2 DEF Every
<1>1. CASE MoreInt
  <2>1. mode = "int" /\ More(1) /\ At(pos) \in Digits /\ At(pos) # NUL
    BY <1>1, <1>s DEF MoreInt, Scanning, Digits, NUL
  <2>2. pos' = pos + 1
    BY <1>0, <1>s, <2>1
  <2>3. IntGoing(from, pos)
    BY <2>1 DEF RInv, GoingInv, Going
  <2>4. IntGoing(from, pos + 1)
    BY <1>e, <1>s, <2>1, <2>3 DEF IntGoing
  <2> QED
    BY <2>1, <2>2, <2>4, MoreRead DEF Going
<1>2. CASE MoreHex
  <2>1. mode = "hex" /\ More(1) /\ At(pos) \in HexDigits /\ At(pos) # NUL
    BY <1>2, <1>s DEF MoreHex, Scanning, HexDigits, Digits, NUL
  <2>2. pos' = pos + 1
    BY <1>0, <1>s, <2>1
  <2>3. HexGoing(from, pos)
    BY <2>1 DEF RInv, GoingInv, Going
  <2>4. HexGoing(from, pos + 1)
    BY <1>e, <1>s, <2>1, <2>3 DEF HexGoing
  <2> QED
    BY <2>1, <2>2, <2>4, MoreRead DEF Going
<1>3. CASE MoreId
  <2>1. mode = "id" /\ More(1) /\ At(pos) \in IdChars /\ At(pos) # NUL
    BY <1>3, <1>s DEF MoreId, Scanning, IdChars, Letters, Digits, ForeignDigits, NUL
  <2>2. pos' = pos + 1
    BY <1>0, <1>s, <2>1
  <2>3. IdGoing(from, pos)
    BY <2>1 DEF RInv, GoingInv, Going
  <2>4. IdGoing(from, pos + 1)
    BY <1>e, <1>s, <2>1, <2>3 DEF IdGoing
  <2> QED
    BY <2>1, <2>2, <2>4, MoreRead DEF Going
<1>4. CASE MoreBlock
  <2>1. mode = "block" /\ More(1) /\ pos < End /\ ~Closes(pos)
    BY <1>4, <1>s DEF MoreBlock, Scanning, AtClose, Closes
  <2>2. pos' = pos + 1
    BY <1>0, <2>1
  <2>3. BlockGoing(from, pos)
    BY <2>1 DEF RInv, GoingInv, Going
  <2>4. \A k \in from + 1..(pos + 1) - 1 : k \in from + 1..pos - 1 \/ k = pos
    BY <1>s
  <2>5. BlockGoing(from, pos + 1)
    BY <2>1, <2>3, <2>4 DEF BlockGoing
  <2> QED
    BY <2>1, <2>2, <2>5, MoreRead DEF Going
<1>5. CASE MoreLine
  <2>1. mode = "line" /\ More(1) /\ pos < End /\ At(pos) # NL
    BY <1>5, <1>s DEF MoreLine, Scanning
  <2>2. pos' = pos + 1
    BY <1>0, <2>1
  <2>3. LineGoing(from, pos)
    BY <2>1 DEF RInv, GoingInv, Going
  <2>4. \A k \in from..(pos + 1) - 1 : k \in from..pos - 1 \/ k = pos
    BY <1>s
  <2>5. LineGoing(from, pos + 1)
    BY <2>1, <2>3, <2>4 DEF LineGoing
  <2> QED
    BY <2>1, <2>2, <2>5, MoreRead DEF Going
<1> QED
  BY <1>1, <1>2, <1>3, <1>4, <1>5

(* The turn at which a loop stops: what has gone by, and the character     *)
(* that stops it, make the piece what its kind says.                       *)
LEMMA EndsRead ==
  ASSUME SInv, RInv,
         EndInt \/ EndHex \/ EndId \/ EndString \/ CloseBlock \/ OpenBlock \/ EndLine
  PROVE  RInv'
<1>s. /\ Cur = At(pos) /\ Peek(1) = At(pos + 1) /\ pos \in Int /\ from \in Int
      /\ from \in 1..pos /\ pos \in 1..End /\ End = Len(text) + 1 /\ Len(text) \in Nat
      /\ (pos - 1) + 1 = pos /\ (pos + 1) - 1 = pos
      /\ \A i : At(i) # NUL => i \in 1..Len(text) /\ At(i) = text[i]
  BY Sees
<1>k. \A m : m = mode => Going(m, from, pos)
  BY DEF RInv, GoingInv
<1>1. CASE EndInt
  <2>1. mode = "int" /\ Take("int", pos - 1, line) /\ At(pos) \notin Digits /\ pos > from
    BY <1>1, <1>s DEF EndInt, Scanning
  <2>2. IntGoing(from, pos)
    BY <1>k, <2>1 DEF Going
  <2>3. IntRead(from, pos - 1)
    BY <1>s, <2>1, <2>2 DEF IntGoing, IntRead
  <2> QED
    BY <2>1, <2>3, TakeRead DEF PieceRead
<1>2. CASE EndHex
  <2>1. mode = "hex" /\ Take("int", pos - 1, line) /\ At(pos) \notin HexDigits
    BY <1>2, <1>s DEF EndHex, Scanning
  <2>2. HexGoing(from, pos)
    BY <1>k, <2>1 DEF Going
  <2>3. IntRead(from, pos - 1)
    BY <1>s, <2>1, <2>2 DEF HexGoing, IntRead
  <2> QED
    BY <2>1, <2>3, TakeRead DEF PieceRead
<1>3. CASE EndId
  <2>1. mode = "id" /\ Take("id", pos - 1, lineNo) /\ At(pos) \notin IdChars
    BY <1>3, <1>s DEF EndId, Scanning
  <2>2. IdGoing(from, pos)
    BY <1>k, <2>1 DEF Going
  <2>3. PieceRead("id", from, pos - 1)
    BY <1>s, <2>1, <2>2 DEF IdGoing, PieceRead
  <2> QED
    BY <2>1, <2>3, TakeRead
<1>4. CASE EndString
  <2>1. mode = "string" /\ Take("string", pos, line) /\ At(pos) = Quote
    BY <1>4, <1>s DEF EndString, Scanning
  <2>2. StringGoing(from, pos) /\ pos <= Len(text)
    BY <1>k, <1>s, <2>1, Marks DEF Going
  <2>3. \A k \in from + 1..pos : k \in from + 1..pos - 1 \/ k = pos
    BY <1>s
  <2>4. \A k \in from + 1..pos - 1 : k # pos
    BY <1>s
  <2>5. StringRead(from, pos)
    BY <2>1, <2>2, <2>3, <2>4 DEF StringGoing, StringRead
  <2> QED
    BY <2>1, <2>5, TakeRead DEF PieceRead
<1>5. CASE CloseBlock
  <2>1. mode = "block" /\ Take("comment", pos + 1, line) /\ Closes(pos)
    BY <1>5, <1>s DEF CloseBlock, AtClose, Closes, Scanning
  <2>2. BlockGoing(from, pos)
    BY <1>k, <2>1 DEF Going
  <2>3. (pos + 1) - 2 = pos - 1
    BY <1>s
  <2>4. BlockRead(from, pos + 1)
    BY <1>s, <2>1, <2>2, <2>3 DEF BlockGoing, BlockRead
  <2> QED
    BY <2>1, <2>4, TakeRead DEF PieceRead
<1>6. CASE OpenBlock
  <2>1. mode = "block" /\ Take("comment", pos - 1, line) /\ pos = End
    BY <1>6 DEF OpenBlock, Scanning
  <2>2. BlockGoing(from, pos)
    BY <1>k, <2>1 DEF Going
  <2>3. pos - 1 = Len(text) /\ \A k \in from + 1..(pos - 1) - 2 : k \in from + 1..pos - 1
    BY <1>s, <2>1
  <2>4. BlockRead(from, pos - 1)
    BY <2>2, <2>3 DEF BlockGoing, BlockRead
  <2> QED
    BY <2>1, <2>4, TakeRead DEF PieceRead
<1>7. CASE EndLine
  <2>1. mode = "line" /\ Take(LineKind, pos - 1, line) /\ (pos = End \/ At(pos) = NL)
    BY <1>7, <1>s DEF EndLine, Scanning
  <2>2. LineGoing(from, pos)
    BY <1>k, <2>1 DEF Going
  <2>3. /\ LineKind \in {"note", "comment"}
        /\ At(from + 2) = "*" <=> LineKind = "note"
    BY DEF LineKind, At, NUL
  <2>4. pos - 1 = Len(text) \/ At((pos - 1) + 1) = NL
    BY <1>s, <2>1
  <2>5. ASSUME NEW kind \in {"note", "comment"}, At(from + 2) = "*" <=> kind = "note"
        PROVE  LineRead(kind, from, pos - 1)
    BY <2>2, <2>4, <2>5 DEF LineGoing, LineRead
  <2>6. PICK kind \in {"note", "comment"} : kind = LineKind
    BY <2>3
  <2>7. PieceRead(kind, from, pos - 1)
    BY <2>3, <2>5, <2>6 DEF PieceRead
  <2> QED
    BY <2>1, <2>6, <2>7, TakeRead
<1> QED
  BY <1>1, <1>2, <1>3, <1>4, <1>5, <1>6, <1>7

LEMMA OperatorRead ==
  ASSUME SInv, RInv, NEW n, mode = "gap", Operator(n), OpRead(pos, pos + n - 1)
  PROVE  RInv'
<1>1. PieceRead("op", pos, pos + n - 1)
  BY DEF PieceRead
<1>2. text' = text /\ pieces' = Append(pieces, Piece("op", pos, pos + n - 1, lineNo)) /\ mode' = "gap"
  BY DEF Operator
<1>3. WellRead'
  BY <1>1, <1>2, ReadAdded DEF RInv
<1>4. PICK i, j : i = from' /\ j = pos'
  OBVIOUS
<1>5. Going("gap", i, j)
  BY DEF Going
<1> QED
  BY <1>2, <1>3, <1>4, <1>5, GoingNext DEF RInv

LEMMA NextRead == SInv /\ RInv /\ [Next]_vars => RInv'
<1> SUFFICES ASSUME SInv, RInv, [Next]_vars PROVE RInv'
  OBVIOUS
<1>s. /\ Cur = At(pos) /\ Peek(1) = At(pos + 1) /\ pos \in Int /\ from \in Int
  BY Sees
<1>1. CASE SkipSpace \/ Eof \/ Unknown
  BY <1>1, GapRead DEF SkipSpace, Eof, Unknown, More, Stop, Scanning
<1>2. CASE StartHex \/ StartInt \/ StartId \/ StartString \/ StartBlock \/ StartLine
  BY <1>2, StartsRead
<1>3. CASE Op2
  <2>1. mode = "gap" /\ Operator(2) /\ <<At(pos), At(pos + 1)>> \in Pairs
    BY <1>3, <1>s DEF Op2, Scanning
  <2>2. pos + 2 - 1 = pos + 1
    BY <1>s
  <2>3. OpRead(pos, pos + 2 - 1)
    BY <2>1, <2>2 DEF OpRead
  <2> QED
    BY <2>1, <2>3, OperatorRead
<1>4. CASE Op1
  <2>1. /\ mode = "gap" /\ Operator(1) /\ At(pos) \in Singles
        /\ <<At(pos), At(pos + 1)>> \notin Pairs
    BY <1>4, <1>s DEF Op1, Scanning
  <2>2. pos + 1 - 1 = pos
    BY <1>s
  <2>3. OpRead(pos, pos + 1 - 1)
    BY <2>1, <2>2 DEF OpRead
  <2> QED
    BY <2>1, <2>3, OperatorRead
<1>5. CASE MoreInt \/ MoreHex \/ MoreId \/ MoreBlock \/ MoreLine
  BY <1>5, MoresRead
<1>6. CASE EndInt \/ EndHex \/ EndId \/ EndString \/ CloseBlock \/ OpenBlock \/ EndLine
  BY <1>6, EndsRead
<1>7. CASE EmptyInt
  <2>1. /\ mode = "int" /\ At(pos) \notin Digits /\ pos = from /\ mode' = "gap" /\ text' = text
        /\ \/ pieces' = pieces
           \/ pieces' = Append(pieces, Piece("int", from, from - 1, line))
    BY <1>7, <1>s DEF EmptyInt, Scanning
  <2>2. IntGoing(from, pos)
    BY <2>1 DEF RInv, GoingInv, Going
  <2>3. IntRead(from, from - 1)
    <3>1. (from - 1) + 1 = from /\ At(from) \notin Digits /\ At(from) \in ForeignDigits
      BY <1>s, <2>1, <2>2 DEF IntGoing
    <3> QED
      BY <1>s, <2>1, <2>2, <3>1 DEF IntGoing, IntRead
  <2>4. PieceRead("int", from, from - 1)
    BY <2>3 DEF PieceRead
  <2>5. WellRead'
    <3>1. CASE pieces' = pieces
      BY <2>1, <3>1, ReadKept DEF RInv
    <3>2. CASE pieces' = Append(pieces, Piece("int", from, from - 1, line))
      BY <2>1, <2>4, <3>2, ReadAdded DEF RInv
    <3> QED
      BY <2>1, <3>1, <3>2
  <2>6. PICK i, j : i = from' /\ j = pos'
    OBVIOUS
  <2>7. Going("gap", i, j)
    BY DEF Going
  <2> QED
    BY <2>1, <2>5, <2>6, <2>7, GoingNext DEF RInv
<1>8. CASE Escape \/ MoreString
  <2>1. mode = "string"
    BY <1>8 DEF Escape, MoreString, Scanning
  <2> QED
    BY <1>8, <2>1, StringRest
<1>9. CASE UNCHANGED vars
  <2>1. UNCHANGED <<text, pieces, mode, from, pos>>
    BY <1>9 DEF vars
  <2>2. PICK m, i, j : m = mode /\ i = from /\ j = pos
    OBVIOUS
  <2>3. GoingInv'
    BY <2>1, <2>2, GoingNext DEF RInv, GoingInv
  <2> QED
    BY <2>1, <2>3, ReadKept DEF RInv
<1> QED
  BY <1>1, <1>2, <1>3, <1>4, <1>5, <1>6, <1>7, <1>8, <1>9 DEF Next

(* Every piece is what its kind says and as long as it can be, in every    *)
(* text: a number or a name ends where it must, an operator of one         *)
(* character does not begin one of two, a string ends at its first quote   *)
(* that is not escaped, a comment at its first end.                        *)
THEOREM PiecesWellRead == Spec => []WellRead
<1>1. Init => RInv
  BY DEF Init, RInv, GoingInv, Going, WellRead
<1>2. SInv /\ RInv /\ [Next]_vars => RInv'
  BY NextRead
<1>3. RInv => WellRead
  BY DEF RInv
<1> QED
  BY <1>1, <1>2, <1>3, InvariantSInv, PTL DEF Spec
=============================================================================
