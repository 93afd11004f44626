-------------------------- MODULE CodecText_proofs --------------------------
(***************************************************************************)
(* What the theorems about the generated encoder and decoder rest on: the  *)
(* text of each field and where a function is in it, what a text that      *)
(* compiles says of the fields, the bits of a byte and the two codecs of   *)
(* an integer, the values of a message, and strings of bytes put together  *)
(* and taken apart.                                                        *)
(*                                                                         *)
(* The text of a codec is the texts of its fields in their order.  The     *)
(* machine is therefore always at some field i, with the rest r of that    *)
(* field's text before it and the texts of the fields after i behind r;    *)
(* what holds of the message, of tmp and of the stream is said of i and r. *)
(***************************************************************************)
EXTENDS Codec, MsgGen_proofs

-----------------------------------------------------------------------------
(* The layout of the message, and the field that opens the group of a bit  *)
(* field.                                                                  *)
IsLayout(o) == o \in [1..Len(fields) -> 0..7] /\ LaidOutBy(fields, o)

O == CHOOSE o : IsLayout(o)

Opens(h, i) == h \in 1..i /\ Before(O, h) = 0 /\ \A j \in h+1..i : Before(O, j) # 0

Opener(i) == CHOOSE h : Opens(h, i)

LEMMA LayoutOf == ASSUME fields \in Messages PROVE IsLayout(O)
<1>1. LaidOut(fields)
  BY MessagesAssumption
<1>2. \E o : IsLayout(o)
  BY <1>1 DEF LaidOut, IsLayout
<1> QED
  BY <1>2 DEF O

LEMMA OpenerIs ==
  ASSUME NEW i \in Nat \ {0}
  PROVE  /\ Opens(Opener(i), i)
         /\ Before(O, i) = 0 => Opener(i) = i
         /\ Before(O, i) # 0 => i > 1 /\ Opener(i) = Opener(i - 1)
<1> DEFINE T == {k \in Nat : k >= 1 => \E h : Opens(h, k)}
<1>1. 0 \in T
  OBVIOUS
<1>2. ASSUME NEW k \in Nat, k \in T PROVE k + 1 \in T
  <2>1. CASE Before(O, k + 1) = 0
    <3>1. Opens(k + 1, k + 1)
      BY <2>1 DEF Opens
    <3> QED
      BY <3>1
  <2>2. CASE Before(O, k + 1) # 0
    <3>1. k >= 1
      BY <2>2 DEF Before
    <3>2. PICK h : Opens(h, k)
      BY <1>2, <3>1
    <3>3. Opens(h, k + 1)
      BY <2>2, <3>2 DEF Opens
    <3> QED
      BY <3>3
  <2> QED
    BY <2>1, <2>2
<1>3. Nat \subseteq T
  <2> HIDE DEF T
  <2> QED
    BY <1>1, <1>2, SetInduction
<1>4. ASSUME NEW k \in Nat \ {0} PROVE Opens(Opener(k), k)
  <2>1. \E h : Opens(h, k)
    BY <1>3
  <2> QED
    BY <2>1 DEF Opener
<1>5. ASSUME NEW k \in Nat \ {0}, NEW h, Opens(h, k), NEW g, Opens(g, k) PROVE h = g
  BY <1>5 DEF Opens
<1>6. Before(O, i) = 0 => Opener(i) = i
  <2>1. Before(O, i) = 0 => Opens(i, i)
    BY DEF Opens
  <2> QED
    BY <1>4, <1>5, <2>1
<1>7. ASSUME Before(O, i) # 0 PROVE i > 1 /\ Opener(i) = Opener(i - 1)
  <2>1. i > 1
    BY <1>7 DEF Before
  <2>2. Opens(Opener(i - 1), i - 1)
    BY <1>4, <2>1
  <2>3. Opens(Opener(i - 1), i)
    BY <1>7, <2>1, <2>2 DEF Opens
  <2> QED
    BY <1>4, <1>5, <2>1, <2>3
<1> QED
  BY <1>4, <1>6, <1>7

-----------------------------------------------------------------------------
(* The text of one field.                                                  *)

LEMMA TextJoin ==
  ASSUME NEW s, Text(s), NEW t, Text(t)
  PROVE  Text(s \o t) /\ Len(s \o t) = Len(s) + Len(t)
<1>1. PICK S : s \in Seq(S)
  BY DEF Text
<1>2. PICK T : t \in Seq(T)
  BY DEF Text
<1>3. s \in Seq(S \cup T) /\ t \in Seq(S \cup T)
  BY <1>1, <1>2
<1> QED
  BY <1>3 DEF Text

Used(i) == Before(O, i) + Bits(fields[i].type)

Unit(i) == GroupUnit(i, O)

ArrayUnit(f) == IF IsByte(f.type.elem) THEN BytesUnit(f, LimitRef(f))
                ELSE EachUnit(f, LimitRef(f), ElemUnit(f.type.elem))

ArrayRead(f) == IF IsByte(f.type.elem)
                THEN BytesUnit(f, IF LimitRef(f).this THEN LimitRef(f) ELSE NoRef)
                ELSE EachUnit(f, LimitRef(f), ElemUnit(f.type.elem))

EncodeBody(f) ==
  CASE f.type.k = "prim" -> Clamp(f) \o <<IntUnit(f)>>
    [] f.type.k \in {"struct", "undef"} -> <<MsgUnit(f)>>
    [] f.type.k = "array" -> <<ArrayUnit(f)>>

Checked(f) == IF f.max # NoName THEN <<Most(f)>> ELSE Equal(f, TRUE)

DecodeBody(f) ==
  CASE f.type.k = "prim" -> <<IntUnit(f)>> \o Checked(f)
    [] f.type.k \in {"struct", "undef"} -> <<MsgUnit(f)>>
    [] f.type.k = "array" -> <<ArrayRead(f)>>

Filler(i) == IF Used(i) = 8 THEN <<TmpByte(fields[Opener(i)].xor)>> ELSE <<>>

EncodeText(i, t) ==
  IF ~Grouped(i, O) THEN t = Wrap(fields[i], EncodeBody(fields[i]))
  ELSE IF Before(O, i) = 0 THEN \E d : t = <<ClearTmp(d), Unit(i)>>
  ELSE t = <<Unit(i)>> \o Filler(i)

DecodeText(i, t) ==
  IF ~Grouped(i, O) THEN t = Wrap(fields[i], DecodeBody(fields[i]))
  ELSE IF Before(O, i) = 0
  THEN \E d : t = <<ClearTmp(d), TmpByte(fields[i].xor), Unit(i)>> \o Equal(fields[i], TRUE)
  ELSE t = <<Unit(i)>> \o Equal(fields[i], FALSE)

TextOfField(w, i, t) == Text(t) /\ IF w = "encode" THEN EncodeText(i, t) ELSE DecodeText(i, t)

(* text is the texts of the first m fields.                                *)
Adds(w, k, before, after) == \E t : TextOfField(w, k, t) /\ after = before \o t

Built(w, text, m) ==
  \E acc : /\ acc[0] = <<>> /\ acc[m] = text
           /\ \A k \in 1..m : Adds(w, k, acc[k-1], acc[k])

LEMMA BuiltMore ==
  ASSUME NEW w, NEW m \in Nat, NEW text, Built(w, text, m), NEW t, TextOfField(w, m + 1, t)
  PROVE  Built(w, text \o t, m + 1)
<1>1. PICK acc : /\ acc[0] = <<>> /\ acc[m] = text
                 /\ \A k \in 1..m : Adds(w, k, acc[k-1], acc[k])
  BY DEF Built
<1> DEFINE more == text \o t
           bcc == [k \in 0..m+1 |-> IF k = m + 1 THEN more ELSE acc[k]]
<1>2. Adds(w, m + 1, text, more)
  BY DEF Adds
<1> HIDE DEF more
<1>3. bcc[0] = <<>> /\ bcc[m] = text /\ bcc[m + 1] = more /\ \A k \in 0..m : bcc[k] = acc[k]
  BY <1>1
<1> HIDE DEF bcc
<1>4. ASSUME NEW k \in 1..m+1 PROVE Adds(w, k, bcc[k-1], bcc[k])
  <2>1. CASE k \in 1..m
    BY <1>1, <1>3, <2>1
  <2>2. CASE k = m + 1
    <3>1. k - 1 = m
      BY <2>2
    <3> QED
      BY <1>2, <1>3, <2>2, <3>1
  <2> QED
    BY <2>1, <2>2
<1>5. Built(w, more, m + 1)
  BY <1>3, <1>4 DEF Built
<1> QED
  BY <1>5 DEF more

LEMMA BuiltEmpty == ASSUME NEW w PROVE Built(w, <<>>, 0)
<1> DEFINE acc == [k \in {0} |-> <<>>]
<1>1. acc[0] = <<>>
  OBVIOUS
<1> HIDE DEF acc
<1> QED
  BY <1>1 DEF Built

(* text is the texts of the fields after field m.                          *)
Precedes(w, k, whole, rest) == Text(rest) /\ \E t : TextOfField(w, k, t) /\ whole = t \o rest

Remains(w, text, m) ==
  \E tl : /\ tl[m] = text /\ tl[Len(fields)] = <<>>
          /\ \A k \in m+1..Len(fields) : Precedes(w, k, tl[k-1], tl[k])

LEMMA RemainsEnd ==
  ASSUME NEW w, NEW text, Remains(w, text, Len(fields))
  PROVE  text = <<>>
  BY DEF Remains

LEMMA RemainsNext ==
  ASSUME NEW w, Len(fields) \in Nat, NEW m \in Nat, m < Len(fields), NEW text, Remains(w, text, m)
  PROVE  \E t, rest : /\ TextOfField(w, m + 1, t) /\ Text(rest) /\ text = t \o rest
                      /\ Remains(w, rest, m + 1)
<1>1. PICK tl : /\ tl[m] = text /\ tl[Len(fields)] = <<>>
                /\ \A k \in m+1..Len(fields) : Precedes(w, k, tl[k-1], tl[k])
  BY DEF Remains
<1>2. Precedes(w, m + 1, tl[m], tl[m + 1])
  <2>1. m + 1 \in m+1..Len(fields) /\ (m + 1) - 1 = m
    OBVIOUS
  <2> QED
    BY <1>1, <2>1
<1>3. Remains(w, tl[m + 1], m + 1)
  <2>1. \A k \in (m+1)+1..Len(fields) : k \in m+1..Len(fields)
    OBVIOUS
  <2>2. \A k \in (m+1)+1..Len(fields) : Precedes(w, k, tl[k-1], tl[k])
    BY <1>1, <2>1
  <2> QED
    BY <1>1, <2>2 DEF Remains
<1> QED
  BY <1>1, <1>2, <1>3 DEF Precedes

LEMMA RemainsBefore ==
  ASSUME NEW w, Len(fields) \in Nat, NEW m \in Nat, m < Len(fields),
         NEW rest, Remains(w, rest, m + 1), Text(rest), NEW t, TextOfField(w, m + 1, t)
  PROVE  Remains(w, t \o rest, m)
<1>1. PICK tl : /\ tl[m + 1] = rest /\ tl[Len(fields)] = <<>>
                /\ \A k \in (m+1)+1..Len(fields) : Precedes(w, k, tl[k-1], tl[k])
  BY DEF Remains
<1> DEFINE whole == t \o rest
           ul == [k \in m..Len(fields) |-> IF k = m THEN whole ELSE tl[k]]
<1>2. Precedes(w, m + 1, whole, rest)
  BY DEF Precedes
<1> HIDE DEF whole
<1>3. ul[m] = whole /\ ul[m + 1] = rest /\ ul[Len(fields)] = <<>> /\ \A k \in m+1..Len(fields) : ul[k] = tl[k]
  BY <1>1
<1> HIDE DEF ul
<1>4. ASSUME NEW k \in m+1..Len(fields) PROVE Precedes(w, k, ul[k-1], ul[k])
  <2>1. CASE k = m + 1
    <3>1. k - 1 = m
      BY <2>1
    <3> QED
      BY <1>2, <1>3, <2>1, <3>1
  <2>2. CASE k # m + 1
    <3>1. k \in (m+1)+1..Len(fields) /\ k - 1 \in m+1..Len(fields)
      BY <2>2
    <3>2. ul[k] = tl[k] /\ ul[k-1] = tl[k-1]
      BY <1>3, <3>1
    <3> QED
      BY <1>1, <3>1, <3>2
  <2> QED
    BY <2>1, <2>2
<1>5. Remains(w, whole, m)
  BY <1>3, <1>4 DEF Remains
<1> QED
  BY <1>5 DEF whole

LEMMA BuiltRemains ==
  ASSUME NEW w, Len(fields) \in Nat, NEW text, Built(w, text, Len(fields))
  PROVE  Remains(w, text, 0) /\ Text(text)
<1> DEFINE n == Len(fields)
<1>1. PICK acc : /\ acc[0] = <<>> /\ acc[n] = text
                 /\ \A k \in 1..n : Adds(w, k, acc[k-1], acc[k])
  BY DEF Built
<1>2. \A k \in 0..n : Text(acc[k])
  <2> DEFINE T == {k \in Nat : k <= n => Text(acc[k])}
  <2>1. 0 \in T
    BY <1>1, TextEmpty
  <2>2. ASSUME NEW k \in Nat, k \in T PROVE k + 1 \in T
    <3>1. SUFFICES ASSUME k + 1 <= n PROVE Text(acc[k + 1])
      OBVIOUS
    <3>2. Adds(w, k + 1, acc[k], acc[k + 1])
      <4>1. k + 1 \in 1..n /\ (k + 1) - 1 = k
        BY <3>1
      <4> QED
        BY <1>1, <4>1
    <3>3. Text(acc[k])
      BY <2>2, <3>1
    <3> QED
      BY <3>2, <3>3, TextJoin DEF Adds, TextOfField
  <2>3. Nat \subseteq T
    <3> HIDE DEF T
    <3> QED
      BY <2>1, <2>2, SetInduction
  <2> QED
    BY <2>3
<1> DEFINE Rest(k, rest) == text = acc[k] \o rest /\ Text(rest) /\ Remains(w, rest, k)
           T == {m \in Nat : m <= n => \E rest : Rest(n - m, rest)}
<1>3. 0 \in T
  <2> DEFINE tl == [k \in {n} |-> <<>>]
  <2>1. tl[n] = <<>>
    OBVIOUS
  <2> HIDE DEF tl
  <2>2. Remains(w, <<>>, n)
    BY <2>1 DEF Remains
  <2>3. Rest(n, <<>>) /\ n - 0 = n
    BY <1>1, <1>2, <2>2, TextEmpty, PushNothing
  <2> QED
    BY <2>3
<1>4. ASSUME NEW m \in Nat, m \in T PROVE m + 1 \in T
  <2> SUFFICES ASSUME m + 1 <= n PROVE \E rest : Rest(n - (m + 1), rest)
    OBVIOUS
  <2> DEFINE k == n - (m + 1)
  <2>1. k \in Nat /\ k < n /\ n - m = k + 1 /\ k + 1 \in 1..n /\ (k + 1) - 1 = k
    OBVIOUS
  <2>2. PICK rest : Rest(k + 1, rest)
    BY <1>4, <2>1
  <2> HIDE DEF k
  <2>3. Adds(w, k + 1, acc[k], acc[k + 1])
    BY <1>1, <2>1
  <2>4. PICK t : TextOfField(w, k + 1, t) /\ acc[k + 1] = acc[k] \o t
    BY <2>3 DEF Adds
  <2>5. Text(acc[k]) /\ Text(t) /\ Text(rest)
    BY <1>2, <2>1, <2>2, <2>4 DEF TextOfField
  <2>6. text = acc[k] \o (t \o rest)
    <3>1. text = (acc[k] \o t) \o rest
      BY <2>2, <2>4
    <3> DEFINE a == acc[k]
    <3>2. Text(a) /\ Text(t) /\ Text(rest)
      BY <2>5
    <3> HIDE DEF a
    <3>3. a \o (t \o rest) = (a \o t) \o rest
      BY <3>2, PushMore
    <3> QED
      BY <3>1, <3>3 DEF a
  <2>7. Remains(w, t \o rest, k)
    BY <2>1, <2>2, <2>4, <2>5, RemainsBefore
  <2>8. Text(t \o rest)
    BY <2>5, TextJoin
  <2> QED
    BY <2>6, <2>7, <2>8 DEF k
<1>5. n \in T
  <2> HIDE DEF T, n
  <2>1. Len(fields) \in Nat
    OBVIOUS
  <2> QED
    BY <1>3, <1>4, <2>1, SetInduction DEF n
<1>6. PICK rest : Rest(0, rest)
  <2>1. n - n = 0
    OBVIOUS
  <2> QED
    BY <1>5, <2>1
<1> QED
  BY <1>1, <1>2, <1>6, PushNothing
-----------------------------------------------------------------------------
(* The generator has written these texts.                                  *)

LEMMA SameLayout ==
  ASSUME fields' = fields
  PROVE  O' = O /\ \A i : Opener(i)' = Opener(i)
<1>1. \A o : IsLayout(o)' <=> IsLayout(o)
  BY DEF IsLayout, LaidOutBy, FitsAt, Before, IsIntType, IsBitType, Bits
<1>2. O' = O
  BY <1>1 DEF O
<1>3. \A h, i : Opens(h, i)' <=> Opens(h, i)
  BY <1>2 DEF Opens, Before
<1> QED
  BY <1>2, <1>3 DEF Opener

LEMMA SameText ==
  ASSUME fields' = fields
  PROVE  \A w, i, t : TextOfField(w, i, t)' <=> TextOfField(w, i, t)
<1>1. O' = O /\ \A i : Opener(i)' = Opener(i)
  BY SameLayout
<1>2. \A f : LimitRef(f)' = LimitRef(f)
  BY DEF LimitRef, LimitFieldMax
<1>3. \A i : Used(i)' = Used(i) /\ Grouped(i, O)' = Grouped(i, O) /\ Unit(i)' = Unit(i)
  BY <1>1 DEF Used, Grouped, Unit, GroupUnit
<1>4. \A i : Filler(i)' = Filler(i)
  BY <1>1, <1>3 DEF Filler
<1>5. \A f : EncodeBody(f)' = EncodeBody(f) /\ DecodeBody(f)' = DecodeBody(f)
  BY <1>2 DEF EncodeBody, DecodeBody, ArrayUnit, ArrayRead
<1>6. \A i, t : EncodeText(i, t)' <=> EncodeText(i, t)
  BY <1>1, <1>3, <1>4, <1>5 DEF EncodeText
<1>7. \A i, t : DecodeText(i, t)' <=> DecodeText(i, t)
  BY <1>1, <1>3, <1>5 DEF DecodeText
<1> QED
  BY <1>6, <1>7 DEF TextOfField

LEMMA SameBuilt ==
  ASSUME fields' = fields
  PROVE  \A w, text, m : Built(w, text, m)' <=> Built(w, text, m)
  BY SameText DEF Built, Adds

Kinds == {"prim", "struct", "undef", "array"}

LEMMA BodyText ==
  ASSUME NEW f, f.type.k \in Kinds
  PROVE  Text(EncodeBody(f)) /\ Text(DecodeBody(f))
<1>1. Text(Clamp(f)) /\ Text(Checked(f))
  <2>1. \A x : Text(<<x>>)
    BY Tuples
  <2> QED
    BY <2>1, TextEmpty DEF Clamp, Checked, Equal
<1> DEFINE e == Clamp(f) \o <<IntUnit(f)>>
           d == <<IntUnit(f)>> \o Checked(f)
<1>2. Text(e) /\ Text(d)
  BY <1>1, Tuples, TextJoin
<1> HIDE DEF e, d
<1>3. \A x : Text(<<x>>)
  BY Tuples
<1>4. CASE f.type.k = "prim"
  BY <1>2, <1>4 DEF EncodeBody, DecodeBody, e, d
<1>5. CASE f.type.k \in {"struct", "undef"}
  BY <1>3, <1>5 DEF EncodeBody, DecodeBody
<1>6. CASE f.type.k = "array"
  BY <1>3, <1>6 DEF EncodeBody, DecodeBody
<1> QED
  BY <1>4, <1>5, <1>6 DEF Kinds

WholeText(w, f) == Wrap(f, IF w = "encode" THEN EncodeBody(f) ELSE DecodeBody(f))

LEMMA TextOfWhole ==
  ASSUME NEW w, NEW i, ~Grouped(i, O), fields[i].type.k \in Kinds
  PROVE  TextOfField(w, i, WholeText(w, fields[i]))
<1> DEFINE f == fields[i]
           body == IF w = "encode" THEN EncodeBody(f) ELSE DecodeBody(f)
<1>1. Text(body)
  BY BodyText
<1> HIDE DEF body
<1>2. Text(Wrap(f, body))
  <2>1. \A x : Text(<<x>>)
    BY Tuples
  <2> QED
    BY <1>1, <2>1 DEF Wrap
<1> QED
  BY <1>2 DEF TextOfField, EncodeText, DecodeText, WholeText, body

LEMMA EncodeAdds ==
  ASSUME IInv, Encode, ~Panic, IsLayout(O), GroupAt(O), Text(encoder),
         bitAggr => xorVar = fields[Opener(fi - 1)].xor
  PROVE  /\ UNCHANGED <<fields, walk, struct, decoder>> /\ fi' = fi + 1
         /\ Adds("encode", fi, encoder, encoder')
         /\ bitAggr' => xorVar' = fields[Opener(fi)].xor
<1>1. /\ walk = "encode" /\ walk \in Codec /\ fi \in DOMAIN fields
  BY DEF Encode, EncodeBits, OpenEncodeGroup, EncodeInt, EncodeMsg, EncodeArray, At, Codec
<1>2. fi \in Nat \ {0} /\ fi - 1 \in Nat /\ Field = fields[fi] /\ Type = fields[fi].type
  BY <1>1, Shape DEF IInv, Field, Type
<1>3. /\ bitAggr => NextSpan = Unit(fi) /\ Grouped(fi, O)
      /\ ~bitAggr /\ IsBitType(Type) => FirstSpan = Unit(fi) /\ Grouped(fi, O) /\ Before(O, fi) = 0
      /\ ~bitAggr /\ ~IsBitType(Type) => ~Grouped(fi, O) /\ Before(O, fi) = 0
  BY <1>1, <1>2, SpanIsUnit DEF Unit
<1>4. /\ Before(O, fi) = 0 => Opener(fi) = fi
      /\ Before(O, fi) # 0 => Opener(fi) = Opener(fi - 1)
  BY <1>2, OpenerIs
<1>5. CASE EncodeBits
  <2> DEFINE n == bits + Bits(Type)
             t == <<NextSpan>> \o FullByte(n)
  <2>1. bitAggr /\ Fits(n)
    BY <1>1, <1>5, AtOpen DEF EncodeBits, Fits
  <2>2. Before(O, fi) # 0 /\ bits = Before(O, fi)
    BY <1>1, <2>1 DEF GroupAt
  <2>3. /\ encoder' = encoder \o t /\ UNCHANGED <<fields, walk, struct, decoder>> /\ fi' = fi + 1
        /\ bitAggr' = (n < 8) /\ xorVar' = IF n = 8 THEN NoName ELSE xorVar
    BY <1>5, <2>1 DEF EncodeBits, Require, Write, EncodeGroup, NextSpan
  <2>4. FullByte(n) = Filler(fi)
    BY <1>2, <1>4, <2>1, <2>2 DEF FullByte, Filler, Used
  <2>5. t = <<Unit(fi)>> \o Filler(fi)
    BY <1>3, <2>1, <2>4
  <2>6. Text(t)
    <3>1. \A x : Text(<<x>>)
      BY Tuples
    <3>2. Text(Filler(fi))
      BY <3>1, TextEmpty DEF Filler
    <3> QED
      BY <2>5, <3>1, <3>2, TextJoin
  <2>7. Grouped(fi, O)
    BY <1>3, <2>1
  <2> HIDE DEF t
  <2>8. TextOfField("encode", fi, t)
    BY <2>2, <2>5, <2>6, <2>7 DEF TextOfField, EncodeText
  <2>9. bitAggr' => xorVar' = fields[Opener(fi)].xor
    <3> HIDE DEF n
    <3>1. bitAggr' => n < 8
      BY <2>3
    <3>2. bitAggr' => xorVar' = xorVar
      BY <2>3, <3>1
    <3> QED
      BY <1>4, <2>1, <2>2, <3>2
  <2> QED
    BY <2>3, <2>8, <2>9 DEF Adds
<1>6. CASE OpenEncodeGroup
  <2> DEFINE t == <<ClearTmp(hasTmp), FirstSpan>>
  <2>1. /\ encoder' = encoder \o t /\ UNCHANGED <<fields, walk, struct, decoder>> /\ fi' = fi + 1
        /\ xorVar' = Field.xor /\ ~bitAggr /\ IsBitType(Type)
    BY <1>6 DEF OpenEncodeGroup, Require, Write, FirstSpan
  <2>2. t = <<ClearTmp(hasTmp), Unit(fi)>> /\ Text(t) /\ Before(O, fi) = 0 /\ Grouped(fi, O)
    BY <1>3, <2>1, Tuples
  <2> HIDE DEF t
  <2>3. TextOfField("encode", fi, t)
    BY <2>2 DEF TextOfField, EncodeText
  <2> QED
    BY <1>2, <1>4, <2>1, <2>2, <2>3 DEF Adds
<1>7. CASE EncodeWhole
  <2>1. ~bitAggr /\ ~IsBitType(Type)
    BY <1>7, WholeNotOpen
  <2>2. /\ encoder' = encoder \o WholeText("encode", Field)
        /\ UNCHANGED <<fields, walk, struct, decoder, aggr>> /\ fi' = fi + 1 /\ Type.k \in Kinds
    <3>1. CASE EncodeInt
      BY <3>1 DEF EncodeInt, Require, Write, WholeText, EncodeBody, Type, Kinds
    <3>2. CASE EncodeMsg
      BY <3>2 DEF EncodeMsg, Require, Write, WholeText, EncodeBody, Type, Kinds
    <3>3. CASE EncodeArray
      <4>1. /\ Type.k = "array"
            /\ encoder' = encoder \o Wrap(Field, IF IsByte(Type.elem) THEN <<BytesUnit(Field, LimitRef(Field))>>
                              ELSE <<EachUnit(Field, LimitRef(Field), ElemUnit(Type.elem))>>)
            /\ UNCHANGED <<fields, walk, struct, decoder, aggr>> /\ fi' = fi + 1
        BY <3>3 DEF EncodeArray, Require, Write
      <4>2. EncodeBody(Field) = IF IsByte(Type.elem) THEN <<BytesUnit(Field, LimitRef(Field))>>
                              ELSE <<EachUnit(Field, LimitRef(Field), ElemUnit(Type.elem))>>
        BY <4>1 DEF EncodeBody, ArrayUnit, Type
      <4> QED
        BY <4>1, <4>2 DEF WholeText, Kinds
    <3> QED
      BY <1>7, <3>1, <3>2, <3>3 DEF EncodeWhole
  <2>3. ~Grouped(fi, O)
    BY <1>3, <2>1
  <2>4. TextOfField("encode", fi, WholeText("encode", fields[fi]))
    BY <1>2, <2>2, <2>3, TextOfWhole
  <2>5. ~bitAggr'
    BY <2>1, <2>2 DEF aggr
  <2> QED
    BY <1>2, <2>2, <2>4, <2>5 DEF Adds
<1> QED
  BY <1>5, <1>6, <1>7 DEF Encode, EncodeWhole

LEMMA DecodeAdds ==
  ASSUME IInv, Decode, ~Panic, IsLayout(O), GroupAt(O), Text(decoder)
  PROVE  /\ UNCHANGED <<fields, walk, struct, encoder>> /\ fi' = fi + 1
         /\ Adds("decode", fi, decoder, decoder')
<1>1. /\ walk = "decode" /\ walk \in Codec /\ fi \in DOMAIN fields
  BY DEF Decode, DecodeBits, OpenDecodeGroup, DecodeInt, DecodeMsg, DecodeArray, At, Codec
<1>2. fi \in Nat \ {0} /\ fi - 1 \in Nat /\ Field = fields[fi] /\ Type = fields[fi].type
  BY <1>1, Shape DEF IInv, Field, Type
<1>3. /\ bitAggr => NextSpan = Unit(fi) /\ Grouped(fi, O)
      /\ ~bitAggr /\ IsBitType(Type) => FirstSpan = Unit(fi) /\ Grouped(fi, O) /\ Before(O, fi) = 0
      /\ ~bitAggr /\ ~IsBitType(Type) => ~Grouped(fi, O) /\ Before(O, fi) = 0
  BY <1>1, <1>2, SpanIsUnit DEF Unit
<1>4. \A f, b : Text(Equal(f, b))
  <2>1. \A x : Text(<<x>>)
    BY Tuples
  <2> QED
    BY <2>1, TextEmpty DEF Equal
<1>5. CASE DecodeBits
  <2> DEFINE n == bits + Bits(Type)
             t == <<NextSpan>> \o Equal(Field, FALSE)
  <2>1. bitAggr /\ Fits(n)
    BY <1>1, <1>5, AtOpen DEF DecodeBits, Fits
  <2>2. Before(O, fi) # 0 /\ bits = Before(O, fi)
    BY <1>1, <2>1 DEF GroupAt
  <2>3. /\ decoder' = decoder \o t /\ UNCHANGED <<fields, walk, struct, encoder>> /\ fi' = fi + 1
    BY <1>5, <2>1 DEF DecodeBits, Require, Read, NextSpan
  <2>4. t = <<Unit(fi)>> \o Equal(fields[fi], FALSE)
    BY <1>2, <1>3, <2>1
  <2>5. Text(t)
    <3>1. \A x : Text(<<x>>)
      BY Tuples
    <3> QED
      BY <1>4, <3>1, TextJoin
  <2>6. Grouped(fi, O)
    BY <1>3, <2>1
  <2> HIDE DEF t
  <2>7. TextOfField("decode", fi, t)
    BY <2>2, <2>4, <2>5, <2>6 DEF TextOfField, DecodeText
  <2> QED
    BY <2>3, <2>7 DEF Adds
<1>6. CASE OpenDecodeGroup
  <2> DEFINE head == <<ClearTmp(hasTmp), TmpByte(Field.xor), FirstSpan>>
             t == head \o Equal(Field, TRUE)
  <2>1. /\ decoder' = decoder \o t /\ UNCHANGED <<fields, walk, struct, encoder>> /\ fi' = fi + 1
        /\ ~bitAggr /\ IsBitType(Type)
    BY <1>6 DEF OpenDecodeGroup, Require, Read, FirstSpan
  <2>2. /\ head = <<ClearTmp(hasTmp), TmpByte(fields[fi].xor), Unit(fi)>> /\ Text(head)
        /\ Before(O, fi) = 0 /\ Grouped(fi, O)
    BY <1>2, <1>3, <2>1, Tuples
  <2> HIDE DEF head
  <2>3. Text(t)
    BY <1>4, <2>2, TextJoin
  <2>4. t = <<ClearTmp(hasTmp), TmpByte(fields[fi].xor), Unit(fi)>> \o Equal(fields[fi], TRUE)
    BY <1>2, <2>2
  <2> HIDE DEF t
  <2>5. TextOfField("decode", fi, t)
    BY <2>2, <2>3, <2>4 DEF TextOfField, DecodeText
  <2> QED
    BY <2>1, <2>5 DEF Adds
<1>7. CASE DecodeWhole
  <2>1. ~bitAggr /\ ~IsBitType(Type)
    BY <1>7, WholeNotOpen
  <2>2. /\ decoder' = decoder \o WholeText("decode", Field)
        /\ UNCHANGED <<fields, walk, struct, encoder, aggr>> /\ fi' = fi + 1 /\ Type.k \in Kinds
    <3>1. CASE DecodeInt
      BY <3>1 DEF DecodeInt, Require, Read, WholeText, DecodeBody, Checked, Type, Kinds
    <3>2. CASE DecodeMsg
      BY <3>2 DEF DecodeMsg, Require, Read, WholeText, DecodeBody, Type, Kinds
    <3>3. CASE DecodeArray
      <4> DEFINE t == IF IsByte(Type.elem)
                      THEN <<BytesUnit(Field, IF LimitRef(Field).this THEN LimitRef(Field) ELSE NoRef)>>
                      ELSE <<EachUnit(Field, LimitRef(Field), ElemUnit(Type.elem))>>
      <4>1. /\ Type.k = "array" /\ decoder' = decoder \o Wrap(Field, t)
            /\ UNCHANGED <<fields, walk, struct, encoder, aggr>> /\ fi' = fi + 1
        BY <3>3 DEF DecodeArray, Require, Read
      <4>2. DecodeBody(Field) = t
        BY <4>1 DEF DecodeBody, ArrayRead, Type
      <4> HIDE DEF t
      <4> QED
        BY <4>1, <4>2 DEF WholeText, Kinds
    <3> QED
      BY <1>7, <3>1, <3>2, <3>3 DEF DecodeWhole
  <2>3. ~Grouped(fi, O)
    BY <1>3, <2>1
  <2>4. TextOfField("decode", fi, WholeText("decode", fields[fi]))
    BY <1>2, <2>2, <2>3, TextOfWhole
  <2> QED
    BY <1>2, <2>2, <2>4 DEF Adds
<1> QED
  BY <1>5, <1>6, <1>7 DEF Decode, DecodeWhole

(* Both codecs are the texts of the fields passed so far; a closed message *)
(* is one whose last byte is full.                                         *)
WhollyLaid == Before(O, Len(fields) + 1) = 0

BuiltInv ==
  /\ IsLayout(O) /\ GroupAt(O)
  /\ walk = "encode" => /\ Built("encode", encoder, fi - 1)
                        /\ bitAggr => xorVar = fields[Opener(fi - 1)].xor
  /\ walk \in {"decode", "done"} => /\ Built("encode", encoder, Len(fields))
                                    /\ Closed => WhollyLaid
  /\ walk = "decode" => Built("decode", decoder, fi - 1)
  /\ walk = "done" => Built("decode", decoder, Len(fields))

LEMMA ClosedNotOpen ==
  ASSUME Open(encoder), Closed
  PROVE  FALSE
<1>1. encoder # <<>>
  BY EmptyNotOpen
<1> QED
  BY <1>1 DEF Closed, Open, LastOpen, Last, IsSpan

LEMMA BuiltInductive == ASSUME IInv, TextInv, BuiltInv, [Next]_vars PROVE BuiltInv'
<1>1. fields' = fields /\ Len(fields)' = Len(fields) /\ fi \in Nat
  BY FieldsStay, Shape DEF IInv, TypeOK
<1>2. O' = O /\ \A i : Opener(i)' = Opener(i)
  BY <1>1, SameLayout
<1>3. IsLayout(O)' /\ GroupAt(O)'
  <2>1. O \in [1..Len(fields) -> 0..7] /\ LaidOutBy(fields, O) /\ GroupAt(O)
    BY DEF BuiltInv, IsLayout
  <2>2. \A o : IsLayout(o)' <=> IsLayout(o)
    BY <1>1 DEF IsLayout, LaidOutBy, FitsAt, Before, IsIntType, IsBitType, Bits
  <2> DEFINE o == O
  <2>3. o' = o
    BY <1>2
  <2>4. \E p : p = o /\ IsLayout(p)' /\ GroupAt(p)'
    BY <2>1, <2>2, GroupAtStays DEF BuiltInv
  <2>5. IsLayout(o)' /\ GroupAt(o)'
    <3>1. PICK p : p = o /\ IsLayout(p)' /\ GroupAt(p)'
      BY <2>4
    <3>2. p = o'
      BY <2>3, <3>1
    <3> HIDE DEF o
    <3> QED
      BY <3>1, <3>2 DEF IsLayout, GroupAt, LaidOutBy, FitsAt, Before
  <2> QED
    BY <2>5
<1>4. \A w, text, m : Built(w, text, m)' <=> Built(w, text, m)
  BY <1>1, SameBuilt
<1>5. encoder' = encoder => ((Closed => WhollyLaid) => (Closed' => WhollyLaid'))
  <2>1. encoder' = encoder => Closed' = Closed
    BY DEF Closed, LastOpen, Spans, Of
  <2>2. WhollyLaid' = WhollyLaid
    BY <1>1, <1>2 DEF WhollyLaid, Before
  <2> QED
    BY <2>1, <2>2
<1>6. CASE Panic
  BY <1>3, <1>6 DEF Panic, BuiltInv
<1>7. CASE DeclareField /\ ~Panic
  <2>1. walk' = "struct"
    BY <1>7 DEF DeclareField, Require, At
  <2> QED
    BY <1>3, <2>1 DEF BuiltInv
<1>8. CASE EndStruct
  <2>1. walk' = "encode" /\ fi' = 1 /\ ~bitAggr' /\ encoder' = encoder /\ encoder = <<>>
    BY <1>8 DEF EndStruct, StartWalk, TextInv
  <2>2. Built("encode", <<>>, 0)
    BY BuiltEmpty
  <2>3. Built("encode", encoder, fi - 1)'
    <3>1. fi' - 1 = 0
      BY <2>1
    <3> QED
      BY <1>4, <2>1, <2>2, <3>1
  <2> QED
    BY <1>3, <2>1, <2>3 DEF BuiltInv
<1>9. CASE Encode /\ ~Panic
  <2>1. walk = "encode" /\ fi \in DOMAIN fields
    BY <1>9 DEF Encode, EncodeBits, OpenEncodeGroup, EncodeInt, EncodeMsg, EncodeArray, At
  <2>2. Text(encoder)
    BY <2>1 DEF TextInv, Writing, Ended, WellKept
  <2>3. /\ UNCHANGED <<fields, walk, struct, decoder>> /\ fi' = fi + 1
        /\ Adds("encode", fi, encoder, encoder')
        /\ bitAggr' => xorVar' = fields[Opener(fi)].xor
    BY <1>9, <2>1, <2>2, EncodeAdds DEF BuiltInv
  <2>4. PICK t : TextOfField("encode", fi, t) /\ encoder' = encoder \o t
    BY <2>3 DEF Adds
  <2>5. fi' - 1 = fi /\ fi - 1 \in Nat /\ (fi - 1) + 1 = fi
    BY <2>1, <2>3, Shape DEF IInv
  <2>6. Built("encode", encoder', fi' - 1)
    BY <2>1, <2>4, <2>5, BuiltMore DEF BuiltInv
  <2>7. Built("encode", encoder, fi - 1)'
    BY <1>4, <2>6
  <2>8. (bitAggr => xorVar = fields[Opener(fi - 1)].xor)'
    BY <1>1, <1>2, <2>3, <2>5
  <2> QED
    BY <1>3, <2>1, <2>3, <2>7, <2>8 DEF BuiltInv
<1>10. CASE EndEncode
  <2>1. /\ walk = "encode" /\ walk' = "decode" /\ fi = Len(fields) + 1 /\ fi' = 1
        /\ UNCHANGED <<struct, encoder, decoder>>
    BY <1>10 DEF EndEncode, StartWalk
  <2>2. decoder = <<>> /\ (bitAggr <=> Open(encoder))
    BY <2>1 DEF TextInv, Writing
  <2>3. fi' - 1 = 0 /\ fi - 1 = Len(fields)
    BY <1>1, <2>1, Shape DEF IInv
  <2>4. Closed => WhollyLaid
    BY <2>1, <2>2, ClosedNotOpen DEF BuiltInv, GroupAt, Codec, WhollyLaid
  <2>5. Built("encode", encoder, Len(fields))'
    BY <1>1, <1>4, <2>1, <2>3 DEF BuiltInv
  <2>6. Built("decode", decoder, fi - 1)'
    BY <1>4, <2>1, <2>2, <2>3, BuiltEmpty
  <2> QED
    BY <1>3, <1>5, <2>1, <2>4, <2>5, <2>6 DEF BuiltInv
<1>11. CASE Decode /\ ~Panic
  <2>1. walk = "decode" /\ fi \in DOMAIN fields
    BY <1>11 DEF Decode, DecodeBits, OpenDecodeGroup, DecodeInt, DecodeMsg, DecodeArray, At
  <2>2. Text(decoder)
    BY <2>1 DEF TextInv, Writing, Ended, WellKept
  <2>3. /\ UNCHANGED <<fields, walk, struct, encoder>> /\ fi' = fi + 1
        /\ Adds("decode", fi, decoder, decoder')
    BY <1>11, <2>1, <2>2, DecodeAdds DEF BuiltInv
  <2>4. PICK t : TextOfField("decode", fi, t) /\ decoder' = decoder \o t
    BY <2>3 DEF Adds
  <2>5. fi' - 1 = fi /\ fi - 1 \in Nat /\ (fi - 1) + 1 = fi
    BY <2>1, <2>3, Shape DEF IInv
  <2>6. Built("decode", decoder', fi' - 1)
    BY <2>1, <2>4, <2>5, BuiltMore DEF BuiltInv
  <2>7. Built("decode", decoder, fi - 1)' /\ Built("encode", encoder, Len(fields))'
    BY <1>1, <1>4, <2>1, <2>3, <2>6 DEF BuiltInv
  <2> QED
    BY <1>3, <1>5, <2>1, <2>3, <2>7 DEF BuiltInv
<1>12. CASE EndDecode
  <2>1. /\ walk = "decode" /\ walk' = "done" /\ fi = Len(fields) + 1
        /\ UNCHANGED <<struct, encoder, decoder>>
    BY <1>12 DEF EndDecode, StartWalk
  <2>2. fi - 1 = Len(fields)
    BY <1>1, <2>1, Shape DEF IInv
  <2>3. Built("decode", decoder, Len(fields))' /\ Built("encode", encoder, Len(fields))'
    BY <1>1, <1>4, <2>1, <2>2 DEF BuiltInv
  <2> QED
    BY <1>3, <1>5, <2>1, <2>3 DEF BuiltInv
<1>13. CASE UNCHANGED vars
  <2>1. UNCHANGED <<fields, walk, fi, encoder, decoder, bitAggr, xorVar>>
    BY <1>13 DEF vars
  <2> QED
    BY <1>1, <1>2, <1>3, <1>4, <1>5, <2>1 DEF BuiltInv
<1> QED
  BY <1>6, <1>7, <1>8, <1>9, <1>10, <1>11, <1>12, <1>13 DEF Next

LEMMA BuiltInit == ASSUME Init PROVE BuiltInv
<1>1. fields \in Messages /\ walk = "struct"
  BY DEF Init
<1> QED
  BY <1>1, LayoutOf DEF BuiltInv, GroupAt, Codec

GenInv == IInv /\ TextInv /\ WireInv /\ BuiltInv

-----------------------------------------------------------------------------
(* Where a running function is.  In the text of field i it is              *)
(*   all    at the beginning                                               *)
(*   body   behind the test of "exist if"                                  *)
(*   load   at the read of the group's byte                                *)
(*   unit   at the unit of an integer or of a bit field                    *)
(*   after  behind this unit: the byte is written, the value checked       *)
(*   elems  in a loop, k of c elements done                                *)
(*   end    done with the field (and at the beginning, of field 0)         *)
Body(w, f) == IF w = "encode" THEN EncodeBody(f) ELSE DecodeBody(f)

UnitOf(i) == IF Grouped(i, O) THEN Unit(i) ELSE IntUnit(fields[i])

After(w, i) ==
  IF w = "encode"
  THEN IF Grouped(i, O) THEN Filler(i) ELSE <<>>
  ELSE IF Grouped(i, O) THEN Equal(fields[i], Before(O, i) = 0) ELSE Checked(fields[i])

Each(f) == f.type.k = "array" /\ ~IsByte(f.type.elem)

ElemOf(f, i) == [op |-> "elem", f |-> f.name, i |-> i,
                 w |-> IF ElemUnit(f.type.elem).op = "msg" THEN 8 ELSE ElemUnit(f.type.elem).w]
ElemsFrom(f, k, c) == [j \in 1..c-k |-> ElemOf(f, k + j)]

IfOf(w, f) == [op |-> "if", cond |-> This(f.existIf), body |-> Body(w, f)]
ClampOf(f) == [op |-> "clamp", f |-> f.name, ref |-> Plain(f.max)]

Simple(i) == Grouped(i, O) \/ fields[i].type.k = "prim"

Stage(w, i, st, k, c, r) ==
  CASE st = "end"   -> r = <<>>
    [] st = "all"   -> TextOfField(w, i, r)
    [] st = "body"  -> ~Grouped(i, O) /\ r = Body(w, fields[i])
    [] st = "load"  -> Grouped(i, O) /\ Before(O, i) = 0 /\ r = <<TmpByte(fields[i].xor)>> \o (<<Unit(i)>> \o After(w, i))
    [] st = "unit"  -> Simple(i) /\ r = <<UnitOf(i)>> \o After(w, i)
    [] st = "after" -> Simple(i) /\ r = After(w, i)
    [] st = "elems" -> /\ ~Grouped(i, O) /\ Each(fields[i]) /\ k \in 0..c /\ c \in Nat
                       /\ r = ElemsFrom(fields[i], k, c)

PosAt(w, text, i, st, k, c) ==
  /\ i \in 0..Len(fields) /\ (st # "end" => i # 0)
  /\ \E r, rest : /\ Text(r) /\ Text(rest) /\ text = r \o rest
                  /\ Stage(w, i, st, k, c, r) /\ Remains(w, rest, i)

(* The next statement is s, and behind it the function is there.           *)
Line(w, text, s, i, st, k, c) ==
  Text(text) /\ text # <<>> /\ Head(text) = s /\ PosAt(w, Tail(text), i, st, k, c)

LEMMA Triple == ASSUME NEW x, NEW y, NEW z PROVE <<x>> \o <<y, z>> = <<x, y, z>>
<1>1. Text(<<x>>) /\ Text(<<x, y, z>>) /\ Text(<<>>)
  BY Tuples, TextEmpty
<1>2. <<x>> \o <<y, z>> = Append(Append(<<x>>, y), z)
  BY <1>1, PushTwo
<1>3. <<x>> = Append(<<>>, x)
  <2>1. <<>> \o <<x>> = <<x>> /\ <<>> \o <<x>> = Append(<<>>, x)
    BY <1>1, PushNothing, Push
  <2> QED
    BY <2>1
<1>4. <<x, y, z>> = Append(Append(Append(<<>>, x), y), z)
  <2>1. <<>> \o <<x, y, z>> = <<x, y, z>> /\ <<>> \o <<x, y, z>> = Append(Append(Append(<<>>, x), y), z)
    BY <1>1, PushNothing, PushThree
  <2> QED
    BY <2>1
<1> QED
  BY <1>2, <1>3, <1>4

LEMMA HeadTail ==
  ASSUME NEW x, NEW e, Text(e)
  PROVE  /\ Text(<<x>> \o e) /\ <<x>> \o e # <<>>
         /\ Head(<<x>> \o e) = x /\ Tail(<<x>> \o e) = e
<1>1. PICK E : e \in Seq(E)
  BY DEF Text
<1> DEFINE A == E \cup {x}
<1>2. e \in Seq(A) /\ <<x>> \in Seq(A) /\ x \in A
  BY <1>1
<1> HIDE DEF A
<1>3. <<x>> \o e \in Seq(A)
  BY <1>2
<1>4. <<x>> \o e # <<>> /\ Head(<<x>> \o e) = x /\ Tail(<<x>> \o e) = e
  BY <1>2
<1> QED
  BY <1>3, <1>4 DEF Text

LEMMA LineOf ==
  ASSUME NEW w, NEW s, NEW i \in 1..Len(fields), NEW st, NEW k, NEW c, NEW r, Text(r), NEW rest, Text(rest),
         Stage(w, i, st, k, c, r), Remains(w, rest, i), Len(fields) \in Nat
  PROVE  Line(w, (<<s>> \o r) \o rest, s, i, st, k, c)
<1> DEFINE h == <<s>>
           e == r \o rest
<1>1. Text(h) /\ Text(e)
  BY Tuples, TextJoin
<1>2. h \o e = (h \o r) \o rest
  <2> HIDE DEF h
  <2> QED
    BY <1>1, PushMore
<1>3. PosAt(w, e, i, st, k, c)
  BY DEF PosAt
<1> HIDE DEF e
<1>4. Text(h \o e) /\ h \o e # <<>> /\ Head(h \o e) = s /\ Tail(h \o e) = e
  BY <1>1, HeadTail
<1> QED
  BY <1>2, <1>3, <1>4 DEF Line

(* What is settled when the generator is done.                             *)
Settled == GenInv /\ walk = "done"

LEMMA SettledField ==
  ASSUME Settled, NEW i \in 1..Len(fields)
  PROVE  /\ Generable(fields[i]) /\ fields[i].type.k \in Kinds
         /\ Before(O, i) \in 0..7 /\ Before(O, i + 1) = O[i] /\ O[i] \in 0..7
         /\ Grouped(i, O) => /\ IsBitType(fields[i].type) /\ fields[i].type.k = "prim"
                             /\ Bits(fields[i].type) \in 1..7
                             /\ Used(i) \in 1..8 /\ Used(i) > Before(O, i)
                             /\ O[i] = Used(i) % 8
         /\ ~Grouped(i, O) => Before(O, i) = 0 /\ O[i] = 0 /\ ~IsBitType(fields[i].type)
<1> DEFINE f == fields[i]
<1>1. IsSequence(fields) /\ i \in DOMAIN fields /\ O \in [1..Len(fields) -> 0..7] /\ LaidOutBy(fields, O)
  BY Shape DEF Settled, GenInv, IInv, BuiltInv, IsLayout
<1>2. /\ Before(O, i) \in 0..7 /\ Before(O, i + 1) = O[i]
      /\ Before(O, i) # 0 => /\ IsIntType(f.type)
                             /\ Before(O, i) + Bits(f.type) <= 8
                             /\ O[i] = (Before(O, i) + Bits(f.type)) % 8
      /\ Before(O, i) = 0 => O[i] = IF IsBitType(f.type) THEN Bits(f.type) ELSE 0
  BY <1>1, LaidOutField
<1>3. Generable(f) /\ f.type.k \in Kinds
  BY <1>1 DEF Settled, GenInv, IInv, PassedOK, Generable, Kinds
<1>4. Bits(f.type) \in 0..64 /\ (IsIntType(f.type) => Bits(f.type) \in 1..64)
  BY BitsRange
<1>5. O[i] \in 0..7
  BY <1>1
<1>6. ASSUME Grouped(i, O)
      PROVE  /\ IsBitType(f.type) /\ f.type.k = "prim" /\ Bits(f.type) \in 1..7
             /\ Used(i) \in 1..8 /\ Used(i) > Before(O, i) /\ O[i] = Used(i) % 8
  <2>1. IsIntType(f.type)
    BY <1>2, <1>6 DEF Grouped, IsBitType
  <2>2. Bits(f.type) \in 1..7
    <3>1. CASE Before(O, i) # 0
      <4> DEFINE b == Bits(f.type)
      <4>1. Before(O, i) + b <= 8 /\ b \in 1..64 /\ Before(O, i) \in 1..7
        BY <1>2, <1>4, <2>1, <3>1
      <4> HIDE DEF b
      <4>2. b \in 1..7
        BY <4>1
      <4> QED
        BY <4>2 DEF b
    <3>2. CASE Before(O, i) = 0
      BY <1>6, <3>2, BitsRange DEF Grouped
    <3> QED
      BY <3>1, <3>2
  <2>3. IsBitType(f.type) /\ f.type.k = "prim"
    BY <2>1, <2>2 DEF IsBitType, IsIntType
  <2>4. Used(i) \in 1..8 /\ Used(i) > Before(O, i)
    BY <1>2, <2>2 DEF Used
  <2>5. O[i] = Used(i) % 8
    <3> DEFINE b == Bits(f.type)
    <3>1. b \in 1..7 /\ O[i] = IF Before(O, i) # 0 THEN (Before(O, i) + b) % 8 ELSE b
      BY <1>2, <2>2, <2>3
    <3>2. Used(i) = Before(O, i) + b
      BY DEF Used
    <3> HIDE DEF b
    <3> QED
      BY <1>2, <3>1, <3>2
  <2> QED
    BY <2>2, <2>3, <2>4, <2>5
<1>7. ~Grouped(i, O) => Before(O, i) = 0 /\ O[i] = 0 /\ ~IsBitType(f.type)
  BY <1>2 DEF Grouped
<1> QED
  BY <1>2, <1>3, <1>5, <1>6, <1>7

LEMMA Place ==
  ASSUME NEW w, NEW i \in 1..Len(fields), NEW st, NEW k, NEW c, NEW r, Text(r), NEW rest, Text(rest),
         Stage(w, i, st, k, c, r), Remains(w, rest, i), Len(fields) \in Nat
  PROVE  PosAt(w, r \o rest, i, st, k, c)
  BY DEF PosAt

LEMMA PosEnd ==
  ASSUME Settled, NEW w \in Codec, NEW text, NEW i, NEW k, NEW c, PosAt(w, text, i, "end", k, c)
  PROVE  \/ i = Len(fields) /\ text = <<>>
         \/ i + 1 \in 1..Len(fields) /\ PosAt(w, text, i + 1, "all", 0, 0)
<1>1. Len(fields) \in Nat /\ i \in 0..Len(fields)
  BY Shape DEF Settled, GenInv, IInv, PosAt
<1>2. PICK r, rest : /\ Text(r) /\ Text(rest) /\ text = r \o rest
                     /\ Stage(w, i, "end", k, c, r) /\ Remains(w, rest, i)
  BY DEF PosAt
<1>3. text = rest
  BY <1>2, PushNothing DEF Stage
<1>4. CASE i = Len(fields)
  BY <1>2, <1>3, <1>4, RemainsEnd
<1>5. CASE i # Len(fields)
  <2>1. PICK t, more : /\ TextOfField(w, i + 1, t) /\ Text(more) /\ text = t \o more
                       /\ Remains(w, more, i + 1)
    <3>1. i \in Nat /\ i < Len(fields) /\ Remains(w, text, i)
      BY <1>1, <1>2, <1>3, <1>5
    <3> QED
      BY <1>1, <3>1, RemainsNext
  <2>2. Text(t) /\ Stage(w, i + 1, "all", 0, 0, t)
    BY <2>1 DEF TextOfField, Stage
  <2>3. i + 1 \in 1..Len(fields)
    BY <1>1, <1>5
  <2> DEFINE j == i + 1
  <2> HIDE DEF j
  <2>4. PosAt(w, t \o more, j, "all", 0, 0)
    BY <1>1, <2>1, <2>2, <2>3, Place DEF j
  <2> QED
    BY <2>1, <2>3, <2>4 DEF j
<1> QED
  BY <1>4, <1>5

LEMMA AfterText == ASSUME NEW w, NEW i PROVE Text(After(w, i))
<1>1. \A x : Text(<<x>>)
  BY Tuples
<1>2. Text(Filler(i)) /\ (\A b : Text(Equal(fields[i], b))) /\ Text(Checked(fields[i]))
  BY <1>1, TextEmpty DEF Filler, Equal, Checked
<1> QED
  BY <1>2, TextEmpty DEF After

LEMMA PosAll ==
  ASSUME Settled, NEW w \in Codec, NEW text, NEW i, NEW k, NEW c, PosAt(w, text, i, "all", k, c)
  PROVE  LET f == fields[i] IN
         \/ /\ Grouped(i, O) /\ Before(O, i) = 0
            /\ \E d : Line(w, text, ClearTmp(d), i, IF w = "encode" THEN "unit" ELSE "load", 0, 0)
         \/ Grouped(i, O) /\ Before(O, i) # 0 /\ PosAt(w, text, i, "unit", 0, 0)
         \/ /\ ~Grouped(i, O) /\ f.existIf # NoName
            /\ Line(w, text, IfOf(w, f), i, "end", 0, 0)
            /\ PosAt(w, Body(w, f) \o Tail(text), i, "body", 0, 0)
         \/ ~Grouped(i, O) /\ f.existIf = NoName /\ PosAt(w, text, i, "body", 0, 0)
<1> DEFINE f == fields[i]
<1>1. Len(fields) \in Nat /\ i \in 1..Len(fields)
  BY Shape DEF Settled, GenInv, IInv, PosAt
<1>2. PICK r, rest : /\ Text(r) /\ Text(rest) /\ text = r \o rest
                     /\ TextOfField(w, i, r) /\ Remains(w, rest, i)
  BY DEF PosAt, Stage
<1>3. Text(After(w, i)) /\ Text(<<Unit(i)>>) /\ (\A x : Text(<<x>>)) /\ Text(Body(w, f))
  BY <1>1, AfterText, Tuples, BodyText, SettledField DEF Body
<1>4. CASE Grouped(i, O) /\ Before(O, i) = 0
  <2> DEFINE u == <<Unit(i)>>
             a == After(w, i)
  <2>0. Text(u \o a)
    BY <1>3, TextJoin
  <2>1. CASE w = "encode"
    <3>1. PICK d : r = <<ClearTmp(d), Unit(i)>>
      BY <1>2, <1>4, <2>1 DEF TextOfField, EncodeText
    <3>2. a = <<>>
      BY <1>1, <1>4, <2>1, SettledField DEF After, Filler, Used
    <3>3. Stage(w, i, "unit", 0, 0, u \o a)
      BY <1>4 DEF Stage, Simple, UnitOf
    <3> DEFINE x == ClearTmp(d)
    <3>4. r = <<x>> \o (u \o a)
      <4>1. u \o a = u
        BY <1>3, <3>2, PushNothing
      <4>2. <<x>> \o <<Unit(i)>> = <<x, Unit(i)>>
        BY Pair
      <4> QED
        BY <3>1, <4>1, <4>2
    <3> HIDE DEF u, a, x
    <3>5. Line(w, (<<x>> \o (u \o a)) \o rest, x, i, "unit", 0, 0)
      BY <1>1, <1>2, <2>0, <3>3, LineOf
    <3> QED
      BY <1>2, <1>4, <2>1, <3>4, <3>5 DEF x
  <2>2. CASE w # "encode"
    <3>1. PICK d : r = <<ClearTmp(d), TmpByte(f.xor), Unit(i)>> \o Equal(f, TRUE)
      BY <1>2, <1>4, <2>2 DEF TextOfField, DecodeText
    <3>2. a = Equal(f, TRUE)
      BY <1>4, <2>2 DEF After
    <3> DEFINE x == ClearTmp(d)
               l == <<TmpByte(f.xor)>>
               y == l \o (u \o a)
    <3>3. Stage(w, i, "load", 0, 0, y) /\ Text(l) /\ Text(<<x>>)
      BY <1>3, <1>4 DEF Stage
    <3>4. r = <<x>> \o y
      <4>1. <<ClearTmp(d), TmpByte(f.xor), Unit(i)>> = <<x>> \o (l \o u)
        <5> HIDE DEF x
        <5>1. l \o u = <<TmpByte(f.xor), Unit(i)>>
          BY Pair
        <5>2. <<x>> \o <<TmpByte(f.xor), Unit(i)>> = <<x, TmpByte(f.xor), Unit(i)>>
          <6> DEFINE p == TmpByte(f.xor)
                     q == Unit(i)
          <6> HIDE DEF p, q
          <6>1. <<x>> \o <<p, q>> = <<x, p, q>>
            BY Triple
          <6> QED
            BY <6>1 DEF p, q
        <5> QED
          BY <5>1, <5>2 DEF x
      <4>2. Text(l \o u) /\ Text(u) /\ Text(a)
        BY <1>3, <3>3, TextJoin
      <4> HIDE DEF x, l, u, a
      <4>3. (<<x>> \o (l \o u)) \o a = <<x>> \o ((l \o u) \o a)
        BY <3>3, <4>2, PushMore
      <4>4. (l \o u) \o a = l \o (u \o a)
        BY <3>3, <4>2, PushMore
      <4> QED
        BY <3>1, <3>2, <4>1, <4>3, <4>4
    <3>5. Text(y)
      BY <2>0, <3>3, TextJoin
    <3> HIDE DEF x, y
    <3>6. Line(w, (<<x>> \o y) \o rest, x, i, "load", 0, 0)
      BY <1>1, <1>2, <3>3, <3>5, LineOf
    <3> QED
      BY <1>2, <1>4, <2>2, <3>4, <3>6 DEF x
  <2> QED
    BY <2>1, <2>2
<1>5. CASE Grouped(i, O) /\ Before(O, i) # 0
  <2>1. r = <<Unit(i)>> \o After(w, i)
    BY <1>2, <1>5 DEF TextOfField, EncodeText, DecodeText, After, Codec
  <2>2. Stage(w, i, "unit", 0, 0, r)
    BY <1>5, <2>1 DEF Stage, Simple, UnitOf
  <2> QED
    BY <1>1, <1>2, <1>5, <2>2 DEF PosAt
<1>6. CASE ~Grouped(i, O)
  <2>1. r = Wrap(f, Body(w, f))
    BY <1>2, <1>6 DEF TextOfField, EncodeText, DecodeText, Body
  <2>2. CASE f.existIf = NoName
    <3>1. Stage(w, i, "body", 0, 0, r)
      BY <1>6, <2>1, <2>2 DEF Stage, Wrap
    <3> QED
      BY <1>1, <1>2, <1>6, <2>2, <3>1 DEF PosAt
  <2>3. CASE f.existIf # NoName
    <3> DEFINE x == IfOf(w, f)
               b == Body(w, f)
               none == <<>>
    <3>1. r = <<x>>
      BY <2>1, <2>3 DEF Wrap, IfOf
    <3>2. Stage(w, i, "end", 0, 0, none) /\ Text(none)
      BY TextEmpty DEF Stage
    <3>3. Stage(w, i, "body", 0, 0, b) /\ Text(b)
      BY <1>3, <1>6 DEF Stage
    <3>4. r = <<x>> \o none /\ Tail(text) = rest
      <4> HIDE DEF x
      <4>1. Text(<<x>>)
        BY Tuples
      <4> QED
        BY <1>2, <3>1, <4>1, PushNothing, HeadTail
    <3> HIDE DEF x, b, none
    <3>5. Line(w, (<<x>> \o none) \o rest, x, i, "end", 0, 0)
      BY <1>1, <1>2, <3>2, LineOf
    <3>6. PosAt(w, b \o rest, i, "body", 0, 0)
      BY <1>1, <1>2, <3>3 DEF PosAt
    <3> QED
      BY <1>2, <1>6, <2>3, <3>4, <3>5, <3>6 DEF x, b
  <2> QED
    BY <2>2, <2>3
<1> QED
  BY <1>4, <1>5, <1>6

LEMMA PosLoad ==
  ASSUME Settled, NEW w \in Codec, NEW text, NEW i, NEW k, NEW c, PosAt(w, text, i, "load", k, c)
  PROVE  /\ i \in 1..Len(fields) /\ Grouped(i, O) /\ Before(O, i) = 0
         /\ Line(w, text, TmpByte(fields[i].xor), i, "unit", 0, 0)
<1>1. Len(fields) \in Nat /\ i \in 1..Len(fields)
  BY Shape DEF Settled, GenInv, IInv, PosAt
<1> DEFINE x == TmpByte(fields[i].xor)
           u == <<Unit(i)>> \o After(w, i)
<1>2. PICK r, rest : /\ Text(rest) /\ text = r \o rest /\ Remains(w, rest, i)
                     /\ Grouped(i, O) /\ Before(O, i) = 0 /\ r = <<x>> \o u
  BY DEF PosAt, Stage
<1>3. Text(u)
  BY AfterText, Tuples, TextJoin
<1>4. Stage(w, i, "unit", 0, 0, u)
  BY <1>2 DEF Stage, Simple, UnitOf
<1> HIDE DEF u, x
<1>5. Line(w, (<<x>> \o u) \o rest, x, i, "unit", 0, 0)
  BY <1>1, <1>2, <1>3, <1>4, LineOf
<1> QED
  BY <1>1, <1>2, <1>5 DEF x

LEMMA PosUnit ==
  ASSUME Settled, NEW w \in Codec, NEW text, NEW i, NEW k, NEW c, PosAt(w, text, i, "unit", k, c)
  PROVE  i \in 1..Len(fields) /\ Simple(i) /\ Line(w, text, UnitOf(i), i, "after", 0, 0)
<1>1. Len(fields) \in Nat /\ i \in 1..Len(fields)
  BY Shape DEF Settled, GenInv, IInv, PosAt
<1> DEFINE x == UnitOf(i)
           a == After(w, i)
<1>2. PICK r, rest : /\ Text(rest) /\ text = r \o rest /\ Remains(w, rest, i)
                     /\ Simple(i) /\ r = <<x>> \o a
  BY DEF PosAt, Stage
<1>3. Text(a) /\ Stage(w, i, "after", 0, 0, a)
  BY <1>2, AfterText DEF Stage
<1> HIDE DEF a, x
<1>4. Line(w, (<<x>> \o a) \o rest, x, i, "after", 0, 0)
  BY <1>1, <1>2, <1>3, LineOf
<1> QED
  BY <1>1, <1>2, <1>4 DEF x

(* A text of at most one statement, the last one of its field.             *)
LEMMA LastLine ==
  ASSUME Settled, NEW w, NEW i \in 1..Len(fields), NEW rest, Text(rest), Remains(w, rest, i)
  PROVE  /\ \A x : Line(w, <<x>> \o rest, x, i, "end", 0, 0)
         /\ PosAt(w, <<>> \o rest, i, "end", 0, 0)
<1>1. Len(fields) \in Nat
  BY Shape DEF Settled, GenInv, IInv
<1>2. Text(<<>>) /\ Stage(w, i, "end", 0, 0, <<>>)
  BY TextEmpty DEF Stage
<1>3. ASSUME NEW x PROVE Line(w, <<x>> \o rest, x, i, "end", 0, 0)
  <2> DEFINE none == <<>>
  <2>1. Text(none) /\ Stage(w, i, "end", 0, 0, none) /\ Text(<<x>>)
    BY <1>2, Tuples
  <2>2. <<x>> \o none = <<x>>
    BY <2>1, PushNothing
  <2> HIDE DEF none
  <2>3. Line(w, (<<x>> \o none) \o rest, x, i, "end", 0, 0)
    BY <1>1, <2>1, LineOf
  <2> QED
    BY <2>2, <2>3
<1>4. PosAt(w, <<>> \o rest, i, "end", 0, 0)
  BY <1>1, <1>2, Place
<1> QED
  BY <1>3, <1>4

CheckOf(i) ==
  IF ~Grouped(i, O) /\ fields[i].max # NoName THEN Most(fields[i])
  ELSE [op |-> "equal", f |-> fields[i].name, ref |-> Plain(fields[i].equ),
        braces |-> Grouped(i, O) => Before(O, i) = 0]

HasCheck(i) == (~Grouped(i, O) /\ fields[i].max # NoName) \/ fields[i].equ # NoName

LEMMA PosAfter ==
  ASSUME Settled, NEW w \in Codec, NEW text, NEW i, NEW k, NEW c, PosAt(w, text, i, "after", k, c)
  PROVE  /\ i \in 1..Len(fields) /\ Simple(i)
         /\ w = "encode" => IF Grouped(i, O) /\ Used(i) = 8
                            THEN Line(w, text, TmpByte(fields[Opener(i)].xor), i, "end", 0, 0)
                            ELSE PosAt(w, text, i, "end", 0, 0)
         /\ w = "decode" => IF HasCheck(i)
                            THEN Line(w, text, CheckOf(i), i, "end", 0, 0)
                            ELSE PosAt(w, text, i, "end", 0, 0)
<1>1. Len(fields) \in Nat /\ i \in 1..Len(fields)
  BY Shape DEF Settled, GenInv, IInv, PosAt
<1>2. PICK r, rest : /\ Text(rest) /\ text = r \o rest /\ Remains(w, rest, i)
                     /\ Simple(i) /\ r = After(w, i)
  BY DEF PosAt, Stage
<1>3. \A x : Line(w, <<x>> \o rest, x, i, "end", 0, 0)
  BY <1>1, <1>2, LastLine
<1>4. PosAt(w, <<>> \o rest, i, "end", 0, 0)
  BY <1>1, <1>2, LastLine
<1>5. CASE w = "encode"
  <2>1. After(w, i) = IF Grouped(i, O) /\ Used(i) = 8 THEN <<TmpByte(fields[Opener(i)].xor)>> ELSE <<>>
    BY <1>5 DEF After, Filler
  <2> QED
    BY <1>1, <1>2, <1>3, <1>4, <1>5, <2>1
<1>6. CASE w = "decode"
  <2>1. After(w, i) = IF HasCheck(i) THEN <<CheckOf(i)>> ELSE <<>>
    <3>1. CASE Grouped(i, O)
      <4>1. After(w, i) = Equal(fields[i], Before(O, i) = 0)
        BY <1>6, <3>1 DEF After
      <4>2. CASE Before(O, i) = 0
        BY <3>1, <4>1, <4>2 DEF HasCheck, CheckOf, Equal
      <4>3. CASE Before(O, i) # 0
        BY <3>1, <4>1, <4>3 DEF HasCheck, CheckOf, Equal
      <4> QED
        BY <4>2, <4>3
    <3>2. CASE ~Grouped(i, O)
      BY <1>6, <3>2 DEF After, Checked, HasCheck, CheckOf, Equal
    <3> QED
      BY <3>1, <3>2
  <2> QED
    BY <1>1, <1>2, <1>3, <1>4, <1>6, <2>1
<1> QED
  BY <1>1, <1>2, <1>5, <1>6 DEF Codec

ArrayCode(w, f) == IF w = "encode" THEN ArrayUnit(f) ELSE ArrayRead(f)

LEMMA PosBody ==
  ASSUME Settled, NEW w \in Codec, NEW text, NEW i, NEW k, NEW c, PosAt(w, text, i, "body", k, c)
  PROVE  LET f == fields[i] IN
         /\ i \in 1..Len(fields) /\ ~Grouped(i, O)
         /\ f.type.k = "prim" => IF w = "encode" /\ f.max # NoName
                                 THEN Line(w, text, ClampOf(f), i, "unit", 0, 0)
                                 ELSE PosAt(w, text, i, "unit", 0, 0)
         /\ f.type.k \in {"struct", "undef"} => Line(w, text, MsgUnit(f), i, "end", 0, 0)
         /\ f.type.k = "array" => Line(w, text, ArrayCode(w, f), i, "end", 0, 0)
<1> DEFINE f == fields[i]
<1>1. Len(fields) \in Nat /\ i \in 1..Len(fields)
  BY Shape DEF Settled, GenInv, IInv, PosAt
<1>2. PICK r, rest : /\ Text(r) /\ Text(rest) /\ text = r \o rest /\ Remains(w, rest, i)
                     /\ ~Grouped(i, O) /\ r = Body(w, f)
  BY DEF PosAt, Stage
<1>3. \A x : Line(w, <<x>> \o rest, x, i, "end", 0, 0)
  BY <1>1, <1>2, LastLine
<1>4. CASE f.type.k = "prim"
  <2>1. UnitOf(i) = IntUnit(f) /\ Simple(i)
    BY <1>2, <1>4 DEF UnitOf, Simple
  <2> DEFINE u == <<UnitOf(i)>> \o After(w, i)
  <2>2. Text(u) /\ Stage(w, i, "unit", 0, 0, u)
    BY <2>1, AfterText, Tuples, TextJoin DEF Stage
  <2>3. w = "decode" => r = u
    BY <1>2, <1>4, <2>1 DEF Body, DecodeBody, After
  <2>4. w = "encode" => u = <<IntUnit(f)>>
    <3>1. ASSUME w = "encode" PROVE After(w, i) = <<>>
      BY <1>2, <3>1 DEF After
    <3>2. Text(<<IntUnit(f)>>)
      BY Tuples
    <3> QED
      BY <2>1, <3>1, <3>2, PushNothing
  <2>5. w = "encode" => r = Clamp(f) \o u
    BY <1>2, <1>4, <2>4 DEF Body, EncodeBody
  <2> HIDE DEF u
  <2>6. CASE w = "encode" /\ f.max # NoName
    <3> DEFINE x == ClampOf(f)
    <3>1. r = <<x>> \o u
      BY <2>5, <2>6 DEF Clamp, ClampOf
    <3> HIDE DEF x
    <3>2. Line(w, (<<x>> \o u) \o rest, x, i, "unit", 0, 0)
      BY <1>1, <1>2, <2>2, LineOf
    <3> QED
      BY <1>1, <1>2, <1>4, <2>6, <3>1, <3>2 DEF x
  <2>7. CASE ~(w = "encode" /\ f.max # NoName)
    <3>1. r = u
      <4>1. CASE w = "encode"
        <5>1. Clamp(f) = <<>>
          BY <2>7, <4>1 DEF Clamp
        <5> QED
          BY <2>2, <2>5, <4>1, <5>1, PushNothing
      <4> QED
        BY <2>3, <4>1 DEF Codec
    <3>2. PosAt(w, r \o rest, i, "unit", 0, 0)
      BY <1>1, <1>2, <2>2, <3>1, Place
    <3> QED
      BY <1>1, <1>2, <1>4, <2>7, <3>2
  <2> QED
    BY <2>6, <2>7
<1>5. CASE f.type.k \in {"struct", "undef"}
  <2>1. r = <<MsgUnit(f)>>
    BY <1>2, <1>5 DEF Body, EncodeBody, DecodeBody
  <2> QED
    BY <1>1, <1>2, <1>3, <1>5, <2>1
<1>6. CASE f.type.k = "array"
  <2>1. r = <<ArrayCode(w, f)>>
    BY <1>2, <1>6 DEF Body, EncodeBody, DecodeBody, ArrayCode
  <2> QED
    BY <1>1, <1>2, <1>3, <1>6, <2>1
<1> QED
  BY <1>1, <1>2, <1>4, <1>5, <1>6, SettledField DEF Kinds

(* A loop unrolls into its elements, which are handled one by one.         *)
LEMMA PosLoop ==
  ASSUME Settled, NEW w \in Codec, NEW rest, NEW i \in 1..Len(fields), PosAt(w, rest, i, "end", 0, 0),
         ~Grouped(i, O), Each(fields[i]), NEW c \in Nat
  PROVE  PosAt(w, [j \in 1..c |-> ElemOf(fields[i], j)] \o rest, i, "elems", 0, c)
<1>1. Len(fields) \in Nat
  BY Shape DEF Settled, GenInv, IInv
<1>2. PICK r, more : /\ Text(r) /\ Text(more) /\ rest = r \o more
                     /\ Stage(w, i, "end", 0, 0, r) /\ Remains(w, more, i)
  BY DEF PosAt
<1>3. rest = more
  BY <1>2, PushNothing DEF Stage
<1> DEFINE es == [j \in 1..c |-> ElemOf(fields[i], j)]
<1>4. es = ElemsFrom(fields[i], 0, c)
  <2>1. c - 0 = c /\ \A j \in 1..c : 0 + j = j
    OBVIOUS
  <2> QED
    BY <2>1 DEF ElemsFrom
<1>5. Text(es)
  <2>1. es \in Seq({ElemOf(fields[i], j) : j \in 1..c})
    OBVIOUS
  <2> QED
    BY <2>1 DEF Text
<1>6. Stage(w, i, "elems", 0, c, es)
  BY <1>4 DEF Stage
<1> HIDE DEF es
<1>7. PosAt(w, es \o more, i, "elems", 0, c)
  BY <1>1, <1>2, <1>5, <1>6, Place
<1> QED
  BY <1>3, <1>7 DEF es

LEMMA PosElems ==
  ASSUME Settled, NEW w \in Codec, NEW text, NEW i, NEW k, NEW c, PosAt(w, text, i, "elems", k, c)
  PROVE  /\ i \in 1..Len(fields) /\ ~Grouped(i, O) /\ Each(fields[i]) /\ c \in Nat /\ k \in 0..c
         /\ k = c => PosAt(w, text, i, "end", 0, 0)
         /\ k # c => Line(w, text, ElemOf(fields[i], k + 1), i, "elems", k + 1, c)
<1> DEFINE f == fields[i]
<1>1. Len(fields) \in Nat /\ i \in 1..Len(fields)
  BY Shape DEF Settled, GenInv, IInv, PosAt
<1>2. PICK r, rest : /\ Text(r) /\ Text(rest) /\ text = r \o rest /\ Remains(w, rest, i)
                     /\ ~Grouped(i, O) /\ Each(f) /\ k \in 0..c /\ c \in Nat
                     /\ r = ElemsFrom(f, k, c)
  BY DEF PosAt, Stage
<1>3. ASSUME k = c PROVE PosAt(w, text, i, "end", 0, 0)
  <2>1. DOMAIN r = {}
    BY <1>2, <1>3 DEF ElemsFrom
  <2>2. r = <<>>
    BY <1>2, <2>1, TextShape
  <2> QED
    BY <1>1, <1>2, <2>2, LastLine
<1>4. ASSUME k # c PROVE Line(w, text, ElemOf(f, k + 1), i, "elems", k + 1, c)
  <2> DEFINE x == ElemOf(f, k + 1)
             es == ElemsFrom(f, k + 1, c)
             S == {ElemOf(f, j) : j \in Nat}
             m == c - (k + 1)
  <2>0. m \in Nat /\ c - k = m + 1 /\ k \in Nat
    BY <1>2, <1>4
  <2>1. es = [j \in 1..m |-> ElemOf(f, (k + 1) + j)] /\ r = [j \in 1..m+1 |-> ElemOf(f, k + j)]
    BY <1>2, <2>0 DEF ElemsFrom
  <2>2. \A j \in 1..m : ElemOf(f, (k + 1) + j) \in S
    BY <2>0
  <2>3. es \in Seq(S) /\ x \in S /\ Len(es) = m
    <3>1. x \in S
      BY <2>0
    <3> HIDE DEF x, S
    <3> QED
      BY <2>0, <2>1, <2>2, <3>1
  <2> HIDE DEF S, m
  <2>4. \A j \in 1..m : es[j] = ElemOf(f, k + (j + 1))
    <3>1. \A j \in 1..m : (k + 1) + j = k + (j + 1)
      BY <2>0
    <3> QED
      BY <2>1, <3>1
  <2> DEFINE y == <<x>> \o es
  <2>5. y \in Seq(S) /\ Len(y) = m + 1 /\ y[1] = x /\ \A j \in 1..m : y[j + 1] = es[j]
    <3> HIDE DEF x, es
    <3> QED
      BY <2>0, <2>3
  <2> HIDE DEF y
  <2>6. \A j \in 1..m+1 : y[j] = ElemOf(f, k + j)
    <3>1. ASSUME NEW j \in 1..m+1, j # 1 PROVE y[j] = ElemOf(f, k + j)
      <4>1. j - 1 \in 1..m /\ (j - 1) + 1 = j
        BY <2>0, <3>1
      <4> QED
        BY <2>4, <2>5, <4>1
    <3> QED
      BY <2>5, <3>1
  <2>7. r = y
    <3>1. DOMAIN y = 1..m+1 /\ y = [j \in 1..m+1 |-> y[j]]
      BY <2>0, <2>5
    <3> QED
      BY <2>1, <2>6, <3>1
  <2>8. Text(es) /\ Stage(w, i, "elems", k + 1, c, es)
    BY <1>2, <1>4, <2>3 DEF Text, Stage
  <2> HIDE DEF x, es
  <2> DEFINE l == k + 1
  <2> HIDE DEF l
  <2>9. Line(w, (<<x>> \o es) \o rest, x, i, "elems", l, c)
    <3>1. Stage(w, i, "elems", l, c, es)
      BY <2>8 DEF l
    <3> QED
      BY <1>1, <1>2, <2>8, <3>1, LineOf
  <2> QED
    BY <1>2, <2>7, <2>9 DEF x, l, y
<1> QED
  BY <1>1, <1>2, <1>3, <1>4

-----------------------------------------------------------------------------
(* Numbers: what the bit operators and the two integer codecs return.      *)

LEMMA ByteRange ==
  ASSUME NEW b, \A k \in 0..7 : b[k] \in {0, 1}
  PROVE  Byte(b) \in 0..255
<1>1. /\ b[0] \in 0..1 /\ b[1] \in 0..1 /\ b[2] \in 0..1 /\ b[3] \in 0..1
      /\ b[4] \in 0..1 /\ b[5] \in 0..1 /\ b[6] \in 0..1 /\ b[7] \in 0..1
  OBVIOUS
<1> QED
  BY <1>1 DEF Byte

LEMMA OrXorBytes ==
  ASSUME NEW x, NEW y
  PROVE  OrByte(x, y) \in 0..255 /\ XorByte(x, y) \in 0..255
<1> DEFINE o == [k \in 0..7 |-> IF Bit(x, k) \/ Bit(y, k) THEN 1 ELSE 0]
           e == [k \in 0..7 |-> IF Bit(x, k) # Bit(y, k) THEN 1 ELSE 0]
<1>1. (\A k \in 0..7 : o[k] \in {0, 1}) /\ \A k \in 0..7 : e[k] \in {0, 1}
  OBVIOUS
<1> HIDE DEF o, e
<1>2. Byte(o) \in 0..255 /\ Byte(e) \in 0..255
  BY <1>1, ByteRange
<1> QED
  BY <1>2 DEF OrByte, XorByte, o, e

(* The powers the generated code shifts and divides by.                    *)
LEMMA Powers ==
  /\ 2^0 = 1 /\ 2^1 = 2 /\ 2^2 = 4 /\ 2^3 = 8 /\ 2^4 = 16 /\ 2^5 = 32 /\ 2^6 = 64 /\ 2^7 = 128 /\ 2^8 = 256
  /\ \A k \in 0..8 : 2^k \in 1..256
<1>1. 2^0 = 1 /\ 2^1 = 2 /\ 2^2 = 4 /\ 2^3 = 8 /\ 2^4 = 16 /\ 2^5 = 32 /\ 2^6 = 64 /\ 2^7 = 128 /\ 2^8 = 256
  OBVIOUS
<1>2. ASSUME NEW k \in 0..8 PROVE 2^k \in 1..256
  <2>1. k \in {0, 1, 2, 3, 4, 5, 6, 7, 8}
    OBVIOUS
  <2>2. CASE k = 0
    BY <2>2
  <2>3. CASE k = 1
    BY <2>3
  <2>4. CASE k = 2
    BY <2>4
  <2>5. CASE k = 3
    BY <2>5
  <2>6. CASE k = 4
    BY <2>6
  <2>7. CASE k = 5
    BY <2>7
  <2>8. CASE k = 6
    BY <2>8
  <2>9. CASE k = 7
    BY <2>9
  <2>10. CASE k = 8
    BY <2>10
  <2> QED
    BY <2>1, <2>2, <2>3, <2>4, <2>5, <2>6, <2>7, <2>8, <2>9, <2>10
<1> QED
  BY <1>1, <1>2

(* What the recursive function of High is.                                 *)
Shifts(g, v, n) == g[0] = v /\ \A k \in 1..n : g[k] = g[k-1] \div 256

LEMMA HighShifts ==
  ASSUME NEW v, NEW n \in Nat
  PROVE  \E g : Shifts(g, v, n) /\ High(v, n) = g[n]
<1> DEFINE Step(g, k) == IF k = 0 THEN v ELSE g[k-1] \div 256
           T == {m \in Nat : \E g : g = [k \in 0..m |-> Step(g, k)]}
<1>1. 0 \in T
  <2> DEFINE g == [k \in 0..0 |-> v]
  <2>1. g = [k \in 0..0 |-> Step(g, k)]
    OBVIOUS
  <2> QED
    BY <2>1
<1>2. ASSUME NEW m \in Nat, m \in T PROVE m + 1 \in T
  <2>1. PICK g : g = [k \in 0..m |-> Step(g, k)]
    BY <1>2
  <2> DEFINE h == [k \in 0..m+1 |-> IF k = m + 1 THEN Step(g, k) ELSE g[k]]
  <2>2. ASSUME NEW k \in 0..m+1 PROVE h[k] = Step(h, k)
    <3>1. k # 0 => h[k-1] = g[k-1]
      OBVIOUS
    <3>2. Step(h, k) = Step(g, k)
      BY <3>1
    <3>3. k # m + 1 => g[k] = Step(g, k)
      <4> HIDE DEF Step, h
      <4> QED
        BY <2>1
    <3> QED
      BY <3>2, <3>3
  <2>3. h = [k \in 0..m+1 |-> Step(h, k)]
    <3>1. h = [k \in 0..m+1 |-> h[k]]
      OBVIOUS
    <3> HIDE DEF h, Step
    <3> QED
      BY <2>2, <3>1
  <2> HIDE DEF h, Step
  <2>4. \E f : f = [k \in 0..m+1 |-> Step(f, k)]
    BY <2>3
  <2> QED
    BY <2>4
<1>3. n \in T
  <2> HIDE DEF T
  <2> QED
    BY <1>1, <1>2, SetInduction
<1> DEFINE high == CHOOSE g : g = [j \in 0..n |-> Step(g, j)]
<1>4. high = [k \in 0..n |-> Step(high, k)]
  <2> HIDE DEF Step
  <2> QED
    BY <1>3
<1>5. High(v, n) = high[n]
  BY DEF High
<1>6. Shifts(high, v, n)
  <2>1. \A k \in 0..n : high[k] = Step(high, k)
    <3> HIDE DEF Step, high
    <3> QED
      BY <1>4
  <2> HIDE DEF high
  <2> QED
    BY <2>1 DEF Shifts
<1> QED
  BY <1>5, <1>6

LEMMA HighStep ==
  ASSUME NEW v
  PROVE  High(v, 0) = v /\ \A n \in Nat : High(v, n + 1) = High(v, n) \div 256
<1>1. High(v, 0) = v
  BY HighShifts DEF Shifts
<1>2. ASSUME NEW n \in Nat PROVE High(v, n + 1) = High(v, n) \div 256
  <2>1. PICK g : Shifts(g, v, n) /\ High(v, n) = g[n]
    BY HighShifts
  <2>2. n + 1 \in Nat
    OBVIOUS
  <2>3. PICK h : Shifts(h, v, n + 1) /\ High(v, n + 1) = h[n + 1]
    BY <2>2, HighShifts
  <2> DEFINE T == {k \in Nat : k <= n => g[k] = h[k]}
  <2>4. 0 \in T
    BY <2>1, <2>3 DEF Shifts
  <2>5. ASSUME NEW k \in Nat, k \in T PROVE k + 1 \in T
    <3>1. SUFFICES ASSUME k + 1 <= n PROVE g[k + 1] = h[k + 1]
      OBVIOUS
    <3>2. k + 1 \in 1..n /\ k + 1 \in 1..n+1 /\ (k + 1) - 1 = k
      BY <3>1
    <3>3. g[k] = h[k]
      BY <2>5, <3>1
    <3> QED
      BY <2>1, <2>3, <3>2, <3>3 DEF Shifts
  <2>6. n \in T
    <3> HIDE DEF T
    <3> QED
      BY <2>4, <2>5, SetInduction
  <2>7. n + 1 \in 1..n+1 /\ (n + 1) - 1 = n
    OBVIOUS
  <2> QED
    BY <2>1, <2>3, <2>6, <2>7 DEF Shifts
<1> QED
  BY <1>1, <1>2

LEMMA HighNat == ASSUME NEW v \in Nat PROVE \A n \in Nat : High(v, n) \in Nat
<1> DEFINE T == {n \in Nat : High(v, n) \in Nat}
<1>1. 0 \in T
  BY HighStep
<1>2. ASSUME NEW n \in Nat, n \in T PROVE n + 1 \in T
  <2>1. High(v, n) \in Nat
    BY <1>2
  <2>2. High(v, n + 1) = High(v, n) \div 256
    <3>1. \A m \in Nat : High(v, m + 1) = High(v, m) \div 256
      BY HighStep
    <3> QED
      BY <3>1
  <2>3. \A h \in Nat : h \div 256 \in Nat
    OBVIOUS
  <2> QED
    BY <2>1, <2>2, <2>3
<1> HIDE DEF T
<1>3. Nat \subseteq T
  BY <1>1, <1>2, SetInduction
<1> QED
  BY <1>3 DEF T

Widths == {8, 16, 32, 64}

LEMMA BigEndianBytes ==
  ASSUME NEW v \in Nat, NEW w \in Widths
  PROVE  /\ BigEndian(v, w) \in Seq(0..255) /\ Len(BigEndian(v, w)) = w \div 8
         /\ w \div 8 \in 1..8
<1>1. w \div 8 \in 1..8
  BY DEF Widths
<1> DEFINE n == w \div 8
           g(k) == High(v, n - k) % 256
           b == [k \in 1..n |-> g(k)]
<1>2. BigEndian(v, w) = b
  BY DEF BigEndian
<1>3. \A k \in 1..n : g(k) \in 0..255
  <2> TAKE k \in 1..n
  <2> DEFINE h == High(v, n - k)
  <2>1. n - k \in Nat
    BY <1>1
  <2>2. h \in Nat
    BY <2>1, HighNat
  <2> HIDE DEF h, n
  <2>3. h % 256 \in 0..255
    BY <2>2
  <2> QED
    BY <2>3 DEF h
<1>4. b \in Seq(0..255) /\ Len(b) = n
  <2>1. b = [k \in 1..n |-> g(k)]
    OBVIOUS
  <2>2. n \in Nat
    BY <1>1
  <2> HIDE DEF g, b, n
  <2> QED
    BY <1>3, <2>1, <2>2
<1> QED
  BY <1>1, <1>2, <1>4

(* What the recursive function of Number is.                               *)
Counts(g, bytes) ==
  g[0] = 0 /\ \A k \in 1..Len(bytes) : g[k] = g[k-1] * 256 + bytes[k]

LEMMA NumberCounts ==
  ASSUME NEW bytes, Len(bytes) \in Nat
  PROVE  \E g : Counts(g, bytes) /\ Number(bytes) = g[Len(bytes)]
<1> DEFINE Step(g, k) == IF k = 0 THEN 0 ELSE g[k-1] * 256 + bytes[k]
           T == {n \in Nat : \E g : g = [k \in 0..n |-> Step(g, k)]}
<1>1. 0 \in T
  <2> DEFINE g == [k \in 0..0 |-> 0]
  <2>1. g = [k \in 0..0 |-> Step(g, k)]
    OBVIOUS
  <2> QED
    BY <2>1
<1>2. ASSUME NEW n \in Nat, n \in T PROVE n + 1 \in T
  <2>1. PICK g : g = [k \in 0..n |-> Step(g, k)]
    BY <1>2
  <2> DEFINE h == [k \in 0..n+1 |-> IF k = n + 1 THEN Step(g, k) ELSE g[k]]
  <2>2. ASSUME NEW k \in 0..n+1 PROVE h[k] = Step(h, k)
    <3>1. k # 0 => h[k-1] = g[k-1]
      OBVIOUS
    <3>2. Step(h, k) = Step(g, k)
      BY <3>1
    <3>3. k # n + 1 => g[k] = Step(g, k)
      <4> HIDE DEF Step, h
      <4> QED
        BY <2>1
    <3> QED
      BY <3>2, <3>3
  <2>3. h = [k \in 0..n+1 |-> Step(h, k)]
    <3>1. h = [k \in 0..n+1 |-> h[k]]
      OBVIOUS
    <3> HIDE DEF h, Step
    <3> QED
      BY <2>2, <3>1
  <2> HIDE DEF h, Step
  <2>4. \E f : f = [k \in 0..n+1 |-> Step(f, k)]
    BY <2>3
  <2> QED
    BY <2>4
<1>3. Len(bytes) \in T
  <2> HIDE DEF T
  <2> QED
    BY <1>1, <1>2, SetInduction
<1> DEFINE number == CHOOSE g : g = [k \in 0..Len(bytes) |-> Step(g, k)]
<1>4. number = [k \in 0..Len(bytes) |-> Step(number, k)]
  <2> HIDE DEF Step
  <2> QED
    BY <1>3
<1>5. Number(bytes) = number[Len(bytes)]
  BY DEF Number
<1>6. Counts(number, bytes)
  <2>1. \A k \in 0..Len(bytes) : number[k] = Step(number, k)
    <3> HIDE DEF Step, number
    <3> QED
      BY <1>4
  <2> HIDE DEF number
  <2> QED
    BY <2>1 DEF Counts
<1> QED
  BY <1>5, <1>6

LEMMA NumberNat == ASSUME NEW bytes \in Seq(Nat) PROVE Number(bytes) \in Nat
<1>1. PICK g : Counts(g, bytes) /\ Number(bytes) = g[Len(bytes)]
  BY NumberCounts
<1> DEFINE T == {n \in Nat : n <= Len(bytes) => g[n] \in Nat}
<1>2. 0 \in T
  BY <1>1 DEF Counts
<1>3. ASSUME NEW n \in Nat, n \in T PROVE n + 1 \in T
  <2>1. SUFFICES ASSUME n + 1 <= Len(bytes) PROVE g[n + 1] \in Nat
    OBVIOUS
  <2>2. n + 1 \in 1..Len(bytes) /\ (n + 1) - 1 = n
    BY <2>1
  <2>3. g[n + 1] = g[n] * 256 + bytes[n + 1] /\ bytes[n + 1] \in Nat /\ g[n] \in Nat
    BY <1>1, <1>3, <2>1, <2>2 DEF Counts
  <2> QED
    BY <2>3
<1>4. Len(bytes) \in T
  <2> HIDE DEF T
  <2> QED
    BY <1>2, <1>3, SetInduction
<1> QED
  BY <1>1, <1>4

-----------------------------------------------------------------------------
(* What a generated text that compiles says of the fields.                 *)

LEMMA JoinAt ==
  ASSUME NEW s, Text(s), NEW t, Text(t)
  PROVE  /\ \A j \in 1..Len(s) : (s \o t)[j] = s[j] /\ j \in 1..Len(s \o t)
         /\ \A j \in 1..Len(t) : (s \o t)[Len(s) + j] = t[j] /\ Len(s) + j \in 1..Len(s \o t)
<1>1. PICK S : s \in Seq(S)
  BY DEF Text
<1>2. PICK T : t \in Seq(T)
  BY DEF Text
<1> DEFINE A == S \cup T
<1>3. s \in Seq(A) /\ t \in Seq(A)
  BY <1>1, <1>2
<1> HIDE DEF A
<1> QED
  BY <1>3

Among(x, b) == \E j \in 1..Len(b) : b[j] = x

LEMMA AmongOne == ASSUME NEW x PROVE Among(x, <<x>>)
  BY DEF Among

LEMMA AmongJoin ==
  ASSUME NEW s, Text(s), NEW t, Text(t), NEW x, Among(x, s) \/ Among(x, t)
  PROVE  Among(x, s \o t)
<1>1. CASE Among(x, s)
  BY <1>1, JoinAt DEF Among
<1>2. CASE Among(x, t)
  <2>1. PICK j \in 1..Len(t) : t[j] = x
    BY <1>2 DEF Among
  <2>2. (s \o t)[Len(s) + j] = x /\ Len(s) + j \in 1..Len(s \o t)
    BY <2>1, JoinAt
  <2> QED
    BY <2>2 DEF Among
<1> QED
  BY <1>1, <1>2

CodeOf(w) == IF w = "encode" THEN encoder ELSE decoder

LEMMA Segment ==
  ASSUME Settled, NEW w \in Codec, NEW i \in 1..Len(fields)
  PROVE  \E t : TextOfField(w, i, t) /\ \A x : Among(x, t) => Among(x, CodeOf(w))
<1> DEFINE n == Len(fields)
           text == CodeOf(w)
<1>1. n \in Nat /\ Built(w, text, n)
  BY Shape DEF Settled, GenInv, IInv, BuiltInv, CodeOf, Codec
<1>2. PICK acc : /\ acc[0] = <<>> /\ acc[n] = text
                 /\ \A k \in 1..n : Adds(w, k, acc[k-1], acc[k])
  BY <1>1 DEF Built
<1> HIDE DEF text, n
<1>3. \A k \in 0..n : Text(acc[k])
  <2> DEFINE T == {k \in Nat : k <= n => Text(acc[k])}
  <2>1. 0 \in T
    BY <1>2, TextEmpty
  <2>2. ASSUME NEW k \in Nat, k \in T PROVE k + 1 \in T
    <3>1. SUFFICES ASSUME k + 1 <= n PROVE Text(acc[k + 1])
      OBVIOUS
    <3>2. k + 1 \in 1..n /\ (k + 1) - 1 = k
      BY <1>1, <3>1
    <3>3. Adds(w, k + 1, acc[k], acc[k + 1])
      BY <1>2, <3>2
    <3>4. Text(acc[k])
      BY <1>1, <2>2, <3>1
    <3> QED
      BY <3>3, <3>4, TextJoin DEF Adds, TextOfField
  <2>3. Nat \subseteq T
    <3> HIDE DEF T
    <3> QED
      BY <2>1, <2>2, SetInduction
  <2> QED
    BY <2>3
<1> DEFINE In(k) == \A x : Among(x, acc[k]) => Among(x, text)
           U == {m \in Nat : m <= n => In(n - m)}
<1>4. 0 \in U
  BY <1>1, <1>2
<1>5. ASSUME NEW m \in Nat, m \in U PROVE m + 1 \in U
  <2>1. SUFFICES ASSUME m + 1 <= n PROVE In(n - (m + 1))
    OBVIOUS
  <2> DEFINE k == n - (m + 1)
  <2>2. k \in 0..n /\ n - m = k + 1 /\ k + 1 \in 1..n /\ (k + 1) - 1 = k
    BY <1>1, <2>1
  <2>3. In(k + 1)
    BY <1>1, <1>5, <2>1, <2>2
  <2> HIDE DEF k
  <2>4. Adds(w, k + 1, acc[k], acc[k + 1])
    BY <1>2, <2>2
  <2>5. PICK t : Text(t) /\ acc[k + 1] = acc[k] \o t
    BY <2>4 DEF Adds, TextOfField
  <2>6. Text(acc[k])
    BY <1>3, <2>2
  <2>7. \A x : Among(x, acc[k]) => Among(x, acc[k + 1])
    <3> DEFINE a == acc[k]
    <3>1. Text(a)
      BY <2>6
    <3> HIDE DEF a
    <3>2. \A x : Among(x, a) => Among(x, a \o t)
      BY <2>5, <3>1, AmongJoin
    <3> QED
      BY <2>5, <3>2 DEF a
  <2>8. In(k)
    BY <2>3, <2>7
  <2> QED
    BY <2>8 DEF k
<1>6. In(i)
  <2>1. Nat \subseteq U
    <3> HIDE DEF U
    <3> QED
      BY <1>4, <1>5, SetInduction
  <2>2. n - i \in Nat /\ n - i <= n /\ n - (n - i) = i
    BY <1>1 DEF n
  <2> DEFINE m == n - i
  <2> HIDE DEF m
  <2>3. m \in U
    BY <2>1, <2>2 DEF m
  <2>4. In(n - m)
    BY <2>2, <2>3 DEF m
  <2> QED
    BY <2>2, <2>4 DEF m
<1>7. i \in 1..n /\ i - 1 \in 0..n
  BY <1>1 DEF n
<1>8. PICK t : TextOfField(w, i, t) /\ acc[i] = acc[i - 1] \o t
  BY <1>2, <1>7 DEF Adds
<1>9. \A x : Among(x, t) => Among(x, acc[i])
  <2> DEFINE a == acc[i - 1]
  <2>1. Text(a) /\ Text(t)
    BY <1>3, <1>7, <1>8 DEF TextOfField
  <2> HIDE DEF a
  <2>2. \A x : Among(x, t) => Among(x, a \o t)
    BY <2>1, AmongJoin
  <2> QED
    BY <1>8, <2>2 DEF a
<1> QED
  BY <1>6, <1>8, <1>9 DEF text

LEMMA AmongOk ==
  ASSUME Settled, Compiles, NEW w \in Codec, NEW x, Among(x, CodeOf(w))
  PROVE  /\ x.op # "if" => StatementOk(x)
         /\ x.op = "if" => /\ Integer(x.cond)
                           /\ \A y : Among(y, x.body) /\ Text(x.body) => StatementOk(y)
<1> DEFINE c == CodeOf(w)
<1>1. Text(c)
  BY DEF Settled, GenInv, TextInv, Ended, WellKept, CodeOf
<1>2. PICK k \in DOMAIN c : c[k] = x
  BY <1>1, TextShape DEF Among
<1>3. \A s \in Flat(c) : StatementOk(s)
  BY DEF Compiles, CodeOf
<1>4. x \in Range(c)
  BY <1>2 DEF Range
<1>5. CASE x.op # "if"
  <2>1. x \in Flat(c)
    BY <1>2, <1>5 DEF Flat
  <2> QED
    BY <1>3, <1>5, <2>1
<1>6. CASE x.op = "if"
  <2>1. Integer(x.cond)
    BY <1>4, <1>6 DEF Compiles, CodeOf
  <2>2. ASSUME NEW y, Among(y, x.body), Text(x.body) PROVE StatementOk(y)
    <3>1. y \in Range(x.body)
      BY <2>2, TextShape DEF Among, Range
    <3>2. y \in Flat(c)
      BY <1>2, <1>6, <3>1 DEF Flat
    <3> QED
      BY <1>3, <3>2
  <2> QED
    BY <1>6, <2>1, <2>2
<1> QED
  BY <1>5, <1>6

LEMMA BodyOk ==
  ASSUME Settled, Compiles, NEW w \in Codec, NEW i \in 1..Len(fields), ~Grouped(i, O)
  PROVE  /\ \A y : Among(y, Body(w, fields[i])) /\ y.op # "if" => StatementOk(y)
         /\ fields[i].existIf # NoName => Integer(This(fields[i].existIf))
<1> DEFINE f == fields[i]
           b == Body(w, f)
<1>1. PICK t : TextOfField(w, i, t) /\ \A x : Among(x, t) => Among(x, CodeOf(w))
  BY Segment
<1>2. t = Wrap(f, b)
  BY <1>1 DEF TextOfField, EncodeText, DecodeText, Body
<1>3. Text(b)
  BY BodyText, SettledField DEF Body
<1>4. CASE f.existIf = NoName
  <2>1. t = b
    BY <1>2, <1>4 DEF Wrap
  <2> QED
    BY <1>1, <1>4, <2>1, AmongOk
<1>5. CASE f.existIf # NoName
  <2> DEFINE x == IfOf(w, f)
  <2>1. t = <<x>>
    BY <1>2, <1>5 DEF Wrap, IfOf
  <2>2. x.op = "if" /\ x.cond = This(f.existIf) /\ x.body = b
    BY DEF IfOf
  <2> HIDE DEF x, b
  <2>3. Among(x, CodeOf(w))
    BY <1>1, <2>1, AmongOne
  <2> QED
    BY <1>3, <2>2, <2>3, AmongOk DEF b
<1> QED
  BY <1>4, <1>5

LEMMA FieldByName ==
  ASSUME Settled, NEW i \in 1..Len(fields)
  PROVE  FieldNamed(fields[i].name) = i
<1>1. /\ DOMAIN fields = 1..Len(fields)
      /\ \A k, j \in DOMAIN fields : fields[k].name = fields[j].name => k = j
  BY Shape, MessagesAssumption DEF Settled, GenInv, IInv
<1> QED
  BY <1>1 DEF FieldNamed

LEMMA GoBitsOf ==
  ASSUME NEW t, IsIntType(t)
  PROVE  t.name \in BitNames \cup ByteNames /\ (~IsBitType(t) => GoBits(t.name) = Bits(t))
<1>1. t.name \in BitNames \cup ByteNames /\ Bits(t) = IntBits[t.name]
  BY DEF IsIntType, Bits, IntBits
<1>2. t.name \in BitNames => IsBitType(t)
  BY <1>1 DEF IsBitType, IntBits, BitNames, ByteNames
<1> QED
  BY <1>1, <1>2 DEF GoBits

(* A max is a value of the field's type: the clamp compares with it.       *)
LEMMA MaxOk ==
  ASSUME Settled, Compiles, NEW i \in 1..Len(fields), ~Grouped(i, O), fields[i].type.k = "prim",
         fields[i].max # NoName
  PROVE  /\ ConstVal(Plain(fields[i].max)) = Consts[fields[i].max]
         /\ Consts[fields[i].max] \in Nat
         /\ High(Consts[fields[i].max], Bits(fields[i].type) \div 8) = 0
<1> DEFINE f == fields[i]
           u == IntUnit(f)
           v == ClampOf(f)
<1>1. Body("encode", f) = <<v>> \o <<u>>
  BY DEF Body, EncodeBody, Clamp, ClampOf
<1>2. v.op = "clamp" /\ v.f = f.name /\ v.ref = Plain(f.max)
  BY DEF ClampOf
<1>3. StatementOk(v)
  <2>1. Among(v, Body("encode", f))
    <3> DEFINE a == <<v>>
               b == <<u>>
    <3>1. Text(a) /\ Text(b) /\ Among(v, a)
      BY Tuples, AmongOne
    <3> HIDE DEF a, b, v
    <3>2. Among(v, a \o b)
      BY <3>1, AmongJoin
    <3> QED
      BY <1>1, <3>2 DEF a, b
  <2> QED
    BY <1>2, <2>1, BodyOk DEF Codec
<1>4. Literal(Plain(f.max), Width(f.name))
  <2> HIDE DEF v, f
  <2> QED
    BY <1>2, <1>3 DEF StatementOk
<1>5. Width(f.name) = Bits(f.type)
  <2>1. FieldNamed(f.name) = i
    BY FieldByName
  <2>2. IsIntType(f.type) /\ ~IsBitType(f.type)
    BY SettledField DEF Generable
  <2> QED
    BY <2>1, <2>2, GoBitsOf DEF Width
<1>6. ConstVal(Plain(f.max)) = Consts[f.max]
  BY DEF ConstVal, Plain
<1> QED
  BY <1>4, <1>5, <1>6 DEF Literal, Unsigned

(* The limit of an array: a field with a max, or a constant.               *)
LEMMA LimitOk ==
  ASSUME Settled, Compiles, NEW i \in 1..Len(fields), fields[i].type.k = "array"
  PROVE  LET f == fields[i] IN
         /\ Size(f) \in Nat /\ ~Grouped(i, O) /\ ElemOk(f.type.elem)
         /\ LimitRef(f).this =>
              \E j \in 1..Len(fields) : /\ fields[j].name = f.limit /\ FieldNamed(f.limit) = j
                                        /\ LimitRef(f).name = f.limit
                                        /\ fields[j].max # NoName /\ Size(f) = Consts[fields[j].max]
                                        /\ IsIntType(fields[j].type)
         /\ ~LimitRef(f).this => ConstVal(LimitRef(f)) = Size(f) /\ LimitRef(f) # NoRef
<1> DEFINE f == fields[i]
<1>1. /\ Len(fields) \in Nat /\ DOMAIN fields = 1..Len(fields)
      /\ \A k, j \in DOMAIN fields : fields[k].name = fields[j].name => k = j
  BY Shape, MessagesAssumption DEF Settled, GenInv, IInv
<1>2. ~Grouped(i, O) /\ f.limit # NoName /\ ElemOk(f.type.elem)
  BY SettledField DEF Generable
<1>3. Declared(Len(fields))
  BY DEF Settled, GenInv, WireInv, WireAt
<1>4. ConstVal(Plain(ArraySize(f))) \in Nat
  <2>1. i \in DOMAIN struct /\ struct[i].len = ArraySize(f)
    BY <1>1, <1>3, TextShape DEF Declared
  <2> QED
    BY <2>1 DEF Compiles
<1>5. ArraySize(f) # NoName
  BY <1>2 DEF ArraySize
<1>6. Size(f) \in Nat
  BY <1>4, <1>5 DEF Size, ConstVal, Plain
<1>7. ASSUME LimitFieldMax(f.limit) # NoName
      PROVE  \E j \in 1..Len(fields) : /\ fields[j].name = f.limit /\ fields[j].max = LimitFieldMax(f.limit)
                                       /\ FieldNamed(f.limit) = j
  <2> DEFINE js == {j \in DOMAIN fields : fields[j].name = f.limit}
  <2>1. js # {}
    BY <1>7 DEF LimitFieldMax
  <2>2. PICK j \in 1..Len(fields) : fields[j].name = f.limit
    BY <1>1, <2>1
  <2>3. FieldNamed(f.limit) = j
    BY <2>2, FieldByName
  <2>4. js = {j}
    BY <1>1, <2>2
  <2>5. (CHOOSE k \in js : \A l \in js : k <= l) = j
    <3> HIDE DEF js
    <3>1. \E k \in js : \A l \in js : k <= l
      BY <2>2, <2>4
    <3> QED
      BY <2>4, <3>1
  <2>6. LimitFieldMax(f.limit) = fields[j].max
    BY <2>1, <2>5 DEF LimitFieldMax
  <2> QED
    BY <2>2, <2>3, <2>6
<1>8. CASE LimitFieldMax(f.limit) # NoName
  <2>1. LimitRef(f) = This(f.limit) /\ ArraySize(f) = LimitFieldMax(f.limit)
    BY <1>8 DEF LimitRef, ArraySize
  <2>2. PICK j \in 1..Len(fields) : /\ fields[j].name = f.limit /\ fields[j].max = LimitFieldMax(f.limit)
                                    /\ FieldNamed(f.limit) = j
    BY <1>7, <1>8
  <2>3. Integer(LimitRef(f))
    <3> DEFINE u == ArrayUnit(f)
    <3>1. u.op # "if" /\ (StatementOk(u) => Integer(LimitRef(f)))
      BY DEF ArrayUnit, BytesUnit, EachUnit, StatementOk
    <3>2. Body("encode", f) = <<u>>
      BY DEF Body, EncodeBody
    <3> HIDE DEF u
    <3>3. Among(u, Body("encode", f)) /\ "encode" \in Codec
      BY <3>2, AmongOne DEF Codec
    <3> QED
      BY <1>2, <3>1, <3>3, BodyOk
  <2>4. IsIntType(fields[j].type)
    <3>1. PICK g \in Range(fields) : g.name = f.limit /\ IsIntType(g.type)
      BY <2>1, <2>3 DEF Integer, This
    <3>2. PICK k \in DOMAIN fields : g = fields[k]
      BY <3>1 DEF Range
    <3> QED
      BY <1>1, <2>2, <3>1, <3>2
  <2>5. Size(f) = Consts[fields[j].max]
    BY <2>1, <2>2 DEF Size
  <2>6. LimitRef(f).this /\ LimitRef(f).name = f.limit
    BY <2>1 DEF This
  <2> QED
    BY <1>2, <1>6, <1>8, <2>2, <2>4, <2>5, <2>6
<1>9. CASE LimitFieldMax(f.limit) = NoName
  <2>1. LimitRef(f) = Plain(f.limit) /\ ArraySize(f) = f.limit
    BY <1>9 DEF LimitRef, ArraySize
  <2>2. ConstVal(LimitRef(f)) = Size(f) /\ LimitRef(f) # NoRef /\ ~LimitRef(f).this
    BY <1>2, <2>1 DEF ConstVal, Size, Plain, NoRef
  <2> QED
    BY <1>2, <1>6, <2>2
<1> QED
  BY <1>8, <1>9

-----------------------------------------------------------------------------
(* The struct the functions work on.                                       *)
ValuesOf(f) == IF f.type.k = "array" THEN [1..Size(f) -> Nat] ELSE Nat

Typed(m) == \A i \in 1..Len(fields) : /\ fields[i].name \in DOMAIN m
                                      /\ m[fields[i].name] \in ValuesOf(fields[i])

(* Integers of whole bytes, alone and in arrays, are of their width.       *)
Wide(f, v) ==
  IF f.type.k = "array" THEN \A k \in 1..Size(f) : High(v[k], ElemOf(f, k).w \div 8) = 0
  ELSE IsIntType(f.type) /\ ~IsBitType(f.type) => High(v, Bits(f.type) \div 8) = 0

Fresh(m) == Typed(m) /\ \A i \in 1..Len(fields) : Wide(fields[i], m[fields[i].name])

(* p is m with v in field i.                                               *)
Changed(p, m, i, v) == p = [m EXCEPT ![fields[i].name] = v]

Replaced(p, m, i, v) ==
  /\ Typed(p) /\ p[fields[i].name] = v
  /\ \A j \in 1..Len(fields) : j # i => p[fields[j].name] = m[fields[j].name]

LEMMA TypedPut ==
  ASSUME Settled, NEW m, Typed(m), NEW i \in 1..Len(fields), NEW v \in ValuesOf(fields[i]),
         NEW p, Changed(p, m, i, v)
  PROVE  Replaced(p, m, i, v)
<1>1. DOMAIN p = DOMAIN m /\ \A n \in DOMAIN m : p[n] = IF n = fields[i].name THEN v ELSE m[n]
  BY DEF Changed
<1>2. /\ DOMAIN fields = 1..Len(fields)
      /\ \A k, j \in DOMAIN fields : fields[k].name = fields[j].name => k = j
  BY Shape, MessagesAssumption DEF Settled, GenInv, IInv
<1>3. \A j \in 1..Len(fields) : fields[j].name \in DOMAIN m /\ m[fields[j].name] \in ValuesOf(fields[j])
  BY DEF Typed
<1>4. \A j \in 1..Len(fields) : p[fields[j].name] = IF j = i THEN v ELSE m[fields[j].name]
  BY <1>1, <1>2, <1>3
<1>5. Typed(p)
  BY <1>1, <1>3, <1>4 DEF Typed
<1> QED
  BY <1>4, <1>5 DEF Replaced

LEMMA ArraySeq ==
  ASSUME NEW n \in Nat, NEW S, NEW a \in [1..n -> S]
  PROVE  a \in Seq(S) /\ Len(a) = n
  OBVIOUS

(* What a caller gives, and what a decoder finds in its struct.            *)
LEMMA PoolValue ==
  ASSUME NEW pool \in {Values, Leftovers}, NEW t, NEW v \in Elems(pool, t),
         t.k \in {"struct", "undef"} \/ IsIntType(t)
  PROVE  /\ v \in Nat
         /\ t.k \in {"struct", "undef"} => High(v, 1) = 0
         /\ IsIntType(t) /\ ~IsBitType(t) => High(v, Bits(t) \div 8) = 0
<1>1. CASE t.k \in {"struct", "undef"}
  <2>1. "u8" \in BitNames \cup ByteNames /\ GoBits("u8") = 8 /\ v \in pool["u8"]
    BY <1>1 DEF GoBits, IntBits, BitNames, ByteNames, Elems
  <2>2. Unsigned(v, 8)
    BY <2>1, ValuesAssumption
  <2>3. 8 \div 8 = 1
    OBVIOUS
  <2> QED
    BY <1>1, <2>2, <2>3 DEF Unsigned, IsIntType
<1>2. CASE t.k \notin {"struct", "undef"}
  <2>1. IsIntType(t) /\ v \in pool[t.name]
    BY <1>2 DEF Elems
  <2>2. t.name \in BitNames \cup ByteNames /\ (~IsBitType(t) => GoBits(t.name) = Bits(t))
    BY <2>1, GoBitsOf
  <2>3. Unsigned(v, GoBits(t.name))
    BY <2>1, <2>2, ValuesAssumption
  <2> QED
    BY <1>2, <2>2, <2>3 DEF Unsigned
<1> QED
  BY <1>1, <1>2

LEMMA ElemWide ==
  ASSUME NEW f, NEW k, ElemOk(f.type.elem)
  PROVE  ElemOf(f, k).w = IF f.type.elem.k = "struct" THEN 8 ELSE Bits(f.type.elem)
  BY DEF ElemOf, ElemUnit

LEMMA StructFresh ==
  ASSUME Settled, Compiles, NEW pool \in {Values, Leftovers}, NEW m \in Structs(pool)
  PROVE  Fresh(m)
<1>1. /\ DOMAIN fields = 1..Len(fields)
  BY Shape DEF Settled, GenInv, IInv
<1> DEFINE names == {f.name : f \in Range(fields)}
<1>2. PICK c : /\ \A i \in DOMAIN fields : c[i] \in Contents(pool, fields[i])
               /\ m = [n \in names |-> FieldValue(fields[FieldNamed(n)], c[FieldNamed(n)])]
  BY DEF Structs
<1> SUFFICES ASSUME NEW i \in 1..Len(fields)
             PROVE  /\ fields[i].name \in DOMAIN m
                    /\ m[fields[i].name] \in ValuesOf(fields[i])
                    /\ Wide(fields[i], m[fields[i].name])
  BY DEF Fresh, Typed
<1> DEFINE f == fields[i]
           x == c[i]
<1>3. f.name \in names
  BY <1>1 DEF Range
<1>4. m[f.name] = FieldValue(f, x) /\ f.name \in DOMAIN m
  <2>1. FieldNamed(f.name) = i
    BY FieldByName
  <2> HIDE DEF names
  <2>2. m[f.name] = FieldValue(fields[FieldNamed(f.name)], c[FieldNamed(f.name)]) /\ f.name \in DOMAIN m
    BY <1>2, <1>3
  <2> QED
    BY <2>1, <2>2
<1>5. x \in Contents(pool, f)
  BY <1>1, <1>2
<1>6. Generable(f) /\ f.type.k \in Kinds
  BY SettledField
<1> HIDE DEF x, f
<1>7. CASE f.type.k = "array"
  <2> DEFINE n == Size(f)
             t == f.type.elem
  <2>1. FieldValue(f, x) = x /\ x \in [1..n -> Elems(pool, t)]
    BY <1>5, <1>7 DEF FieldValue, Contents
  <2>2. ElemOk(t)
    BY <1>6, <1>7 DEF Generable, IsIntType
  <2> HIDE DEF n
  <2>3. ASSUME NEW k \in 1..n PROVE x[k] \in Nat /\ High(x[k], ElemOf(f, k).w \div 8) = 0
    <3>1. x[k] \in Elems(pool, t)
      BY <2>1
    <3>2. CASE t.k = "struct"
      <4>1. ElemOf(f, k).w = 8 /\ 8 \div 8 = 1
        BY <2>2, <3>2, ElemWide
      <4> QED
        BY <3>1, <3>2, <4>1, PoolValue
    <3>3. CASE t.k # "struct"
      <4>1. IsIntType(t) /\ ElemOf(f, k).w = Bits(t) /\ Bits(t) % 8 = 0
        BY <2>2, <3>3, ElemWide DEF ElemOk
      <4>2. ~IsBitType(t)
        BY <4>1 DEF IsBitType
      <4> QED
        BY <3>1, <4>1, <4>2, PoolValue
    <3> QED
      BY <3>2, <3>3
  <2>4. x \in [1..n -> Nat]
    BY <2>1, <2>3
  <2> QED
    BY <1>4, <1>7, <2>1, <2>3, <2>4 DEF ValuesOf, Wide, f, n
<1>8. CASE f.type.k # "array"
  <2> DEFINE v == x[1]
             t == f.type
  <2>1. FieldValue(f, x) = v /\ v \in Elems(pool, t)
    BY <1>5, <1>8 DEF FieldValue, Contents
  <2>2. t.k \in {"struct", "undef"} \/ IsIntType(t)
    BY <1>6, <1>8 DEF Generable, Kinds
  <2> HIDE DEF v
  <2>3. v \in Nat /\ (IsIntType(t) /\ ~IsBitType(t) => High(v, Bits(t) \div 8) = 0)
    BY <2>1, <2>2, PoolValue
  <2> QED
    BY <1>4, <1>8, <2>1, <2>3 DEF ValuesOf, Wide, f
<1> QED
  BY <1>7, <1>8


-----------------------------------------------------------------------------
(* Bits: a byte is the sum of its bits.                                    *)
BitsOf(v) == [k \in 0..7 |-> IF Bit(v, k) THEN 1 ELSE 0]

LEMMA Halves ==
  ASSUME NEW v \in Nat
  PROVE  /\ v \div 1 = v
         /\ v = 2 * (v \div 2) + (v % 2)
         /\ v \div 2 = 2 * (v \div 4) + ((v \div 2) % 2)
         /\ v \div 4 = 2 * (v \div 8) + ((v \div 4) % 2)
         /\ v \div 8 = 2 * (v \div 16) + ((v \div 8) % 2)
         /\ v \div 16 = 2 * (v \div 32) + ((v \div 16) % 2)
         /\ v \div 32 = 2 * (v \div 64) + ((v \div 32) % 2)
         /\ v \div 64 = 2 * (v \div 128) + ((v \div 64) % 2)
         /\ v \div 128 = 2 * (v \div 256) + ((v \div 128) % 2)
         /\ v = 256 * (v \div 256) + (v % 256)
  OBVIOUS

LEMMA ByteOfBits ==
  ASSUME NEW v \in Nat
  PROVE  Byte(BitsOf(v)) = v % 256
<1>1. /\ Bit(v, 0) <=> v % 2 = 1
      /\ Bit(v, 1) <=> (v \div 2) % 2 = 1
      /\ Bit(v, 2) <=> (v \div 4) % 2 = 1
      /\ Bit(v, 3) <=> (v \div 8) % 2 = 1
      /\ Bit(v, 4) <=> (v \div 16) % 2 = 1
      /\ Bit(v, 5) <=> (v \div 32) % 2 = 1
      /\ Bit(v, 6) <=> (v \div 64) % 2 = 1
      /\ Bit(v, 7) <=> (v \div 128) % 2 = 1
  BY Powers, Halves DEF Bit
<1> DEFINE b == BitsOf(v)
<1>2. /\ b[0] = v % 2 /\ b[1] = (v \div 2) % 2 /\ b[2] = (v \div 4) % 2 /\ b[3] = (v \div 8) % 2
      /\ b[4] = (v \div 16) % 2 /\ b[5] = (v \div 32) % 2 /\ b[6] = (v \div 64) % 2 /\ b[7] = (v \div 128) % 2
  <2>1. /\ v % 2 \in {0, 1} /\ (v \div 2) % 2 \in {0, 1} /\ (v \div 4) % 2 \in {0, 1}
        /\ (v \div 8) % 2 \in {0, 1} /\ (v \div 16) % 2 \in {0, 1} /\ (v \div 32) % 2 \in {0, 1}
        /\ (v \div 64) % 2 \in {0, 1} /\ (v \div 128) % 2 \in {0, 1}
    OBVIOUS
  <2> QED
    BY <1>1, <2>1 DEF BitsOf
<1> DEFINE h1 == v \div 2
           h2 == v \div 4
           h3 == v \div 8
           h4 == v \div 16
           h5 == v \div 32
           h6 == v \div 64
           h7 == v \div 128
           h8 == v \div 256
<1>3. /\ h1 \in Nat /\ h2 \in Nat /\ h3 \in Nat /\ h4 \in Nat
      /\ h5 \in Nat /\ h6 \in Nat /\ h7 \in Nat /\ h8 \in Nat
  OBVIOUS
<1>4. /\ b[0] = v - 2 * h1 /\ b[1] = h1 - 2 * h2 /\ b[2] = h2 - 2 * h3 /\ b[3] = h3 - 2 * h4
      /\ b[4] = h4 - 2 * h5 /\ b[5] = h5 - 2 * h6 /\ b[6] = h6 - 2 * h7 /\ b[7] = h7 - 2 * h8
      /\ v % 256 = v - 256 * h8
  <2> HIDE DEF b
  <2> QED
    BY <1>2
<1> HIDE DEF b, h1, h2, h3, h4, h5, h6, h7, h8
<1>5. Byte(b) = v % 256
  BY <1>3, <1>4 DEF Byte
<1> QED
  BY <1>5 DEF b

LEMMA BitsOfByte ==
  ASSUME NEW b, \A k \in 0..7 : b[k] \in {0, 1}
  PROVE  \A k \in 0..7 : Bit(Byte(b), k) <=> b[k] = 1
<1>1. /\ b[0] \in {0, 1} /\ b[1] \in {0, 1} /\ b[2] \in {0, 1} /\ b[3] \in {0, 1}
      /\ b[4] \in {0, 1} /\ b[5] \in {0, 1} /\ b[6] \in {0, 1} /\ b[7] \in {0, 1}
  OBVIOUS
<1> DEFINE v == Byte(b)
<1>2. v = b[0] + 2*b[1] + 4*b[2] + 8*b[3] + 16*b[4] + 32*b[5] + 64*b[6] + 128*b[7]
  BY DEF Byte
<1> HIDE DEF v
<1>3. v \in Nat
  BY <1>1, <1>2
<1>4. /\ v % 2 = b[0] /\ (v \div 2) % 2 = b[1] /\ (v \div 4) % 2 = b[2] /\ (v \div 8) % 2 = b[3]
      /\ (v \div 16) % 2 = b[4] /\ (v \div 32) % 2 = b[5] /\ (v \div 64) % 2 = b[6] /\ (v \div 128) % 2 = b[7]
  <2> DEFINE r7 == b[7]
             r6 == r7 * 2 + b[6]
             r5 == r6 * 2 + b[5]
             r4 == r5 * 2 + b[4]
             r3 == r4 * 2 + b[3]
             r2 == r3 * 2 + b[2]
             r1 == r2 * 2 + b[1]
  <2>1. \A r \in Nat, d \in {0, 1} : r * 2 + d \in Nat /\ (r * 2 + d) % 2 = d /\ (r * 2 + d) \div 2 = r
    OBVIOUS
  <2>2. r7 \in Nat /\ r7 % 2 = b[7]
    BY <1>1
  <2>3. r6 \in Nat /\ r6 % 2 = b[6] /\ r6 \div 2 = r7
    <3> HIDE DEF r7
    <3> QED
      BY <1>1, <2>1, <2>2
  <2>4. r5 \in Nat /\ r5 % 2 = b[5] /\ r5 \div 2 = r6
    <3> HIDE DEF r6
    <3> QED
      BY <1>1, <2>1, <2>3
  <2>5. r4 \in Nat /\ r4 % 2 = b[4] /\ r4 \div 2 = r5
    <3> HIDE DEF r5
    <3> QED
      BY <1>1, <2>1, <2>4
  <2>6. r3 \in Nat /\ r3 % 2 = b[3] /\ r3 \div 2 = r4
    <3> HIDE DEF r4
    <3> QED
      BY <1>1, <2>1, <2>5
  <2>7. r2 \in Nat /\ r2 % 2 = b[2] /\ r2 \div 2 = r3
    <3> HIDE DEF r3
    <3> QED
      BY <1>1, <2>1, <2>6
  <2>8. r1 \in Nat /\ r1 % 2 = b[1] /\ r1 \div 2 = r2
    <3> HIDE DEF r2
    <3> QED
      BY <1>1, <2>1, <2>7
  <2>9. v = r1 * 2 + b[0]
    <3> DEFINE b0 == b[0]
               b1 == b[1]
               b2 == b[2]
               b3 == b[3]
               b4 == b[4]
               b5 == b[5]
               b6 == b[6]
               b7 == b[7]
    <3>1. /\ b0 \in Nat /\ b1 \in Nat /\ b2 \in Nat /\ b3 \in Nat
          /\ b4 \in Nat /\ b5 \in Nat /\ b6 \in Nat /\ b7 \in Nat
      BY <1>1
    <3>2. v = b0 + 2*b1 + 4*b2 + 8*b3 + 16*b4 + 32*b5 + 64*b6 + 128*b7
      BY <1>2
    <3> HIDE DEF b0, b1, b2, b3, b4, b5, b6, b7
    <3>3. v = ((((((b7 * 2 + b6) * 2 + b5) * 2 + b4) * 2 + b3) * 2 + b2) * 2 + b1) * 2 + b0
      BY <3>1, <3>2
    <3> QED
      BY <3>3 DEF b0, b1, b2, b3, b4, b5, b6, b7
  <2> HIDE DEF r1, r2, r3, r4, r5, r6, r7
  <2>10. v % 2 = b[0] /\ v \div 2 = r1
    BY <1>1, <2>1, <2>8, <2>9
  <2>11. v \div 4 = r2 /\ v \div 8 = r3
    BY <1>3, <2>7, <2>8, <2>6, <2>10
  <2>12. v \div 16 = r4 /\ v \div 32 = r5
    BY <1>3, <2>4, <2>5, <2>6, <2>11
  <2>13. v \div 64 = r6 /\ v \div 128 = r7
    BY <1>3, <2>2, <2>3, <2>4, <2>12
  <2> QED
    BY <2>2, <2>3, <2>4, <2>5, <2>6, <2>7, <2>8, <2>10, <2>11, <2>12, <2>13
<1>5. /\ Bit(v, 0) <=> v % 2 = 1
      /\ Bit(v, 1) <=> (v \div 2) % 2 = 1
      /\ Bit(v, 2) <=> (v \div 4) % 2 = 1
      /\ Bit(v, 3) <=> (v \div 8) % 2 = 1
      /\ Bit(v, 4) <=> (v \div 16) % 2 = 1
      /\ Bit(v, 5) <=> (v \div 32) % 2 = 1
      /\ Bit(v, 6) <=> (v \div 64) % 2 = 1
      /\ Bit(v, 7) <=> (v \div 128) % 2 = 1
  BY <1>3, Powers, Halves DEF Bit
<1>6. ASSUME NEW k \in 0..7 PROVE Bit(v, k) <=> b[k] = 1
  <2>1. k \in {0, 1, 2, 3, 4, 5, 6, 7}
    OBVIOUS
  <2> QED
    BY <1>4, <1>5, <2>1
<1> QED
  BY <1>6 DEF v

(* Xor twice is nothing: of a byte, and of the bytes of an integer.        *)
LEMMA XorTwice ==
  ASSUME NEW x \in 0..255, NEW y
  PROVE  XorByte(XorByte(x, y), y) = x
<1> DEFINE e == [k \in 0..7 |-> IF Bit(x, k) # Bit(y, k) THEN 1 ELSE 0]
           z == Byte(e)
           d == [k \in 0..7 |-> IF Bit(z, k) # Bit(y, k) THEN 1 ELSE 0]
<1>1. XorByte(x, y) = z /\ XorByte(z, y) = Byte(d)
  BY DEF XorByte
<1>2. \A k \in 0..7 : e[k] \in {0, 1} /\ (e[k] = 1 <=> (Bit(x, k) # Bit(y, k)))
  OBVIOUS
<1>3. \A k \in 0..7 : Bit(z, k) <=> e[k] = 1
  <2> HIDE DEF e
  <2> QED
    BY <1>2, BitsOfByte
<1>4. \A k \in 0..7 : (Bit(z, k) # Bit(y, k)) <=> Bit(x, k)
  <2> TAKE k \in 0..7
  <2>1. Bit(z, k) <=> (Bit(x, k) # Bit(y, k))
    BY <1>2, <1>3
  <2>2. Bit(x, k) \in BOOLEAN /\ Bit(y, k) \in BOOLEAN /\ Bit(z, k) \in BOOLEAN
    BY DEF Bit
  <2> QED
    BY <2>1, <2>2
<1>5. d = BitsOf(x)
  <2> HIDE DEF z
  <2> QED
    BY <1>4 DEF BitsOf
<1>6. Byte(BitsOf(x)) = x % 256 /\ x % 256 = x
  BY ByteOfBits
<1> HIDE DEF d, z
<1> QED
  BY <1>1, <1>5, <1>6

LEMMA MaskedBytes ==
  ASSUME NEW S, NEW bytes \in Seq(S), NEW v
  PROVE  /\ Masked(bytes, v) \in Seq(0..255) /\ Masked(bytes, v) \in Seq(Nat)
         /\ Len(Masked(bytes, v)) = Len(bytes)
<1> DEFINE n == Len(bytes)
           mask == BigEndian(v, 8 * n)
           x(k) == XorByte(bytes[k], mask[k])
           b == [k \in 1..n |-> x(k)]
<1>1. n \in Nat /\ DOMAIN bytes = 1..n
  OBVIOUS
<1>2. Masked(bytes, v) = b
  BY <1>1 DEF Masked
<1>3. \A k \in 1..n : x(k) \in 0..255 /\ x(k) \in Nat
  <2> TAKE k \in 1..n
  <2> DEFINE y == x(k)
  <2>1. y \in 0..255
    BY OrXorBytes
  <2> HIDE DEF y
  <2>2. y \in 0..255 /\ y \in Nat
    BY <2>1
  <2> QED
    BY <2>2 DEF y
<1> HIDE DEF n
<1>4. b \in [1..n -> 0..255] /\ b \in [1..n -> Nat]
  <2> HIDE DEF x
  <2> QED
    BY <1>3
<1> HIDE DEF b
<1>5. b \in Seq(0..255) /\ b \in Seq(Nat) /\ Len(b) = n
  BY <1>1, <1>4, ArraySeq
<1> QED
  BY <1>2, <1>5 DEF n

LEMMA ElementOf == ASSUME NEW S, NEW s \in Seq(S) PROVE \A k \in 1..Len(s) : s[k] \in S
  OBVIOUS

LEMMA MaskedTwice ==
  ASSUME NEW bytes \in Seq(0..255), NEW v
  PROVE  Masked(Masked(bytes, v), v) = bytes
<1> DEFINE n == Len(bytes)
           mask == BigEndian(v, 8 * n)
           b == Masked(bytes, v)
           c == Masked(b, v)
<1>1. DOMAIN bytes = 1..n /\ b \in Seq(0..255) /\ Len(b) = n /\ c \in Seq(0..255) /\ Len(c) = n
  BY MaskedBytes
<1>2. \A k \in 1..n : b[k] = XorByte(bytes[k], mask[k])
  BY <1>1 DEF Masked
<1> HIDE DEF b
<1>3. \A k \in 1..n : c[k] = XorByte(b[k], mask[k])
  <2>1. DOMAIN b = 1..n /\ Len(b) = n
    BY <1>1
  <2> QED
    BY <2>1 DEF Masked
<1> HIDE DEF c, mask
<1>4. \A k \in 1..n : c[k] = bytes[k]
  <2>1. \A k \in 1..n : bytes[k] \in 0..255
    BY ElementOf
  <2> QED
    BY <1>2, <1>3, <2>1, XorTwice
<1> HIDE DEF n
<1>5. c = bytes
  BY <1>1, <1>4 DEF n
<1> QED
  BY <1>5 DEF b, c

Pow(k) == 2^k

LEMMA Pows ==
  /\ Pow(0) = 1 /\ Pow(1) = 2 /\ Pow(2) = 4 /\ Pow(3) = 8 /\ Pow(4) = 16
  /\ Pow(5) = 32 /\ Pow(6) = 64 /\ Pow(7) = 128 /\ Pow(8) = 256
  /\ \A k \in 0..8 : Pow(k) \in 1..256
  /\ \A v, k : Bit(v, k) <=> (v \div Pow(k)) % 2 = 1
<1>1. /\ Pow(0) = 1 /\ Pow(1) = 2 /\ Pow(2) = 4 /\ Pow(3) = 8 /\ Pow(4) = 16
      /\ Pow(5) = 32 /\ Pow(6) = 64 /\ Pow(7) = 128 /\ Pow(8) = 256
  BY Powers DEF Pow
<1>2. \A k \in 0..8 : Pow(k) \in 1..256
  BY Powers DEF Pow
<1>3. \A v, k : Bit(v, k) <=> (v \div Pow(k)) % 2 = 1
  BY DEF Pow, Bit
<1> QED
  BY <1>1, <1>2, <1>3

(* Or of bits that do not overlap is their sum.                            *)
LEMMA ClearBelow ==
  ASSUME NEW t \in Nat, NEW m \in 0..8, t % Pow(m) = 0, NEW k \in 0..7, k < m
  PROVE  ~Bit(t, k)
<1>0. /\ Bit(t, 0) <=> t % 2 = 1
      /\ Bit(t, 1) <=> (t \div 2) % 2 = 1
      /\ Bit(t, 2) <=> (t \div 4) % 2 = 1
      /\ Bit(t, 3) <=> (t \div 8) % 2 = 1
      /\ Bit(t, 4) <=> (t \div 16) % 2 = 1
      /\ Bit(t, 5) <=> (t \div 32) % 2 = 1
      /\ Bit(t, 6) <=> (t \div 64) % 2 = 1
      /\ Bit(t, 7) <=> (t \div 128) % 2 = 1
  <2>1. t \div 1 = t
    OBVIOUS
  <2> QED
    BY <2>1, Pows
<1>1. m \in {1, 2, 3, 4, 5, 6, 7, 8} /\ k \in {0, 1, 2, 3, 4, 5, 6, 7}
  OBVIOUS
<1>2. CASE m = 1
  <2>1. t % 2 = 0
    BY <1>2, Pows
  <2>2. t % 2 = 0
    BY <2>1
  <2>3. k \in {0}
    BY <1>1, <1>2
  <2>4. /\ ~Bit(t, 0)
    BY <2>2, <1>0
  <2> QED
    BY <2>3, <2>4
<1>3. CASE m = 2
  <2>1. t % 4 = 0
    BY <1>3, Pows
  <2>2. t % 2 = 0 /\ (t \div 2) % 2 = 0
    BY <2>1
  <2>3. k \in {0, 1}
    BY <1>1, <1>3
  <2>4. /\ ~Bit(t, 0)
        /\ ~Bit(t, 1)
    BY <2>2, <1>0
  <2> QED
    BY <2>3, <2>4
<1>4. CASE m = 3
  <2>1. t % 8 = 0
    BY <1>4, Pows
  <2>2. t % 2 = 0 /\ (t \div 2) % 2 = 0 /\ (t \div 4) % 2 = 0
    BY <2>1
  <2>3. k \in {0, 1, 2}
    BY <1>1, <1>4
  <2>4. /\ ~Bit(t, 0)
        /\ ~Bit(t, 1)
        /\ ~Bit(t, 2)
    BY <2>2, <1>0
  <2> QED
    BY <2>3, <2>4
<1>5. CASE m = 4
  <2>1. t % 16 = 0
    BY <1>5, Pows
  <2>2. t % 2 = 0 /\ (t \div 2) % 2 = 0 /\ (t \div 4) % 2 = 0 /\ (t \div 8) % 2 = 0
    BY <2>1
  <2>3. k \in {0, 1, 2, 3}
    BY <1>1, <1>5
  <2>4. /\ ~Bit(t, 0)
        /\ ~Bit(t, 1)
        /\ ~Bit(t, 2)
        /\ ~Bit(t, 3)
    BY <2>2, <1>0
  <2> QED
    BY <2>3, <2>4
<1>6. CASE m = 5
  <2>1. t % 32 = 0
    BY <1>6, Pows
  <2>2. t % 2 = 0 /\ (t \div 2) % 2 = 0 /\ (t \div 4) % 2 = 0 /\ (t \div 8) % 2 = 0 /\ (t \div 16) % 2 = 0
    BY <2>1
  <2>3. k \in {0, 1, 2, 3, 4}
    BY <1>1, <1>6
  <2>4. /\ ~Bit(t, 0)
        /\ ~Bit(t, 1)
        /\ ~Bit(t, 2)
        /\ ~Bit(t, 3)
        /\ ~Bit(t, 4)
    BY <2>2, <1>0
  <2> QED
    BY <2>3, <2>4
<1>7. CASE m = 6
  <2>1. t % 64 = 0
    BY <1>7, Pows
  <2>2. t % 2 = 0 /\ (t \div 2) % 2 = 0 /\ (t \div 4) % 2 = 0 /\ (t \div 8) % 2 = 0 /\ (t \div 16) % 2 = 0 /\ (t \div 32) % 2 = 0
    BY <2>1
  <2>3. k \in {0, 1, 2, 3, 4, 5}
    BY <1>1, <1>7
  <2>4. /\ ~Bit(t, 0)
        /\ ~Bit(t, 1)
        /\ ~Bit(t, 2)
        /\ ~Bit(t, 3)
        /\ ~Bit(t, 4)
        /\ ~Bit(t, 5)
    BY <2>2, <1>0
  <2> QED
    BY <2>3, <2>4
<1>8. CASE m = 7
  <2>1. t % 128 = 0
    BY <1>8, Pows
  <2>2. t % 2 = 0 /\ (t \div 2) % 2 = 0 /\ (t \div 4) % 2 = 0 /\ (t \div 8) % 2 = 0 /\ (t \div 16) % 2 = 0 /\ (t \div 32) % 2 = 0 /\ (t \div 64) % 2 = 0
    BY <2>1
  <2>3. k \in {0, 1, 2, 3, 4, 5, 6}
    BY <1>1, <1>8
  <2>4. /\ ~Bit(t, 0)
        /\ ~Bit(t, 1)
        /\ ~Bit(t, 2)
        /\ ~Bit(t, 3)
        /\ ~Bit(t, 4)
        /\ ~Bit(t, 5)
        /\ ~Bit(t, 6)
    BY <2>2, <1>0
  <2> QED
    BY <2>3, <2>4
<1>9. CASE m = 8
  <2>1. t % 256 = 0
    BY <1>9, Pows
  <2>2. t % 2 = 0 /\ (t \div 2) % 2 = 0 /\ (t \div 4) % 2 = 0 /\ (t \div 8) % 2 = 0 /\ (t \div 16) % 2 = 0 /\ (t \div 32) % 2 = 0 /\ (t \div 64) % 2 = 0 /\ (t \div 128) % 2 = 0
    BY <2>1
  <2>3. k \in {0, 1, 2, 3, 4, 5, 6, 7}
    BY <1>1, <1>9
  <2>4. /\ ~Bit(t, 0)
        /\ ~Bit(t, 1)
        /\ ~Bit(t, 2)
        /\ ~Bit(t, 3)
        /\ ~Bit(t, 4)
        /\ ~Bit(t, 5)
        /\ ~Bit(t, 6)
        /\ ~Bit(t, 7)
    BY <2>2, <1>0
  <2> QED
    BY <2>3, <2>4
<1> QED
  BY <1>1, <1>2, <1>3, <1>4, <1>5, <1>6, <1>7, <1>8, <1>9

LEMMA ClearAbove ==
  ASSUME NEW y \in Nat, NEW m \in 0..8, y < Pow(m), NEW k \in 0..7, m <= k
  PROVE  ~Bit(y, k)
<1> DEFINE p == Pow(k)
<1>1. m \in {0, 1, 2, 3, 4, 5, 6, 7} /\ k \in {0, 1, 2, 3, 4, 5, 6, 7} /\ k \in 0..8
  OBVIOUS
<1>2. p \in 1..256 /\ y < p
  BY <1>1, Pows
<1>3. Bit(y, k) <=> (y \div p) % 2 = 1
  BY Pows
<1> HIDE DEF p
<1>4. y \div p = 0
  BY <1>2
<1> QED
  BY <1>3, <1>4

LEMMA BytesAdd ==
  ASSUME NEW b, NEW c, NEW o, \A k \in 0..7 : b[k] \in {0, 1} /\ c[k] \in {0, 1} /\ o[k] = b[k] + c[k]
  PROVE  Byte(o) = Byte(b) + Byte(c)
<1> DEFINE b0 == b[0]
           b1 == b[1]
           b2 == b[2]
           b3 == b[3]
           b4 == b[4]
           b5 == b[5]
           b6 == b[6]
           b7 == b[7]
           c0 == c[0]
           c1 == c[1]
           c2 == c[2]
           c3 == c[3]
           c4 == c[4]
           c5 == c[5]
           c6 == c[6]
           c7 == c[7]
<1>1. /\ b0 \in Nat /\ c0 \in Nat /\ o[0] = b0 + c0
      /\ b1 \in Nat /\ c1 \in Nat /\ o[1] = b1 + c1
      /\ b2 \in Nat /\ c2 \in Nat /\ o[2] = b2 + c2
      /\ b3 \in Nat /\ c3 \in Nat /\ o[3] = b3 + c3
      /\ b4 \in Nat /\ c4 \in Nat /\ o[4] = b4 + c4
      /\ b5 \in Nat /\ c5 \in Nat /\ o[5] = b5 + c5
      /\ b6 \in Nat /\ c6 \in Nat /\ o[6] = b6 + c6
      /\ b7 \in Nat /\ c7 \in Nat /\ o[7] = b7 + c7
  <2>1. \A k \in 0..7 : b[k] \in Nat /\ c[k] \in Nat /\ o[k] = b[k] + c[k]
    OBVIOUS
  <2>2. 0 \in 0..7 /\ 1 \in 0..7 /\ 2 \in 0..7 /\ 3 \in 0..7 /\ 4 \in 0..7 /\ 5 \in 0..7 /\ 6 \in 0..7 /\ 7 \in 0..7
    OBVIOUS
  <2>3. b0 \in Nat /\ c0 \in Nat /\ o[0] = b0 + c0
    BY <2>1, <2>2
  <2>4. b1 \in Nat /\ c1 \in Nat /\ o[1] = b1 + c1
    BY <2>1, <2>2
  <2>5. b2 \in Nat /\ c2 \in Nat /\ o[2] = b2 + c2
    BY <2>1, <2>2
  <2>6. b3 \in Nat /\ c3 \in Nat /\ o[3] = b3 + c3
    BY <2>1, <2>2
  <2>7. b4 \in Nat /\ c4 \in Nat /\ o[4] = b4 + c4
    BY <2>1, <2>2
  <2>8. b5 \in Nat /\ c5 \in Nat /\ o[5] = b5 + c5
    BY <2>1, <2>2
  <2>9. b6 \in Nat /\ c6 \in Nat /\ o[6] = b6 + c6
    BY <2>1, <2>2
  <2>10. b7 \in Nat /\ c7 \in Nat /\ o[7] = b7 + c7
    BY <2>1, <2>2
  <2> QED
    BY <2>3, <2>4, <2>5, <2>6, <2>7, <2>8, <2>9, <2>10
<1>2. /\ Byte(b) = b0 + 2*b1 + 4*b2 + 8*b3 + 16*b4 + 32*b5 + 64*b6 + 128*b7
      /\ Byte(c) = c0 + 2*c1 + 4*c2 + 8*c3 + 16*c4 + 32*c5 + 64*c6 + 128*c7
  BY DEF Byte
<1> HIDE DEF b0, b1, b2, b3, b4, b5, b6, b7, c0, c1, c2, c3, c4, c5, c6, c7
<1> QED
  BY <1>1, <1>2 DEF Byte

LEMMA OrAdds ==
  ASSUME NEW t \in 0..255, NEW y \in 0..255, NEW m \in 0..8, t % Pow(m) = 0, y < Pow(m)
  PROVE  OrByte(t, y) = t + y
<1> DEFINE b == BitsOf(t)
           c == BitsOf(y)
           o == [k \in 0..7 |-> IF Bit(t, k) \/ Bit(y, k) THEN 1 ELSE 0]
<1>1. \A k \in 0..7 : ~Bit(t, k) \/ ~Bit(y, k)
  <2> TAKE k \in 0..7
  <2>0. t \in Nat /\ y \in Nat /\ m \in Int
    OBVIOUS
  <2>1. CASE k < m
    BY <2>0, <2>1, ClearBelow
  <2>2. CASE m <= k
    BY <2>0, <2>2, ClearAbove
  <2> QED
    BY <2>1, <2>2
<1>2. \A k \in 0..7 : b[k] \in {0, 1} /\ c[k] \in {0, 1} /\ o[k] = b[k] + c[k]
  BY <1>1 DEF BitsOf
<1> HIDE DEF o
<1>3. Byte(o) = Byte(b) + Byte(c)
  <2> HIDE DEF b, c
  <2> QED
    BY <1>2, BytesAdd
<1>4. Byte(b) = t % 256 /\ Byte(c) = y % 256
  BY ByteOfBits
<1>5. t % 256 = t /\ y % 256 = y
  OBVIOUS
<1>6. OrByte(t, y) = Byte(o)
  BY DEF OrByte, o
<1> QED
  BY <1>3, <1>4, <1>5, <1>6

(* The number of the big-endian bytes of v is v, if v fits in them.        *)
LEMMA NumberOfBytes ==
  ASSUME NEW v \in Nat, NEW w \in Widths, High(v, w \div 8) = 0
  PROVE  Number(BigEndian(v, w)) = v
<1> DEFINE n == w \div 8
           b == BigEndian(v, w)
<1>1. n \in 1..8 /\ Len(b) = n /\ High(v, n) = 0
  BY BigEndianBytes
<1>2. \A k \in 1..n : b[k] = High(v, n - k) % 256
  BY DEF BigEndian
<1> HIDE DEF b, n
<1>3. PICK g : Counts(g, b) /\ Number(b) = g[n]
  <2>1. Len(b) \in Nat
    BY <1>1
  <2> QED
    BY <1>1, <2>1, NumberCounts
<1> DEFINE T == {k \in Nat : k <= n => g[k] = High(v, n - k)}
<1>4. 0 \in T
  <2>1. n - 0 = n
    BY <1>1
  <2>2. g[0] = High(v, n - 0)
    BY <1>1, <1>3, <2>1 DEF Counts
  <2> QED
    BY <2>2
<1>5. ASSUME NEW k \in Nat, k \in T PROVE k + 1 \in T
  <2>1. SUFFICES ASSUME k + 1 <= n PROVE g[k + 1] = High(v, n - (k + 1))
    OBVIOUS
  <2> DEFINE j == k + 1
             m == n - j
             h == High(v, m)
  <2>2. j \in 1..n /\ j - 1 = k /\ m \in Nat /\ m + 1 = n - k /\ k <= n
    BY <1>1, <2>1
  <2>3. g[k] = High(v, n - k)
    BY <1>5, <2>2
  <2> HIDE DEF j, m
  <2>4. High(v, m + 1) = h \div 256 /\ h \in Nat
    <3>1. m \in Nat
      BY <2>2
    <3>2. High(v, m + 1) = High(v, m) \div 256
      BY <3>1, HighStep
    <3>3. High(v, m) \in Nat
      BY <3>1, HighNat
    <3> QED
      BY <3>2, <3>3
  <2>5. b[j] = h % 256
    BY <1>2, <2>2 DEF m
  <2>6. g[j] = g[k] * 256 + b[j]
    BY <1>1, <1>3, <2>2 DEF Counts
  <2>7. g[k] = h \div 256
    BY <2>2, <2>3, <2>4
  <2> HIDE DEF h
  <2>8. g[j] = h
    BY <2>4, <2>5, <2>6, <2>7
  <2> QED
    BY <2>8 DEF h, j, m
<1>6. \A k \in Nat : k \in T
  <2> HIDE DEF T
  <2>1. Nat \subseteq T
    BY <1>4, <1>5, SetInduction
  <2> QED
    BY <2>1
<1>7. n \in Nat /\ n <= n /\ n - n = 0
  BY <1>1
<1>8. g[n] = High(v, 0)
  BY <1>6, <1>7
<1> QED
  BY <1>3, <1>8, HighStep DEF b

Powers2 == {1, 2, 4, 8, 16, 32, 64, 128, 256}

LEMMA PowSum ==
  ASSUME NEW s \in 0..7, NEW w \in 1..7, s + w <= 8
  PROVE  Pow(s) \in Powers2 /\ Pow(w) \in Powers2 /\ Pow(s + w) \in Powers2 /\ Pow(s + w) = Pow(s) * Pow(w)
<1>1. s \in {0, 1, 2, 3, 4, 5, 6, 7} /\ w \in {1, 2, 3, 4, 5, 6, 7}
  OBVIOUS
<1>2. CASE s = 0
  <2>1. w \in {1, 2, 3, 4, 5, 6, 7}
    BY <1>1, <1>2
  <2>2. /\ 0 + 1 = 1 /\ 1 * 2 = 2
        /\ 0 + 2 = 2 /\ 1 * 4 = 4
        /\ 0 + 3 = 3 /\ 1 * 8 = 8
        /\ 0 + 4 = 4 /\ 1 * 16 = 16
        /\ 0 + 5 = 5 /\ 1 * 32 = 32
        /\ 0 + 6 = 6 /\ 1 * 64 = 64
        /\ 0 + 7 = 7 /\ 1 * 128 = 128
    OBVIOUS
  <2> QED
    BY <1>2, <2>1, <2>2, Pows DEF Powers2
<1>3. CASE s = 1
  <2>1. w \in {1, 2, 3, 4, 5, 6, 7}
    BY <1>1, <1>3
  <2>2. /\ 1 + 1 = 2 /\ 2 * 2 = 4
        /\ 1 + 2 = 3 /\ 2 * 4 = 8
        /\ 1 + 3 = 4 /\ 2 * 8 = 16
        /\ 1 + 4 = 5 /\ 2 * 16 = 32
        /\ 1 + 5 = 6 /\ 2 * 32 = 64
        /\ 1 + 6 = 7 /\ 2 * 64 = 128
        /\ 1 + 7 = 8 /\ 2 * 128 = 256
    OBVIOUS
  <2> QED
    BY <1>3, <2>1, <2>2, Pows DEF Powers2
<1>4. CASE s = 2
  <2>1. w \in {1, 2, 3, 4, 5, 6}
    BY <1>1, <1>4
  <2>2. /\ 2 + 1 = 3 /\ 4 * 2 = 8
        /\ 2 + 2 = 4 /\ 4 * 4 = 16
        /\ 2 + 3 = 5 /\ 4 * 8 = 32
        /\ 2 + 4 = 6 /\ 4 * 16 = 64
        /\ 2 + 5 = 7 /\ 4 * 32 = 128
        /\ 2 + 6 = 8 /\ 4 * 64 = 256
    OBVIOUS
  <2> QED
    BY <1>4, <2>1, <2>2, Pows DEF Powers2
<1>5. CASE s = 3
  <2>1. w \in {1, 2, 3, 4, 5}
    BY <1>1, <1>5
  <2>2. /\ 3 + 1 = 4 /\ 8 * 2 = 16
        /\ 3 + 2 = 5 /\ 8 * 4 = 32
        /\ 3 + 3 = 6 /\ 8 * 8 = 64
        /\ 3 + 4 = 7 /\ 8 * 16 = 128
        /\ 3 + 5 = 8 /\ 8 * 32 = 256
    OBVIOUS
  <2> QED
    BY <1>5, <2>1, <2>2, Pows DEF Powers2
<1>6. CASE s = 4
  <2>1. w \in {1, 2, 3, 4}
    BY <1>1, <1>6
  <2>2. /\ 4 + 1 = 5 /\ 16 * 2 = 32
        /\ 4 + 2 = 6 /\ 16 * 4 = 64
        /\ 4 + 3 = 7 /\ 16 * 8 = 128
        /\ 4 + 4 = 8 /\ 16 * 16 = 256
    OBVIOUS
  <2> QED
    BY <1>6, <2>1, <2>2, Pows DEF Powers2
<1>7. CASE s = 5
  <2>1. w \in {1, 2, 3}
    BY <1>1, <1>7
  <2>2. /\ 5 + 1 = 6 /\ 32 * 2 = 64
        /\ 5 + 2 = 7 /\ 32 * 4 = 128
        /\ 5 + 3 = 8 /\ 32 * 8 = 256
    OBVIOUS
  <2> QED
    BY <1>7, <2>1, <2>2, Pows DEF Powers2
<1>8. CASE s = 6
  <2>1. w \in {1, 2}
    BY <1>1, <1>8
  <2>2. /\ 6 + 1 = 7 /\ 64 * 2 = 128
        /\ 6 + 2 = 8 /\ 64 * 4 = 256
    OBVIOUS
  <2> QED
    BY <1>8, <2>1, <2>2, Pows DEF Powers2
<1>9. CASE s = 7
  <2>1. w \in {1}
    BY <1>1, <1>9
  <2>2. /\ 7 + 1 = 8 /\ 128 * 2 = 256
    OBVIOUS
  <2> QED
    BY <1>9, <2>1, <2>2, Pows DEF Powers2
<1> QED
  BY <1>1, <1>2, <1>3, <1>4, <1>5, <1>6, <1>7, <1>8, <1>9

LEMMA DivMod ==
  ASSUME NEW p \in Powers2
  PROVE  /\ \A u \in Nat, r \in 0..p-1 : (p * u + r) \div p = u /\ (p * u + r) % p = r
         /\ \A t \in Nat : t = p * (t \div p) + (t % p) /\ t \div p \in Nat /\ t % p \in 0..p-1
<1>1. CASE p = 1
  BY <1>1
<1>2. CASE p = 2
  BY <1>2
<1>3. CASE p = 4
  BY <1>3
<1>4. CASE p = 8
  BY <1>4
<1>5. CASE p = 16
  BY <1>5
<1>6. CASE p = 32
  BY <1>6
<1>7. CASE p = 64
  BY <1>7
<1>8. CASE p = 128
  BY <1>8
<1>9. CASE p = 256
  BY <1>9
<1> QED
  BY <1>1, <1>2, <1>3, <1>4, <1>5, <1>6, <1>7, <1>8, <1>9 DEF Powers2

(* w bits at bit s of a byte, above lower bits.                            *)
Slot(s, w, v, lo) ==
  /\ v * Pow(s) + lo \in 0..Pow(s + w)-1 /\ v * Pow(s) \in 0..Pow(s + w)-1
  /\ Pow(s + w) \in 1..256 /\ Pow(s) \in 1..128
  /\ v % Pow(w) = v
  /\ \A t \in 0..255 : t % Pow(s + w) = v * Pow(s) + lo =>
       (t \div Pow(s)) % Pow(w) = v /\ t % Pow(s) = lo
  /\ \A t \in 0..255 : t % Pow(s + w) = 0 =>
       /\ t + v * Pow(s) \in 0..255 /\ (t + v * Pow(s)) % Pow(s) = 0
       /\ t + v * Pow(s) + lo \in 0..255

LEMMA Slots ==
  ASSUME NEW s \in 0..7, NEW w \in 1..7, s + w <= 8, NEW v \in Nat, v < Pow(w), NEW lo \in 0..Pow(s)-1
  PROVE  Slot(s, w, v, lo)
<1> DEFINE p == Pow(s)
           q == Pow(w)
           r == Pow(s + w)
<1>1. p \in Powers2 /\ q \in Powers2 /\ r \in Powers2 /\ r = p * q
  BY PowSum
<1>2. p \in 1..128
  <2>1. s \in {0, 1, 2, 3, 4, 5, 6, 7}
    OBVIOUS
  <2> QED
    BY <2>1, Pows
<1>3. v < q /\ lo \in 0..p-1
  OBVIOUS
<1> HIDE DEF p, q, r
<1>4. p \in 1..256 /\ q \in 1..256 /\ r \in 1..256
  BY <1>1 DEF Powers2
<1>5. v * p + lo \in 0..r-1 /\ v * p \in 0..r-1
  <2>1. v * p \in Nat /\ (q - 1) * p = r - p
    BY <1>1, <1>4
  <2>2. v * p <= (q - 1) * p
    <3>1. v <= q - 1
      BY <1>3, <1>4
    <3>2. \A a, b, c \in Nat : a <= b => a * c <= b * c
      OBVIOUS
    <3>3. q - 1 \in Nat /\ p \in Nat
      BY <1>4
    <3> QED
      BY <3>1, <3>2, <3>3
  <2> DEFINE x == v * p
             y == (q - 1) * p
  <2> HIDE DEF x, y
  <2>3. x \in Nat /\ y = r - p /\ x <= y
    BY <2>1, <2>2 DEF x, y
  <2>4. x + lo \in 0..r-1 /\ x \in 0..r-1
    BY <1>3, <1>4, <2>3
  <2> QED
    BY <2>4 DEF x
<1>6. v % q = v
  <2>1. \A u \in Nat, z \in 0..q-1 : (q * u + z) % q = z
    BY <1>1, DivMod
  <2>2. v \in 0..q-1 /\ 0 \in Nat /\ q * 0 + v = v
    BY <1>3, <1>4
  <2> QED
    BY <2>1, <2>2
<1>20. \A t \in Nat : t = r * (t \div r) + (t % r) /\ t \div r \in Nat
  BY <1>1, DivMod
<1>21. \A u \in Nat, z \in 0..p-1 : (p * u + z) \div p = u /\ (p * u + z) % p = z
  BY <1>1, DivMod
<1>22. \A u \in Nat, z \in 0..q-1 : (q * u + z) % q = z
  BY <1>1, DivMod
<1>23. \A u \in Nat : r * u + v * p = p * (q * u + v) /\ q * u + v \in Nat /\ v \in 0..q-1
  <2> TAKE u \in Nat
  <2>1. r * u = p * (q * u)
    BY <1>1, <1>4
  <2> DEFINE d == q * u
  <2>2. d \in Nat
    BY <1>4
  <2> HIDE DEF d
  <2>3. p * (d + v) = p * d + v * p
    BY <1>4, <2>2
  <2> QED
    BY <1>3, <1>4, <2>1, <2>2, <2>3 DEF d
<1>24. 0..255 \subseteq Nat
  OBVIOUS
<1>7. ASSUME NEW t \in 0..255, t % r = v * p + lo PROVE (t \div p) % q = v /\ t % p = lo
  <2> DEFINE u == t \div r
             z == q * u + v
  <2>1. u \in Nat /\ t = r * u + (v * p + lo)
    BY <1>7, <1>20, <1>24
  <2>2. t = p * z + lo /\ z \in Nat
    <3>1. r * u + v * p = p * z /\ z \in Nat
      BY <1>23, <2>1
    <3> DEFINE a == r * u
               b == v * p
               c == p * z
    <3>3. a \in Nat /\ b \in Nat /\ c \in Nat
      BY <1>4, <2>1, <3>1
    <3> HIDE DEF a, b, c, z, u
    <3>4. t = a + (b + lo) /\ c = a + b
      BY <2>1, <3>1 DEF a, b, c
    <3>5. t = c + lo
      BY <1>3, <1>4, <3>3, <3>4
    <3> QED
      BY <3>1, <3>5 DEF c
  <2>4. z % q = v
    BY <1>22, <1>23, <2>1
  <2> HIDE DEF z
  <2>5. t \div p = z /\ t % p = lo
    BY <1>3, <1>21, <2>2
  <2> QED
    BY <2>4, <2>5
<1>8. ASSUME NEW t \in 0..255, t % r = 0
      PROVE  t + v * p \in 0..255 /\ (t + v * p) % p = 0 /\ t + v * p + lo \in 0..255
  <2> DEFINE u == t \div r
             x == v * p
             z == q * u + v
  <2>1. u \in Nat /\ t = r * u + 0
    BY <1>8, <1>20, <1>24
  <2>2. t = r * u /\ r * u \in Nat
    <3> DEFINE a == r * u
    <3>1. a \in Nat
      BY <1>4, <2>1
    <3> HIDE DEF a, u
    <3>2. t = a + 0
      BY <2>1 DEF a
    <3> QED
      BY <3>1, <3>2 DEF a
  <2>3. x + lo \in 0..r-1 /\ x \in 0..r-1
    BY <1>5
  <2>4. t + x = p * z + 0 /\ z \in Nat
    <3>1. r * u + v * p = p * z /\ z \in Nat
      BY <1>23, <2>1
    <3> DEFINE a == r * u
               c == p * z
    <3>2. c \in Nat
      BY <1>4, <3>1
    <3> HIDE DEF a, c, x, z, u
    <3>3. t = a /\ a + x = c
      BY <2>2, <3>1 DEF a, c, x
    <3>4. t + x = c + 0
      BY <3>2, <3>3
    <3> QED
      BY <3>1, <3>4 DEF c
  <2>5. (t + x) % p = 0
    <3>1. 0 \in 0..p-1
      BY <1>2
    <3> HIDE DEF z, x
    <3>2. (p * z + 0) % p = 0
      BY <1>21, <2>4, <3>1
    <3> QED
      BY <2>4, <3>2
  <2> HIDE DEF x, u, z
  <2>6. t + r <= 256
    <3>1. CASE r = 1
      BY <3>1
    <3>2. CASE r = 2
      BY <2>1, <2>2, <3>2
    <3>3. CASE r = 4
      BY <2>1, <2>2, <3>3
    <3>4. CASE r = 8
      BY <2>1, <2>2, <3>4
    <3>5. CASE r = 16
      BY <2>1, <2>2, <3>5
    <3>6. CASE r = 32
      BY <2>1, <2>2, <3>6
    <3>7. CASE r = 64
      BY <2>1, <2>2, <3>7
    <3>8. CASE r = 128
      BY <2>1, <2>2, <3>8
    <3>9. CASE r = 256
      BY <2>1, <2>2, <3>9
    <3> QED
      BY <1>1, <3>1, <3>2, <3>3, <3>4, <3>5, <3>6, <3>7, <3>8, <3>9 DEF Powers2
  <2>7. t + x \in 0..255 /\ t + x + lo \in 0..255
    BY <1>3, <1>4, <2>3, <2>6
  <2> QED
    BY <2>5, <2>7 DEF x
<1> QED
  BY <1>2, <1>4, <1>5, <1>6, <1>7, <1>8 DEF p, q, r, Slot

-----------------------------------------------------------------------------
(* What the clamps, checks and limits passed so far say of the message.    *)
Done(w, i, st) == IF st = "end" \/ (w = "encode" /\ st \in {"unit", "after"}) THEN i ELSE i - 1

Under(f, m) == Bounded(f) /\ f.max # NoName => m[f.name] <= Consts[f.max]
Capped(m, n) == \A j \in 1..n : Under(fields[j], m)

Satisfies(f, m) ==
  IsIntType(f.type) /\ Present(f, m) =>
    /\ f.max # NoName /\ ~IsBitType(f.type) => m[f.name] <= Consts[f.max]
    /\ f.equ # NoName /\ (f.max = NoName \/ IsBitType(f.type)) => m[f.name] = Consts[f.equ]
Valid(m, n) == Conditions => \A j \in 1..n : Satisfies(fields[j], m)

Weak(w, i, st, k, c, m) ==
  /\ Capped(m, Done(w, i, st))
  /\ w = "decode" => Valid(m, Done(w, i, st))
  /\ st = "elems" /\ LimitsBounded => c <= Size(fields[i])

(* A condition that is generated is on an integer.                         *)
LEMMA ConditionOk ==
  ASSUME Settled, Compiles, NEW i \in 1..Len(fields), ~IsBitType(fields[i].type), fields[i].existIf # NoName
  PROVE  LET c == FieldNamed(fields[i].existIf)
         IN  /\ c \in 1..Len(fields) /\ fields[c].name = fields[i].existIf
             /\ IsIntType(fields[c].type) /\ fields[c].type.k = "prim"
<1> DEFINE e == fields[i].existIf
<1>1. DOMAIN fields = 1..Len(fields)
  BY Shape DEF Settled, GenInv, IInv
<1>2. ~Grouped(i, O)
  BY SettledField
<1>3. Integer(This(e))
  BY <1>2, BodyOk DEF Codec
<1>4. PICK g \in Range(fields) : g.name = e /\ IsIntType(g.type)
  BY <1>3 DEF Integer, This
<1>5. PICK j \in 1..Len(fields) : fields[j] = g
  BY <1>1, <1>4 DEF Range
<1>6. FieldNamed(e) = j
  BY <1>4, <1>5, FieldByName
<1> QED
  BY <1>4, <1>5, <1>6 DEF IsIntType

LEMMA WeakStep ==
  ASSUME Settled, Compiles, NEW w \in Codec, NEW i \in 1..Len(fields), NEW st, NEW k, NEW c,
         NEW m, Typed(m), Weak(w, i, st, k, c, m),
         NEW n, n = m \/ \E v \in ValuesOf(fields[i]) : n = [m EXCEPT ![fields[i].name] = v]
  PROVE  /\ Typed(n) /\ Capped(n, i - 1) /\ (w = "decode" => Valid(n, i - 1))
         /\ Under(fields[i], n) => Capped(n, i)
         /\ w = "decode" /\ Satisfies(fields[i], n) => Valid(n, i)
<1>1. Typed(n) /\ \A j \in 1..Len(fields) : j # i => n[fields[j].name] = m[fields[j].name]
  <2>1. CASE n = m
    BY <2>1
  <2>2. CASE n # m
    <3>1. PICK v \in ValuesOf(fields[i]) : n = [m EXCEPT ![fields[i].name] = v]
      BY <2>2
    <3>2. Changed(n, m, i, v)
      BY <3>1 DEF Changed
    <3>3. Replaced(n, m, i, v)
      BY <3>2, TypedPut
    <3> QED
      BY <3>3 DEF Replaced
  <2> QED
    BY <2>1, <2>2
<1>2. i - 1 \in Nat /\ (\A j \in 1..i-1 : j \in 1..Len(fields) /\ j # i) /\ \A j \in 1..i : j \in 1..i-1 \/ j = i
  OBVIOUS
<1>3. Done(w, i, st) \in {i - 1, i}
  BY DEF Done
<1>4. \A j \in 1..i-1 : Under(fields[j], m)
  BY <1>2, <1>3 DEF Weak, Capped
<1>5. Capped(n, i - 1)
  BY <1>1, <1>2, <1>4 DEF Capped, Under
<1>6. ASSUME w = "decode", Conditions PROVE \A j \in 1..i-1 : Satisfies(fields[j], n)
  <2>1. SUFFICES ASSUME NEW j \in 1..i-1 PROVE Satisfies(fields[j], n)
    OBVIOUS
  <2>2. Satisfies(fields[j], m)
    BY <1>3, <1>6 DEF Weak, Valid
  <2>3. n[fields[j].name] = m[fields[j].name] /\ j \in 1..Len(fields)
    BY <1>1, <1>2
  <2>4. Present(fields[j], n) => Present(fields[j], m)
    <3>1. CASE fields[j].existIf = NoName \/ IsBitType(fields[j].type)
      BY <3>1 DEF Present
    <3>2. CASE ~(fields[j].existIf = NoName \/ IsBitType(fields[j].type))
      <4> DEFINE e == FieldNamed(fields[j].existIf)
      <4>1. e \in 1..Len(fields) /\ fields[e].name = fields[j].existIf
        BY <2>3, <3>2, ConditionOk
      <4>2. e < j
        <5>1. DOMAIN fields = 1..Len(fields)
          BY Shape DEF Settled, GenInv, IInv
        <5> QED
          BY <1>6, <2>3, <3>2, <5>1 DEF Conditions
      <4>3. e # i
        BY <4>1, <4>2
      <4>4. n[fields[j].existIf] = m[fields[j].existIf]
        BY <1>1, <4>1, <4>3
      <4> QED
        BY <4>4 DEF Present
    <3> QED
      BY <3>1, <3>2
  <2> QED
    BY <2>2, <2>3, <2>4 DEF Satisfies
<1>7. w = "decode" => Valid(n, i - 1)
  BY <1>6 DEF Valid
<1>8. Under(fields[i], n) => Capped(n, i)
  BY <1>2, <1>5 DEF Capped
<1>9. w = "decode" /\ Satisfies(fields[i], n) => Valid(n, i)
  BY <1>2, <1>7 DEF Valid
<1> QED
  BY <1>1, <1>5, <1>7, <1>8, <1>9

(* Fields that are not integers of whole bytes have no max.                *)
LEMMA NoBound ==
  ASSUME Settled, NEW i \in 1..Len(fields), NEW m
  PROVE  /\ Grouped(i, O) \/ fields[i].type.k # "prim" \/ fields[i].existIf # NoName => Under(fields[i], m)
         /\ fields[i].type.k # "prim" => Satisfies(fields[i], m)
<1>1. Grouped(i, O) => IsBitType(fields[i].type)
  BY SettledField
<1> QED
  BY <1>1 DEF Under, Bounded, Satisfies, IsIntType

(* Steps that write no statement.                                          *)
LEMMA WeakSilent ==
  ASSUME Settled, Compiles, NEW w \in Codec, NEW m, Typed(m), NEW i \in 0..Len(fields)
  PROVE  /\ \A k, c : Weak(w, i, "end", k, c, m) /\ i # Len(fields) => Weak(w, i + 1, "all", 0, 0, m)
         /\ \A k, c : Weak(w, i, "all", k, c, m) /\ i # 0 /\ Grouped(i, O) => Weak(w, i, "unit", 0, 0, m)
         /\ \A k, c : Weak(w, i, "all", k, c, m) => Weak(w, i, "body", 0, 0, m)
         /\ \A k, c : Weak(w, i, "body", k, c, m) /\ i # 0 /\ (w = "encode" => fields[i].max = NoName)
                        => Weak(w, i, "unit", 0, 0, m)
         /\ \A k, c : Weak(w, i, "after", k, c, m) /\ i # 0 /\ (w = "decode" => Simple(i) /\ ~HasCheck(i))
                        => Weak(w, i, "end", 0, 0, m)
         /\ \A k, c : Weak(w, i, "elems", k, c, m) /\ i # 0 /\ fields[i].type.k = "array"
                        => Weak(w, i, "end", 0, 0, m)
<1>0. Len(fields) \in Nat /\ i \in Nat /\ (i # 0 => i \in 1..Len(fields))
  BY Shape DEF Settled, GenInv, IInv
<1>1. (i + 1) - 1 = i
  BY <1>0
<1>2. \A k, c : Weak(w, i, "end", k, c, m) /\ i # Len(fields) => Weak(w, i + 1, "all", 0, 0, m)
  BY <1>1 DEF Weak, Done
<1>3. ASSUME NEW st, NEW k, NEW c, Weak(w, i, st, k, c, m), i # 0
      PROVE  /\ Capped(m, i - 1) /\ (w = "decode" => Valid(m, i - 1))
             /\ Under(fields[i], m) => Capped(m, i)
             /\ w = "decode" /\ Satisfies(fields[i], m) => Valid(m, i)
  BY <1>0, <1>3, WeakStep
<1>4. i # 0 /\ (Grouped(i, O) \/ fields[i].type.k # "prim" \/ fields[i].existIf # NoName) => Under(fields[i], m)
  BY <1>0, NoBound
<1>5. i # 0 /\ fields[i].type.k # "prim" => Satisfies(fields[i], m)
  BY <1>0, NoBound
<1>6. \A k, c : Weak(w, i, "all", k, c, m) /\ i # 0 /\ Grouped(i, O) => Weak(w, i, "unit", 0, 0, m)
  BY <1>3, <1>4 DEF Weak, Done, Codec
<1>7. \A k, c : Weak(w, i, "all", k, c, m) => Weak(w, i, "body", 0, 0, m)
  BY DEF Weak, Done
<1>8. \A k, c : Weak(w, i, "body", k, c, m) /\ i # 0 /\ (w = "encode" => fields[i].max = NoName)
                  => Weak(w, i, "unit", 0, 0, m)
  BY <1>3 DEF Weak, Done, Codec, Under
<1>9. ASSUME i # 0, Simple(i), ~HasCheck(i) PROVE Under(fields[i], m) /\ Satisfies(fields[i], m)
  <2>1. Grouped(i, O) => IsBitType(fields[i].type)
    BY <1>0, <1>9, SettledField
  <2>2. ~Grouped(i, O) => ~IsBitType(fields[i].type)
    BY <1>0, <1>9, SettledField
  <2> QED
    BY <1>9, <2>1, <2>2 DEF Under, Bounded, Satisfies, HasCheck
<1>10. \A k, c : Weak(w, i, "after", k, c, m) /\ i # 0 /\ (w = "decode" => Simple(i) /\ ~HasCheck(i))
                   => Weak(w, i, "end", 0, 0, m)
  BY <1>3, <1>9 DEF Weak, Done, Codec
<1>11. \A k, c : Weak(w, i, "elems", k, c, m) /\ i # 0 /\ fields[i].type.k = "array"
                   => Weak(w, i, "end", 0, 0, m)
  BY <1>3, <1>4, <1>5 DEF Weak, Done, Codec
<1> QED
  BY <1>2, <1>6, <1>7, <1>8, <1>10, <1>11

-----------------------------------------------------------------------------
(* What the functions will make of a message: the values the encoder       *)
(* leaves in it, the bytes it writes, and behind every field the bytes     *)
(* that come after it.                                                     *)
Final(f) == IF IsIntType(f.type) /\ ~IsBitType(f.type) /\ f.max # NoName
            THEN Clamped(given[f.name], Consts[f.max]) ELSE given[f.name]
FinalOf(n) == Final(fields[FieldNamed(n)])

There(f) == f.existIf = NoName \/ IsBitType(f.type) \/ FinalOf(f.existIf) # 0
Extent(f) == IF LimitRef(f).this THEN FinalOf(f.limit) ELSE Size(f)

AreTails(s, g, n) == s[n] = <<>> /\ \A k \in 1..n : s[k-1] = g[k] \o s[k]
TailsOf(g, n) == CHOOSE s : AreTails(s, g, n)

ElemBytes(f) == TailsOf([k \in 1..Extent(f) |-> BigEndian(Final(f)[k], ElemOf(f, k).w)], Extent(f))

Payload(f) ==
  CASE f.type.k = "prim" -> Masked(BigEndian(Final(f), Bits(f.type)), ConstVal(Plain(f.xor)))
    [] f.type.k \in {"struct", "undef"} -> <<Final(f)>>
    [] f.type.k = "array" -> IF Each(f) THEN ElemBytes(f)[0] ELSE SubSeq(Final(f), 1, Extent(f))

(* The bits of the group's byte from field i on.                           *)
IsLow(l) ==
  /\ l[Len(fields) + 1] = 0
  /\ \A i \in 1..Len(fields) :
       l[i] = IF Grouped(i, O)
              THEN Final(fields[i]) * 2^(8 - Used(i)) + (IF O[i] = 0 THEN 0 ELSE l[i+1])
              ELSE 0
Low == CHOOSE l : IsLow(l)
LowAfter(i) == IF O[i] = 0 THEN 0 ELSE Low[i+1]

XorOf(i) == ConstVal(Plain(fields[Opener(i)].xor))

Chunk(i) ==
  IF Grouped(i, O) THEN IF Before(O, i) = 0 THEN <<XorByte(Low[i], XorOf(i))>> ELSE <<>>
  ELSE IF There(fields[i]) THEN Payload(fields[i]) ELSE <<>>

Onward == TailsOf([i \in 1..Len(fields) |-> Chunk(i)], Len(fields))

(* A running function, when the byte of a group is under way: it has the   *)
(* bits of the fields passed, and still needs those from here on.          *)
Pending(i, st) == CASE st = "all" -> Before(O, i) # 0
                    [] st \in {"unit", "after"} -> Grouped(i, O)
                    [] st = "end" -> Before(O, i + 1) # 0
                    [] OTHER -> FALSE
Lower(i, st) == CASE st = "after" -> LowAfter(i) [] st = "end" -> Low[i+1] [] OTHER -> Low[i]
Taken(i, st) == CASE st = "after" -> Used(i) [] st = "end" -> Before(O, i + 1) [] OTHER -> Before(O, i)

(* The bytes still to come at a place.                                     *)
Behind(i, st) == IF st \in {"end", "after"} \/ Pending(i, st) THEN i ELSE i - 1
ToRead(i, st, k) == IF st = "elems" THEN ElemBytes(fields[i])[k] \o Onward[i] ELSE Onward[Behind(i, st)]
ToWrite(i, st, k, t) == IF Pending(i, st) THEN <<XorByte(t + Lower(i, st), XorOf(i))>> \o Onward[i]
                        ELSE ToRead(i, st, k)

(* The first n fields are as the encoder leaves them; the others are still *)
(* as they were given, or still unknown.                                   *)
Alike(f, m) == IF f.type.k = "array" THEN \A e \in 1..Extent(f) : m[f.name][e] = Final(f)[e]
               ELSE m[f.name] = Final(f)
Kept(m, n) == /\ \A j \in 1..n : There(fields[j]) => m[fields[j].name] = Final(fields[j])
              /\ \A j \in n+1..Len(fields) : m[fields[j].name] = given[fields[j].name]
Agreed(m, n) == \A j \in 1..n : There(fields[j]) => Alike(fields[j], m)

(* What has come of the bytes is the first of them, and all of them if the *)
(* encoder succeeded.                                                      *)
Missing(l, all) == \E x \in Seq(Nat) : l \o x = all /\ (encRet = "ok" => x = <<>>)

TmpOk(w, i, st, t) ==
  Pending(i, st) => t \in 0..255 /\ t % Pow(8 - Taken(i, st)) = IF w = "encode" THEN 0 ELSE Lower(i, st)
Within(i, st, c) == /\ st \in {"body", "unit", "after", "elems"} => There(fields[i])
                    /\ st = "elems" => c = Extent(fields[i])
Sends(i, st, k, m, t, s) == s \o ToWrite(i, st, k, t) = Onward[0] /\ Kept(m, Done("encode", i, st))
Receives(i, st, k, m, l) ==
  /\ Missing(l, ToRead(i, st, k)) /\ Agreed(m, Done("decode", i, st))
  /\ st = "after" => m[fields[i].name] = Final(fields[i])
  /\ st = "elems" => \A e \in 1..k : m[fields[i].name][e] = Final(fields[i])[e]

Strong(w, i, st, k, c, m, t, s, l) ==
  /\ TmpOk(w, i, st, t) /\ Within(i, st, c)
  /\ IF w = "encode" THEN Sends(i, st, k, m, t, s) ELSE Receives(i, st, k, m, l)

Running == Settled /\ Compiles /\ Fresh(given)

LEMMA Downward ==
  ASSUME NEW n \in Nat, NEW S, n \in S, \A h \in Nat : h + 1 <= n /\ h + 1 \in S => h \in S
  PROVE  \A h \in 0..n : h \in S
<1> DEFINE T == {m \in Nat : m <= n => n - m \in S}
<1>1. 0 \in T
  <2>1. n - 0 = n
    OBVIOUS
  <2> QED
    BY <2>1
<1>2. ASSUME NEW m \in Nat, m \in T PROVE m + 1 \in T
  <2>1. SUFFICES ASSUME m + 1 <= n PROVE n - (m + 1) \in S
    OBVIOUS
  <2> DEFINE h == n - (m + 1)
  <2>2. h \in Nat /\ h + 1 <= n /\ h + 1 = n - m /\ n - m \in S
    BY <1>2, <2>1
  <2> HIDE DEF h
  <2>3. h \in S
    BY <2>2
  <2> QED
    BY <2>3 DEF h
<1>3. \A m \in Nat : m \in T
  <2> HIDE DEF T
  <2>1. Nat \subseteq T
    BY <1>1, <1>2, SetInduction
  <2> QED
    BY <2>1
<1> TAKE h \in 0..n
<1>4. n - h \in Nat /\ n - h <= n /\ n - (n - h) = h
  OBVIOUS
<1> DEFINE d == n - h
<1> HIDE DEF d
<1>5. n - d \in S
  BY <1>3, <1>4 DEF d
<1> QED
  BY <1>4, <1>5 DEF d

TailsFrom(s, g, h, n) == s[n] = <<>> /\ \A k \in h+1..n : s[k-1] = g[k] \o s[k]

LEMMA TailsOfAre ==
  ASSUME NEW n \in Nat, NEW g, \A k \in 1..n : g[k] \in Seq(Nat)
  PROVE  /\ AreTails(TailsOf(g, n), g, n)
         /\ \A k \in 0..n : TailsOf(g, n)[k] \in Seq(Nat)
<1> DEFINE Some(h) == \E s : TailsFrom(s, g, h, n)
           T == {h \in Nat : Some(h)}
<1>1. n \in T
  <2> DEFINE s == [k \in {n} |-> <<>>]
  <2>1. s[n] = <<>>
    OBVIOUS
  <2> HIDE DEF s
  <2>2. TailsFrom(s, g, n, n)
    <3>1. n+1..n = {}
      OBVIOUS
    <3> QED
      BY <2>1, <3>1 DEF TailsFrom
  <2> QED
    BY <2>2
<1>2. ASSUME NEW h \in Nat, h + 1 <= n, h + 1 \in T PROVE h \in T
  <2>1. PICK s : TailsFrom(s, g, h + 1, n)
    BY <1>2
  <2> DEFINE x == g[h + 1] \o s[h + 1]
             r == [k \in 0..n |-> IF k = h THEN x ELSE s[k]]
  <2>2. r[h] = x /\ \A k \in h+1..n : r[k] = s[k]
    <3>1. h \in 0..n /\ \A k \in h+1..n : k \in 0..n /\ k # h
      BY <1>2
    <3> HIDE DEF x
    <3> QED
      BY <3>1
  <2> HIDE DEF r
  <2>3. r[n] = <<>>
    <3>1. n \in h+1..n
      BY <1>2
    <3> QED
      BY <2>1, <2>2, <3>1 DEF TailsFrom
  <2>4. ASSUME NEW k \in h+1..n PROVE r[k-1] = g[k] \o r[k]
    <3>1. r[k] = s[k]
      BY <2>2
    <3>2. CASE k = h + 1
      <4>1. k - 1 = h
        BY <3>2
      <4> QED
        BY <2>2, <3>1, <3>2, <4>1
    <3>3. CASE k # h + 1
      <4>1. k \in (h+1)+1..n /\ k - 1 \in h+1..n
        BY <3>3
      <4>2. s[k-1] = g[k] \o s[k]
        BY <2>1, <4>1 DEF TailsFrom
      <4> QED
        BY <2>2, <3>1, <4>1, <4>2
    <3> QED
      BY <3>2, <3>3
  <2>5. TailsFrom(r, g, h, n)
    BY <2>3, <2>4 DEF TailsFrom
  <2> QED
    BY <2>5
<1>3. \E s : AreTails(s, g, n)
  <2>1. 0 \in T
    <3>1. 0 \in 0..n
      OBVIOUS
    <3> HIDE DEF T
    <3>2. \A h \in 0..n : h \in T
      BY <1>1, <1>2, Downward
    <3> QED
      BY <3>1, <3>2
  <2>2. PICK s : TailsFrom(s, g, 0, n)
    BY <2>1
  <2>3. AreTails(s, g, n)
    <3>1. 0 + 1 = 1
      OBVIOUS
    <3> QED
      BY <2>2, <3>1 DEF TailsFrom, AreTails
  <2> QED
    BY <2>3
<1> DEFINE s == TailsOf(g, n)
<1>4. AreTails(s, g, n)
  BY <1>3 DEF TailsOf
<1> HIDE DEF s, T
<1> DEFINE U == {h \in Nat : s[h] \in Seq(Nat)}
<1>5. n \in U
  <2>1. s[n] = <<>>
    BY <1>4 DEF AreTails
  <2>2. s[n] \in Seq(Nat)
    BY <2>1
  <2> QED
    BY <2>2
<1>6. ASSUME NEW h \in Nat, h + 1 <= n, h + 1 \in U PROVE h \in U
  <2>1. h + 1 \in 1..n /\ (h + 1) - 1 = h
    BY <1>6
  <2>2. s[h] = g[h + 1] \o s[h + 1] /\ g[h + 1] \in Seq(Nat) /\ s[h + 1] \in Seq(Nat)
    BY <1>4, <1>6, <2>1 DEF AreTails
  <2>3. s[h] \in Seq(Nat)
    BY <2>2
  <2> QED
    BY <2>3
<1>7. \A k \in 0..n : s[k] \in Seq(Nat)
  <2>1. \A k \in 0..n : k \in U
    <3> HIDE DEF U
    <3> QED
      BY <1>5, <1>6, Downward
  <2> QED
    BY <2>1
<1> QED
  BY <1>4, <1>7 DEF s

LowFrom(l, h) ==
  /\ l[Len(fields) + 1] = 0
  /\ \A i \in h+1..Len(fields) :
       l[i] = IF Grouped(i, O)
              THEN Final(fields[i]) * 2^(8 - Used(i)) + (IF O[i] = 0 THEN 0 ELSE l[i+1])
              ELSE 0

LEMMA LowIs == ASSUME Settled PROVE IsLow(Low)
<1> DEFINE n == Len(fields)
           Some(h) == \E l : LowFrom(l, h)
           T == {h \in Nat : Some(h)}
<1>0. n \in Nat
  BY Shape DEF Settled, GenInv, IInv
<1>1. n \in T
  <2> DEFINE l == [k \in {n + 1} |-> 0]
  <2>1. l[n + 1] = 0
    OBVIOUS
  <2> HIDE DEF l
  <2>2. LowFrom(l, n)
    BY <1>0, <2>1 DEF LowFrom
  <2> QED
    BY <1>0, <2>2
<1>2. ASSUME NEW h \in Nat, h + 1 <= n, h + 1 \in T PROVE h \in T
  <2>1. PICK l : LowFrom(l, h + 1)
    BY <1>2
  <2> DEFINE Step(q, i) == IF Grouped(i, O)
                           THEN Final(fields[i]) * 2^(8 - Used(i)) + (IF O[i] = 0 THEN 0 ELSE q[i+1])
                           ELSE 0
             x == Step(l, h + 1)
             r == [k \in 1..n+1 |-> IF k = h + 1 THEN x ELSE l[k]]
  <2>2. r[h + 1] = x /\ \A k \in (h+1)+1..n+1 : r[k] = l[k]
    <3> HIDE DEF x
    <3> QED
      BY <1>0, <1>2
  <2> HIDE DEF r
  <2>3. r[n + 1] = 0
    <3>1. n + 1 \in (h+1)+1..n+1
      BY <1>0, <1>2
    <3>2. l[n + 1] = 0
      BY <2>1 DEF LowFrom
    <3> QED
      BY <2>2, <3>1, <3>2
  <2>4. ASSUME NEW i \in h+1..n PROVE r[i] = Step(r, i)
    <3>1. r[i + 1] = l[i + 1]
      <4>1. i + 1 \in (h+1)+1..n+1
        BY <1>0
      <4> QED
        BY <2>2, <4>1
    <3>2. Step(r, i) = Step(l, i)
      BY <3>1
    <3>3. CASE i = h + 1
      BY <2>2, <3>2, <3>3
    <3>4. CASE i # h + 1
      <4>1. i \in (h+1)+1..n /\ i \in (h+1)+1..n+1
        BY <1>0, <3>4
      <4>2. l[i] = Step(l, i)
        BY <2>1, <4>1 DEF LowFrom
      <4> QED
        BY <2>2, <3>2, <4>1, <4>2
    <3> QED
      BY <3>3, <3>4
  <2>5. LowFrom(r, h)
    BY <2>3, <2>4 DEF LowFrom
  <2> QED
    BY <2>5
<1>3. 0 \in T
  <2>1. 0 \in 0..n
    BY <1>0
  <2> HIDE DEF T, n
  <2>2. \A h \in 0..n : h \in T
    BY <1>0, <1>1, <1>2, Downward
  <2> QED
    BY <2>1, <2>2
<1>4. PICK l : LowFrom(l, 0)
  BY <1>3
<1>5. IsLow(l)
  BY <1>4 DEF LowFrom, IsLow
<1> QED
  BY <1>5 DEF Low


-----------------------------------------------------------------------------
(* Their values.                                                           *)

LEMMA Small == \A x \in Nat : x \in Nat /\ x <= x
  OBVIOUS

LEMMA ClampedIs ==
  ASSUME NEW v \in Nat, NEW x \in Nat
  PROVE  Clamped(v, x) \in Nat /\ Clamped(v, x) <= x /\ (Clamped(v, x) = v \/ Clamped(v, x) = x)
  BY DEF Clamped

LEMMA Cut ==
  ASSUME NEW S, NEW l \in Seq(S), NEW w \in 0..Len(l)
  PROVE  /\ SubSeq(l, 1, w) \in Seq(S) /\ Len(SubSeq(l, 1, w)) = w
         /\ \A i \in 1..w : SubSeq(l, 1, w)[i] = l[i]
         /\ SubSeq(l, w + 1, Len(l)) \in Seq(S) /\ Len(SubSeq(l, w + 1, Len(l))) = Len(l) - w
         /\ l = SubSeq(l, 1, w) \o SubSeq(l, w + 1, Len(l))
<1> DEFINE a == SubSeq(l, 1, w)
           b == SubSeq(l, w + 1, Len(l))
<1>1. a \in Seq(S) /\ Len(a) = w /\ \A i \in 1..w : a[i] = l[i]
  OBVIOUS
<1>2. b \in Seq(S) /\ Len(b) = Len(l) - w /\ \A i \in 1..Len(l) - w : b[i] = l[w + i]
  OBVIOUS
<1> HIDE DEF a, b
<1>6. w \in Nat /\ Len(l) \in Nat /\ w + (Len(l) - w) = Len(l)
  OBVIOUS
<1>3. a \o b \in Seq(S) /\ Len(a \o b) = Len(l)
  <2>1. a \o b \in Seq(S) /\ Len(a \o b) = Len(a) + Len(b)
    <3>1. a \in Seq(S) /\ b \in Seq(S)
      BY <1>1, <1>2
    <3> QED
      BY <3>1
  <2> QED
    BY <1>1, <1>2, <1>6, <2>1
<1>4. ASSUME NEW i \in 1..Len(l) PROVE (a \o b)[i] = l[i]
  <2>1. CASE i <= w
    BY <1>1, <1>2, <2>1
  <2>2. CASE i > w
    <3>1. i - w \in 1..Len(l) - w /\ w + (i - w) = i
      BY <2>2
    <3>2. b[i - w] = l[i]
      BY <1>2, <3>1
    <3>3. (a \o b)[i] = b[i - w]
      BY <1>1, <1>2, <2>2
    <3> QED
      BY <3>2, <3>3
  <2>3. i <= w \/ i > w
    BY <1>6
  <2> QED
    BY <2>1, <2>2, <2>3
<1>5. l = a \o b
  <2> DEFINE e == a \o b
  <2>1. e \in Seq(S) /\ Len(e) = Len(l) /\ \A i \in 1..Len(l) : e[i] = l[i]
    BY <1>3, <1>4
  <2> HIDE DEF e
  <2>2. e = l
    BY <2>1
  <2> QED
    BY <2>2 DEF e
<1> QED
  BY <1>1, <1>2, <1>5 DEF a, b

(* How many elements of an array are handled.                              *)
Limit(f, m) == IF LimitRef(f).this THEN m[f.limit] ELSE Size(f)

LEMMA LimitIs ==
  ASSUME Running, NEW m, Typed(m), NEW j \in 1..Len(fields), fields[j].type.k = "array"
  PROVE  LET f == fields[j] IN
         /\ Limit(f, m) \in Nat /\ Size(f) \in Nat /\ ~Grouped(j, O) /\ ElemOk(f.type.elem)
         /\ m[f.name] \in [1..Size(f) -> Nat] /\ m[f.name] \in Seq(Nat) /\ Len(m[f.name]) = Size(f)
         /\ LimitsBounded /\ Capped(m, j - 1) => Limit(f, m) <= Size(f)
         /\ LimitsBounded /\ LimitRef(f).this =>
              \E h \in 1..j-1 : /\ h = FieldNamed(f.limit) /\ fields[h].name = f.limit
                                /\ Bounded(fields[h]) /\ fields[h].max # NoName
                                /\ Consts[fields[h].max] = Size(f)
<1> DEFINE f == fields[j]
<1>1. Settled /\ Compiles
  BY DEF Running
<1>2. /\ Size(f) \in Nat /\ ~Grouped(j, O) /\ ElemOk(f.type.elem)
      /\ LimitRef(f).this =>
           \E h \in 1..Len(fields) : /\ fields[h].name = f.limit /\ FieldNamed(f.limit) = h
                                     /\ LimitRef(f).name = f.limit
                                     /\ fields[h].max # NoName /\ Size(f) = Consts[fields[h].max]
                                     /\ IsIntType(fields[h].type)
  BY <1>1, LimitOk
<1>3. DOMAIN fields = 1..Len(fields) /\ Len(fields) \in Nat
  BY <1>1, Shape DEF Settled, GenInv, IInv
<1>4. m[f.name] \in [1..Size(f) -> Nat]
  BY DEF Typed, ValuesOf
<1>5. m[f.name] \in Seq(Nat) /\ Len(m[f.name]) = Size(f)
  <2> DEFINE a == m[f.name]
             n == Size(f)
  <2>1. n \in Nat /\ a \in [1..n -> Nat]
    BY <1>2, <1>4, Small
  <2> HIDE DEF a, n
  <2>2. a \in Seq(Nat) /\ Len(a) = n
    BY <2>1, ArraySeq
  <2> QED
    BY <2>2 DEF a, n
<1>6. CASE LimitRef(f).this
  <2>1. PICK h \in 1..Len(fields) : /\ fields[h].name = f.limit /\ FieldNamed(f.limit) = h
                                    /\ fields[h].max # NoName /\ Size(f) = Consts[fields[h].max]
                                    /\ IsIntType(fields[h].type)
    BY <1>2, <1>6
  <2>2. m[f.limit] \in Nat
    <3>1. fields[h].type.k # "array"
      BY <2>1 DEF IsIntType
    <3>2. m[fields[h].name] \in ValuesOf(fields[h])
      BY DEF Typed
    <3> QED
      BY <2>1, <3>1, <3>2 DEF ValuesOf
  <2>3. ASSUME LimitsBounded PROVE h \in 1..j-1 /\ Bounded(fields[h])
    <3>1. FieldNamed(f.limit) < j /\ Bounded(fields[FieldNamed(f.limit)])
      BY <1>3, <1>6, <2>3 DEF LimitsBounded
    <3> QED
      BY <2>1, <3>1
  <2>4. ASSUME LimitsBounded, Capped(m, j - 1) PROVE Limit(f, m) <= Size(f)
    <3>1. Under(fields[h], m)
      BY <2>3, <2>4 DEF Capped
    <3> QED
      BY <1>6, <2>1, <2>3, <2>4, <3>1 DEF Under, Limit
  <2> QED
    BY <1>2, <1>4, <1>5, <1>6, <2>1, <2>2, <2>3, <2>4 DEF Limit
<1>7. CASE ~LimitRef(f).this
  <2>1. Limit(f, m) = Size(f)
    BY <1>7 DEF Limit
  <2> HIDE DEF f
  <2> DEFINE n == Size(f)
  <2>2. n \in Nat /\ n <= n
    BY <1>2, Small
  <2> QED
    BY <1>2, <1>4, <1>5, <1>7, <2>1, <2>2 DEF f
<1> QED
  BY <1>6, <1>7

LEMMA IntWidth ==
  ASSUME Settled, NEW j \in 1..Len(fields), ~Grouped(j, O), fields[j].type.k = "prim"
  PROVE  Bits(fields[j].type) \in Widths /\ IsIntType(fields[j].type) /\ ~IsBitType(fields[j].type)
<1>1. IsIntType(fields[j].type) /\ ~IsBitType(fields[j].type)
  BY SettledField DEF Generable
<1> DEFINE b == Bits(fields[j].type)
<1>2. b \in {1, 2, 3, 4, 5, 6, 7, 8, 16, 32, 64} /\ b % 8 = 0
  BY <1>1, BitsRange
<1> HIDE DEF b
<1>3. b \in Widths
  BY <1>2 DEF Widths
<1> QED
  BY <1>1, <1>3 DEF b

LEMMA ElemWidth ==
  ASSUME NEW f, NEW k, ElemOk(f.type.elem)
  PROVE  ElemOf(f, k).w \in Widths
<1> DEFINE t == f.type.elem
           u == ElemUnit(t)
<1>1. ElemOf(f, k).w = IF u.op = "msg" THEN 8 ELSE u.w
  BY DEF ElemOf
<1>2. CASE t.k = "struct"
  BY <1>1, <1>2 DEF ElemUnit, Widths
<1>3. CASE t.k # "struct"
  <2>1. IsIntType(t) /\ Bits(t) % 8 = 0
    BY <1>3 DEF ElemOk
  <2>2. ElemOf(f, k).w = Bits(t)
    BY <1>1, <1>3 DEF ElemUnit
  <2> DEFINE b == Bits(t)
  <2>3. b \in {1, 2, 3, 4, 5, 6, 7, 8, 16, 32, 64} /\ b % 8 = 0
    BY <2>1, BitsRange
  <2> HIDE DEF b
  <2>4. b \in Widths
    BY <2>3 DEF Widths
  <2> QED
    BY <2>2, <2>4 DEF b
<1> QED
  BY <1>2, <1>3

LEMMA WideSeq ==
  ASSUME NEW v \in Nat, NEW w \in Widths
  PROVE  BigEndian(v, w) \in Seq(Nat)
<1> DEFINE b == BigEndian(v, w)
<1>1. b \in Seq(0..255)
  BY BigEndianBytes
<1> HIDE DEF b
<1>2. \A S, T : b \in Seq(S) /\ S \subseteq T => b \in Seq(T)
  OBVIOUS
<1>3. 0..255 \subseteq Nat
  OBVIOUS
<1>4. b \in Seq(Nat)
  BY <1>1, <1>2, <1>3
<1> QED
  BY <1>4 DEF b


(* What the encoder makes of the values it is given.                       *)
LEMMA FinalIs ==
  ASSUME Running, Fitting, NEW i \in 1..Len(fields)
  PROVE  LET f == fields[i]
             v == Final(f)
         IN  /\ v \in ValuesOf(f)
             /\ Grouped(i, O) => v = given[f.name] /\ v \in Nat /\ v < Pow(Bits(f.type))
             /\ f.type.k # "prim" \/ f.max = NoName => v = given[f.name]
             /\ ~Grouped(i, O) /\ f.type.k = "prim" => v \in Nat /\ High(v, Bits(f.type) \div 8) = 0
             /\ ~Grouped(i, O) /\ f.type.k = "prim" /\ f.max # NoName =>
                  /\ v = Clamped(given[f.name], ConstVal(Plain(f.max)))
                  /\ ConstVal(Plain(f.max)) = Consts[f.max] /\ v <= Consts[f.max]
             /\ f.type.k = "array" => \A k \in 1..Size(f) : High(v[k], ElemOf(f, k).w \div 8) = 0
             /\ (f.max = NoName \/ Grouped(i, O)) /\ f.equ # NoName => v = Consts[f.equ]
<1> DEFINE f == fields[i]
           g == given[f.name]
<1>1. Settled /\ Compiles /\ Fresh(given) /\ f \in Range(fields)
  <2>1. DOMAIN fields = 1..Len(fields)
    BY Shape DEF Running, Settled, GenInv, IInv
  <2> QED
    BY <2>1 DEF Running, Range
<1>2. g \in ValuesOf(f) /\ Wide(f, g)
  BY <1>1 DEF Fresh, Typed
<1>3. IsBitType(f.type) => g < Pow(Bits(f.type))
  BY <1>1 DEF Fitting, Pow
<1>4. f.equ # NoName => g = Consts[f.equ]
  BY <1>1 DEF Fitting
<1>5. CASE Grouped(i, O)
  <2>1. IsBitType(f.type) /\ f.type.k = "prim"
    BY <1>1, <1>5, SettledField
  <2>2. Final(f) = g /\ g \in Nat
    BY <1>2, <2>1 DEF Final, ValuesOf
  <2> QED
    BY <1>2, <1>3, <1>4, <1>5, <2>1, <2>2
<1>6. CASE ~Grouped(i, O) /\ f.type.k = "prim"
  <2>1. IsIntType(f.type) /\ ~IsBitType(f.type) /\ Bits(f.type) \in Widths
    BY <1>1, <1>6, IntWidth
  <2>2. g \in Nat /\ ValuesOf(f) = Nat /\ High(g, Bits(f.type) \div 8) = 0
    BY <1>2, <1>6, <2>1 DEF ValuesOf, Wide
  <2>3. CASE f.max = NoName
    <3>1. Final(f) = g
      BY <2>3 DEF Final
    <3> QED
      BY <1>4, <1>6, <2>2, <2>3, <3>1
  <2>4. CASE f.max # NoName
    <3> DEFINE x == Consts[f.max]
               v == Clamped(g, x)
    <3>1. ConstVal(Plain(f.max)) = x /\ x \in Nat /\ High(x, Bits(f.type) \div 8) = 0
      BY <1>1, <1>6, <2>4, MaxOk
    <3>2. Final(f) = v
      BY <2>1, <2>4 DEF Final
    <3> HIDE DEF x
    <3>3. v \in Nat /\ v <= x /\ (v = g \/ v = x)
      BY <2>2, <3>1, ClampedIs
    <3> HIDE DEF v
    <3>4. High(v, Bits(f.type) \div 8) = 0
      BY <2>2, <3>1, <3>3
    <3> QED
      BY <1>6, <2>2, <2>4, <3>1, <3>2, <3>3, <3>4 DEF v, x
  <2> QED
    BY <2>3, <2>4
<1>7. CASE f.type.k # "prim"
  <2>1. Final(f) = g /\ ~Grouped(i, O)
    BY <1>1, <1>7, SettledField DEF Final, IsIntType
  <2>2. f.type.k = "array" => \A k \in 1..Size(f) : High(g[k], ElemOf(f, k).w \div 8) = 0
    BY <1>2 DEF Wide
  <2> QED
    BY <1>2, <1>4, <1>7, <2>1, <2>2
<1> QED
  BY <1>5, <1>6, <1>7

(* A limit is the value of a field before the array, or the size.          *)
LEMMA ExtentIs ==
  ASSUME Running, Sound, NEW i \in 1..Len(fields), fields[i].type.k = "array"
  PROVE  LET f == fields[i] IN
         /\ Extent(f) \in Nat /\ Size(f) \in Nat /\ Extent(f) <= Size(f)
         /\ Final(f) \in Seq(Nat) /\ Len(Final(f)) = Size(f)
         /\ \A k \in 1..Size(f) : Final(f)[k] \in Nat /\ High(Final(f)[k], ElemOf(f, k).w \div 8) = 0
         /\ LimitRef(f).this => \E h \in 1..i-1 : /\ h = FieldNamed(f.limit) /\ fields[h].name = f.limit
                                                  /\ fields[h].type.k = "prim" /\ fields[h].existIf = NoName
<1> DEFINE f == fields[i]
<1>1. Settled /\ Compiles /\ Typed(given) /\ LimitsBounded /\ Fitting
  BY DEF Running, Fresh, Sound
<1>2. /\ Size(f) \in Nat /\ given[f.name] \in Seq(Nat) /\ Len(given[f.name]) = Size(f)
      /\ LimitRef(f).this =>
           \E h \in 1..i-1 : /\ h = FieldNamed(f.limit) /\ fields[h].name = f.limit
                             /\ Bounded(fields[h]) /\ fields[h].max # NoName
                             /\ Consts[fields[h].max] = Size(f)
  BY <1>1, LimitIs
<1>3. /\ Final(f) = given[f.name]
      /\ \A k \in 1..Size(f) : Final(f)[k] \in Nat /\ High(Final(f)[k], ElemOf(f, k).w \div 8) = 0
  <2>1. /\ Final(f) = given[f.name]
        /\ \A k \in 1..Size(f) : High(Final(f)[k], ElemOf(f, k).w \div 8) = 0
    BY <1>1, FinalIs
  <2>2. \A k \in 1..Size(f) : given[f.name][k] \in Nat
    BY <1>2
  <2> QED
    BY <2>1, <2>2
<1>4. CASE LimitRef(f).this
  <2>1. PICK h \in 1..i-1 : /\ h = FieldNamed(f.limit) /\ fields[h].name = f.limit
                            /\ Bounded(fields[h]) /\ fields[h].max # NoName
                            /\ Consts[fields[h].max] = Size(f)
    BY <1>2, <1>4
  <2>2. h \in 1..Len(fields) /\ fields[h].type.k = "prim" /\ ~IsBitType(fields[h].type) /\ fields[h].existIf = NoName
    BY <2>1 DEF Bounded, IsIntType
  <2>3. ~Grouped(h, O)
    BY <1>1, <2>2, SettledField
  <2>4. Final(fields[h]) \in Nat /\ Final(fields[h]) <= Size(f)
    BY <1>1, <2>1, <2>2, <2>3, FinalIs
  <2>5. Extent(f) = Final(fields[h])
    BY <1>4, <2>1 DEF Extent, FinalOf
  <2> HIDE DEF f
  <2> QED
    BY <1>2, <1>3, <2>1, <2>2, <2>4, <2>5 DEF f
<1>5. CASE ~LimitRef(f).this
  <2>1. Extent(f) = Size(f)
    BY <1>5 DEF Extent
  <2> HIDE DEF f
  <2>2. Size(f) \in Nat /\ Size(f) <= Size(f)
    BY <1>2, Small
  <2> QED
    BY <1>2, <1>3, <1>5, <2>1, <2>2 DEF f
<1> QED
  BY <1>4, <1>5

(* A running function knows the fields behind it.                          *)
Passed(w, m, n) == IF w = "encode" THEN Kept(m, n) ELSE Agreed(m, n)

LEMMA PassedField ==
  ASSUME NEW w, NEW m, NEW n \in Nat, Passed(w, m, n), NEW h \in 1..n,
         There(fields[h]), fields[h].type.k = "prim"
  PROVE  m[fields[h].name] = Final(fields[h])
  BY DEF Passed, Kept, Agreed, Alike

(* A condition that is generated tests the value the encoder has for it.   *)
LEMMA CondIs ==
  ASSUME Running, Sound, NEW w, NEW i \in 1..Len(fields), NEW m, Passed(w, m, i - 1),
         ~Grouped(i, O), fields[i].existIf # NoName
  PROVE  m[fields[i].existIf] # 0 <=> There(fields[i])
<1> DEFINE f == fields[i]
           e == FieldNamed(f.existIf)
<1>1. Settled /\ Compiles /\ Conditions /\ ConditionsCarried /\ DOMAIN fields = 1..Len(fields)
  BY Shape DEF Running, Sound, Settled, GenInv, IInv
<1>2. ~IsBitType(f.type)
  BY <1>1, SettledField
<1>3. e \in 1..Len(fields) /\ fields[e].name = f.existIf /\ fields[e].type.k = "prim"
  BY <1>1, <1>2, ConditionOk
<1>4. e \in 1..i-1 /\ i - 1 \in Nat
  BY <1>1, <1>3 DEF Conditions
<1>5. There(fields[e])
  <2>1. f \in Range(fields)
    BY <1>1 DEF Range
  <2> QED
    BY <1>1, <2>1 DEF ConditionsCarried, There
<1>6. m[f.existIf] = FinalOf(f.existIf)
  BY <1>3, <1>4, <1>5, PassedField DEF FinalOf
<1> QED
  BY <1>2, <1>6 DEF There

(* ... and so do the counts of the elements.                               *)
LEMMA LimitKnown ==
  ASSUME Running, Sound, NEW w, NEW i \in 1..Len(fields), NEW m, Passed(w, m, i - 1),
         fields[i].type.k = "array"
  PROVE  Limit(fields[i], m) = Extent(fields[i])
<1> DEFINE f == fields[i]
<1>1. CASE LimitRef(f).this
  <2>1. PICK h \in 1..i-1 : /\ h = FieldNamed(f.limit) /\ fields[h].name = f.limit
                            /\ fields[h].type.k = "prim" /\ fields[h].existIf = NoName
    BY <1>1, ExtentIs
  <2>2. There(fields[h]) /\ i - 1 \in Nat
    BY <2>1 DEF There
  <2>3. m[fields[h].name] = Final(fields[h])
    BY <2>1, <2>2, PassedField
  <2> QED
    BY <1>1, <2>1, <2>3 DEF Limit, Extent, FinalOf
<1>2. CASE ~LimitRef(f).this
  BY <1>2 DEF Limit, Extent
<1> QED
  BY <1>1, <1>2

LEMMA PowZero == \A k \in 0..8 : 0 \in 0..Pow(k) - 1
<1> TAKE k \in 0..8
<1> DEFINE p == Pow(k)
<1>1. p \in 1..256
  BY Pows
<1> HIDE DEF p
<1>2. 0 \in 0..p - 1
  BY <1>1
<1> QED
  BY <1>2 DEF p

(* The bits of a group from field i on fit below the bits before it.       *)
LowFits(i) == Low[i] \in 0..Pow(8 - Before(O, i)) - 1

Spanned(i) ==
  /\ 8 - Used(i) \in 0..7 /\ Bits(fields[i].type) \in 1..7
  /\ (8 - Used(i)) + Bits(fields[i].type) = 8 - Before(O, i)
  /\ Final(fields[i]) \in Nat /\ Final(fields[i]) < Pow(Bits(fields[i].type))
  /\ Final(fields[i]) = given[fields[i].name]
  /\ LowAfter(i) \in 0..Pow(8 - Used(i)) - 1
  /\ Low[i] = Final(fields[i]) * Pow(8 - Used(i)) + LowAfter(i)
  /\ IF Used(i) = 8 THEN Before(O, i + 1) = 0 /\ LowAfter(i) = 0
     ELSE Before(O, i + 1) = Used(i) /\ Used(i) # 0 /\ LowAfter(i) = Low[i+1]

LEMMA LowStep ==
  ASSUME Running, Fitting, NEW i \in 1..Len(fields), Grouped(i, O), LowFits(i + 1)
  PROVE  Spanned(i) /\ LowFits(i)
<1> DEFINE f == fields[i]
           b == Bits(f.type)
           u == Used(i)
           p == Before(O, i)
           v == Final(f)
           lo == LowAfter(i)
           s == 8 - u
<1>1. Settled
  BY DEF Running
<1>2. p \in 0..7 /\ b \in 1..7 /\ u \in 1..8 /\ u = p + b /\ O[i] = u % 8 /\ Before(O, i + 1) = O[i]
  BY <1>1, SettledField DEF Used
<1>3. v = given[f.name] /\ v \in Nat /\ v < Pow(b)
  BY FinalIs
<1>4. Low[i] = v * Pow(s) + lo
  BY <1>1, LowIs DEF IsLow, LowAfter, Pow
<1>5. IF u = 8 THEN Before(O, i + 1) = 0 /\ lo = 0
      ELSE Before(O, i + 1) = u /\ u # 0 /\ lo = Low[i+1]
  <2>1. CASE u = 8
    <3>1. O[i] = 0
      BY <1>2, <2>1
    <3> QED
      BY <1>2, <2>1, <3>1 DEF LowAfter
  <2>2. CASE u # 8
    <3> HIDE DEF u
    <3>1. O[i] = u /\ u # 0
      BY <1>2, <2>2
    <3> QED
      BY <1>2, <2>2, <3>1 DEF LowAfter
  <2> QED
    BY <2>1, <2>2
<1>6. s \in 0..7 /\ s + b = 8 - p
  <2> HIDE DEF u, b, p
  <2> QED
    BY <1>2
<1>7. lo \in 0..Pow(s) - 1
  <2>1. CASE u = 8
    <3>1. s = 0 /\ Pow(0) = 1 /\ 0 \in 0..1-1
      BY <2>1, Pows
    <3>2. Pow(s) = 1 /\ lo = 0
      BY <1>5, <2>1, <3>1
    <3> HIDE DEF s, lo
    <3> QED
      BY <3>1, <3>2
  <2>2. CASE u # 8
    BY <1>5, <2>2 DEF LowFits
  <2> QED
    BY <2>1, <2>2
<1> HIDE DEF s, lo, v, b, p, u
<1>8. v * Pow(s) + lo \in 0..Pow(s + b) - 1
  <2>1. s + b <= 8
    BY <1>2, <1>6
  <2>2. Slot(s, b, v, lo)
    BY <1>2, <1>3, <1>6, <1>7, <2>1, Slots
  <2> QED
    BY <2>2 DEF Slot
<1>9. LowFits(i)
  BY <1>4, <1>6, <1>8 DEF LowFits, p
<1> QED
  BY <1>2, <1>3, <1>4, <1>5, <1>6, <1>7, <1>9 DEF Spanned, s, lo, v, b, p, u

LEMMA LowRange ==
  ASSUME Running, Fitting, NEW i \in 1..Len(fields)
  PROVE  LowFits(i) /\ (Grouped(i, O) => Spanned(i))
<1> DEFINE n == Len(fields)
           T == {h \in Nat : LowFits(h + 1)}
<1>1. Settled /\ n \in Nat
  BY Shape DEF Running, Settled, GenInv, IInv
<1>2. ASSUME Low[i] = 0, Before(O, i) \in 0..7 PROVE LowFits(i)
  <2> DEFINE k == 8 - Before(O, i)
  <2>1. k \in 0..8
    BY <1>2
  <2> HIDE DEF k
  <2>3. 0 \in 0..Pow(k) - 1
    BY <2>1, PowZero
  <2> QED
    BY <1>2, <2>3 DEF LowFits, k
<1>3. n \in T
  <2> DEFINE k == 8 - Before(O, n + 1)
  <2>1. Low[n + 1] = 0
    BY <1>1, LowIs DEF IsLow
  <2>2. Before(O, n + 1) \in 0..7
    <3>1. CASE n = 0
      BY <3>1 DEF Before
    <3>2. CASE n # 0
      <4>1. n \in 1..n
        BY <1>1, <3>2
      <4> QED
        BY <1>1, <4>1, SettledField
    <3> QED
      BY <3>1, <3>2
  <2>3. k \in 0..8
    <3> HIDE DEF n
    <3> QED
      BY <2>2
  <2> HIDE DEF k
  <2>5. 0 \in 0..Pow(k) - 1
    BY <2>3, PowZero
  <2>6. LowFits(n + 1)
    BY <2>1, <2>5 DEF LowFits, k
  <2> HIDE DEF n
  <2> QED
    BY <1>1, <2>6
<1>4. ASSUME NEW h \in Nat, h + 1 <= n, h + 1 \in T PROVE h \in T
  <2> DEFINE j == h + 1
  <2>1. j \in 1..Len(fields) /\ LowFits(j + 1)
    BY <1>1, <1>4
  <2> HIDE DEF j
  <2>2. CASE Grouped(j, O)
    BY <2>1, <2>2, LowStep DEF j
  <2>3. CASE ~Grouped(j, O)
    <3>1. Low[j] = 0
      BY <1>1, <2>1, <2>3, LowIs DEF IsLow
    <3>2. Before(O, j) \in 0..7
      BY <1>1, <2>1, SettledField
    <3> DEFINE k == 8 - Before(O, j)
    <3>3. k \in 0..8
      BY <3>2
    <3> HIDE DEF k
    <3>5. 0 \in 0..Pow(k) - 1
      BY <3>3, PowZero
    <3> QED
      BY <3>1, <3>5 DEF LowFits, k, j
  <2> QED
    BY <2>2, <2>3
<1>5. \A h \in 0..n : h \in T
  <2> HIDE DEF T, n
  <2> QED
    BY <1>1, <1>3, <1>4, Downward
<1>6. ASSUME NEW j \in 1..n+1 PROVE LowFits(j)
  <2> DEFINE h == j - 1
  <2>1. h \in 0..n /\ h + 1 = j
    BY <1>1
  <2> HIDE DEF h
  <2>2. h \in T
    BY <1>5, <2>1
  <2> QED
    BY <2>1, <2>2
<1>7. i \in 1..n+1 /\ i + 1 \in 1..n+1
  BY <1>1
<1>8. LowFits(i) /\ LowFits(i + 1)
  <2> DEFINE j == i + 1
  <2>1. j \in 1..n+1
    BY <1>7
  <2> HIDE DEF j
  <2>2. LowFits(j)
    BY <1>6, <2>1
  <2> QED
    BY <1>6, <1>7, <2>2 DEF j
<1> QED
  BY <1>8, LowStep

(* The bytes of a message.                                                 *)
LEMMA ElemTails ==
  ASSUME Running, Sound, NEW i \in 1..Len(fields), fields[i].type.k = "array"
  PROVE  LET f == fields[i]
             n == Extent(f)
         IN  /\ ElemBytes(f)[n] = <<>>
             /\ \A k \in 1..n : /\ ElemBytes(f)[k-1] = BigEndian(Final(f)[k], ElemOf(f, k).w) \o ElemBytes(f)[k]
                                /\ BigEndian(Final(f)[k], ElemOf(f, k).w) \in Seq(Nat)
                                /\ Len(BigEndian(Final(f)[k], ElemOf(f, k).w)) = ElemOf(f, k).w \div 8
                                /\ Number(BigEndian(Final(f)[k], ElemOf(f, k).w)) = Final(f)[k]
             /\ \A k \in 0..n : ElemBytes(f)[k] \in Seq(Nat)
<1> DEFINE f == fields[i]
           n == Extent(f)
           w(k) == ElemOf(f, k).w
           word(k) == BigEndian(Final(f)[k], w(k))
           g == [k \in 1..n |-> word(k)]
<1>1. ElemOk(f.type.elem)
  BY LimitOk DEF Running
<1>2. /\ n \in Nat /\ Size(f) \in Nat /\ n <= Size(f)
      /\ \A k \in 1..Size(f) : Final(f)[k] \in Nat /\ High(Final(f)[k], w(k) \div 8) = 0
  BY ExtentIs
<1>3. ASSUME NEW k \in 1..n
      PROVE  word(k) \in Seq(Nat) /\ Len(word(k)) = w(k) \div 8 /\ Number(word(k)) = Final(f)[k]
  <2> DEFINE x == Final(f)[k]
             z == w(k)
  <2>1. x \in Nat /\ High(x, z \div 8) = 0
    <3>1. k \in 1..Size(f)
      <4> DEFINE y == Size(f)
      <4>1. y \in Nat /\ n <= y
        BY <1>2, Small
      <4> HIDE DEF n, y
      <4>2. k \in 1..y
        BY <1>2, <4>1
      <4> QED
        BY <4>2 DEF y
    <3> QED
      BY <1>2, <3>1
  <2>2. z \in Widths
    BY <1>1, ElemWidth
  <2> HIDE DEF x, z
  <2>3. Number(BigEndian(x, z)) = x
    BY <2>1, <2>2, NumberOfBytes
  <2>4. BigEndian(x, z) \in Seq(Nat) /\ Len(BigEndian(x, z)) = z \div 8
    BY <2>1, <2>2, WideSeq, BigEndianBytes
  <2> QED
    BY <2>3, <2>4 DEF x, z
<1>4. \A k \in 1..n : g[k] = word(k) /\ g[k] \in Seq(Nat)
  <2> HIDE DEF word
  <2> QED
    BY <1>3
<1>5. ElemBytes(f) = TailsOf(g, n)
  BY DEF ElemBytes
<1> HIDE DEF g, n, word
<1>6. AreTails(TailsOf(g, n), g, n) /\ \A k \in 0..n : TailsOf(g, n)[k] \in Seq(Nat)
  BY <1>2, <1>4, TailsOfAre
<1>7. ElemBytes(f)[n] = <<>> /\ \A k \in 1..n : ElemBytes(f)[k-1] = word(k) \o ElemBytes(f)[k]
  BY <1>4, <1>5, <1>6 DEF AreTails
<1> QED
  BY <1>3, <1>5, <1>6, <1>7 DEF n, word

LEMMA ChunkSeq ==
  ASSUME Running, Sound, NEW i \in 1..Len(fields)
  PROVE  Chunk(i) \in Seq(Nat)
<1> DEFINE f == fields[i]
<1>1. Settled /\ Compiles /\ Fitting /\ <<>> \in Seq(Nat)
  BY DEF Running, Sound
<1>2. CASE Grouped(i, O)
  <2> DEFINE y == XorByte(Low[i], XorOf(i))
  <2>1. y \in 0..255
    BY OrXorBytes
  <2> HIDE DEF y
  <2>2. <<y>> \in Seq(Nat)
    BY <2>1
  <2> QED
    BY <1>1, <1>2, <2>2 DEF Chunk, y
<1>3. CASE ~Grouped(i, O)
  <2>1. Payload(f) \in Seq(Nat)
    <3>1. CASE f.type.k = "prim"
      <4> DEFINE v == Final(f)
                 x == BigEndian(v, Bits(f.type))
      <4>1. v \in Nat
        BY <1>1, <1>3, <3>1, FinalIs
      <4>2. Bits(f.type) \in Widths
        BY <1>1, <1>3, <3>1, IntWidth
      <4> HIDE DEF v
      <4>3. x \in Seq(Nat)
        BY <4>1, <4>2, WideSeq
      <4> HIDE DEF x
      <4>4. Masked(x, ConstVal(Plain(f.xor))) \in Seq(Nat)
        BY <4>3, MaskedBytes
      <4> QED
        BY <3>1, <4>4 DEF Payload, v, x
    <3>2. CASE f.type.k \in {"struct", "undef"}
      <4> DEFINE v == Final(f)
      <4>1. v \in Nat
        BY <1>1, <3>2, FinalIs DEF ValuesOf
      <4> HIDE DEF v
      <4>2. <<v>> \in Seq(Nat)
        BY <4>1
      <4> QED
        BY <3>2, <4>2 DEF Payload, v
    <3>3. CASE f.type.k = "array"
      <4> DEFINE a == Final(f)
                 n == Extent(f)
      <4>1. n \in Nat /\ a \in Seq(Nat) /\ n <= Len(a)
        BY <3>3, ExtentIs
      <4>2. ElemBytes(f)[0] \in Seq(Nat)
        <5>1. 0 \in 0..n
          BY <4>1
        <5> QED
          BY <3>3, <5>1, ElemTails
      <4> HIDE DEF a, n
      <4>3. SubSeq(a, 1, n) \in Seq(Nat)
        <5>1. n \in 0..Len(a)
          BY <4>1
        <5> QED
          BY <4>1, <5>1, Cut
      <4> QED
        BY <3>3, <4>2, <4>3 DEF Payload, a, n
    <3> QED
      BY <1>1, <3>1, <3>2, <3>3, SettledField DEF Kinds
  <2> QED
    BY <1>1, <1>3, <2>1 DEF Chunk
<1> QED
  BY <1>2, <1>3

LEMMA OnwardIs ==
  ASSUME Running, Sound
  PROVE  /\ Onward[Len(fields)] = <<>>
         /\ \A i \in 1..Len(fields) : Onward[i-1] = Chunk(i) \o Onward[i]
         /\ \A i \in 0..Len(fields) : Onward[i] \in Seq(Nat)
<1> DEFINE n == Len(fields)
           g == [i \in 1..n |-> Chunk(i)]
<1>1. n \in Nat
  BY Shape DEF Running, Settled, GenInv, IInv
<1>2. \A i \in 1..n : g[i] = Chunk(i) /\ g[i] \in Seq(Nat)
  BY ChunkSeq
<1>3. Onward = TailsOf(g, n)
  BY DEF Onward
<1> HIDE DEF g, n
<1>4. AreTails(TailsOf(g, n), g, n) /\ \A k \in 0..n : TailsOf(g, n)[k] \in Seq(Nat)
  BY <1>1, <1>2, TailsOfAre
<1> QED
  BY <1>2, <1>3, <1>4 DEF AreTails, n

-----------------------------------------------------------------------------
(* Sequences of bytes put together and taken apart.                        *)
LEMMA Joined ==
  ASSUME NEW a \in Seq(Nat), NEW b \in Seq(Nat)
  PROVE  /\ a \o b \in Seq(Nat) /\ Len(a \o b) = Len(a) + Len(b) /\ Len(a) \in Nat /\ Len(b) \in Nat
         /\ \A i \in 1..Len(a) : (a \o b)[i] = a[i]
         /\ \A i \in 1..Len(b) : (a \o b)[Len(a) + i] = b[i]
  OBVIOUS

LEMMA Equals ==
  ASSUME NEW a \in Seq(Nat), NEW b \in Seq(Nat), Len(a) = Len(b), \A i \in 1..Len(a) : a[i] = b[i]
  PROVE  a = b
  OBVIOUS

LEMMA Assoc ==
  ASSUME NEW a \in Seq(Nat), NEW b \in Seq(Nat), NEW c \in Seq(Nat)
  PROVE  (a \o b) \o c = a \o (b \o c)
<1>1. a \o b \in Seq(Nat) /\ b \o c \in Seq(Nat)
  BY Joined
<1> QED
  OBVIOUS

LEMMA NoBytes ==
  ASSUME NEW a \in Seq(Nat)
  PROVE  <<>> \o a = a /\ a \o <<>> = a
<1>1. Text(a)
  BY DEF Text
<1> QED
  BY <1>1, PushNothing

LEMMA Bite ==
  ASSUME NEW l \in Seq(Nat), NEW x \in Seq(Nat), NEW a \in Seq(Nat), NEW b \in Seq(Nat),
         l \o x = a \o b, Len(a) <= Len(l)
  PROVE  SubSeq(l, 1, Len(a)) = a /\ SubSeq(l, Len(a) + 1, Len(l)) \o x = b
<1> DEFINE n == Len(a)
           p == SubSeq(l, 1, n)
           q == SubSeq(l, n + 1, Len(l))
<1>1. n \in 0..Len(l) /\ n \in Nat
  OBVIOUS
<1>2. p \in Seq(Nat) /\ Len(p) = n /\ q \in Seq(Nat) /\ l = p \o q
  <2> HIDE DEF n
  <2> QED
    BY <1>1, Cut
<1> HIDE DEF p, q
<1> DEFINE y == q \o x
<1>3. p \o y = a \o b /\ y \in Seq(Nat)
  <2>1. (p \o q) \o x = p \o (q \o x)
    <3>1. p \in Seq(Nat) /\ q \in Seq(Nat)
      BY <1>2
    <3> QED
      BY <3>1, Assoc
  <2>2. y \in Seq(Nat)
    BY <1>2, Joined
  <2> QED
    BY <1>2, <2>1, <2>2
<1> HIDE DEF y
<1> DEFINE u == p \o y
           v == a \o b
<1>4. /\ \A i \in 1..Len(p) : u[i] = p[i]
      /\ \A i \in 1..Len(y) : u[Len(p) + i] = y[i]
      /\ Len(u) = Len(p) + Len(y)
  BY <1>2, <1>3, Joined
<1>5. /\ \A i \in 1..Len(a) : v[i] = a[i]
      /\ \A i \in 1..Len(b) : v[Len(a) + i] = b[i]
      /\ Len(v) = Len(a) + Len(b)
  BY Joined
<1>6. u = v
  BY <1>3
<1> HIDE DEF u, v
<1>7. p = a
  <2>1. \A i \in 1..n : p[i] = a[i]
    BY <1>2, <1>4, <1>5, <1>6
  <2> QED
    BY <1>2, <2>1, Equals
<1>8. y = b
  <2>1. Len(y) = Len(b)
    <3> DEFINE k == Len(y)
               h == Len(b)
    <3>1. k \in Nat /\ h \in Nat
      BY <1>3
    <3>2. n + k = n + h
      BY <1>2, <1>4, <1>5, <1>6
    <3> HIDE DEF k, h, n
    <3>3. k = h
      BY <1>1, <3>1, <3>2
    <3> QED
      BY <3>3 DEF k, h
  <2>2. \A i \in 1..Len(y) : y[i] = b[i]
    BY <1>2, <1>4, <1>5, <1>6, <2>1
  <2> QED
    BY <1>3, <2>1, <2>2, Equals
<1> QED
  BY <1>7, <1>8 DEF p, q, y

(* The bytes a are all there: they are read, and b is what is to come.     *)
LEMMA Bitten ==
  ASSUME NEW l \in Seq(Nat), NEW a \in Seq(Nat), NEW b \in Seq(Nat), Missing(l, a \o b), Len(a) <= Len(l)
  PROVE  SubSeq(l, 1, Len(a)) = a /\ Missing(SubSeq(l, Len(a) + 1, Len(l)), b)
<1>1. PICK x \in Seq(Nat) : l \o x = a \o b /\ (encRet = "ok" => x = <<>>)
  BY DEF Missing
<1>2. SubSeq(l, 1, Len(a)) = a /\ SubSeq(l, Len(a) + 1, Len(l)) \o x = b
  BY <1>1, Bite
<1> QED
  BY <1>1, <1>2 DEF Missing

(* If not all of them are there, the encoder has failed.                   *)
LEMMA Short ==
  ASSUME NEW l \in Seq(Nat), NEW a \in Seq(Nat), NEW b \in Seq(Nat), Missing(l, a \o b), Len(l) < Len(a)
  PROVE  encRet # "ok"
<1>1. PICK x \in Seq(Nat) : l \o x = a \o b /\ (encRet = "ok" => x = <<>>)
  BY DEF Missing
<1>2. ASSUME x = <<>> PROVE FALSE
  <2>1. l = a \o b
    BY <1>1, <1>2, NoBytes
  <2>2. Len(a \o b) = Len(a) + Len(b) /\ Len(a) \in Nat /\ Len(b) \in Nat
    OBVIOUS
  <2> QED
    BY <2>1, <2>2
<1> QED
  BY <1>1, <1>2

=============================================================================
