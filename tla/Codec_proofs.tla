---------------------------- MODULE Codec_proofs ----------------------------
(***************************************************************************)
(* The generated encoder and decoder at work, for every laid-out message   *)
(* that compiles, every value of it and every sequence of bytes: what they *)
(* write and read is as long as it says, nothing is touched that is not    *)
(* there, what a decoder accepts keeps the declared limits and conditions, *)
(* and of the bytes of a message it accepts the message and nothing else.  *)
(*                                                                         *)
(* Each step leaves the machine at a place (field i, rest r of its text),  *)
(* and what holds there speaks of the bytes still to be written or read    *)
(* (Onward, Chunk, Low) and of the fields passed (Weak, Strong).           *)
(***************************************************************************)
EXTENDS CodecText_proofs

-----------------------------------------------------------------------------
LEMMA OrXorNat ==
  ASSUME NEW x, NEW y
  PROVE  OrByte(x, y) \in Nat /\ XorByte(x, y) \in Nat
<1> DEFINE o == OrByte(x, y)
           e == XorByte(x, y)
<1>1. o \in 0..255 /\ e \in 0..255
  BY OrXorBytes
<1> HIDE DEF o, e
<1>2. o \in Nat /\ e \in Nat
  BY <1>1
<1> QED
  BY <1>2 DEF o, e

(* What Strong says at each place: rest is still to be written or read,    *)
(* the first n fields are done; in a group, the bits lo are still missing  *)
(* from tmp, or still in it.                                               *)
Side(w, s, l, rest, m, n) ==
  IF w = "encode" THEN s \o rest = Onward[0] /\ Kept(m, n) ELSE Missing(l, rest) /\ Agreed(m, n)

InGroup(w, i, hi, lo, t, s, l, m, n) ==
  /\ t \in 0..255 /\ t % Pow(8 - hi) = IF w = "encode" THEN 0 ELSE lo
  /\ Side(w, s, l, IF w = "encode" THEN <<XorByte(t + lo, XorOf(i))>> \o Onward[i] ELSE Onward[i], m, n)

Half(w, i) == IF w = "encode" THEN i ELSE i - 1

Got(w, i, m) == w # "encode" => m[fields[i].name] = Final(fields[i])

LEMMA StrongIs ==
  ASSUME NEW w \in Codec, NEW i, NEW k, NEW c, NEW m, NEW t, NEW s, NEW l
  PROVE  /\ Strong(w, i, "all", k, c, m, t, s, l) <=>
              IF Before(O, i) = 0 THEN Side(w, s, l, Onward[i-1], m, i - 1)
              ELSE InGroup(w, i, Before(O, i), Low[i], t, s, l, m, i - 1)
         /\ Strong(w, i, "load", k, c, m, t, s, l) <=> Side(w, s, l, Onward[i-1], m, i - 1)
         /\ Strong(w, i, "body", k, c, m, t, s, l) <=>
              There(fields[i]) /\ Side(w, s, l, Onward[i-1], m, i - 1)
         /\ Strong(w, i, "unit", k, c, m, t, s, l) <=>
              /\ There(fields[i])
              /\ IF Grouped(i, O) THEN InGroup(w, i, Before(O, i), Low[i], t, s, l, m, Half(w, i))
                 ELSE Side(w, s, l, Onward[i-1], m, Half(w, i))
         /\ Strong(w, i, "after", k, c, m, t, s, l) <=>
              /\ There(fields[i]) /\ Got(w, i, m)
              /\ IF Grouped(i, O) THEN InGroup(w, i, Used(i), LowAfter(i), t, s, l, m, Half(w, i))
                 ELSE Side(w, s, l, Onward[i], m, Half(w, i))
         /\ Strong(w, i, "elems", k, c, m, t, s, l) <=>
              /\ There(fields[i]) /\ c = Extent(fields[i])
              /\ w # "encode" => \A e \in 1..k : m[fields[i].name][e] = Final(fields[i])[e]
              /\ Side(w, s, l, ElemBytes(fields[i])[k] \o Onward[i], m, i - 1)
         /\ Strong(w, i, "end", k, c, m, t, s, l) <=>
              IF Before(O, i + 1) = 0 THEN Side(w, s, l, Onward[i], m, i)
              ELSE InGroup(w, i, Before(O, i + 1), Low[i+1], t, s, l, m, i)
<1>1. w = "decode" <=> w # "encode"
  BY DEF Codec
<1> USE <1>1 DEF Strong, TmpOk, Within, Sends, Receives, ToWrite, ToRead, Behind, Pending, Lower, Taken, Done,
             Side, InGroup, Half, Got
<1>2. Strong(w, i, "all", k, c, m, t, s, l) <=>
        IF Before(O, i) = 0 THEN Side(w, s, l, Onward[i-1], m, i - 1)
        ELSE InGroup(w, i, Before(O, i), Low[i], t, s, l, m, i - 1)
  OBVIOUS
<1>3. Strong(w, i, "load", k, c, m, t, s, l) <=> Side(w, s, l, Onward[i-1], m, i - 1)
  OBVIOUS
<1>4. Strong(w, i, "body", k, c, m, t, s, l) <=>
        There(fields[i]) /\ Side(w, s, l, Onward[i-1], m, i - 1)
  OBVIOUS
<1>5. Strong(w, i, "unit", k, c, m, t, s, l) <=>
        /\ There(fields[i])
        /\ IF Grouped(i, O) THEN InGroup(w, i, Before(O, i), Low[i], t, s, l, m, Half(w, i))
           ELSE Side(w, s, l, Onward[i-1], m, Half(w, i))
  OBVIOUS
<1>6. Strong(w, i, "after", k, c, m, t, s, l) <=>
        /\ There(fields[i]) /\ Got(w, i, m)
        /\ IF Grouped(i, O) THEN InGroup(w, i, Used(i), LowAfter(i), t, s, l, m, Half(w, i))
           ELSE Side(w, s, l, Onward[i], m, Half(w, i))
  OBVIOUS
<1>7. Strong(w, i, "elems", k, c, m, t, s, l) <=>
        /\ There(fields[i]) /\ c = Extent(fields[i])
        /\ w # "encode" => \A e \in 1..k : m[fields[i].name][e] = Final(fields[i])[e]
        /\ Side(w, s, l, ElemBytes(fields[i])[k] \o Onward[i], m, i - 1)
  OBVIOUS
<1>8. Strong(w, i, "end", k, c, m, t, s, l) <=>
        IF Before(O, i + 1) = 0 THEN Side(w, s, l, Onward[i], m, i)
        ELSE InGroup(w, i, Before(O, i + 1), Low[i+1], t, s, l, m, i)
  OBVIOUS
<1> QED
  BY <1>2, <1>3, <1>4, <1>5, <1>6, <1>7, <1>8

(* One more field is done.                                                 *)
LEMMA SideNext ==
  ASSUME Running, NEW w, NEW s, NEW l, NEW rest, NEW m, NEW i \in 1..Len(fields),
         Side(w, s, l, rest, m, i - 1),
         There(fields[i]) => IF w = "encode" THEN Final(fields[i]) = given[fields[i].name]
                             ELSE Alike(fields[i], m)
  PROVE  Side(w, s, l, rest, m, i)
<1>1. Len(fields) \in Nat
  BY Shape DEF Running, Settled, GenInv, IInv
<1>2. /\ i \in (i-1)+1..Len(fields)
      /\ \A j \in i+1..Len(fields) : j \in (i-1)+1..Len(fields)
      /\ \A j \in 1..i : j \in 1..i-1 \/ j = i
  BY <1>1
<1>3. CASE w = "encode"
  <2>1. Kept(m, i - 1)
    BY <1>3 DEF Side
  <2>2. Kept(m, i)
    BY <1>2, <1>3, <2>1 DEF Kept
  <2> QED
    BY <1>3, <2>2 DEF Side
<1>4. CASE w # "encode"
  <2>1. Agreed(m, i - 1)
    BY <1>4 DEF Side
  <2>2. Agreed(m, i)
    BY <1>2, <1>4, <2>1 DEF Agreed
  <2> QED
    BY <1>4, <2>2 DEF Side
<1> QED
  BY <1>3, <1>4

LEMMA SidePut ==
  ASSUME Running, NEW m, Typed(m), NEW i \in 1..Len(fields), NEW v \in ValuesOf(fields[i]),
         NEW n, Changed(n, m, i, v)
  PROVE  /\ n[fields[i].name] = v
         /\ Kept(m, i - 1) /\ v = Final(fields[i]) => Kept(n, i)
         /\ Agreed(m, i - 1) => Agreed(n, i - 1) /\ (Alike(fields[i], n) => Agreed(n, i))
<1>1. Len(fields) \in Nat /\ Settled
  BY Shape DEF Running, Settled, GenInv, IInv
<1>2. n[fields[i].name] = v /\ \A j \in 1..Len(fields) : j # i => n[fields[j].name] = m[fields[j].name]
  <2>1. Replaced(n, m, i, v)
    BY <1>1, TypedPut
  <2> QED
    BY <2>1 DEF Replaced
<1>3. /\ \A j \in i+1..Len(fields) : j \in (i-1)+1..Len(fields) /\ j \in 1..Len(fields) /\ j # i
      /\ \A j \in 1..i-1 : j \in 1..Len(fields) /\ j # i
      /\ \A j \in 1..i : j \in 1..i-1 \/ j = i
  BY <1>1
<1>4. Kept(m, i - 1) /\ v = Final(fields[i]) => Kept(n, i)
  BY <1>2, <1>3 DEF Kept
<1>5. \A j \in 1..i-1 : Alike(fields[j], n) <=> Alike(fields[j], m)
  BY <1>2, <1>3 DEF Alike
<1>6. Agreed(m, i - 1) => Agreed(n, i - 1)
  BY <1>5 DEF Agreed
<1>7. Agreed(m, i - 1) /\ Alike(fields[i], n) => Agreed(n, i)
  BY <1>3, <1>6 DEF Agreed
<1> QED
  BY <1>2, <1>4, <1>6, <1>7

(* The places between the fields, and the bytes behind field i.            *)
LEMMA Between ==
  ASSUME Running, Sound, NEW i \in 1..Len(fields)
  PROVE  /\ Settled /\ Fitting
         /\ Onward[i-1] = Chunk(i) \o Onward[i] /\ Onward[i] \in Seq(Nat) /\ Onward[i-1] \in Seq(Nat)
         /\ ~Grouped(i, O) => Before(O, i) = 0 /\ Before(O, i + 1) = 0
         /\ Before(O, i) # 0 => /\ i > 1 /\ Onward[i-1] = Onward[i]
                                /\ XorOf(i) = XorOf(i - 1) /\ Grouped(i, O)
         /\ Before(O, i) = 0 => XorOf(i) = ConstVal(Plain(fields[i].xor))
         /\ ~There(fields[i]) => ~Grouped(i, O) /\ Onward[i-1] = Onward[i]
         /\ Grouped(i, O) => There(fields[i])
<1>1. Settled /\ Fitting /\ Len(fields) \in Nat
  BY Shape DEF Running, Sound, Settled, GenInv, IInv
<1>2. i \in 0..Len(fields) /\ i - 1 \in 0..Len(fields) /\ i \in Nat \ {0}
  BY <1>1
<1>3. Onward[i-1] = Chunk(i) \o Onward[i] /\ Onward[i] \in Seq(Nat) /\ Onward[i-1] \in Seq(Nat)
  BY <1>2, OnwardIs
<1>4. ~Grouped(i, O) => Before(O, i) = 0 /\ Before(O, i + 1) = 0
  BY <1>1, SettledField
<1>5. <<>> \o Onward[i] = Onward[i]
  BY <1>3, NoBytes
<1>6. Before(O, i) # 0 => i > 1 /\ Onward[i-1] = Onward[i] /\ XorOf(i) = XorOf(i - 1) /\ Grouped(i, O)
  <2> HAVE Before(O, i) # 0
  <2>1. Grouped(i, O)
    BY DEF Grouped
  <2>2. Chunk(i) = <<>>
    BY <2>1 DEF Chunk
  <2>3. i > 1 /\ Opener(i) = Opener(i - 1)
    BY <1>2, OpenerIs
  <2>4. XorOf(i) = XorOf(i - 1)
    BY <2>3 DEF XorOf
  <2> QED
    BY <1>3, <1>5, <2>1, <2>2, <2>3, <2>4
<1>7. Before(O, i) = 0 => XorOf(i) = ConstVal(Plain(fields[i].xor))
  BY <1>2, OpenerIs DEF XorOf
<1>8. Grouped(i, O) => There(fields[i])
  BY <1>1, SettledField DEF There
<1>9. ~There(fields[i]) => ~Grouped(i, O) /\ Onward[i-1] = Onward[i]
  <2> HAVE ~There(fields[i])
  <2>1. ~Grouped(i, O)
    BY <1>8
  <2>2. Chunk(i) = <<>>
    BY <2>1 DEF Chunk
  <2> QED
    BY <1>3, <1>5, <2>1, <2>2
<1> QED
  BY <1>1, <1>3, <1>4, <1>6, <1>7, <1>8, <1>9

(* Steps that write no statement.                                          *)
LEMMA StrongNext ==
  ASSUME Running, Sound, NEW w \in Codec, NEW i \in 1..Len(fields), NEW h, h = i - 1,
         NEW k, NEW c, NEW m, NEW t, NEW s, NEW l, Strong(w, h, "end", k, c, m, t, s, l)
  PROVE  Strong(w, i, "all", 0, 0, m, t, s, l)
<1>1. IF Before(O, h + 1) = 0 THEN Side(w, s, l, Onward[h], m, h)
      ELSE InGroup(w, h, Before(O, h + 1), Low[h+1], t, s, l, m, h)
  BY StrongIs
<1>2. h + 1 = i
  OBVIOUS
<1>3. Before(O, i) # 0 => Onward[i-1] = Onward[i] /\ XorOf(i) = XorOf(i - 1)
  BY Between
<1>4. CASE Before(O, i) = 0
  BY <1>1, <1>2, <1>4, StrongIs
<1>5. CASE Before(O, i) # 0
  <2>1. InGroup(w, i, Before(O, i), Low[i], t, s, l, m, i - 1)
    BY <1>1, <1>2, <1>3, <1>5 DEF InGroup
  <2> QED
    BY <1>5, <2>1, StrongIs
<1> QED
  BY <1>4, <1>5

LEMMA StrongAll ==
  ASSUME Running, Sound, NEW w \in Codec, NEW i \in 1..Len(fields), NEW k, NEW c, NEW m, NEW t, NEW s, NEW l,
         Strong(w, i, "all", k, c, m, t, s, l)
  PROVE  /\ Grouped(i, O) /\ Before(O, i) # 0 => Strong(w, i, "unit", 0, 0, m, t, s, l)
         /\ ~Grouped(i, O) /\ There(fields[i]) => Strong(w, i, "body", 0, 0, m, t, s, l)
         /\ ~Grouped(i, O) /\ ~There(fields[i]) => Strong(w, i, "end", 0, 0, m, t, s, l)
<1>1. IF Before(O, i) = 0 THEN Side(w, s, l, Onward[i-1], m, i - 1)
      ELSE InGroup(w, i, Before(O, i), Low[i], t, s, l, m, i - 1)
  BY StrongIs
<1>2. /\ ~Grouped(i, O) => Before(O, i) = 0 /\ Before(O, i + 1) = 0
      /\ ~There(fields[i]) => Onward[i-1] = Onward[i]
      /\ Grouped(i, O) => There(fields[i])
      /\ Fitting
  BY Between
<1>3. ASSUME Grouped(i, O), Before(O, i) # 0 PROVE Strong(w, i, "unit", 0, 0, m, t, s, l)
  <2>1. Final(fields[i]) = given[fields[i].name]
    BY <1>2, <1>3, FinalIs
  <2>2. InGroup(w, i, Before(O, i), Low[i], t, s, l, m, Half(w, i))
    BY <1>1, <1>3, <2>1, SideNext DEF InGroup, Half
  <2> QED
    BY <1>2, <1>3, <2>2, StrongIs
<1>4. ~Grouped(i, O) /\ There(fields[i]) => Strong(w, i, "body", 0, 0, m, t, s, l)
  BY <1>1, <1>2, StrongIs
<1>5. ASSUME ~Grouped(i, O), ~There(fields[i]) PROVE Strong(w, i, "end", 0, 0, m, t, s, l)
  <2>1. Side(w, s, l, Onward[i], m, i)
    BY <1>1, <1>2, <1>5, SideNext
  <2> QED
    BY <1>2, <1>5, <2>1, StrongIs
<1> QED
  BY <1>3, <1>4, <1>5

LEMMA StrongBody ==
  ASSUME Running, Sound, NEW w \in Codec, NEW i \in 1..Len(fields), NEW k, NEW c, NEW m, NEW t, NEW s, NEW l,
         Strong(w, i, "body", k, c, m, t, s, l), ~Grouped(i, O), fields[i].type.k = "prim",
         w = "encode" => fields[i].max = NoName
  PROVE  Strong(w, i, "unit", 0, 0, m, t, s, l)
<1>1. There(fields[i]) /\ Side(w, s, l, Onward[i-1], m, i - 1)
  BY StrongIs
<1>2. fields[i].max = NoName => Final(fields[i]) = given[fields[i].name]
  BY Between, FinalIs
<1>3. Side(w, s, l, Onward[i-1], m, Half(w, i))
  BY <1>1, <1>2, SideNext DEF Half
<1> QED
  BY <1>1, <1>3, StrongIs

LEMMA StrongAfter ==
  ASSUME Running, Sound, NEW w \in Codec, NEW i \in 1..Len(fields), NEW k, NEW c, NEW m, NEW t, NEW s, NEW l,
         Strong(w, i, "after", k, c, m, t, s, l), Simple(i),
         w = "encode" => ~(Grouped(i, O) /\ Used(i) = 8)
  PROVE  Strong(w, i, "end", 0, 0, m, t, s, l)
<1>1. /\ There(fields[i]) /\ Got(w, i, m)
      /\ IF Grouped(i, O) THEN InGroup(w, i, Used(i), LowAfter(i), t, s, l, m, Half(w, i))
         ELSE Side(w, s, l, Onward[i], m, Half(w, i))
  BY StrongIs
<1>2. /\ ~Grouped(i, O) => Before(O, i) = 0 /\ Before(O, i + 1) = 0
      /\ Settled /\ Fitting
  BY Between
<1>3. ASSUME NEW rest, Side(w, s, l, rest, m, Half(w, i)) PROVE Side(w, s, l, rest, m, i)
  <2>1. CASE w = "encode"
    BY <1>3, <2>1 DEF Half
  <2>2. CASE w # "encode"
    <3>1. fields[i].type.k = "prim"
      BY <1>2, SettledField DEF Simple
    <3>2. Alike(fields[i], m)
      BY <1>1, <2>2, <3>1 DEF Alike, Got
    <3> QED
      BY <1>3, <2>2, <3>2, SideNext DEF Half
  <2> QED
    BY <2>1, <2>2
<1>4. CASE ~Grouped(i, O)
  BY <1>1, <1>2, <1>3, <1>4, StrongIs
<1>5. CASE Grouped(i, O)
  <2>1. InGroup(w, i, Used(i), LowAfter(i), t, s, l, m, i)
    BY <1>1, <1>3, <1>5 DEF InGroup
  <2>2. IF Used(i) = 8 THEN Before(O, i + 1) = 0
        ELSE Before(O, i + 1) = Used(i) /\ Used(i) # 0 /\ LowAfter(i) = Low[i+1]
    BY <1>2, <1>5, LowRange DEF Spanned
  <2>3. CASE Used(i) = 8
    <3>1. Side(w, s, l, Onward[i], m, i)
      BY <1>5, <2>1, <2>3 DEF InGroup
    <3> QED
      BY <2>2, <2>3, <3>1, StrongIs
  <2>4. CASE Used(i) # 8
    BY <2>1, <2>2, <2>4, StrongIs
  <2> QED
    BY <2>3, <2>4
<1> QED
  BY <1>4, <1>5

LEMMA StrongElems ==
  ASSUME Running, Sound, NEW w \in Codec, NEW i \in 1..Len(fields), NEW k, NEW c, NEW m, NEW t, NEW s, NEW l,
         Strong(w, i, "elems", k, c, m, t, s, l), ~Grouped(i, O), Each(fields[i]), k = c
  PROVE  Strong(w, i, "end", 0, 0, m, t, s, l)
<1> DEFINE f == fields[i]
<1>1. /\ There(f) /\ c = Extent(f)
      /\ w # "encode" => \A e \in 1..k : m[f.name][e] = Final(f)[e]
      /\ Side(w, s, l, ElemBytes(f)[k] \o Onward[i], m, i - 1)
  BY StrongIs
<1>2. f.type.k = "array" /\ Fitting /\ Before(O, i + 1) = 0 /\ Onward[i] \in Seq(Nat)
  BY Between DEF Each
<1>3. ElemBytes(f)[k] = <<>>
  BY <1>1, <1>2, ElemTails
<1>4. Final(f) = given[f.name]
  BY <1>2, FinalIs
<1>5. Side(w, s, l, Onward[i], m, i - 1)
  BY <1>1, <1>2, <1>3, NoBytes
<1>6. w # "encode" => Alike(f, m)
  BY <1>1, <1>2 DEF Alike
<1>7. Side(w, s, l, Onward[i], m, i)
  BY <1>4, <1>5, <1>6, SideNext
<1> QED
  BY <1>2, <1>7, StrongIs

(* The statements, one by one.                                             *)
LEMMA WholeByte ==
  ASSUME NEW x \in 0..Pow(8 - 0) - 1
  PROVE  x \in 0..255 /\ x \in Nat /\ 0 + x = x /\ x % Pow(8 - 0) = x /\ 0 % Pow(8 - 0) = 0
<1>1. 8 - 0 = 8
  OBVIOUS
<1>2. Pow(8 - 0) = 256
  BY <1>1, Pows
<1> QED
  BY <1>2

LEMMA StrongClear ==
  ASSUME Running, Sound, NEW w \in Codec, NEW i \in 1..Len(fields), NEW k, NEW c, NEW m, NEW t, NEW s, NEW l,
         Strong(w, i, "all", k, c, m, t, s, l), Grouped(i, O), Before(O, i) = 0
  PROVE  Strong(w, i, IF w = "encode" THEN "unit" ELSE "load", 0, 0, m, 0, s, l)
<1>1. Side(w, s, l, Onward[i-1], m, i - 1)
  BY StrongIs
<1>2. Onward[i-1] = Chunk(i) \o Onward[i] /\ There(fields[i]) /\ Fitting
  BY Between
<1>3. CASE w = "encode"
  <2>1. Onward[i-1] = <<XorByte(Low[i], XorOf(i))>> \o Onward[i]
    BY <1>2 DEF Chunk
  <2>3. 0 + Low[i] = Low[i] /\ 0 % Pow(8 - 0) = 0
    <3>1. Low[i] \in 0..Pow(8 - 0) - 1
      BY <1>2, LowRange DEF LowFits
    <3> QED
      BY <3>1, WholeByte
  <2>4. Final(fields[i]) = given[fields[i].name]
    BY <1>2, FinalIs
  <2>5. Side(w, s, l, Onward[i-1], m, i)
    BY <1>1, <1>3, <2>4, SideNext
  <2>6. InGroup(w, i, 0, Low[i], 0, s, l, m, i)
    BY <1>3, <2>1, <2>3, <2>5 DEF InGroup
  <2>7. Strong(w, i, "unit", 0, 0, m, 0, s, l)
    BY <1>2, <1>3, <2>6, StrongIs DEF Half
  <2> QED
    BY <1>3, <2>7
<1>4. CASE w # "encode"
  <2>1. Strong(w, i, "load", 0, 0, m, 0, s, l)
    BY <1>1, StrongIs
  <2> QED
    BY <1>4, <2>1
<1> QED
  BY <1>3, <1>4

LEMMA StrongLoad ==
  ASSUME Running, Sound, NEW i \in 1..Len(fields), NEW k, NEW c, NEW m, NEW t, NEW s, NEW l \in Seq(Nat),
         Strong("decode", i, "load", k, c, m, t, s, l), Grouped(i, O), Before(O, i) = 0
  PROVE  /\ l # <<>> => Strong("decode", i, "unit", 0, 0, m, XorByte(l[1], ConstVal(Plain(fields[i].xor))), s,
                               SubSeq(l, 2, Len(l)))
         /\ l = <<>> => encRet # "ok"
<1> DEFINE b == XorByte(Low[i], XorOf(i))
<1>1. "decode" \in Codec
  BY DEF Codec
<1>2. Missing(l, Onward[i-1]) /\ Agreed(m, i - 1)
  BY <1>1, StrongIs DEF Side
<1>3. /\ Onward[i-1] = Chunk(i) \o Onward[i] /\ There(fields[i]) /\ Fitting /\ Onward[i] \in Seq(Nat)
      /\ XorOf(i) = ConstVal(Plain(fields[i].xor))
  BY Between
<1>4. Onward[i-1] = <<b>> \o Onward[i]
  BY <1>3 DEF Chunk
<1>5. Low[i] \in 0..255 /\ Low[i] \in Nat /\ Low[i] % Pow(8 - 0) = Low[i]
  <2>1. Low[i] \in 0..Pow(8 - 0) - 1
    BY <1>3, LowRange DEF LowFits
  <2> QED
    BY <2>1, WholeByte
<1>6. b \in Nat
  BY <1>5, OrXorNat
<1> HIDE DEF b
<1>7. <<b>> \in Seq(Nat) /\ Len(<<b>>) = 1 /\ <<b>>[1] = b
  BY <1>6
<1>8. ASSUME l = <<>> PROVE encRet # "ok"
  <2>1. Len(l) < Len(<<b>>)
    BY <1>7, <1>8
  <2>2. Missing(l, <<b>> \o Onward[i])
    BY <1>2, <1>4
  <2> QED
    BY <1>3, <1>7, <2>1, <2>2, Short
<1>9. ASSUME l # <<>>
      PROVE  Strong("decode", i, "unit", 0, 0, m, XorByte(l[1], ConstVal(Plain(fields[i].xor))), s,
                    SubSeq(l, 2, Len(l)))
  <2>1. Len(l) >= 1 /\ 1 + 1 = 2
    BY <1>9
  <2>2. SubSeq(l, 1, Len(<<b>>)) = <<b>> /\ Missing(SubSeq(l, Len(<<b>>) + 1, Len(l)), Onward[i])
    BY <1>2, <1>3, <1>4, <1>7, <2>1, Bitten
  <2>3. SubSeq(l, 1, 1) = <<b>> /\ Missing(SubSeq(l, 2, Len(l)), Onward[i])
    BY <1>7, <2>1, <2>2
  <2>4. l[1] = b
    <3>1. 1 \in 0..Len(l) /\ 1 \in 1..1
      BY <2>1
    <3>2. SubSeq(l, 1, 1)[1] = l[1]
      BY <3>1, Cut
    <3> QED
      BY <1>7, <2>3, <3>2
  <2>5. XorByte(l[1], ConstVal(Plain(fields[i].xor))) = Low[i]
    BY <1>3, <1>5, <2>4, XorTwice DEF b
  <2>7. InGroup("decode", i, 0, Low[i], Low[i], s, SubSeq(l, 2, Len(l)), m, i - 1)
    BY <1>2, <1>5, <2>3 DEF InGroup, Side
  <2>8. Strong("decode", i, "unit", 0, 0, m, Low[i], s, SubSeq(l, 2, Len(l)))
    BY <1>1, <1>3, <2>7, StrongIs DEF Half
  <2> QED
    BY <2>5, <2>8
<1> QED
  BY <1>8, <1>9

LEMMA StrongIf ==
  ASSUME Running, Sound, NEW w \in Codec, NEW i \in 1..Len(fields), NEW k, NEW c, NEW m, NEW t, NEW s, NEW l,
         Strong(w, i, "all", k, c, m, t, s, l), ~Grouped(i, O), fields[i].existIf # NoName
  PROVE  Strong(w, i, IF m[fields[i].existIf] # 0 THEN "body" ELSE "end", 0, 0, m, t, s, l)
<1>1. Before(O, i) = 0
  BY Between
<1>2. Side(w, s, l, Onward[i-1], m, i - 1)
  BY <1>1, StrongIs
<1>3. Passed(w, m, i - 1)
  BY <1>2 DEF Side, Passed
<1>4. m[fields[i].existIf] # 0 <=> There(fields[i])
  BY <1>3, CondIs
<1>5. CASE There(fields[i])
  <2>1. Strong(w, i, "body", 0, 0, m, t, s, l)
    BY <1>5, StrongAll
  <2> QED
    BY <1>4, <1>5, <2>1
<1>6. CASE ~There(fields[i])
  <2>1. Strong(w, i, "end", 0, 0, m, t, s, l)
    BY <1>6, StrongAll
  <2> QED
    BY <1>4, <1>6, <2>1
<1> QED
  BY <1>5, <1>6

LEMMA StrongClamp ==
  ASSUME Running, Sound, NEW i \in 1..Len(fields), NEW k, NEW c, NEW m, Typed(m), NEW t, NEW s, NEW l,
         Strong("encode", i, "body", k, c, m, t, s, l), ~Grouped(i, O),
         fields[i].type.k = "prim", fields[i].max # NoName, NEW n,
         Changed(n, m, i, Clamped(m[fields[i].name], ConstVal(Plain(fields[i].max))))
  PROVE  Strong("encode", i, "unit", 0, 0, n, t, s, l)
<1> DEFINE f == fields[i]
           v == Clamped(m[f.name], ConstVal(Plain(f.max)))
<1>1. "encode" \in Codec /\ Len(fields) \in Nat
  BY Shape DEF Running, Settled, GenInv, IInv, Codec
<1>2. There(f) /\ s \o Onward[i-1] = Onward[0] /\ Kept(m, i - 1)
  <2>1. There(f) /\ Side("encode", s, l, Onward[i-1], m, i - 1)
    BY <1>1, StrongIs
  <2> QED
    BY <2>1 DEF Side
<1>3. Fitting
  BY Between
<1>4. m[f.name] = given[f.name]
  <2>1. i \in (i-1)+1..Len(fields)
    BY <1>1
  <2> QED
    BY <1>2, <2>1 DEF Kept
<1>5. v = Final(f) /\ v \in ValuesOf(f)
  <2>1. Final(f) = Clamped(given[f.name], ConstVal(Plain(f.max))) /\ Final(f) \in ValuesOf(f)
    BY <1>3, FinalIs
  <2> QED
    BY <1>4, <2>1
<1>6. Changed(n, m, i, v)
  OBVIOUS
<1> HIDE DEF v
<1>7. Kept(n, i)
  BY <1>2, <1>5, <1>6, SidePut
<1>8. Side("encode", s, l, Onward[i-1], n, Half("encode", i))
  BY <1>2, <1>7 DEF Side, Half
<1> QED
  BY <1>1, <1>2, <1>8, StrongIs

LEMMA StrongBitsOut ==
  ASSUME Running, Sound, NEW i \in 1..Len(fields), NEW k, NEW c, NEW m, NEW t, NEW s, NEW l,
         Strong("encode", i, "unit", k, c, m, t, s, l), Grouped(i, O)
  PROVE  Strong("encode", i, "after", 0, 0, m,
                OrByte(t, Span(m[fields[i].name], Bits(fields[i].type), 8 - Used(i))), s, l)
<1> DEFINE f == fields[i]
           h == 8 - Used(i)
           w == Bits(f.type)
           v == Final(f)
           lo == LowAfter(i)
           y == v * Pow(h)
<1>1. "encode" \in Codec /\ Fitting
  BY Between DEF Codec
<1>2. There(f) /\ InGroup("encode", i, Before(O, i), Low[i], t, s, l, m, i)
  BY <1>1, StrongIs DEF Half
<1>3. /\ t \in 0..255 /\ t % Pow(8 - Before(O, i)) = 0
      /\ Side("encode", s, l, <<XorByte(t + Low[i], XorOf(i))>> \o Onward[i], m, i)
  BY <1>2 DEF InGroup
<1>4. Spanned(i)
  BY <1>1, LowRange
<1>5. m[f.name] = v
  BY <1>2, <1>3 DEF Side, Kept
<1>6. /\ h \in 0..7 /\ w \in 1..7 /\ h + w <= 8 /\ h + w \in 0..8 /\ 8 - Before(O, i) = h + w
      /\ v \in Nat /\ v < Pow(w) /\ lo \in 0..Pow(h)-1 /\ Low[i] = y + lo
  <2>1. 8 - Used(i) \in 0..7 /\ Bits(fields[i].type) \in 1..7 /\ 8 - Before(O, i) = (8 - Used(i)) + Bits(fields[i].type)
    BY <1>4 DEF Spanned
  <2>2. Before(O, i) \in 0..7
    BY Between, SettledField
  <2>3. Final(fields[i]) \in Nat /\ Final(fields[i]) < Pow(Bits(fields[i].type))
        /\ LowAfter(i) \in 0..Pow(8 - Used(i)) - 1
        /\ Low[i] = Final(fields[i]) * Pow(8 - Used(i)) + LowAfter(i)
    BY <1>4 DEF Spanned
  <2> HIDE DEF h, w
  <2>4. h \in 0..7 /\ w \in 1..7 /\ 8 - Before(O, i) = h + w
    BY <2>1 DEF h, w
  <2>5. h + w <= 8 /\ h + w \in 0..8
    BY <2>2, <2>4
  <2> QED
    BY <2>3, <2>4, <2>5 DEF h, w
<1>7. Span(m[f.name], w, h) = (v % Pow(w)) * Pow(h)
  BY <1>5 DEF Span, Pow
<1> HIDE DEF h, w, v, lo
<1>8. /\ y \in 0..Pow(h + w)-1 /\ Pow(h + w) \in 1..256 /\ v % Pow(w) = v
      /\ t + y \in 0..255 /\ (t + y) % Pow(h) = 0
  <2>1. Slot(h, w, v, lo)
    BY <1>6, Slots
  <2>2. t \in 0..255 /\ t % Pow(h + w) = 0
    BY <1>3, <1>6
  <2> QED
    BY <2>1, <2>2 DEF Slot
<1>9. Span(m[f.name], w, h) = y
  BY <1>7, <1>8
<1> HIDE DEF y
<1>10. OrByte(t, y) = t + y
  <2>1. y \in 0..255 /\ y < Pow(h + w)
    <3> DEFINE p == Pow(h + w)
    <3>1. y \in 0..p-1 /\ p \in 1..256
      BY <1>8
    <3> HIDE DEF p
    <3>2. y \in 0..255 /\ y < p
      BY <3>1
    <3> QED
      BY <3>2 DEF p
  <2>2. t % Pow(h + w) = 0
    BY <1>3, <1>6
  <2> QED
    BY <1>3, <1>6, <2>1, <2>2, OrAdds
<1>11. (t + y) + lo = t + Low[i]
  <2>1. lo \in Nat /\ y \in Nat /\ t \in Nat
    <3>1. lo \in 0..Pow(h)-1 /\ y \in 0..Pow(h + w)-1
      BY <1>6, <1>8
    <3> QED
      BY <1>3, <3>1
  <2> QED
    BY <1>6, <2>1
<1>12. InGroup("encode", i, Used(i), LowAfter(i), t + y, s, l, m, i)
  <2>1. (t + y) % Pow(8 - Used(i)) = 0
    BY <1>8 DEF h
  <2>2. (t + y) + LowAfter(i) = t + Low[i]
    BY <1>11 DEF lo
  <2> QED
    BY <1>3, <1>8, <2>1, <2>2 DEF InGroup
<1>13. Strong("encode", i, "after", 0, 0, m, t + y, s, l)
  BY <1>1, <1>2, <1>12, StrongIs DEF Half, Got
<1> QED
  BY <1>9, <1>10, <1>13 DEF w, h

LEMMA StrongBitsIn ==
  ASSUME Running, Sound, NEW i \in 1..Len(fields), NEW k, NEW c, NEW m, Typed(m), NEW t, NEW s, NEW l,
         Strong("decode", i, "unit", k, c, m, t, s, l), Grouped(i, O), NEW n,
         Changed(n, m, i, (t \div 2^(8 - Used(i))) % 2^Bits(fields[i].type))
  PROVE  Strong("decode", i, "after", 0, 0, n, t, s, l)
<1> DEFINE f == fields[i]
           h == 8 - Used(i)
           w == Bits(f.type)
           v == Final(f)
           lo == LowAfter(i)
<1>1. "decode" \in Codec /\ Fitting
  BY Between DEF Codec
<1>2. There(f) /\ InGroup("decode", i, Before(O, i), Low[i], t, s, l, m, i - 1)
  BY <1>1, StrongIs DEF Half
<1>3. /\ t \in 0..255 /\ t % Pow(8 - Before(O, i)) = Low[i]
      /\ Side("decode", s, l, Onward[i], m, i - 1)
  BY <1>2 DEF InGroup
<1>4. Spanned(i)
  BY <1>1, LowRange
<1>5. /\ h \in 0..7 /\ w \in 1..7 /\ h + w <= 8 /\ 8 - Before(O, i) = h + w
      /\ v \in Nat /\ v < Pow(w) /\ lo \in 0..Pow(h)-1 /\ Low[i] = v * Pow(h) + lo
  <2>1. 8 - Used(i) \in 0..7 /\ Bits(fields[i].type) \in 1..7 /\ 8 - Before(O, i) = (8 - Used(i)) + Bits(fields[i].type)
    BY <1>4 DEF Spanned
  <2>2. Before(O, i) \in 0..7
    BY Between, SettledField
  <2>3. Final(fields[i]) \in Nat /\ Final(fields[i]) < Pow(Bits(fields[i].type))
        /\ LowAfter(i) \in 0..Pow(8 - Used(i)) - 1
        /\ Low[i] = Final(fields[i]) * Pow(8 - Used(i)) + LowAfter(i)
    BY <1>4 DEF Spanned
  <2> HIDE DEF h, w
  <2>4. h \in 0..7 /\ w \in 1..7 /\ 8 - Before(O, i) = h + w
    BY <2>1 DEF h, w
  <2>5. h + w <= 8
    BY <2>2, <2>4
  <2> QED
    BY <2>3, <2>4, <2>5 DEF h, w
<1>6. v \in ValuesOf(f)
  BY <1>1, FinalIs
<1>7. Changed(n, m, i, (t \div Pow(h)) % Pow(w))
  BY DEF Pow
<1> HIDE DEF h, w, v, lo
<1>8. (t \div Pow(h)) % Pow(w) = v /\ t % Pow(h) = lo
  <2>1. t % Pow(h + w) = v * Pow(h) + lo
    BY <1>3, <1>5
  <2> QED
    <3>1. Slot(h, w, v, lo)
      BY <1>5, Slots
    <3> QED
      BY <1>3, <2>1, <3>1 DEF Slot
<1>9. Changed(n, m, i, v)
  BY <1>7, <1>8
<1>10. n[f.name] = v /\ Agreed(n, i - 1)
  <2>1. Agreed(m, i - 1)
    BY <1>3 DEF Side
  <2> QED
    BY <1>6, <1>9, <2>1, SidePut
<1>11. Side("decode", s, l, Onward[i], n, i - 1)
  BY <1>3, <1>10 DEF Side
<1>12. InGroup("decode", i, Used(i), LowAfter(i), t, s, l, n, i - 1)
  BY <1>3, <1>8, <1>11 DEF InGroup, h, lo
<1> QED
  BY <1>1, <1>2, <1>10, <1>12, StrongIs DEF Half, Got, v

(* The bytes a are written; b is what is to come.                          *)
LEMMA Wrote ==
  ASSUME NEW s \in Seq(Nat), NEW l, NEW a \in Seq(Nat), NEW b \in Seq(Nat), NEW m, NEW n,
         Side("encode", s, l, a \o b, m, n)
  PROVE  Side("encode", s \o a, l, b, m, n)
<1>1. s \o (a \o b) = Onward[0] /\ Kept(m, n)
  BY DEF Side
<1>2. (s \o a) \o b = s \o (a \o b)
  BY Assoc
<1>3. (s \o a) \o b = Onward[0]
  BY <1>1, <1>2
<1> QED
  BY <1>1, <1>3 DEF Side

LEMMA StrongIntOut ==
  ASSUME Running, Sound, NEW i \in 1..Len(fields), NEW k, NEW c, NEW m, NEW t, NEW s \in Seq(Nat), NEW l,
         Strong("encode", i, "unit", k, c, m, t, s, l), ~Grouped(i, O), fields[i].type.k = "prim"
  PROVE  LET out == Masked(BigEndian(m[fields[i].name], Bits(fields[i].type)), ConstVal(Plain(fields[i].xor)))
         IN  Strong("encode", i, "after", 0, 0, m, t, s \o out, l)
<1> DEFINE f == fields[i]
           out == Masked(BigEndian(m[f.name], Bits(f.type)), ConstVal(Plain(f.xor)))
<1>1. "encode" \in Codec
  BY DEF Codec
<1>2. There(f) /\ Side("encode", s, l, Onward[i-1], m, i)
  BY <1>1, StrongIs DEF Half
<1>3. Onward[i-1] = Chunk(i) \o Onward[i] /\ Onward[i] \in Seq(Nat) /\ Chunk(i) \in Seq(Nat)
  BY Between, ChunkSeq
<1>4. m[f.name] = Final(f)
  BY <1>2 DEF Side, Kept
<1>5. Chunk(i) = out
  BY <1>2, <1>4 DEF Chunk, Payload
<1> HIDE DEF out
<1>6. Side("encode", s, l, out \o Onward[i], m, i)
  BY <1>2, <1>3, <1>5
<1>7. Side("encode", s \o out, l, Onward[i], m, i)
  BY <1>3, <1>5, <1>6, Wrote
<1>8. Strong("encode", i, "after", 0, 0, m, t, s \o out, l)
  BY <1>1, <1>2, <1>7, StrongIs DEF Half, Got
<1> QED
  BY <1>8 DEF out

LEMMA StrongFiller ==
  ASSUME Running, Sound, NEW i \in 1..Len(fields), NEW k, NEW c, NEW m, NEW t, NEW s \in Seq(Nat), NEW l,
         Strong("encode", i, "after", k, c, m, t, s, l), Grouped(i, O), Used(i) = 8
  PROVE  LET out == <<XorByte(t, ConstVal(Plain(fields[Opener(i)].xor)))>>
         IN  Strong("encode", i, "end", 0, 0, m, t, s \o out, l)
<1> DEFINE out == <<XorByte(t, ConstVal(Plain(fields[Opener(i)].xor)))>>
<1>1. "encode" \in Codec /\ Fitting /\ Onward[i] \in Seq(Nat)
  BY Between DEF Codec
<1>2. InGroup("encode", i, Used(i), LowAfter(i), t, s, l, m, i)
  BY <1>1, StrongIs DEF Half
<1>3. LowAfter(i) = 0 /\ Before(O, i + 1) = 0
  BY <1>1, LowRange DEF Spanned
<1>4. t \in 0..255 /\ Side("encode", s, l, <<XorByte(t + 0, XorOf(i))>> \o Onward[i], m, i)
  BY <1>2, <1>3 DEF InGroup
<1>5. t + 0 = t /\ t \in Nat
  BY <1>4
<1>6. <<XorByte(t + 0, XorOf(i))>> = out
  BY <1>5 DEF XorOf
<1>7. out \in Seq(Nat)
  BY <1>5, OrXorNat
<1> HIDE DEF out
<1>8. Side("encode", s \o out, l, Onward[i], m, i)
  BY <1>1, <1>4, <1>6, <1>7, Wrote
<1>9. Strong("encode", i, "end", 0, 0, m, t, s \o out, l)
  BY <1>1, <1>3, <1>8, StrongIs
<1> QED
  BY <1>9 DEF out

LEMMA StrongMsgOut ==
  ASSUME Running, Sound, NEW i \in 1..Len(fields), NEW k, NEW c, NEW m, NEW t, NEW s \in Seq(Nat), NEW l,
         Strong("encode", i, "body", k, c, m, t, s, l), ~Grouped(i, O), fields[i].type.k \in {"struct", "undef"}
  PROVE  Strong("encode", i, "end", 0, 0, m, t, s \o <<m[fields[i].name]>>, l)
<1> DEFINE f == fields[i]
           out == <<m[f.name]>>
<1>1. "encode" \in Codec /\ Fitting /\ Len(fields) \in Nat
  BY Between, Shape DEF Codec, Settled, GenInv, IInv
<1>2. There(f) /\ Side("encode", s, l, Onward[i-1], m, i - 1)
  BY <1>1, StrongIs
<1>3. /\ Onward[i-1] = Chunk(i) \o Onward[i] /\ Onward[i] \in Seq(Nat) /\ Chunk(i) \in Seq(Nat)
      /\ Before(O, i + 1) = 0
  BY Between, ChunkSeq
<1>4. Final(f) = given[f.name]
  BY <1>1, FinalIs
<1>5. m[f.name] = Final(f)
  <2>1. i \in (i-1)+1..Len(fields)
    BY <1>1
  <2> QED
    BY <1>2, <1>4, <2>1 DEF Side, Kept
<1>6. Chunk(i) = out
  BY <1>2, <1>5 DEF Chunk, Payload
<1> HIDE DEF out
<1>7. Side("encode", s, l, out \o Onward[i], m, i)
  BY <1>2, <1>3, <1>4, <1>6, SideNext
<1>8. Side("encode", s \o out, l, Onward[i], m, i)
  BY <1>3, <1>6, <1>7, Wrote
<1>9. Strong("encode", i, "end", 0, 0, m, t, s \o out, l)
  BY <1>1, <1>3, <1>8, StrongIs
<1> QED
  BY <1>9 DEF out

LEMMA StrongBytesOut ==
  ASSUME Running, Sound, NEW i \in 1..Len(fields), NEW k, NEW c, NEW m, NEW t, NEW s \in Seq(Nat), NEW l,
         Strong("encode", i, "body", k, c, m, t, s, l), ~Grouped(i, O),
         fields[i].type.k = "array", ~Each(fields[i])
  PROVE  Strong("encode", i, "end", 0, 0, m, t, s \o SubSeq(m[fields[i].name], 1, Limit(fields[i], m)), l)
<1> DEFINE f == fields[i]
           out == SubSeq(m[f.name], 1, Limit(f, m))
<1>1. "encode" \in Codec /\ Fitting /\ Len(fields) \in Nat
  BY Between, Shape DEF Codec, Settled, GenInv, IInv
<1>2. There(f) /\ Side("encode", s, l, Onward[i-1], m, i - 1)
  BY <1>1, StrongIs
<1>3. /\ Onward[i-1] = Chunk(i) \o Onward[i] /\ Onward[i] \in Seq(Nat) /\ Chunk(i) \in Seq(Nat)
      /\ Before(O, i + 1) = 0
  BY Between, ChunkSeq
<1>4. Final(f) = given[f.name]
  BY <1>1, FinalIs
<1>5. m[f.name] = Final(f)
  <2>1. i \in (i-1)+1..Len(fields)
    BY <1>1
  <2> QED
    BY <1>2, <1>4, <2>1 DEF Side, Kept
<1>6. Limit(f, m) = Extent(f)
  <2>1. Passed("encode", m, i - 1)
    BY <1>2 DEF Side, Passed
  <2> QED
    BY <2>1, LimitKnown
<1>7. Chunk(i) = out
  BY <1>2, <1>5, <1>6 DEF Chunk, Payload
<1> HIDE DEF out
<1>8. Side("encode", s, l, out \o Onward[i], m, i)
  BY <1>2, <1>3, <1>4, <1>7, SideNext
<1>9. Side("encode", s \o out, l, Onward[i], m, i)
  BY <1>3, <1>7, <1>8, Wrote
<1>10. Strong("encode", i, "end", 0, 0, m, t, s \o out, l)
  BY <1>1, <1>3, <1>9, StrongIs
<1> QED
  BY <1>10 DEF out

LEMMA StrongLoop ==
  ASSUME Running, Sound, NEW w \in Codec, NEW i \in 1..Len(fields), NEW k, NEW c, NEW m, NEW t, NEW s, NEW l,
         Strong(w, i, "body", k, c, m, t, s, l), ~Grouped(i, O), Each(fields[i])
  PROVE  Strong(w, i, "elems", 0, Limit(fields[i], m), m, t, s, l)
<1> DEFINE f == fields[i]
<1>1. There(f) /\ Side(w, s, l, Onward[i-1], m, i - 1)
  BY StrongIs
<1>2. f.type.k = "array" /\ f.type.k # "prim" /\ Onward[i-1] = Chunk(i) \o Onward[i]
  BY Between DEF Each
<1>3. Limit(f, m) = Extent(f)
  <2>1. Passed(w, m, i - 1)
    BY <1>1 DEF Side, Passed
  <2> QED
    BY <1>2, <2>1, LimitKnown
<1>4. Chunk(i) = ElemBytes(f)[0]
  BY <1>1, <1>2 DEF Chunk, Payload
<1>5. Side(w, s, l, ElemBytes(f)[0] \o Onward[i], m, i - 1)
  BY <1>1, <1>2, <1>4
<1>6. \A e \in 1..0 : m[f.name][e] = Final(f)[e]
  OBVIOUS
<1> QED
  BY <1>1, <1>3, <1>5, <1>6, StrongIs

LEMMA StrongElemOut ==
  ASSUME Running, Sound, NEW i \in 1..Len(fields), NEW c \in Nat, NEW k \in 0..c, k # c, NEW h, h = k + 1,
         NEW m, NEW t, NEW s \in Seq(Nat), NEW l,
         Strong("encode", i, "elems", k, c, m, t, s, l), ~Grouped(i, O), Each(fields[i])
  PROVE  LET out == BigEndian(m[fields[i].name][h], ElemOf(fields[i], h).w)
         IN  Strong("encode", i, "elems", h, c, m, t, s \o out, l)
<1> DEFINE f == fields[i]
           out == BigEndian(m[f.name][h], ElemOf(f, h).w)
           b == ElemBytes(f)
<1>1. "encode" \in Codec /\ Fitting /\ Len(fields) \in Nat /\ Onward[i] \in Seq(Nat)
  BY Between, Shape DEF Codec, Settled, GenInv, IInv
<1>2. There(f) /\ c = Extent(f) /\ Side("encode", s, l, b[k] \o Onward[i], m, i - 1)
  BY <1>1, StrongIs
<1>3. f.type.k = "array" /\ f.type.k # "prim"
  BY DEF Each
<1>4. m[f.name] = Final(f)
  <2>1. Final(f) = given[f.name]
    BY <1>1, <1>3, FinalIs
  <2>2. i \in (i-1)+1..Len(fields)
    BY <1>1
  <2> QED
    BY <1>2, <2>1, <2>2 DEF Side, Kept
<1>5. h \in 1..c /\ h - 1 = k /\ h \in 0..c
  OBVIOUS
<1>6. b[k] = out \o b[h] /\ out \in Seq(Nat) /\ b[h] \in Seq(Nat)
  <2>1. /\ b[h-1] = BigEndian(Final(f)[h], ElemOf(f, h).w) \o b[h]
        /\ BigEndian(Final(f)[h], ElemOf(f, h).w) \in Seq(Nat)
    BY <1>2, <1>3, <1>5, ElemTails
  <2>2. b[h] \in Seq(Nat)
    BY <1>2, <1>3, <1>5, ElemTails
  <2> HIDE DEF b
  <2> QED
    BY <1>4, <1>5, <2>1, <2>2
<1> HIDE DEF out, b
<1> DEFINE rest == b[h] \o Onward[i]
<1>7. rest \in Seq(Nat) /\ b[k] \o Onward[i] = out \o rest
  <2> DEFINE y == b[h]
             z == Onward[i]
  <2>1. y \in Seq(Nat) /\ z \in Seq(Nat)
    BY <1>1, <1>6
  <2>2. b[k] = out \o y
    BY <1>6
  <2> HIDE DEF y, z
  <2>3. y \o z \in Seq(Nat)
    BY <2>1
  <2>4. (out \o y) \o z = out \o (y \o z)
    BY <1>6, <2>1, Assoc
  <2> QED
    BY <2>2, <2>3, <2>4 DEF y, z
<1> HIDE DEF rest
<1>8. Side("encode", s, l, out \o rest, m, i - 1)
  BY <1>2, <1>7
<1>9. Side("encode", s \o out, l, rest, m, i - 1)
  BY <1>6, <1>7, <1>8, Wrote
<1>10. Side("encode", s \o out, l, ElemBytes(f)[h] \o Onward[i], m, i - 1)
  BY <1>9 DEF rest, b
<1>11. Strong("encode", i, "elems", h, c, m, t, s \o out, l)
  BY <1>1, <1>2, <1>10, StrongIs
<1> QED
  BY <1>11 DEF out

(* The read of field i finds its bytes, or the encoder has not written all *)
(* of them.                                                                *)
LEMMA StrongIntIn ==
  ASSUME Running, Sound, NEW i \in 1..Len(fields), NEW k, NEW c, NEW m, Typed(m), NEW t, NEW s, NEW l \in Seq(Nat),
         Strong("decode", i, "unit", k, c, m, t, s, l), ~Grouped(i, O), fields[i].type.k = "prim",
         NEW q, q = Bits(fields[i].type) \div 8
  PROVE  /\ q <= Len(l) =>
              \A n : Changed(n, m, i, Number(Masked(SubSeq(l, 1, q), ConstVal(Plain(fields[i].xor))))) =>
                Strong("decode", i, "after", 0, 0, n, t, s, SubSeq(l, q + 1, Len(l)))
         /\ q > Len(l) => encRet # "ok"
<1> DEFINE f == fields[i]
           x == ConstVal(Plain(f.xor))
           w == Bits(f.type)
           y == BigEndian(Final(f), w)
           a == Masked(y, x)
<1>1. "decode" \in Codec /\ Fitting /\ Settled
  BY Between DEF Codec
<1>2. There(f) /\ Side("decode", s, l, Onward[i-1], m, i - 1)
  BY <1>1, StrongIs DEF Half
<1>3. Onward[i-1] = Chunk(i) \o Onward[i] /\ Onward[i] \in Seq(Nat)
  BY Between
<1>4. Chunk(i) = a
  BY <1>2 DEF Chunk, Payload
<1>5. w \in Widths /\ Final(f) \in Nat /\ High(Final(f), q) = 0 /\ Final(f) \in ValuesOf(f)
  BY <1>1, IntWidth, FinalIs
<1>6. q \in 1..8
  BY <1>5 DEF Widths
<1>7. y \in Seq(0..255) /\ Len(y) = q /\ Number(y) = Final(f)
  <2> HIDE DEF w
  <2>1. q = w \div 8
    BY DEF w
  <2>2. Number(y) = Final(f)
    BY <1>5, <2>1, NumberOfBytes
  <2>3. y \in Seq(0..255) /\ Len(y) = q
    BY <1>5, <2>1, BigEndianBytes
  <2> QED
    BY <2>2, <2>3
<1> HIDE DEF y, w
<1>8. a \in Seq(Nat) /\ Len(a) = q /\ Masked(a, x) = y
  BY <1>7, MaskedBytes, MaskedTwice
<1> HIDE DEF a
<1>9. Missing(l, a \o Onward[i]) /\ Agreed(m, i - 1)
  BY <1>2, <1>3, <1>4 DEF Side
<1>10. Len(l) \in Nat
  OBVIOUS
<1>11. ASSUME q > Len(l) PROVE encRet # "ok"
  <2>1. Len(l) < Len(a)
    BY <1>6, <1>8, <1>10, <1>11
  <2> QED
    BY <1>3, <1>8, <1>9, <2>1, Short
<1>12. ASSUME q <= Len(l), NEW n, Changed(n, m, i, Number(Masked(SubSeq(l, 1, q), x)))
       PROVE  Strong("decode", i, "after", 0, 0, n, t, s, SubSeq(l, q + 1, Len(l)))
  <2>1. Len(a) <= Len(l)
    BY <1>8, <1>12
  <2>2. SubSeq(l, 1, Len(a)) = a /\ Missing(SubSeq(l, Len(a) + 1, Len(l)), Onward[i])
    BY <1>3, <1>8, <1>9, <2>1, Bitten
  <2>3. SubSeq(l, 1, q) = a /\ Missing(SubSeq(l, q + 1, Len(l)), Onward[i])
    BY <1>8, <2>2
  <2>4. Number(Masked(SubSeq(l, 1, q), x)) = Final(f)
    BY <1>7, <1>8, <2>3
  <2>5. Changed(n, m, i, Final(f))
    BY <1>12, <2>4
  <2>6. n[f.name] = Final(f) /\ Agreed(n, i - 1)
    BY <1>5, <1>9, <2>5, SidePut
  <2>7. Side("decode", s, SubSeq(l, q + 1, Len(l)), Onward[i], n, Half("decode", i))
    BY <2>3, <2>6 DEF Side, Half
  <2> QED
    BY <1>1, <1>2, <2>6, <2>7, StrongIs DEF Got
<1> QED
  BY <1>11, <1>12

LEMMA StrongMsgIn ==
  ASSUME Running, Sound, NEW i \in 1..Len(fields), NEW k, NEW c, NEW m, Typed(m), NEW t, NEW s, NEW l \in Seq(Nat),
         Strong("decode", i, "body", k, c, m, t, s, l), ~Grouped(i, O), fields[i].type.k \in {"struct", "undef"}
  PROVE  /\ l # <<>> => \A n : Changed(n, m, i, l[1]) => Strong("decode", i, "end", 0, 0, n, t, s, SubSeq(l, 2, Len(l)))
         /\ l = <<>> => encRet # "ok"
<1> DEFINE f == fields[i]
           b == Final(f)
<1>1. "decode" \in Codec /\ Fitting
  BY Between DEF Codec
<1>2. There(f) /\ Side("decode", s, l, Onward[i-1], m, i - 1)
  BY <1>1, StrongIs
<1>3. Onward[i-1] = Chunk(i) \o Onward[i] /\ Onward[i] \in Seq(Nat) /\ Before(O, i + 1) = 0
  BY Between
<1>4. Chunk(i) = <<b>>
  BY <1>2 DEF Chunk, Payload
<1>5. b \in ValuesOf(f)
  BY <1>1, FinalIs
<1>6. b \in Nat
  BY <1>5 DEF ValuesOf
<1> HIDE DEF b
<1>7. <<b>> \in Seq(Nat) /\ Len(<<b>>) = 1 /\ <<b>>[1] = b
  BY <1>6
<1>8. Missing(l, <<b>> \o Onward[i]) /\ Agreed(m, i - 1)
  BY <1>2, <1>3, <1>4 DEF Side
<1>9. ASSUME l = <<>> PROVE encRet # "ok"
  <2>1. Len(l) < Len(<<b>>)
    BY <1>7, <1>9
  <2> QED
    BY <1>3, <1>7, <1>8, <2>1, Short
<1>10. ASSUME l # <<>>, NEW n, Changed(n, m, i, l[1])
       PROVE  Strong("decode", i, "end", 0, 0, n, t, s, SubSeq(l, 2, Len(l)))
  <2>1. Len(l) >= 1 /\ 1 + 1 = 2 /\ Len(<<b>>) <= Len(l)
    BY <1>7, <1>10
  <2>2. SubSeq(l, 1, Len(<<b>>)) = <<b>> /\ Missing(SubSeq(l, Len(<<b>>) + 1, Len(l)), Onward[i])
    BY <1>3, <1>7, <1>8, <2>1, Bitten
  <2>3. SubSeq(l, 1, 1) = <<b>> /\ Missing(SubSeq(l, 2, Len(l)), Onward[i])
    BY <1>7, <2>1, <2>2
  <2>4. l[1] = b
    <3>1. 1 \in 0..Len(l) /\ 1 \in 1..1
      BY <2>1
    <3>2. SubSeq(l, 1, 1)[1] = l[1]
      BY <3>1, Cut
    <3> QED
      BY <1>7, <2>3, <3>2
  <2>5. Changed(n, m, i, b)
    BY <1>10, <2>4
  <2>6. n[f.name] = b
    BY <1>5, <2>5, SidePut
  <2>7. Alike(f, n)
    BY <2>6 DEF Alike, b
  <2>8. Agreed(n, i)
    BY <1>5, <1>8, <2>5, <2>7, SidePut
  <2>9. Side("decode", s, SubSeq(l, 2, Len(l)), Onward[i], n, i)
    BY <2>3, <2>8 DEF Side
  <2> QED
    BY <1>1, <1>3, <2>9, StrongIs
<1> QED
  BY <1>9, <1>10

LEMMA AlikeArray ==
  ASSUME NEW f, NEW m, f.type.k = "array", \A e \in 1..Extent(f) : m[f.name][e] = Final(f)[e]
  PROVE  Alike(f, m)
  BY DEF Alike

(* Bytes put into an array, at its front or at place h.                    *)
Laid(v, old, b) == v = [e \in DOMAIN old |-> IF e \in DOMAIN b THEN b[e] ELSE old[e]]
PutAt(v, old, h, x) == v = [old EXCEPT ![h] = x]

LEMMA StrongBytesIn ==
  ASSUME Running, Sound, NEW i \in 1..Len(fields), NEW k, NEW c, NEW m, Typed(m), NEW t, NEW s, NEW l \in Seq(Nat),
         Strong("decode", i, "body", k, c, m, t, s, l), ~Grouped(i, O), fields[i].type.k = "array", ~Each(fields[i]),
         NEW q, q = Limit(fields[i], m)
  PROVE  /\ q <= Len(l) =>
              \A b, v, n : (/\ b = SubSeq(l, 1, q)
                            /\ Laid(v, m[fields[i].name], b)
                            /\ v \in ValuesOf(fields[i]) /\ Changed(n, m, i, v))
                             => Strong("decode", i, "end", 0, 0, n, t, s, SubSeq(l, q + 1, Len(l)))
         /\ q > Len(l) => encRet # "ok"
<1> DEFINE f == fields[i]
           a == SubSeq(Final(f), 1, q)
<1>1. "decode" \in Codec /\ Fitting
  BY Between DEF Codec
<1>2. There(f) /\ Side("decode", s, l, Onward[i-1], m, i - 1)
  BY <1>1, StrongIs
<1>3. Onward[i-1] = Chunk(i) \o Onward[i] /\ Onward[i] \in Seq(Nat) /\ Before(O, i + 1) = 0
  BY Between
<1>4. q = Extent(f)
  <2>1. Passed("decode", m, i - 1)
    BY <1>2 DEF Side, Passed
  <2> QED
    BY <2>1, LimitKnown
<1>5. Chunk(i) = a
  BY <1>2, <1>4 DEF Chunk, Payload
<1>6. /\ q \in Nat /\ Final(f) \in Seq(Nat) /\ q <= Len(Final(f)) /\ Len(Final(f)) = Size(f)
      /\ Size(f) \in Nat
  BY <1>4, ExtentIs
<1>7. a \in Seq(Nat) /\ Len(a) = q /\ \A e \in 1..q : a[e] = Final(f)[e]
  <2> DEFINE z == Final(f)
  <2>1. z \in Seq(Nat) /\ q \in 0..Len(z)
    BY <1>6
  <2> HIDE DEF z
  <2>2. SubSeq(z, 1, q) \in Seq(Nat) /\ Len(SubSeq(z, 1, q)) = q /\ \A e \in 1..q : SubSeq(z, 1, q)[e] = z[e]
    BY <2>1, Cut
  <2> QED
    BY <2>2 DEF z
<1> HIDE DEF a
<1>8. Missing(l, a \o Onward[i]) /\ Agreed(m, i - 1)
  BY <1>2, <1>3, <1>5 DEF Side
<1>9. Len(l) \in Nat
  OBVIOUS
<1>10. ASSUME q > Len(l) PROVE encRet # "ok"
  <2>1. Len(l) < Len(a)
    BY <1>6, <1>7, <1>9, <1>10
  <2> QED
    BY <1>3, <1>7, <1>8, <2>1, Short
<1>11. ASSUME q <= Len(l), NEW b, NEW v, NEW n, b = SubSeq(l, 1, q),
              Laid(v, m[f.name], b), v \in ValuesOf(f), Changed(n, m, i, v)
       PROVE  Strong("decode", i, "end", 0, 0, n, t, s, SubSeq(l, q + 1, Len(l)))
  <2>1. Len(a) <= Len(l)
    BY <1>7, <1>11
  <2>2. SubSeq(l, 1, Len(a)) = a /\ Missing(SubSeq(l, Len(a) + 1, Len(l)), Onward[i])
    BY <1>3, <1>7, <1>8, <2>1, Bitten
  <2>3. b = a /\ Missing(SubSeq(l, q + 1, Len(l)), Onward[i])
    BY <1>7, <1>11, <2>2
  <2>4. n[f.name] = v
    BY <1>11, SidePut
  <2>5. Alike(f, n)
    <3>1. DOMAIN b = 1..q
      BY <1>7, <2>3
    <3>2. DOMAIN m[f.name] = 1..Size(f)
      BY DEF Typed, ValuesOf
    <3>3. \A e \in 1..q : e \in DOMAIN m[f.name]
      BY <1>6, <3>2
    <3>4. \A e \in 1..q : v[e] = Final(f)[e]
      BY <1>7, <1>11, <2>3, <3>1, <3>3 DEF Laid
    <3>5. \A e \in 1..Extent(f) : n[f.name][e] = Final(f)[e]
      BY <1>4, <2>4, <3>4
    <3> QED
      BY <3>5, AlikeArray
  <2>6. Agreed(n, i)
    BY <1>8, <1>11, <2>5, SidePut
  <2>7. Side("decode", s, SubSeq(l, q + 1, Len(l)), Onward[i], n, i)
    BY <2>3, <2>6 DEF Side
  <2> QED
    BY <1>1, <1>3, <2>7, StrongIs
<1>12. \A b, v, n : (/\ q <= Len(l) /\ b = SubSeq(l, 1, q) /\ Laid(v, m[f.name], b)
                     /\ v \in ValuesOf(f) /\ Changed(n, m, i, v))
                      => Strong("decode", i, "end", 0, 0, n, t, s, SubSeq(l, q + 1, Len(l)))
  <2> SUFFICES ASSUME NEW b, NEW v, NEW n, q <= Len(l), b = SubSeq(l, 1, q), Laid(v, m[f.name], b),
                      v \in ValuesOf(f), Changed(n, m, i, v)
               PROVE  Strong("decode", i, "end", 0, 0, n, t, s, SubSeq(l, q + 1, Len(l)))
    OBVIOUS
  <2> QED
    BY <1>11
<1> QED
  BY <1>10, <1>12

LEMMA StrongElemIn ==
  ASSUME Running, Sound, NEW i \in 1..Len(fields), NEW c \in Nat, NEW k \in 0..c, k # c, NEW h, h = k + 1,
         NEW m, Typed(m), NEW t, NEW s, NEW l \in Seq(Nat),
         Strong("decode", i, "elems", k, c, m, t, s, l), ~Grouped(i, O), Each(fields[i]),
         NEW q, q = ElemOf(fields[i], h).w \div 8
  PROVE  /\ q <= Len(l) =>
              \A v, n : (/\ PutAt(v, m[fields[i].name], h, Number(SubSeq(l, 1, q)))
                         /\ v \in ValuesOf(fields[i]) /\ Changed(n, m, i, v))
                          => Strong("decode", i, "elems", h, c, n, t, s, SubSeq(l, q + 1, Len(l)))
         /\ q > Len(l) => encRet # "ok"
<1> DEFINE f == fields[i]
           w == ElemOf(f, h).w
           x == Final(f)[h]
           a == BigEndian(x, w)
           b == ElemBytes(f)
           rest == b[h] \o Onward[i]
<1>1. "decode" \in Codec /\ Fitting /\ Onward[i] \in Seq(Nat)
  BY Between DEF Codec
<1>2. There(f) /\ c = Extent(f) /\ Side("decode", s, l, b[k] \o Onward[i], m, i - 1)
      /\ \A e \in 1..k : m[f.name][e] = Final(f)[e]
  <2>1. /\ There(fields[i]) /\ c = Extent(fields[i])
        /\ "decode" # "encode" => \A e \in 1..k : m[fields[i].name][e] = Final(fields[i])[e]
        /\ Side("decode", s, l, ElemBytes(fields[i])[k] \o Onward[i], m, i - 1)
    BY <1>1, StrongIs
  <2> QED
    BY <2>1
<1>3. f.type.k = "array" /\ f.type.k # "prim"
  BY DEF Each
<1>4. h \in 1..c /\ h - 1 = k /\ h \in 0..c /\ \A e \in 1..h : e \in 1..k \/ e = h
  OBVIOUS
<1>5. b[k] = a \o b[h] /\ a \in Seq(Nat) /\ Len(a) = q /\ Number(a) = x /\ b[h] \in Seq(Nat)
  <2>1. /\ b[h-1] = BigEndian(Final(f)[h], ElemOf(f, h).w) \o b[h]
        /\ BigEndian(Final(f)[h], ElemOf(f, h).w) \in Seq(Nat)
        /\ Len(BigEndian(Final(f)[h], ElemOf(f, h).w)) = ElemOf(f, h).w \div 8
        /\ Number(BigEndian(Final(f)[h], ElemOf(f, h).w)) = Final(f)[h]
    BY <1>2, <1>3, <1>4, ElemTails
  <2>2. b[h] \in Seq(Nat)
    BY <1>2, <1>3, <1>4, ElemTails
  <2> HIDE DEF b
  <2> QED
    BY <1>4, <2>1, <2>2
<1> HIDE DEF a, b
<1>6. rest \in Seq(Nat) /\ b[k] \o Onward[i] = a \o rest
  <2> DEFINE y == b[h]
             z == Onward[i]
  <2>1. y \in Seq(Nat) /\ z \in Seq(Nat)
    BY <1>1, <1>5
  <2>2. b[k] = a \o y
    BY <1>5
  <2> HIDE DEF y, z
  <2>3. y \o z \in Seq(Nat)
    BY <2>1
  <2>4. (a \o y) \o z = a \o (y \o z)
    BY <1>5, <2>1, Assoc
  <2> QED
    BY <2>2, <2>3, <2>4 DEF y, z
<1> HIDE DEF rest
<1>7. Missing(l, a \o rest) /\ Agreed(m, i - 1)
  BY <1>2, <1>6 DEF Side
<1>8. Len(l) \in Nat /\ Len(a) \in Nat
  BY <1>5
<1>9. ASSUME q > Len(l) PROVE encRet # "ok"
  <2>1. Len(l) < Len(a)
    BY <1>5, <1>8, <1>9
  <2> QED
    BY <1>5, <1>6, <1>7, <2>1, Short
<1>10. ASSUME q <= Len(l), NEW v, NEW n, PutAt(v, m[f.name], h, Number(SubSeq(l, 1, q))),
              v \in ValuesOf(f), Changed(n, m, i, v)
       PROVE  Strong("decode", i, "elems", h, c, n, t, s, SubSeq(l, q + 1, Len(l)))
  <2>1. Len(a) <= Len(l)
    BY <1>5, <1>10
  <2>2. SubSeq(l, 1, Len(a)) = a /\ Missing(SubSeq(l, Len(a) + 1, Len(l)), rest)
    BY <1>5, <1>6, <1>7, <2>1, Bitten
  <2>3. Number(SubSeq(l, 1, q)) = x /\ Missing(SubSeq(l, q + 1, Len(l)), rest)
    BY <1>5, <2>2
  <2>4. n[f.name] = v /\ Agreed(n, i - 1)
    BY <1>7, <1>10, SidePut
  <2>5. \A e \in 1..h : n[f.name][e] = Final(f)[e]
    <3>1. DOMAIN m[f.name] = 1..Size(f) /\ c <= Size(f) /\ Size(f) \in Nat
      <4>1. m[f.name] \in ValuesOf(f)
        BY DEF Typed
      <4>2. DOMAIN m[f.name] = 1..Size(f)
        BY <1>3, <4>1 DEF ValuesOf
      <4> QED
        BY <1>2, <1>3, <4>2, ExtentIs
    <3>2. \A e \in 1..h : e \in DOMAIN m[f.name]
      <4> DEFINE z == Size(f)
      <4> HIDE DEF z
      <4>1. DOMAIN m[f.name] = 1..z /\ c <= z /\ z \in Nat
        BY <3>1 DEF z
      <4> QED
        BY <1>4, <4>1
    <3> HIDE DEF x
    <3>3. v = [m[f.name] EXCEPT ![h] = x]
      BY <1>10, <2>3 DEF PutAt
    <3>4. \A e \in 1..h : v[e] = IF e = h THEN x ELSE m[f.name][e]
      BY <3>2, <3>3
    <3> QED
      BY <1>2, <1>4, <2>4, <3>4 DEF x
  <2>6. Side("decode", s, SubSeq(l, q + 1, Len(l)), ElemBytes(f)[h] \o Onward[i], n, i - 1)
    BY <2>3, <2>4 DEF Side, rest, b
  <2>7. "decode" # "encode"
    OBVIOUS
  <2> QED
    BY <1>1, <1>2, <2>5, <2>6, StrongIs
<1>11. \A v, n : (/\ q <= Len(l) /\ PutAt(v, m[f.name], h, Number(SubSeq(l, 1, q)))
                  /\ v \in ValuesOf(f) /\ Changed(n, m, i, v))
                   => Strong("decode", i, "elems", h, c, n, t, s, SubSeq(l, q + 1, Len(l)))
  <2> SUFFICES ASSUME NEW v, NEW n, q <= Len(l), PutAt(v, m[f.name], h, Number(SubSeq(l, 1, q))),
                      v \in ValuesOf(f), Changed(n, m, i, v)
               PROVE  Strong("decode", i, "elems", h, c, n, t, s, SubSeq(l, q + 1, Len(l)))
    OBVIOUS
  <2> QED
    BY <1>10
<1> QED
  BY <1>9, <1>11

-----------------------------------------------------------------------------
(* What holds of a running function at its place: m is its struct, t its   *)
(* tmp, s the stream written, l what is left to read.  Of a decoder, Strong *)
(* is said when the bytes of an encoder arrive as they were written.       *)
Trusted(w) == Sound /\ (w = "decode" => clean /\ encRet \in {"ok", "fail"})

Holds(w, i, st, k, c, m, t, s, l) ==
  /\ st = "load" => w = "decode"
  /\ Weak(w, i, st, k, c, m)
  /\ Trusted(w) => Strong(w, i, st, k, c, m, t, s, l)

Stages == {"all", "body", "load", "unit", "after", "elems", "end"}

LEMMA HoldsSilent ==
  ASSUME Running, NEW w \in Codec, NEW m, Typed(m), NEW i \in 0..Len(fields), NEW t, NEW s, NEW l
  PROVE  /\ \A k, c : Holds(w, i, "end", k, c, m, t, s, l) /\ i # Len(fields)
                        => Holds(w, i + 1, "all", 0, 0, m, t, s, l)
         /\ \A k, c : Holds(w, i, "all", k, c, m, t, s, l) /\ i # 0 /\ Grouped(i, O) /\ Before(O, i) # 0
                        => Holds(w, i, "unit", 0, 0, m, t, s, l)
         /\ \A k, c : Holds(w, i, "all", k, c, m, t, s, l) /\ i # 0 /\ ~Grouped(i, O)
                       /\ fields[i].existIf = NoName
                        => Holds(w, i, "body", 0, 0, m, t, s, l)
         /\ \A k, c : Holds(w, i, "body", k, c, m, t, s, l) /\ i # 0 /\ ~Grouped(i, O)
                       /\ fields[i].type.k = "prim" /\ (w = "encode" => fields[i].max = NoName)
                        => Holds(w, i, "unit", 0, 0, m, t, s, l)
         /\ \A k, c : Holds(w, i, "after", k, c, m, t, s, l) /\ i # 0 /\ Simple(i)
                       /\ (IF w = "encode" THEN ~(Grouped(i, O) /\ Used(i) = 8) ELSE ~HasCheck(i))
                        => Holds(w, i, "end", 0, 0, m, t, s, l)
         /\ \A k, c : Holds(w, i, "elems", k, c, m, t, s, l) /\ i # 0
                       /\ ~Grouped(i, O) /\ Each(fields[i]) /\ k = c
                        => Holds(w, i, "end", 0, 0, m, t, s, l)
<1>1. Settled /\ Compiles
  BY DEF Running
<1>2. w = "decode" <=> w # "encode"
  BY DEF Codec
<1>3. /\ \A k, c : Weak(w, i, "end", k, c, m) /\ i # Len(fields) => Weak(w, i + 1, "all", 0, 0, m)
      /\ \A k, c : Weak(w, i, "all", k, c, m) /\ i # 0 /\ Grouped(i, O) => Weak(w, i, "unit", 0, 0, m)
      /\ \A k, c : Weak(w, i, "all", k, c, m) => Weak(w, i, "body", 0, 0, m)
      /\ \A k, c : Weak(w, i, "body", k, c, m) /\ i # 0 /\ (w = "encode" => fields[i].max = NoName)
                     => Weak(w, i, "unit", 0, 0, m)
  BY <1>1, WeakSilent
<1>4. /\ \A k, c : Weak(w, i, "after", k, c, m) /\ i # 0 /\ (w = "decode" => Simple(i) /\ ~HasCheck(i))
                     => Weak(w, i, "end", 0, 0, m)
      /\ \A k, c : Weak(w, i, "elems", k, c, m) /\ i # 0 /\ fields[i].type.k = "array"
                     => Weak(w, i, "end", 0, 0, m)
  BY <1>1, WeakSilent
<1>11. Len(fields) \in Nat /\ (i # 0 => i \in 1..Len(fields)) /\ (i # Len(fields) => i + 1 \in 1..Len(fields))
  <2>1. Len(fields) \in Nat
    BY <1>1, Shape DEF Settled, GenInv, IInv
  <2> QED
    BY <2>1
<1> DEFINE S(st, k, c) == Strong(w, i, st, k, c, m, t, s, l)
<1>5. \A k, c : Holds(w, i, "end", k, c, m, t, s, l) /\ i # Len(fields)
                  => Holds(w, i + 1, "all", 0, 0, m, t, s, l)
  <2>1. ASSUME Sound, i # Len(fields), NEW k, NEW c, S("end", k, c)
        PROVE  Strong(w, i + 1, "all", 0, 0, m, t, s, l)
    <3> DEFINE j == i + 1
    <3>1. j \in 1..Len(fields) /\ i = j - 1
      BY <1>11, <2>1
    <3> HIDE DEF j
    <3>2. Strong(w, j, "all", 0, 0, m, t, s, l)
      BY <2>1, <3>1, StrongNext
    <3> QED
      BY <3>2 DEF j
  <2> QED
    BY <1>3, <2>1 DEF Holds, Trusted
<1>6. \A k, c : Holds(w, i, "all", k, c, m, t, s, l) /\ i # 0 /\ Grouped(i, O) /\ Before(O, i) # 0
                  => Holds(w, i, "unit", 0, 0, m, t, s, l)
  <2>1. \A k, c : Sound /\ i # 0 /\ Grouped(i, O) /\ Before(O, i) # 0 /\ S("all", k, c) => S("unit", 0, 0)
    BY <1>11, StrongAll
  <2> QED
    BY <1>3, <2>1 DEF Holds, Trusted
<1>7. \A k, c : Holds(w, i, "all", k, c, m, t, s, l) /\ i # 0 /\ ~Grouped(i, O)
                 /\ fields[i].existIf = NoName
                  => Holds(w, i, "body", 0, 0, m, t, s, l)
  <2>1. \A k, c : Sound /\ i # 0 /\ ~Grouped(i, O) /\ There(fields[i]) /\ S("all", k, c) => S("body", 0, 0)
    BY <1>11, StrongAll
  <2>2. fields[i].existIf = NoName => There(fields[i])
    BY DEF There
  <2> QED
    BY <1>3, <2>1, <2>2 DEF Holds, Trusted
<1>8. \A k, c : Holds(w, i, "body", k, c, m, t, s, l) /\ i # 0 /\ ~Grouped(i, O)
                 /\ fields[i].type.k = "prim" /\ (w = "encode" => fields[i].max = NoName)
                  => Holds(w, i, "unit", 0, 0, m, t, s, l)
  <2>1. ASSUME Sound, i # 0, ~Grouped(i, O), fields[i].type.k = "prim",
               w = "encode" => fields[i].max = NoName, NEW k, NEW c, S("body", k, c)
        PROVE  S("unit", 0, 0)
    BY <1>11, <2>1, StrongBody
  <2> QED
    BY <1>3, <2>1 DEF Holds, Trusted
<1>9. \A k, c : Holds(w, i, "after", k, c, m, t, s, l) /\ i # 0 /\ Simple(i)
                 /\ (IF w = "encode" THEN ~(Grouped(i, O) /\ Used(i) = 8) ELSE ~HasCheck(i))
                  => Holds(w, i, "end", 0, 0, m, t, s, l)
  <2>1. ASSUME Sound, i # 0, Simple(i), w = "encode" => ~(Grouped(i, O) /\ Used(i) = 8),
               NEW k, NEW c, S("after", k, c)
        PROVE  S("end", 0, 0)
    BY <1>11, <2>1, StrongAfter
  <2> QED
    BY <1>2, <1>4, <2>1 DEF Holds, Trusted
<1>10. \A k, c : Holds(w, i, "elems", k, c, m, t, s, l) /\ i # 0
                  /\ ~Grouped(i, O) /\ Each(fields[i]) /\ k = c
                   => Holds(w, i, "end", 0, 0, m, t, s, l)
  <2>1. \A k, c : /\ Sound /\ i # 0 /\ ~Grouped(i, O) /\ Each(fields[i]) /\ k = c /\ S("elems", k, c)
                    => S("end", 0, 0)
    BY <1>11, StrongElems
  <2> QED
    BY <1>4, <2>1 DEF Holds, Trusted, Each
<1> QED
  BY <1>5, <1>6, <1>7, <1>8, <1>9, <1>10

-----------------------------------------------------------------------------
(* The statements a function can be facing, each in the text of field j.   *)
AtClear(w, text, j) ==
  /\ Grouped(j, O) /\ Before(O, j) = 0
  /\ \E d : Line(w, text, ClearTmp(d), j, IF w = "encode" THEN "unit" ELSE "load", 0, 0)
AtLoad(w, text, j) ==
  /\ w = "decode" /\ Grouped(j, O) /\ Before(O, j) = 0
  /\ Line(w, text, TmpByte(fields[j].xor), j, "unit", 0, 0)
AtIf(w, text, j) ==
  /\ ~Grouped(j, O) /\ fields[j].existIf # NoName
  /\ Line(w, text, IfOf(w, fields[j]), j, "end", 0, 0)
  /\ PosAt(w, Body(w, fields[j]) \o Tail(text), j, "body", 0, 0)
AtClamp(w, text, j) ==
  /\ w = "encode" /\ ~Grouped(j, O) /\ fields[j].type.k = "prim" /\ fields[j].max # NoName
  /\ Line(w, text, ClampOf(fields[j]), j, "unit", 0, 0)
AtUnit(w, text, j) == Simple(j) /\ Line(w, text, UnitOf(j), j, "after", 0, 0)
AtFiller(w, text, j) ==
  /\ w = "encode" /\ Grouped(j, O) /\ Used(j) = 8
  /\ Line(w, text, TmpByte(fields[Opener(j)].xor), j, "end", 0, 0)
AtCheck(w, text, j) ==
  w = "decode" /\ Simple(j) /\ HasCheck(j) /\ Line(w, text, CheckOf(j), j, "end", 0, 0)
AtMsg(w, text, j) ==
  /\ ~Grouped(j, O) /\ fields[j].type.k \in {"struct", "undef"}
  /\ Line(w, text, MsgUnit(fields[j]), j, "end", 0, 0)
AtArray(w, text, j) ==
  /\ ~Grouped(j, O) /\ fields[j].type.k = "array"
  /\ Line(w, text, ArrayCode(w, fields[j]), j, "end", 0, 0)
AtElem(w, text, j, k, c) ==
  /\ ~Grouped(j, O) /\ Each(fields[j]) /\ c \in Nat /\ k \in 0..c /\ k # c
  /\ Line(w, text, ElemOf(fields[j], k + 1), j, "elems", k + 1, c)

Facing(w, text, j, st, k, c) ==
  \/ st = "all" /\ (AtClear(w, text, j) \/ AtIf(w, text, j))
  \/ st = "load" /\ AtLoad(w, text, j)
  \/ st = "body" /\ (AtClamp(w, text, j) \/ AtMsg(w, text, j) \/ AtArray(w, text, j))
  \/ st = "unit" /\ AtUnit(w, text, j)
  \/ st = "after" /\ (AtFiller(w, text, j) \/ AtCheck(w, text, j))
  \/ st = "elems" /\ AtElem(w, text, j, k, c)

Ready(w, text, m, t, s, l) ==
  \/ text = <<>> /\ \E k, c : Holds(w, Len(fields), "end", k, c, m, t, s, l)
  \/ \E j \in 1..Len(fields) : \E st, k, c :
        Facing(w, text, j, st, k, c) /\ Holds(w, j, st, k, c, m, t, s, l)

Stands(w, text, m, t, s, l) ==
  \E i, st, k, c : st \in Stages /\ PosAt(w, text, i, st, k, c) /\ Holds(w, i, st, k, c, m, t, s, l)

LEMMA StandsReady ==
  ASSUME Running, NEW w \in Codec, NEW text, NEW m, Typed(m), NEW t, NEW s, NEW l, Stands(w, text, m, t, s, l)
  PROVE  Ready(w, text, m, t, s, l)
<1> DEFINE Here(i, st, k, c) == PosAt(w, text, i, st, k, c) /\ Holds(w, i, st, k, c, m, t, s, l)
           R == Ready(w, text, m, t, s, l)
<1>0. Settled /\ Len(fields) \in Nat
  BY Shape DEF Running, Settled, GenInv, IInv
<1>1. ASSUME NEW j \in 1..Len(fields), NEW st, NEW k, NEW c,
             Facing(w, text, j, st, k, c), Holds(w, j, st, k, c, m, t, s, l)
      PROVE  R
  BY <1>1 DEF Ready
<1>2. ASSUME NEW i, NEW k, NEW c, Here(i, "unit", k, c) PROVE R
  <2>1. i \in 1..Len(fields) /\ Simple(i) /\ Line(w, text, UnitOf(i), i, "after", 0, 0)
    BY <1>0, <1>2, PosUnit
  <2>2. Facing(w, text, i, "unit", k, c)
    BY <2>1 DEF Facing, AtUnit
  <2> QED
    BY <1>1, <1>2, <2>1, <2>2
<1>3. ASSUME NEW i, NEW k, NEW c, Here(i, "load", k, c) PROVE R
  <2>1. /\ i \in 1..Len(fields) /\ Grouped(i, O) /\ Before(O, i) = 0
        /\ Line(w, text, TmpByte(fields[i].xor), i, "unit", 0, 0)
    BY <1>0, <1>3, PosLoad
  <2>2. CASE w = "decode"
    <3>1. Facing(w, text, i, "load", k, c)
      BY <2>1, <2>2 DEF Facing, AtLoad
    <3> QED
      BY <1>1, <1>3, <2>1, <3>1
  <2>3. CASE w # "decode"
    BY <1>3, <2>3 DEF Holds
  <2> QED
    BY <2>2, <2>3
<1>4. ASSUME NEW i, NEW k, NEW c, Here(i, "body", k, c) PROVE R
  <2> DEFINE f == fields[i]
  <2>1. /\ i \in 1..Len(fields) /\ ~Grouped(i, O)
        /\ f.type.k = "prim" => IF w = "encode" /\ f.max # NoName
                                THEN Line(w, text, ClampOf(f), i, "unit", 0, 0)
                                ELSE PosAt(w, text, i, "unit", 0, 0)
        /\ f.type.k \in {"struct", "undef"} => Line(w, text, MsgUnit(f), i, "end", 0, 0)
        /\ f.type.k = "array" => Line(w, text, ArrayCode(w, f), i, "end", 0, 0)
    BY <1>0, <1>4, PosBody
  <2>2. f.type.k \in Kinds
    BY <1>0, <2>1, SettledField
  <2>3. CASE f.type.k = "prim" /\ w = "encode" /\ f.max # NoName
    <3>1. Facing(w, text, i, "body", k, c)
      BY <2>1, <2>3 DEF Facing, AtClamp
    <3> QED
      BY <1>1, <1>4, <2>1, <3>1
  <2>4. CASE f.type.k = "prim" /\ ~(w = "encode" /\ f.max # NoName)
    <3>1. PosAt(w, text, i, "unit", 0, 0)
      BY <2>1, <2>4
    <3>2. i \in 0..Len(fields) /\ i # 0 /\ Holds(w, i, "body", k, c, m, t, s, l)
      BY <1>4, <2>1
    <3>3. Holds(w, i, "unit", 0, 0, m, t, s, l)
      BY <2>1, <2>4, <3>2, HoldsSilent
    <3> QED
      BY <1>2, <3>1, <3>3
  <2>5. CASE f.type.k \in {"struct", "undef"}
    <3>1. Facing(w, text, i, "body", k, c)
      BY <2>1, <2>5 DEF Facing, AtMsg
    <3> QED
      BY <1>1, <1>4, <2>1, <3>1
  <2>6. CASE f.type.k = "array"
    <3>1. Facing(w, text, i, "body", k, c)
      BY <2>1, <2>6 DEF Facing, AtArray
    <3> QED
      BY <1>1, <1>4, <2>1, <3>1
  <2> QED
    BY <2>2, <2>3, <2>4, <2>5, <2>6 DEF Kinds
<1>5. ASSUME NEW i, NEW k, NEW c, Here(i, "all", k, c) PROVE R
  <2> DEFINE f == fields[i]
  <2>1. \/ /\ Grouped(i, O) /\ Before(O, i) = 0
           /\ \E d : Line(w, text, ClearTmp(d), i, IF w = "encode" THEN "unit" ELSE "load", 0, 0)
        \/ Grouped(i, O) /\ Before(O, i) # 0 /\ PosAt(w, text, i, "unit", 0, 0)
        \/ /\ ~Grouped(i, O) /\ f.existIf # NoName
           /\ Line(w, text, IfOf(w, f), i, "end", 0, 0)
           /\ PosAt(w, Body(w, f) \o Tail(text), i, "body", 0, 0)
        \/ ~Grouped(i, O) /\ f.existIf = NoName /\ PosAt(w, text, i, "body", 0, 0)
    BY <1>0, <1>5, PosAll
  <2>2. i \in 1..Len(fields) /\ i \in 0..Len(fields) /\ i # 0 /\ Holds(w, i, "all", k, c, m, t, s, l)
    <3>1. i \in 0..Len(fields) /\ i # 0
      BY <1>5 DEF PosAt
    <3> QED
      BY <1>0, <1>5, <3>1
  <2>3. CASE AtClear(w, text, i) \/ AtIf(w, text, i)
    <3>1. Facing(w, text, i, "all", k, c)
      BY <2>3 DEF Facing
    <3> QED
      BY <1>1, <2>2, <3>1
  <2>4. CASE Grouped(i, O) /\ Before(O, i) # 0 /\ PosAt(w, text, i, "unit", 0, 0)
    <3>1. Holds(w, i, "unit", 0, 0, m, t, s, l)
      BY <2>2, <2>4, HoldsSilent
    <3> QED
      BY <1>2, <2>4, <3>1
  <2>5. CASE ~Grouped(i, O) /\ f.existIf = NoName /\ PosAt(w, text, i, "body", 0, 0)
    <3>1. Holds(w, i, "body", 0, 0, m, t, s, l)
      BY <2>2, <2>5, HoldsSilent
    <3> QED
      BY <1>4, <2>5, <3>1
  <2> QED
    BY <2>1, <2>3, <2>4, <2>5 DEF AtClear, AtIf
<1>6. ASSUME NEW i, NEW k, NEW c, Here(i, "end", k, c) PROVE R
  <2>1. \/ i = Len(fields) /\ text = <<>>
        \/ i + 1 \in 1..Len(fields) /\ PosAt(w, text, i + 1, "all", 0, 0)
    BY <1>0, <1>6, PosEnd
  <2>2. CASE i = Len(fields) /\ text = <<>>
    BY <1>6, <2>2 DEF Ready
  <2>3. CASE i + 1 \in 1..Len(fields) /\ PosAt(w, text, i + 1, "all", 0, 0)
    <3>1. i \in 0..Len(fields) /\ i # Len(fields) /\ Holds(w, i, "end", k, c, m, t, s, l)
      BY <1>0, <1>6, <2>3 DEF PosAt
    <3>2. Holds(w, i + 1, "all", 0, 0, m, t, s, l)
      BY <3>1, HoldsSilent
    <3> DEFINE j == i + 1
    <3> HIDE DEF j
    <3>3. Here(j, "all", 0, 0)
      BY <2>3, <3>2 DEF j
    <3> QED
      BY <1>5, <3>3
  <2> QED
    BY <2>1, <2>2, <2>3
<1>7. ASSUME NEW i, NEW k, NEW c, Here(i, "after", k, c) PROVE R
  <2>1. /\ i \in 1..Len(fields) /\ Simple(i)
        /\ w = "encode" => IF Grouped(i, O) /\ Used(i) = 8
                           THEN Line(w, text, TmpByte(fields[Opener(i)].xor), i, "end", 0, 0)
                           ELSE PosAt(w, text, i, "end", 0, 0)
        /\ w = "decode" => IF HasCheck(i)
                           THEN Line(w, text, CheckOf(i), i, "end", 0, 0)
                           ELSE PosAt(w, text, i, "end", 0, 0)
    BY <1>0, <1>7, PosAfter
  <2>2. w = "decode" <=> w # "encode"
    BY DEF Codec
  <2>3. i \in 0..Len(fields) /\ i # 0 /\ Holds(w, i, "after", k, c, m, t, s, l)
    BY <1>7, <2>1
  <2> DEFINE Idle == IF w = "encode" THEN ~(Grouped(i, O) /\ Used(i) = 8) ELSE ~HasCheck(i)
  <2>4. CASE Idle
    <3>1. Holds(w, i, "end", 0, 0, m, t, s, l)
      BY <2>1, <2>3, <2>4, HoldsSilent
    <3>2. PosAt(w, text, i, "end", 0, 0)
      BY <2>1, <2>2, <2>4
    <3> QED
      BY <1>6, <3>1, <3>2
  <2>5. CASE ~Idle
    <3>1. AtFiller(w, text, i) \/ AtCheck(w, text, i)
      BY <2>1, <2>2, <2>5 DEF AtFiller, AtCheck
    <3>2. Facing(w, text, i, "after", k, c)
      BY <3>1 DEF Facing
    <3> QED
      BY <1>1, <2>1, <2>3, <3>2
  <2> QED
    BY <2>4, <2>5
<1>8. ASSUME NEW i, NEW k, NEW c, Here(i, "elems", k, c) PROVE R
  <2>1. /\ i \in 1..Len(fields) /\ ~Grouped(i, O) /\ Each(fields[i]) /\ c \in Nat /\ k \in 0..c
        /\ k = c => PosAt(w, text, i, "end", 0, 0)
        /\ k # c => Line(w, text, ElemOf(fields[i], k + 1), i, "elems", k + 1, c)
    BY <1>0, <1>8, PosElems
  <2>2. i \in 0..Len(fields) /\ i # 0 /\ Holds(w, i, "elems", k, c, m, t, s, l)
    BY <1>8, <2>1
  <2>3. CASE k = c
    <3>1. Holds(w, i, "end", 0, 0, m, t, s, l)
      BY <2>1, <2>2, <2>3, HoldsSilent
    <3> QED
      BY <1>6, <2>1, <2>3, <3>1
  <2>4. CASE k # c
    <3>1. Facing(w, text, i, "elems", k, c)
      BY <2>1, <2>4 DEF Facing, AtElem
    <3> QED
      BY <1>1, <2>1, <2>2, <3>1
  <2> QED
    BY <2>3, <2>4
<1>9. PICK i, st, k, c : st \in Stages /\ Here(i, st, k, c)
  BY DEF Stands
<1> HIDE DEF Here, R
<1>10. R
  BY <1>2, <1>3, <1>4, <1>5, <1>6, <1>7, <1>8, <1>9 DEF Stages
<1> QED
  BY <1>10 DEF R

-----------------------------------------------------------------------------
(* The statements, one by one: what they do, and what holds behind them.   *)

LEMMA HoldsClear ==
  ASSUME Running, NEW w \in Codec, NEW j \in 1..Len(fields), NEW k, NEW c, NEW m, NEW t, NEW s, NEW l,
         Typed(m), Holds(w, j, "all", k, c, m, t, s, l), Grouped(j, O), Before(O, j) = 0
  PROVE  Holds(w, j, IF w = "encode" THEN "unit" ELSE "load", 0, 0, m, 0, s, l)
<1> DEFINE st == IF w = "encode" THEN "unit" ELSE "load"
<1>1. Settled /\ Compiles /\ j \in 0..Len(fields) /\ j # 0
  BY DEF Running
<1>2. Weak(w, j, "all", k, c, m)
  BY DEF Holds
<1>3. Weak(w, j, "unit", 0, 0, m)
  BY <1>1, <1>2, WeakSilent
<1>4. Weak(w, j, st, 0, 0, m)
  <2>1. CASE w = "encode"
    BY <1>3, <2>1
  <2>2. CASE w # "encode"
    BY <1>2, <2>2 DEF Weak, Done
  <2> QED
    BY <2>1, <2>2
<1>5. Trusted(w) => Strong(w, j, st, 0, 0, m, 0, s, l)
  <2>1. Trusted(w) => Sound /\ Strong(w, j, "all", k, c, m, t, s, l)
    BY DEF Holds, Trusted
  <2> QED
    BY <2>1, StrongClear
<1> QED
  BY <1>4, <1>5 DEF Holds, Codec

LEMMA HoldsLoad ==
  ASSUME Running, NEW j \in 1..Len(fields), NEW k, NEW c, NEW m, NEW t, NEW s, NEW l \in Seq(Nat),
         Typed(m), Holds("decode", j, "load", k, c, m, t, s, l), Grouped(j, O), Before(O, j) = 0, l # <<>>
  PROVE  Holds("decode", j, "unit", 0, 0, m, XorByte(l[1], ConstVal(Plain(fields[j].xor))), s,
               SubSeq(l, 2, Len(l)))
<1>1. Weak("decode", j, "load", k, c, m)
  BY DEF Holds
<1>2. Weak("decode", j, "unit", 0, 0, m)
  BY <1>1 DEF Weak, Done
<1> DEFINE y == XorByte(l[1], ConstVal(Plain(fields[j].xor)))
<1>3. Trusted("decode") => Strong("decode", j, "unit", 0, 0, m, y, s, SubSeq(l, 2, Len(l)))
  <2>1. Trusted("decode") => Sound /\ Strong("decode", j, "load", k, c, m, t, s, l)
    BY DEF Holds, Trusted
  <2> QED
    BY <2>1, StrongLoad
<1> HIDE DEF y
<1>4. Holds("decode", j, "unit", 0, 0, m, y, s, SubSeq(l, 2, Len(l)))
  BY <1>2, <1>3 DEF Holds
<1> QED
  BY <1>4 DEF y

LEMMA HoldsIf ==
  ASSUME Running, NEW w \in Codec, NEW j \in 1..Len(fields), NEW k, NEW c, NEW m, NEW t, NEW s, NEW l,
         Typed(m), Holds(w, j, "all", k, c, m, t, s, l), ~Grouped(j, O), fields[j].existIf # NoName
  PROVE  Holds(w, j, IF m[fields[j].existIf] # 0 THEN "body" ELSE "end", 0, 0, m, t, s, l)
<1> DEFINE f == fields[j]
<1>1. Settled /\ Compiles /\ j \in 0..Len(fields) /\ j # 0
  BY DEF Running
<1>2. Weak(w, j, "all", k, c, m)
  BY DEF Holds
<1>3. Weak(w, j, "body", 0, 0, m)
  BY <1>1, <1>2, WeakSilent
<1>4. ASSUME m[f.existIf] = 0 PROVE Weak(w, j, "end", 0, 0, m)
  <2>1. ~IsBitType(f.type)
    BY <1>1, SettledField
  <2>2. Under(f, m) /\ Satisfies(f, m)
    BY <1>1, <1>4, <2>1, NoBound DEF Satisfies, Present
  <2>3. /\ Under(f, m) => Capped(m, j)
        /\ w = "decode" /\ Satisfies(f, m) => Valid(m, j)
    BY <1>1, <1>2, WeakStep
  <2> QED
    BY <2>2, <2>3 DEF Weak, Done
<1>5. Trusted(w) => Strong(w, j, IF m[f.existIf] # 0 THEN "body" ELSE "end", 0, 0, m, t, s, l)
  <2>1. Trusted(w) => Sound /\ Strong(w, j, "all", k, c, m, t, s, l)
    BY DEF Holds, Trusted
  <2> QED
    BY <2>1, StrongIf
<1> QED
  BY <1>3, <1>4, <1>5 DEF Holds

LEMMA HoldsClamp ==
  ASSUME Running, NEW j \in 1..Len(fields), NEW k, NEW c, NEW m, NEW t, NEW s, NEW l,
         Typed(m), Holds("encode", j, "body", k, c, m, t, s, l), ~Grouped(j, O),
         fields[j].type.k = "prim", fields[j].max # NoName
  PROVE  LET n == [m EXCEPT ![fields[j].name] = Clamped(m[fields[j].name], ConstVal(Plain(fields[j].max)))]
         IN  Typed(n) /\ Holds("encode", j, "unit", 0, 0, n, t, s, l)
<1> DEFINE f == fields[j]
           x == ConstVal(Plain(f.max))
           v == Clamped(m[f.name], x)
           n == [m EXCEPT ![f.name] = v]
<1>1. Settled /\ Compiles /\ "encode" \in Codec
  BY DEF Running, Codec
<1>2. Weak("encode", j, "body", k, c, m)
  BY DEF Holds
<1>3. x = Consts[f.max] /\ x \in Nat
  BY <1>1, MaxOk
<1>4. m[f.name] \in Nat /\ ValuesOf(f) = Nat
  BY DEF Typed, ValuesOf
<1> HIDE DEF x
<1>5. v \in Nat /\ v <= x
  BY <1>3, <1>4, ClampedIs
<1>6. n[f.name] = v
  <2>1. f.name \in DOMAIN m
    BY DEF Typed
  <2> HIDE DEF v, f
  <2> QED
    BY <2>1
<1> HIDE DEF v
<1>7. /\ Typed(n)
      /\ Under(f, n) => Capped(n, j)
  BY <1>1, <1>2, <1>4, <1>5, WeakStep
<1>8. Under(f, n)
  BY <1>3, <1>5, <1>6 DEF Under
<1>9. Weak("encode", j, "unit", 0, 0, n)
  BY <1>7, <1>8 DEF Weak, Done
<1>10. Trusted("encode") => Strong("encode", j, "unit", 0, 0, n, t, s, l)
  <2>1. Trusted("encode") => Sound /\ Strong("encode", j, "body", k, c, m, t, s, l)
    BY DEF Holds, Trusted
  <2>2. Changed(n, m, j, Clamped(m[f.name], ConstVal(Plain(f.max))))
    BY DEF Changed, v, x
  <2> HIDE DEF n
  <2> QED
    BY <2>1, <2>2, StrongClamp
<1> QED
  BY <1>7, <1>9, <1>10 DEF Holds, v, x

LEMMA HoldsBitsOut ==
  ASSUME Running, NEW j \in 1..Len(fields), NEW k, NEW c, NEW m, NEW t, NEW s, NEW l,
         Typed(m), Holds("encode", j, "unit", k, c, m, t, s, l), Grouped(j, O)
  PROVE  Holds("encode", j, "after", 0, 0, m,
               OrByte(t, Span(m[fields[j].name], Bits(fields[j].type), 8 - Used(j))), s, l)
<1> DEFINE y == OrByte(t, Span(m[fields[j].name], Bits(fields[j].type), 8 - Used(j)))
<1>1. Trusted("encode") => Strong("encode", j, "after", 0, 0, m, y, s, l)
  <2>1. Trusted("encode") => Sound /\ Strong("encode", j, "unit", k, c, m, t, s, l)
    BY DEF Holds, Trusted
  <2> QED
    BY <2>1, StrongBitsOut
<1> HIDE DEF y
<1>2. Holds("encode", j, "after", 0, 0, m, y, s, l)
  BY <1>1 DEF Holds, Weak, Done
<1> QED
  BY <1>2 DEF y

LEMMA HoldsIntOut ==
  ASSUME Running, NEW j \in 1..Len(fields), NEW k, NEW c, NEW m, NEW t, NEW s \in Seq(Nat), NEW l,
         Typed(m), Holds("encode", j, "unit", k, c, m, t, s, l), ~Grouped(j, O), Simple(j)
  PROVE  LET out == Masked(BigEndian(m[fields[j].name], Bits(fields[j].type)), ConstVal(Plain(fields[j].xor)))
         IN  Holds("encode", j, "after", 0, 0, m, t, s \o out, l)
<1> DEFINE out == Masked(BigEndian(m[fields[j].name], Bits(fields[j].type)), ConstVal(Plain(fields[j].xor)))
<1>1. Trusted("encode") => Strong("encode", j, "after", 0, 0, m, t, s \o out, l)
  <2>1. Trusted("encode") => Sound /\ Strong("encode", j, "unit", k, c, m, t, s, l)
    BY DEF Holds, Trusted
  <2>2. fields[j].type.k = "prim"
    BY DEF Simple
  <2> QED
    BY <2>1, <2>2, StrongIntOut
<1> HIDE DEF out
<1>2. Holds("encode", j, "after", 0, 0, m, t, s \o out, l)
  BY <1>1 DEF Holds, Weak, Done
<1> QED
  BY <1>2 DEF out

LEMMA HoldsFiller ==
  ASSUME Running, NEW j \in 1..Len(fields), NEW k, NEW c, NEW m, NEW t, NEW s \in Seq(Nat), NEW l,
         Typed(m), Holds("encode", j, "after", k, c, m, t, s, l), Grouped(j, O), Used(j) = 8
  PROVE  LET out == <<XorByte(t, ConstVal(Plain(fields[Opener(j)].xor)))>>
         IN  Holds("encode", j, "end", 0, 0, m, t, s \o out, l)
<1> DEFINE out == <<XorByte(t, ConstVal(Plain(fields[Opener(j)].xor)))>>
<1>1. Trusted("encode") => Strong("encode", j, "end", 0, 0, m, t, s \o out, l)
  <2>1. Trusted("encode") => Sound /\ Strong("encode", j, "after", k, c, m, t, s, l)
    BY DEF Holds, Trusted
  <2> QED
    BY <2>1, StrongFiller
<1> HIDE DEF out
<1>2. Holds("encode", j, "end", 0, 0, m, t, s \o out, l)
  BY <1>1 DEF Holds, Weak, Done
<1> QED
  BY <1>2 DEF out

LEMMA WeakOver ==
  ASSUME Running, NEW w \in Codec, NEW j \in 1..Len(fields), NEW st, NEW k, NEW c, NEW m, Typed(m),
         Weak(w, j, st, k, c, m), fields[j].type.k # "prim",
         NEW n, n = m \/ \E v \in ValuesOf(fields[j]) : n = [m EXCEPT ![fields[j].name] = v]
  PROVE  Typed(n) /\ Weak(w, j, "end", 0, 0, n) /\ Capped(n, j - 1) /\ (w = "decode" => Valid(n, j - 1))
<1>1. Settled /\ Compiles
  BY DEF Running
<1>2. Under(fields[j], n) /\ Satisfies(fields[j], n)
  BY <1>1, NoBound
<1>3. /\ Typed(n) /\ Capped(n, j - 1) /\ (w = "decode" => Valid(n, j - 1))
      /\ Under(fields[j], n) => Capped(n, j)
      /\ w = "decode" /\ Satisfies(fields[j], n) => Valid(n, j)
  BY <1>1, WeakStep
<1> QED
  BY <1>2, <1>3 DEF Weak, Done

LEMMA HoldsMsgOut ==
  ASSUME Running, NEW j \in 1..Len(fields), NEW k, NEW c, NEW m, NEW t, NEW s \in Seq(Nat), NEW l,
         Typed(m), Holds("encode", j, "body", k, c, m, t, s, l), ~Grouped(j, O),
         fields[j].type.k \in {"struct", "undef"}
  PROVE  Holds("encode", j, "end", 0, 0, m, t, s \o <<m[fields[j].name]>>, l)
<1>1. fields[j].type.k # "prim"
  OBVIOUS
<1>2. Weak("encode", j, "end", 0, 0, m)
  BY <1>1, WeakOver DEF Holds, Codec
<1> DEFINE out == <<m[fields[j].name]>>
<1>3. Trusted("encode") => Strong("encode", j, "end", 0, 0, m, t, s \o out, l)
  <2>1. Trusted("encode") => Sound /\ Strong("encode", j, "body", k, c, m, t, s, l)
    BY DEF Holds, Trusted
  <2> QED
    BY <2>1, StrongMsgOut
<1> HIDE DEF out
<1>4. Holds("encode", j, "end", 0, 0, m, t, s \o out, l)
  BY <1>2, <1>3 DEF Holds
<1> QED
  BY <1>4 DEF out

LEMMA HoldsBytesOut ==
  ASSUME Running, NEW j \in 1..Len(fields), NEW k, NEW c, NEW m, NEW t, NEW s \in Seq(Nat), NEW l,
         Typed(m), Holds("encode", j, "body", k, c, m, t, s, l), ~Grouped(j, O),
         fields[j].type.k = "array", ~Each(fields[j])
  PROVE  Holds("encode", j, "end", 0, 0, m, t, s \o SubSeq(m[fields[j].name], 1, Limit(fields[j], m)), l)
<1>1. fields[j].type.k # "prim"
  OBVIOUS
<1>2. Weak("encode", j, "end", 0, 0, m)
  BY <1>1, WeakOver DEF Holds, Codec
<1> DEFINE out == SubSeq(m[fields[j].name], 1, Limit(fields[j], m))
<1>3. Trusted("encode") => Strong("encode", j, "end", 0, 0, m, t, s \o out, l)
  <2>1. Trusted("encode") => Sound /\ Strong("encode", j, "body", k, c, m, t, s, l)
    BY DEF Holds, Trusted
  <2> QED
    BY <2>1, StrongBytesOut
<1> HIDE DEF out
<1>4. Holds("encode", j, "end", 0, 0, m, t, s \o out, l)
  BY <1>2, <1>3 DEF Holds
<1> QED
  BY <1>4 DEF out

LEMMA HoldsLoop ==
  ASSUME Running, NEW w \in Codec, NEW j \in 1..Len(fields), NEW k, NEW c, NEW m, NEW t, NEW s, NEW l,
         Typed(m), Holds(w, j, "body", k, c, m, t, s, l), ~Grouped(j, O), Each(fields[j])
  PROVE  Holds(w, j, "elems", 0, Limit(fields[j], m), m, t, s, l)
<1> DEFINE z == Limit(fields[j], m)
<1>1. fields[j].type.k = "array" /\ fields[j].type.k # "prim"
  BY DEF Each
<1>2. Capped(m, j - 1) /\ (w = "decode" => Valid(m, j - 1))
  BY <1>1, WeakOver DEF Holds
<1>3. LimitsBounded => z <= Size(fields[j])
  BY <1>1, <1>2, LimitIs
<1> HIDE DEF z
<1>4. Weak(w, j, "elems", 0, z, m)
  BY <1>2, <1>3 DEF Weak, Done
<1>5. Trusted(w) => Strong(w, j, "elems", 0, z, m, t, s, l)
  <2>1. Trusted(w) => Sound /\ Strong(w, j, "body", k, c, m, t, s, l)
    BY DEF Holds, Trusted
  <2> QED
    BY <2>1, StrongLoop DEF z
<1> QED
  BY <1>4, <1>5 DEF Holds, z

LEMMA HoldsElemOut ==
  ASSUME Running, NEW j \in 1..Len(fields), NEW c \in Nat, NEW k \in 0..c, k # c, NEW m, NEW t,
         NEW s \in Seq(Nat), NEW l,
         Typed(m), Holds("encode", j, "elems", k, c, m, t, s, l), ~Grouped(j, O), Each(fields[j]),
         k + 1 <= Size(fields[j])
  PROVE  LET out == BigEndian(m[fields[j].name][k + 1], ElemOf(fields[j], k + 1).w)
         IN  Holds("encode", j, "elems", k + 1, c, m, t, s \o out, l)
<1> DEFINE h == k + 1
           out == BigEndian(m[fields[j].name][h], ElemOf(fields[j], h).w)
<1>1. h = k + 1
  OBVIOUS
<1> HIDE DEF h
<1>2. Trusted("encode") => Strong("encode", j, "elems", h, c, m, t, s \o out, l)
  <2>1. Trusted("encode") => Sound /\ Strong("encode", j, "elems", k, c, m, t, s, l)
    BY DEF Holds, Trusted
  <2> QED
    BY <1>1, <2>1, StrongElemOut
<1> HIDE DEF out
<1>3. Holds("encode", j, "elems", h, c, m, t, s \o out, l)
  BY <1>2 DEF Holds, Weak, Done
<1> QED
  BY <1>3 DEF out, h

LEMMA HoldsBitsIn ==
  ASSUME Running, NEW j \in 1..Len(fields), NEW k, NEW c, NEW m, NEW t \in Nat, NEW s, NEW l,
         Typed(m), Holds("decode", j, "unit", k, c, m, t, s, l), Grouped(j, O)
  PROVE  LET n == [m EXCEPT ![fields[j].name] = (t \div 2^(8 - Used(j))) % 2^Bits(fields[j].type)]
         IN  Typed(n) /\ Holds("decode", j, "after", 0, 0, n, t, s, l)
<1> DEFINE f == fields[j]
           v == (t \div 2^(8 - Used(j))) % 2^Bits(f.type)
           n == [m EXCEPT ![f.name] = v]
<1>1. Settled /\ Compiles /\ "decode" \in Codec
  BY DEF Running, Codec
<1>2. f.type.k = "prim" /\ Used(j) \in 1..8 /\ Bits(f.type) \in 1..7
  BY <1>1, SettledField
<1>3. v \in ValuesOf(f)
  <2>1. 2^(8 - Used(j)) \in 1..256 /\ 2^Bits(f.type) \in 1..256
    <3> DEFINE a == 8 - Used(j)
               b == Bits(f.type)
    <3>1. a \in 0..8 /\ b \in 0..8
      BY <1>2
    <3> HIDE DEF a, b
    <3>2. 2^a \in 1..256 /\ 2^b \in 1..256
      BY <3>1, Powers
    <3> QED
      BY <3>2 DEF a, b
  <2>2. \A p, q \in 1..256 : (t \div p) % q \in Nat
    OBVIOUS
  <2> QED
    BY <1>2, <2>1, <2>2 DEF ValuesOf
<1> HIDE DEF v
<1>4. Typed(n) /\ Capped(n, j - 1) /\ Valid(n, j - 1)
  BY <1>1, <1>3, WeakStep DEF Holds
<1>5. Weak("decode", j, "after", 0, 0, n)
  BY <1>4 DEF Weak, Done
<1>6. Trusted("decode") => Strong("decode", j, "after", 0, 0, n, t, s, l)
  <2>1. Trusted("decode") => Sound /\ Strong("decode", j, "unit", k, c, m, t, s, l)
    BY DEF Holds, Trusted
  <2>2. Changed(n, m, j, (t \div 2^(8 - Used(j))) % 2^Bits(f.type))
    BY DEF Changed, v
  <2> HIDE DEF n
  <2> QED
    BY <2>1, <2>2, StrongBitsIn
<1> QED
  BY <1>4, <1>5, <1>6 DEF Holds, v

LEMMA HoldsIntIn ==
  ASSUME Running, NEW j \in 1..Len(fields), NEW k, NEW c, NEW m, NEW t, NEW s, NEW l \in Seq(Nat),
         Typed(m), Holds("decode", j, "unit", k, c, m, t, s, l), ~Grouped(j, O), Simple(j),
         Bits(fields[j].type) \div 8 <= Len(l)
  PROVE  LET w == Bits(fields[j].type) \div 8
             n == [m EXCEPT ![fields[j].name] = Number(Masked(SubSeq(l, 1, w), ConstVal(Plain(fields[j].xor))))]
         IN  Typed(n) /\ Holds("decode", j, "after", 0, 0, n, t, s, SubSeq(l, w + 1, Len(l)))
<1> DEFINE f == fields[j]
           w == Bits(f.type) \div 8
           v == Number(Masked(SubSeq(l, 1, w), ConstVal(Plain(f.xor))))
           n == [m EXCEPT ![f.name] = v]
<1>1. Settled /\ Compiles /\ "decode" \in Codec
  BY DEF Running, Codec
<1>2. f.type.k = "prim"
  BY DEF Simple
<1>3. v \in ValuesOf(f)
  <2>1. w \in 0..Len(l)
    <3>1. Bits(f.type) \in 0..64
      BY BitsRange
    <3>2. \A x \in 0..64 : x \div 8 \in Nat
      OBVIOUS
    <3>3. Bits(f.type) \div 8 \in Nat
      BY <3>1, <3>2
    <3> QED
      BY <3>3
  <2> HIDE DEF w
  <2>2. SubSeq(l, 1, w) \in Seq(Nat)
    BY <2>1, Cut
  <2> DEFINE b == SubSeq(l, 1, w)
             y == Masked(b, ConstVal(Plain(f.xor)))
  <2> HIDE DEF b
  <2>4. y \in Seq(Nat)
    BY <2>2, MaskedBytes DEF b
  <2> HIDE DEF y
  <2>5. Number(y) \in Nat
    BY <2>4, NumberNat
  <2>3. v \in Nat
    BY <2>5 DEF y, b
  <2> QED
    BY <1>2, <2>3 DEF ValuesOf
<1> HIDE DEF v, w
<1>4. Typed(n) /\ Capped(n, j - 1) /\ Valid(n, j - 1)
  BY <1>1, <1>3, WeakStep DEF Holds
<1>5. Weak("decode", j, "after", 0, 0, n)
  BY <1>4 DEF Weak, Done
<1>6. Trusted("decode") => Strong("decode", j, "after", 0, 0, n, t, s, SubSeq(l, w + 1, Len(l)))
  <2>1. Trusted("decode") => Sound /\ Strong("decode", j, "unit", k, c, m, t, s, l)
    BY DEF Holds, Trusted
  <2>2. Changed(n, m, j, Number(Masked(SubSeq(l, 1, w), ConstVal(Plain(f.xor)))))
    BY DEF Changed, v
  <2>3. w = Bits(f.type) \div 8 /\ w <= Len(l)
    BY DEF w
  <2> HIDE DEF n
  <2> QED
    BY <1>2, <2>1, <2>2, <2>3, StrongIntIn
<1> QED
  BY <1>4, <1>5, <1>6 DEF Holds, v, w

(* What the check of field j demands.                                      *)
Demand(j, m) == LET x == CheckOf(j) IN IF x.op = "most" THEN m[x.f] <= ConstVal(x.ref) ELSE m[x.f] = ConstVal(x.ref)

LEMMA DemandIs ==
  ASSUME Running, NEW j \in 1..Len(fields), NEW m, Typed(m), Simple(j), HasCheck(j)
  PROVE  LET f == fields[j] IN
         IF ~Grouped(j, O) /\ f.max # NoName
         THEN ~IsBitType(f.type) /\ (Demand(j, m) <=> m[f.name] <= Consts[f.max]) /\ Consts[f.max] \in Nat
         ELSE /\ f.equ # NoName /\ (Demand(j, m) <=> m[f.name] = Consts[f.equ])
              /\ f.max = NoName \/ IsBitType(f.type)
<1> DEFINE f == fields[j]
<1>1. Settled /\ Compiles
  BY DEF Running
<1>2. CASE ~Grouped(j, O) /\ f.max # NoName
  <2>1. CheckOf(j) = Most(f) /\ f.type.k = "prim" /\ ~IsBitType(f.type)
    BY <1>1, <1>2, SettledField DEF CheckOf, Simple
  <2>3. ConstVal(Plain(f.max)) = Consts[f.max] /\ Consts[f.max] \in Nat
    BY <1>1, <1>2, <2>1, MaxOk
  <2>4. Most(f).op = "most" /\ Most(f).f = f.name /\ Most(f).ref = Plain(f.max)
    BY DEF Most
  <2>5. Demand(j, m) <=> m[f.name] <= ConstVal(Plain(f.max))
    BY <2>1, <2>4 DEF Demand
  <2> QED
    BY <1>2, <2>1, <2>3, <2>5
<1>3. CASE ~(~Grouped(j, O) /\ f.max # NoName)
  <2>1. f.equ # NoName /\ (f.max = NoName \/ IsBitType(f.type))
    BY <1>1, <1>3, SettledField DEF HasCheck
  <2>2. CheckOf(j).op = "equal" /\ CheckOf(j).f = f.name /\ CheckOf(j).ref = Plain(f.equ)
    BY <1>3 DEF CheckOf
  <2> QED
    BY <1>3, <2>1, <2>2 DEF Demand, ConstVal, Plain
<1> QED
  BY <1>2, <1>3

LEMMA HoldsCheck ==
  ASSUME Running, NEW j \in 1..Len(fields), NEW k, NEW c, NEW m, NEW t, NEW s, NEW l,
         Typed(m), Holds("decode", j, "after", k, c, m, t, s, l), Simple(j), HasCheck(j), Demand(j, m)
  PROVE  Holds("decode", j, "end", 0, 0, m, t, s, l)
<1> DEFINE f == fields[j]
<1>1. Settled /\ Compiles /\ "decode" \in Codec
  BY DEF Running, Codec
<1>2. Under(f, m) /\ Satisfies(f, m)
  <2>1. CASE ~Grouped(j, O) /\ f.max # NoName
    BY <2>1, DemandIs DEF Under, Satisfies
  <2>2. CASE ~(~Grouped(j, O) /\ f.max # NoName)
    BY <2>2, DemandIs DEF Under, Satisfies, Bounded
  <2> QED
    BY <2>1, <2>2
<1>3. Capped(m, j) /\ Valid(m, j)
  BY <1>1, <1>2, WeakStep DEF Holds
<1>4. Trusted("decode") => Strong("decode", j, "end", 0, 0, m, t, s, l)
  <2>1. Trusted("decode") => Sound /\ Strong("decode", j, "after", k, c, m, t, s, l)
    BY DEF Holds, Trusted
  <2>2. "decode" # "encode"
    OBVIOUS
  <2> QED
    BY <1>1, <2>1, <2>2, StrongAfter
<1> QED
  BY <1>3, <1>4 DEF Holds, Weak, Done

LEMMA HoldsMsgIn ==
  ASSUME Running, NEW j \in 1..Len(fields), NEW k, NEW c, NEW m, NEW t, NEW s, NEW l \in Seq(Nat),
         Typed(m), Holds("decode", j, "body", k, c, m, t, s, l), ~Grouped(j, O),
         fields[j].type.k \in {"struct", "undef"}, l # <<>>
  PROVE  LET n == [m EXCEPT ![fields[j].name] = l[1]]
         IN  Typed(n) /\ Holds("decode", j, "end", 0, 0, n, t, s, SubSeq(l, 2, Len(l)))
<1> DEFINE f == fields[j]
           v == l[1]
           n == [m EXCEPT ![f.name] = v]
<1>1. f.type.k # "prim" /\ v \in ValuesOf(f)
  <2>1. l[1] \in Nat
    OBVIOUS
  <2> QED
    BY <2>1 DEF ValuesOf
<1> HIDE DEF v
<1>2. Typed(n) /\ Weak("decode", j, "end", 0, 0, n)
  BY <1>1, WeakOver DEF Holds, Codec
<1>3. Trusted("decode") => Strong("decode", j, "end", 0, 0, n, t, s, SubSeq(l, 2, Len(l)))
  <2>1. Trusted("decode") => Sound /\ Strong("decode", j, "body", k, c, m, t, s, l)
    BY DEF Holds, Trusted
  <2>2. Changed(n, m, j, l[1])
    BY DEF Changed, v
  <2> HIDE DEF n
  <2> QED
    BY <2>1, <2>2, StrongMsgIn
<1> QED
  BY <1>2, <1>3 DEF Holds, v

LEMMA HoldsBytesIn ==
  ASSUME Running, NEW j \in 1..Len(fields), NEW k, NEW c, NEW m, NEW t, NEW s, NEW l \in Seq(Nat),
         Typed(m), Holds("decode", j, "body", k, c, m, t, s, l), ~Grouped(j, O),
         fields[j].type.k = "array", ~Each(fields[j]), Limit(fields[j], m) <= Len(l)
  PROVE  LET f == fields[j]
             w == Limit(f, m)
             b == SubSeq(l, 1, w)
             n == [m EXCEPT ![f.name] = [i \in DOMAIN m[f.name] |-> IF i \in DOMAIN b THEN b[i] ELSE m[f.name][i]]]
         IN  Typed(n) /\ Holds("decode", j, "end", 0, 0, n, t, s, SubSeq(l, w + 1, Len(l)))
<1> DEFINE f == fields[j]
           w == Limit(f, m)
           b == SubSeq(l, 1, w)
           a == m[f.name]
           v == [i \in DOMAIN a |-> IF i \in DOMAIN b THEN b[i] ELSE a[i]]
           n == [m EXCEPT ![f.name] = v]
<1>1. w \in Nat /\ Size(f) \in Nat /\ a \in [1..Size(f) -> Nat]
  BY LimitIs
<1>2. b \in Seq(Nat)
  <2>1. w \in 0..Len(l)
    BY <1>1
  <2> HIDE DEF w
  <2> QED
    BY <2>1, Cut
<1>3. f.type.k # "prim" /\ v \in ValuesOf(f)
  <2>1. ValuesOf(f) = [1..Size(f) -> Nat]
    BY DEF ValuesOf
  <2> HIDE DEF b, a, f
  <2>2. \A i \in DOMAIN b : b[i] \in Nat
    BY <1>2
  <2>3. v \in [1..Size(f) -> Nat]
    BY <1>1, <2>2
  <2> QED
    BY <2>1, <2>3 DEF f
<1> HIDE DEF v
<1>4. Typed(n) /\ Weak("decode", j, "end", 0, 0, n)
  BY <1>3, WeakOver DEF Holds, Codec
<1>5. Trusted("decode") => Strong("decode", j, "end", 0, 0, n, t, s, SubSeq(l, w + 1, Len(l)))
  <2>1. Trusted("decode") => Sound /\ Strong("decode", j, "body", k, c, m, t, s, l)
    BY DEF Holds, Trusted
  <2>2. Changed(n, m, j, v) /\ Laid(v, m[f.name], b)
    BY DEF Changed, Laid, v
  <2>3. w = Limit(f, m) /\ w <= Len(l) /\ b = SubSeq(l, 1, w)
    OBVIOUS
  <2> HIDE DEF n, b, w
  <2> QED
    BY <1>3, <2>1, <2>2, <2>3, StrongBytesIn
<1> QED
  BY <1>4, <1>5 DEF Holds, v

LEMMA HoldsElemIn ==
  ASSUME Running, NEW j \in 1..Len(fields), NEW c \in Nat, NEW k \in 0..c, k # c, NEW m, NEW t, NEW s,
         NEW l \in Seq(Nat), Typed(m), Holds("decode", j, "elems", k, c, m, t, s, l), ~Grouped(j, O),
         Each(fields[j]), k + 1 <= Size(fields[j]), ElemOf(fields[j], k + 1).w \div 8 <= Len(l)
  PROVE  LET f == fields[j]
             w == ElemOf(f, k + 1).w \div 8
             n == [m EXCEPT ![f.name][k + 1] = Number(SubSeq(l, 1, w))]
         IN  Typed(n) /\ Holds("decode", j, "elems", k + 1, c, n, t, s, SubSeq(l, w + 1, Len(l)))
<1> DEFINE f == fields[j]
           w == ElemOf(f, k + 1).w \div 8
           x == Number(SubSeq(l, 1, w))
           a == m[f.name]
           v == [a EXCEPT ![k + 1] = x]
           n == [m EXCEPT ![f.name] = v]
<1>1. f.type.k = "array" /\ f.type.k # "prim"
  BY DEF Each
<1>2. Size(f) \in Nat /\ a \in [1..Size(f) -> Nat] /\ ElemOk(f.type.elem)
  BY <1>1, LimitIs
<1>3. x \in Nat
  <2>1. w \in 0..Len(l)
    <3>1. ElemOf(f, k + 1).w \in 0..64
      BY BitsRange DEF ElemOf, ElemUnit
    <3>2. \A y \in 0..64 : y \div 8 \in Nat
      OBVIOUS
    <3>3. w \in Nat
      BY <3>1, <3>2
    <3> QED
      BY <3>3
  <2> HIDE DEF w
  <2>2. SubSeq(l, 1, w) \in Seq(Nat)
    BY <2>1, Cut
  <2> QED
    BY <2>2, NumberNat
<1>4. v \in ValuesOf(f)
  <2>1. ValuesOf(f) = [1..Size(f) -> Nat]
    BY <1>1 DEF ValuesOf
  <2> HIDE DEF a, x, f
  <2>2. v \in [1..Size(f) -> Nat]
    BY <1>2, <1>3
  <2> QED
    BY <2>1, <2>2 DEF f
<1> HIDE DEF v
<1>5. Typed(n) /\ Capped(n, j - 1) /\ Valid(n, j - 1)
  BY <1>1, <1>4, WeakOver DEF Holds, Codec
<1>6. Weak("decode", j, "elems", k + 1, c, n)
  <2>1. Weak("decode", j, "elems", k, c, m)
    BY DEF Holds
  <2> QED
    BY <1>5, <2>1 DEF Weak, Done
<1>8. Trusted("decode") => Strong("decode", j, "elems", k + 1, c, n, t, s, SubSeq(l, w + 1, Len(l)))
  <2> DEFINE h == k + 1
  <2>1. Trusted("decode") => Sound /\ Strong("decode", j, "elems", k, c, m, t, s, l)
    BY DEF Holds, Trusted
  <2>2. Changed(n, m, j, v) /\ PutAt(v, m[f.name], h, Number(SubSeq(l, 1, w)))
    BY DEF Changed, PutAt, v
  <2>3. w = ElemOf(f, h).w \div 8 /\ w <= Len(l) /\ h = k + 1
    OBVIOUS
  <2> HIDE DEF n, w, h
  <2>4. Trusted("decode") => Strong("decode", j, "elems", h, c, n, t, s, SubSeq(l, w + 1, Len(l)))
    BY <1>4, <2>1, <2>2, <2>3, StrongElemIn
  <2> QED
    BY <2>4 DEF h
<1>7. [m EXCEPT ![f.name][k + 1] = x] = n
  BY DEF v
<1> HIDE DEF n, x
<1> QED
  BY <1>5, <1>6, <1>7, <1>8 DEF Holds, x

-----------------------------------------------------------------------------
(* The steps of the machine.                                               *)

(* The statement a function faces, by its operation.                       *)
LEMMA FacingOp ==
  ASSUME Running, NEW w \in Codec, NEW text, NEW j \in 1..Len(fields), NEW st, NEW k, NEW c,
         Facing(w, text, j, st, k, c)
  PROVE  LET o == Head(text).op IN
         /\ text # <<>>
         /\ o = "tmp" => st = "all" /\ AtClear(w, text, j)
         /\ o = "byte" => (st = "load" /\ AtLoad(w, text, j)) \/ (st = "after" /\ AtFiller(w, text, j))
         /\ o = "if" => st = "all" /\ AtIf(w, text, j)
         /\ o = "clamp" => st = "body" /\ AtClamp(w, text, j)
         /\ o = "bits" => st = "unit" /\ AtUnit(w, text, j) /\ Grouped(j, O)
         /\ o = "int" => st = "unit" /\ AtUnit(w, text, j) /\ ~Grouped(j, O)
         /\ o \in {"most", "equal"} => st = "after" /\ AtCheck(w, text, j)
         /\ o = "msg" => st = "body" /\ AtMsg(w, text, j)
         /\ o = "bytes" => st = "body" /\ AtArray(w, text, j) /\ ~Each(fields[j])
         /\ o = "each" => st = "body" /\ AtArray(w, text, j) /\ Each(fields[j])
         /\ o = "elem" => st = "elems" /\ AtElem(w, text, j, k, c)
<1> DEFINE o == Head(text).op
<1>1. ASSUME AtClear(w, text, j) PROVE text # <<>> /\ o = "tmp"
  BY <1>1 DEF AtClear, Line, ClearTmp
<1>2. ASSUME AtLoad(w, text, j) PROVE text # <<>> /\ o = "byte"
  BY <1>2 DEF AtLoad, Line, TmpByte
<1>3. ASSUME AtIf(w, text, j) PROVE text # <<>> /\ o = "if"
  BY <1>3 DEF AtIf, Line, IfOf
<1>4. ASSUME AtClamp(w, text, j) PROVE text # <<>> /\ o = "clamp"
  BY <1>4 DEF AtClamp, Line, ClampOf
<1>5. ASSUME AtUnit(w, text, j) PROVE text # <<>> /\ o = IF Grouped(j, O) THEN "bits" ELSE "int"
  <2>1. UnitOf(j).op = IF Grouped(j, O) THEN "bits" ELSE "int"
    BY DEF UnitOf, Unit, GroupUnit, BitsUnit, IntUnit
  <2> QED
    BY <1>5, <2>1 DEF AtUnit, Line
<1>6. ASSUME AtFiller(w, text, j) PROVE text # <<>> /\ o = "byte"
  BY <1>6 DEF AtFiller, Line, TmpByte
<1>7. ASSUME AtCheck(w, text, j) PROVE text # <<>> /\ o \in {"most", "equal"}
  <2>1. CheckOf(j).op \in {"most", "equal"}
    BY DEF CheckOf, Most
  <2> QED
    BY <1>7, <2>1 DEF AtCheck, Line
<1>8. ASSUME AtMsg(w, text, j) PROVE text # <<>> /\ o = "msg"
  BY <1>8 DEF AtMsg, Line, MsgUnit
<1>9. ASSUME AtArray(w, text, j) PROVE text # <<>> /\ o = IF Each(fields[j]) THEN "each" ELSE "bytes"
  <2>1. ArrayCode(w, fields[j]).op = IF Each(fields[j]) THEN "each" ELSE "bytes"
    BY <1>9 DEF AtArray, ArrayCode, ArrayUnit, ArrayRead, Each, BytesUnit, EachUnit
  <2> QED
    BY <1>9, <2>1 DEF AtArray, Line
<1>10. ASSUME AtElem(w, text, j, k, c) PROVE text # <<>> /\ o = "elem"
  <2>1. ElemOf(fields[j], k + 1).op = "elem"
    BY DEF ElemOf
  <2> QED
    BY <1>10, <2>1 DEF AtElem, Line
<1>11. CASE st = "all" /\ (AtClear(w, text, j) \/ AtIf(w, text, j))
  BY <1>1, <1>3, <1>11
<1>12. CASE st = "load" /\ AtLoad(w, text, j)
  BY <1>2, <1>12
<1>13. CASE st = "body" /\ (AtClamp(w, text, j) \/ AtMsg(w, text, j) \/ AtArray(w, text, j))
  <2>1. CASE AtClamp(w, text, j)
    BY <1>4, <1>13, <2>1
  <2>2. CASE AtMsg(w, text, j)
    BY <1>8, <1>13, <2>2
  <2>3. CASE AtArray(w, text, j)
    BY <1>9, <1>13, <2>3
  <2> QED
    BY <1>13, <2>1, <2>2, <2>3
<1>14. CASE st = "unit" /\ AtUnit(w, text, j)
  BY <1>5, <1>14
<1>15. CASE st = "after" /\ (AtFiller(w, text, j) \/ AtCheck(w, text, j))
  BY <1>6, <1>7, <1>15
<1>16. CASE st = "elems" /\ AtElem(w, text, j, k, c)
  BY <1>10, <1>16
<1> QED
  BY <1>11, <1>12, <1>13, <1>14, <1>15, <1>16 DEF Facing

(* A running function.                                                     *)
Going(w) ==
  /\ Running /\ w \in Codec /\ phase = w
  /\ Typed(msg) /\ tmp \in Nat /\ stream \in Seq(Nat) /\ left \in Seq(Nat)
  /\ Stands(w, code, msg, tmp, stream, left)

(* It goes on.                                                             *)
Goes(w) ==
  /\ Typed(msg') /\ tmp' \in Nat /\ stream' \in Seq(Nat) /\ left' \in Seq(Nat)
  /\ Stands(w, code', msg', tmp', stream', left')

LEMMA Facts ==
  ASSUME NEW w, Going(w), code # <<>>
  PROVE  \E j \in 1..Len(fields) : \E st, k, c :
           Facing(w, code, j, st, k, c) /\ Holds(w, j, st, k, c, msg, tmp, stream, left)
<1>1. Ready(w, code, msg, tmp, stream, left)
  BY StandsReady DEF Going
<1> QED
  BY <1>1 DEF Ready

LEMMA StandsAt ==
  ASSUME NEW w, NEW text, NEW i, NEW st \in Stages, NEW k, NEW c, NEW m, NEW t, NEW s, NEW l,
         PosAt(w, text, i, st, k, c), Holds(w, i, st, k, c, m, t, s, l)
  PROVE  Stands(w, text, m, t, s, l)
  BY DEF Stands

LEMMA ClearByteGoes ==
  ASSUME NEW w, Going(w), ClearByte
  PROVE  Goes(w)
<1>1. code # <<>> /\ Stmt.op = "tmp" /\ w \in Codec /\ Running
  BY DEF ClearByte, Runs, Going
<1>2. PICK j \in 1..Len(fields) : \E st, k, c :
           Facing(w, code, j, st, k, c) /\ Holds(w, j, st, k, c, msg, tmp, stream, left)
  BY <1>1, Facts
<1>3. PICK st, k, c : Facing(w, code, j, st, k, c) /\ Holds(w, j, st, k, c, msg, tmp, stream, left)
  BY <1>2
<1>4. st = "all" /\ AtClear(w, code, j)
  BY <1>1, <1>3, FacingOp DEF Stmt
<1> DEFINE to == IF w = "encode" THEN "unit" ELSE "load"
<1>5. PosAt(w, Tail(code), j, to, 0, 0) /\ Grouped(j, O) /\ Before(O, j) = 0
  BY <1>4 DEF AtClear, Line
<1>6. Holds(w, j, to, 0, 0, msg, 0, stream, left)
  BY <1>1, <1>3, <1>4, <1>5, HoldsClear DEF Going
<1>7. to \in Stages
  BY DEF Stages
<1> HIDE DEF to
<1>8. Stands(w, Tail(code), msg, 0, stream, left)
  BY <1>5, <1>6, <1>7, StandsAt
<1> QED
  BY <1>8 DEF Goes, Going, ClearByte, Continue

LEMMA IfGoes ==
  ASSUME NEW w, Going(w), If
  PROVE  Goes(w)
<1>1. code # <<>> /\ Stmt.op = "if" /\ w \in Codec /\ Running
  BY DEF If, Runs, Going
<1>2. PICK j \in 1..Len(fields) : \E st, k, c :
           Facing(w, code, j, st, k, c) /\ Holds(w, j, st, k, c, msg, tmp, stream, left)
  BY <1>1, Facts
<1>3. PICK st, k, c : Facing(w, code, j, st, k, c) /\ Holds(w, j, st, k, c, msg, tmp, stream, left)
  BY <1>2
<1>4. st = "all" /\ AtIf(w, code, j)
  BY <1>1, <1>3, FacingOp DEF Stmt
<1> DEFINE f == fields[j]
           yes == msg[f.existIf] # 0
           to == IF yes THEN "body" ELSE "end"
           text == (IF yes THEN Body(w, f) ELSE <<>>) \o Tail(code)
<1>5. /\ ~Grouped(j, O) /\ f.existIf # NoName /\ Stmt = IfOf(w, f)
      /\ PosAt(w, Tail(code), j, "end", 0, 0) /\ PosAt(w, Body(w, f) \o Tail(code), j, "body", 0, 0)
      /\ Text(Tail(code))
  <2>1. \A x : Text(x) /\ x # <<>> => Text(Tail(x))
    <3> TAKE x
    <3> HAVE Text(x) /\ x # <<>>
    <3>1. PICK X : x \in Seq(X)
      BY DEF Text
    <3>2. Tail(x) \in Seq(X)
      BY <3>1
    <3> QED
      BY <3>2 DEF Text
  <2> QED
    BY <1>4, <2>1 DEF AtIf, Line, Stmt
<1>6. Holds(w, j, to, 0, 0, msg, tmp, stream, left)
  BY <1>1, <1>3, <1>4, <1>5, HoldsIf DEF Going
<1>7. PosAt(w, text, j, to, 0, 0)
  <2>1. <<>> \o Tail(code) = Tail(code)
    BY <1>5, PushNothing
  <2> QED
    BY <1>5, <2>1
<1>8. to \in Stages
  BY DEF Stages
<1>9. code' = text
  <2>1. Stmt.cond.name = f.existIf /\ Stmt.body = Body(w, f)
    BY <1>5 DEF IfOf, This
  <2> QED
    BY <2>1 DEF If, Continue
<1> HIDE DEF to, text
<1>10. Stands(w, text, msg, tmp, stream, left)
  BY <1>6, <1>7, <1>8, StandsAt
<1> QED
  BY <1>9, <1>10 DEF Goes, Going, If, Continue

(* Every count of elements is what limits the array.                       *)
LEMMA CountIs ==
  ASSUME NEW w, Going(w), NEW j \in 1..Len(fields), fields[j].type.k = "array"
  PROVE  LET a == ArrayCode(w, fields[j]) IN
         /\ a.f = fields[j].name /\ Count(a) = Limit(fields[j], msg)
         /\ Each(fields[j]) => a.elem = ElemUnit(fields[j].type.elem)
<1> DEFINE f == fields[j]
           a == ArrayCode(w, f)
           r == LimitRef(f)
<1>1. Running /\ Settled /\ Compiles /\ Typed(msg) /\ w \in Codec
  BY DEF Going, Running
<1>2. a.f = f.name /\ (Each(f) => a.elem = ElemUnit(f.type.elem))
  BY DEF ArrayCode, ArrayUnit, ArrayRead, BytesUnit, EachUnit, Each
<1>3. a.len = r \/ (a.len = NoRef /\ ~r.this)
  BY DEF ArrayCode, ArrayUnit, ArrayRead, BytesUnit, EachUnit
<1>4. Len(msg[f.name]) = Size(f)
  BY <1>1, LimitIs
<1>5. r.this => r.name = f.limit /\ r # NoRef
  BY DEF LimitRef, This, Plain, NoRef
<1>6. ~r.this => ConstVal(r) = Size(f) /\ r # NoRef
  BY <1>1, LimitOk
<1>7. Count(a) = Limit(f, msg)
  <2> HIDE DEF r, f, a
  <2>1. CASE a.len = NoRef /\ ~r.this
    <3>1. ~NoRef.this
      BY DEF NoRef
    <3>2. Count(a) = Len(msg[a.f])
      BY <2>1, <3>1 DEF Count
    <3>3. Limit(f, msg) = Size(f)
      BY <2>1 DEF Limit, r
    <3> QED
      BY <1>2, <1>4, <3>2, <3>3
  <2>2. CASE a.len = r /\ r.this
    BY <1>5, <2>2 DEF Count, Limit, r, f
  <2>3. CASE a.len = r /\ ~r.this
    BY <1>6, <2>3 DEF Count, Limit, r, f
  <2> QED
    BY <1>3, <2>1, <2>2, <2>3
<1> QED
  BY <1>2, <1>7

LEMMA LoopGoes ==
  ASSUME NEW w, Going(w), Loop
  PROVE  Goes(w)
<1>1. code # <<>> /\ Stmt.op = "each" /\ w \in Codec /\ Running /\ Settled
  BY DEF Loop, Runs, Going, Running
<1>2. PICK j \in 1..Len(fields) : \E st, k, c :
           Facing(w, code, j, st, k, c) /\ Holds(w, j, st, k, c, msg, tmp, stream, left)
  BY <1>1, Facts
<1>3. PICK st, k, c : Facing(w, code, j, st, k, c) /\ Holds(w, j, st, k, c, msg, tmp, stream, left)
  BY <1>2
<1>4. st = "body" /\ AtArray(w, code, j) /\ Each(fields[j])
  BY <1>1, <1>3, FacingOp DEF Stmt
<1> DEFINE f == fields[j]
           z == Limit(f, msg)
           text == [i \in 1..z |-> ElemOf(f, i)] \o Tail(code)
<1>5. ~Grouped(j, O) /\ f.type.k = "array" /\ Stmt = ArrayCode(w, f) /\ PosAt(w, Tail(code), j, "end", 0, 0)
  BY <1>4 DEF AtArray, Line, Stmt
<1>6. z \in Nat
  BY <1>1, <1>5, LimitIs DEF Going
<1>7. Holds(w, j, "elems", 0, z, msg, tmp, stream, left)
  BY <1>1, <1>3, <1>4, <1>5, HoldsLoop DEF Going
<1>8. code' = text
  <2>1. Count(Stmt) = z /\ Stmt.f = f.name /\ Stmt.elem = ElemUnit(f.type.elem)
    BY <1>4, <1>5, CountIs
  <2> DEFINE v == IF Stmt.elem.op = "msg" THEN 8 ELSE Stmt.elem.w
  <2>2. code' = [i \in 1..Count(Stmt) |-> [op |-> "elem", f |-> Stmt.f, i |-> i, w |-> v]] \o Tail(code)
    BY DEF Loop, Continue
  <2>3. \A i : ElemOf(f, i) = [op |-> "elem", f |-> Stmt.f, i |-> i, w |-> v]
    BY <2>1 DEF ElemOf
  <2> HIDE DEF z, f, v
  <2>4. [i \in 1..Count(Stmt) |-> [op |-> "elem", f |-> Stmt.f, i |-> i, w |-> v]] = [i \in 1..z |-> ElemOf(f, i)]
    BY <2>1, <2>3
  <2> QED
    BY <2>2, <2>4
<1>9. PosAt(w, text, j, "elems", 0, z)
  <2> HIDE DEF z
  <2> QED
    BY <1>1, <1>4, <1>5, <1>6, PosLoop
<1> HIDE DEF text, z
<1>10. Stands(w, text, msg, tmp, stream, left)
  BY <1>7, <1>9, StandsAt DEF Stages
<1> QED
  BY <1>8, <1>10 DEF Goes, Going, Loop, Continue

LEMMA PutGoes ==
  ASSUME NEW w, Going(w), Runs("encode", Moving), ~OutOfRange(Stmt)
  PROVE  /\ Output(Stmt) \in Seq(Nat)
         /\ Stands("encode", Tail(code), msg, tmp, stream \o Output(Stmt), left)
<1>1. /\ w = "encode" /\ w \in Codec /\ code # <<>> /\ Stmt.op \in Moving
      /\ Running /\ Settled /\ Compiles /\ Typed(msg) /\ tmp \in Nat /\ stream \in Seq(Nat)
  BY DEF Runs, Going, Running
<1>2. PICK j \in 1..Len(fields) : \E st, k, c :
           Facing(w, code, j, st, k, c) /\ Holds(w, j, st, k, c, msg, tmp, stream, left)
  BY <1>1, Facts
<1>3. PICK st, k, c : Facing(w, code, j, st, k, c) /\ Holds(w, j, st, k, c, msg, tmp, stream, left)
  BY <1>2
<1> DEFINE f == fields[j]
           P(out, to, x, y) == /\ Output(Stmt) = out /\ out \in Seq(Nat)
                               /\ PosAt("encode", Tail(code), j, to, x, y)
                               /\ Holds("encode", j, to, x, y, msg, tmp, stream \o out, left)
<1>4. ASSUME NEW out, NEW to \in Stages, NEW x, NEW y, P(out, to, x, y)
      PROVE  /\ Output(Stmt) \in Seq(Nat)
             /\ Stands("encode", Tail(code), msg, tmp, stream \o Output(Stmt), left)
  BY <1>4, StandsAt
<1>6. "end" \in Stages /\ "after" \in Stages /\ "elems" \in Stages
  BY DEF Stages
<1>7. CASE Stmt.op = "byte"
  <2>1. st = "after" /\ AtFiller(w, code, j)
    BY <1>1, <1>3, <1>7, FacingOp DEF Stmt, AtLoad
  <2> DEFINE n == fields[Opener(j)].xor
             out == <<XorByte(tmp, ConstVal(Plain(n)))>>
  <2>2. Grouped(j, O) /\ Used(j) = 8 /\ Stmt = TmpByte(n) /\ PosAt("encode", Tail(code), j, "end", 0, 0)
    BY <1>1, <2>1 DEF AtFiller, Line, Stmt
  <2>3. Output(Stmt) = out
    BY <2>2 DEF Output, TmpByte
  <2>4. out \in Seq(Nat)
    BY <1>1, OrXorNat
  <2>5. Holds("encode", j, "end", 0, 0, msg, tmp, stream \o out, left)
    BY <1>1, <1>3, <2>1, <2>2, HoldsFiller
  <2> HIDE DEF out
  <2>7. P(out, "end", 0, 0)
    BY <2>2, <2>3, <2>4, <2>5
  <2> QED
    BY <1>4, <1>6, <2>7
<1>8. CASE Stmt.op = "int"
  <2>1. st = "unit" /\ AtUnit(w, code, j) /\ ~Grouped(j, O)
    BY <1>1, <1>3, <1>8, FacingOp DEF Stmt
  <2> DEFINE v == BigEndian(msg[f.name], Bits(f.type))
             out == Masked(v, ConstVal(Plain(f.xor)))
  <2>2. Simple(j) /\ Stmt = IntUnit(f) /\ f.type.k = "prim" /\ PosAt("encode", Tail(code), j, "after", 0, 0)
    BY <1>1, <2>1 DEF AtUnit, Line, Stmt, UnitOf, Simple
  <2>3. Output(Stmt) = out
    BY <2>2 DEF Output, IntUnit
  <2>4. out \in Seq(Nat)
    <3>1. msg[f.name] \in Nat
      BY <1>1, <2>2 DEF Typed, ValuesOf
    <3>2. v \in Seq(Nat)
      BY <1>1, <2>1, <2>2, <3>1, IntWidth, WideSeq
    <3> HIDE DEF v
    <3> QED
      BY <3>2, MaskedBytes
  <2>5. Holds("encode", j, "after", 0, 0, msg, tmp, stream \o out, left)
    BY <1>1, <1>3, <2>1, <2>2, HoldsIntOut
  <2> HIDE DEF out
  <2>7. P(out, "after", 0, 0)
    BY <2>2, <2>3, <2>4, <2>5
  <2> QED
    BY <1>4, <1>6, <2>7
<1>9. CASE Stmt.op = "msg"
  <2>1. st = "body" /\ AtMsg(w, code, j)
    BY <1>1, <1>3, <1>9, FacingOp DEF Stmt
  <2> DEFINE out == <<msg[f.name]>>
  <2>2. /\ ~Grouped(j, O) /\ f.type.k \in {"struct", "undef"} /\ Stmt = MsgUnit(f)
        /\ PosAt("encode", Tail(code), j, "end", 0, 0)
    BY <1>1, <2>1 DEF AtMsg, Line, Stmt
  <2>3. Output(Stmt) = out
    BY <2>2 DEF Output, MsgUnit
  <2>4. out \in Seq(Nat)
    <3>1. msg[f.name] \in Nat
      BY <1>1, <2>2 DEF Typed, ValuesOf
    <3> QED
      BY <3>1
  <2>5. Holds("encode", j, "end", 0, 0, msg, tmp, stream \o out, left)
    BY <1>1, <1>3, <2>1, <2>2, HoldsMsgOut
  <2> HIDE DEF out
  <2>7. P(out, "end", 0, 0)
    BY <2>2, <2>3, <2>4, <2>5
  <2> QED
    BY <1>4, <1>6, <2>7
<1>10. CASE Stmt.op = "bytes"
  <2>1. st = "body" /\ AtArray(w, code, j) /\ ~Each(f)
    BY <1>1, <1>3, <1>10, FacingOp DEF Stmt
  <2> DEFINE z == Limit(f, msg)
             a == msg[f.name]
             out == SubSeq(a, 1, z)
  <2>2. /\ ~Grouped(j, O) /\ f.type.k = "array" /\ Stmt = ArrayCode(w, f)
        /\ PosAt("encode", Tail(code), j, "end", 0, 0)
    BY <1>1, <2>1 DEF AtArray, Line, Stmt
  <2>3. Stmt.f = f.name /\ Count(Stmt) = z
    BY <2>2, CountIs
  <2>4. Output(Stmt) = out
    BY <1>10, <2>3 DEF Output
  <2>5. z \in Nat /\ a \in Seq(Nat) /\ z <= Len(a)
    <3>1. z \in Nat /\ a \in Seq(Nat)
      BY <1>1, <2>2, LimitIs
    <3>2. ~(z > Len(a))
      BY <1>10, <2>3 DEF OutOfRange
    <3> HIDE DEF z, a
    <3> QED
      BY <3>1, <3>2
  <2>6. out \in Seq(Nat)
    <3> HIDE DEF z, a
    <3>1. z \in 0..Len(a)
      BY <2>5
    <3> QED
      BY <2>5, <3>1, Cut
  <2>7. Holds("encode", j, "end", 0, 0, msg, tmp, stream \o out, left)
    BY <1>1, <1>3, <2>1, <2>2, HoldsBytesOut
  <2> HIDE DEF out
  <2>9. P(out, "end", 0, 0)
    BY <2>2, <2>4, <2>6, <2>7
  <2> QED
    BY <1>4, <1>6, <2>9
<1>11. CASE Stmt.op = "elem"
  <2>1. st = "elems" /\ AtElem(w, code, j, k, c)
    BY <1>1, <1>3, <1>11, FacingOp DEF Stmt
  <2> DEFINE h == k + 1
             a == msg[f.name]
             out == BigEndian(a[h], ElemOf(f, h).w)
  <2>2. /\ ~Grouped(j, O) /\ Each(f) /\ f.type.k = "array" /\ c \in Nat /\ k \in 0..c /\ k # c /\ k \in Nat
        /\ Stmt = ElemOf(f, h) /\ PosAt("encode", Tail(code), j, "elems", h, c)
    BY <1>1, <2>1 DEF AtElem, Line, Stmt, Each
  <2>3. Stmt.f = f.name /\ Stmt.i = h
    BY <2>2 DEF ElemOf
  <2>4. Output(Stmt) = out
    <3>1. Output(Stmt) = BigEndian(msg[Stmt.f][Stmt.i], Stmt.w)
      BY <1>11 DEF Output
    <3> HIDE DEF h
    <3> QED
      BY <2>2, <2>3, <3>1
  <2>5. a \in [1..Size(f) -> Nat] /\ Len(a) = Size(f) /\ Size(f) \in Nat /\ ElemOk(f.type.elem)
    BY <1>1, <2>2, LimitIs
  <2>6. h <= Size(f) /\ a[h] \in Nat
    <3>1. ~(h > Len(a))
      BY <1>11, <2>3 DEF OutOfRange
    <3> HIDE DEF a
    <3> QED
      BY <2>2, <2>5, <3>1
  <2>7. out \in Seq(Nat)
    <3> HIDE DEF a, h
    <3> QED
      BY <2>5, <2>6, ElemWidth, WideSeq
  <2>8. Holds("encode", j, "elems", h, c, msg, tmp, stream \o out, left)
    BY <1>1, <1>3, <2>1, <2>2, <2>6, HoldsElemOut
  <2> HIDE DEF out, h
  <2>9. P(out, "elems", h, c)
    BY <2>2, <2>4, <2>7, <2>8
  <2> QED
    BY <1>4, <1>6, <2>9
<1> QED
  BY <1>1, <1>7, <1>8, <1>9, <1>10, <1>11 DEF Moving

LEMMA EncodeGoes ==
  ASSUME NEW w, Going(w), ClampField \/ AddBits \/ Put
  PROVE  Goes(w)
<1>1. CASE Put
  <2>1. Output(Stmt) \in Seq(Nat) /\ Stands("encode", Tail(code), msg, tmp, stream \o Output(Stmt), left)
    BY <1>1, PutGoes DEF Put
  <2>2. w = "encode" /\ stream \in Seq(Nat) /\ Typed(msg) /\ tmp \in Nat /\ left \in Seq(Nat)
    BY <1>1 DEF Put, Runs, Going
  <2>3. msg' = msg /\ tmp' = tmp /\ left' = left /\ code' = Tail(code) /\ stream' = stream \o Output(Stmt)
    BY <1>1 DEF Put, Continue
  <2> DEFINE out == Output(Stmt)
  <2>4. stream \o out \in Seq(Nat)
    <3> HIDE DEF out
    <3>1. out \in Seq(Nat)
      BY <2>1 DEF out
    <3> QED
      BY <2>2, <3>1
  <2> QED
    BY <2>1, <2>2, <2>3, <2>4 DEF Goes
<1>2. CASE ClampField
  <2>1. code # <<>> /\ Stmt.op = "clamp" /\ w = "encode" /\ Running
    BY <1>2 DEF ClampField, Runs, Going
  <2>2. PICK j \in 1..Len(fields) : \E st, k, c :
             Facing(w, code, j, st, k, c) /\ Holds(w, j, st, k, c, msg, tmp, stream, left)
    BY <2>1, Facts
  <2>3. PICK st, k, c : Facing(w, code, j, st, k, c) /\ Holds(w, j, st, k, c, msg, tmp, stream, left)
    BY <2>2
  <2>4. st = "body" /\ AtClamp(w, code, j) /\ w \in Codec
    BY <2>1, <2>3, FacingOp DEF Stmt, Codec
  <2> DEFINE f == fields[j]
             n == [msg EXCEPT ![f.name] = Clamped(msg[f.name], ConstVal(Plain(f.max)))]
  <2>5. /\ ~Grouped(j, O) /\ f.type.k = "prim" /\ f.max # NoName
        /\ Stmt = ClampOf(f) /\ PosAt("encode", Tail(code), j, "unit", 0, 0)
    BY <2>1, <2>4 DEF AtClamp, Line, Stmt
  <2>6. Typed(n) /\ Holds("encode", j, "unit", 0, 0, n, tmp, stream, left)
    BY <2>1, <2>3, <2>4, <2>5, HoldsClamp DEF Going
  <2>7. msg' = n
    BY <1>2, <2>5 DEF ClampField, ClampOf
  <2> HIDE DEF n
  <2>8. Stands("encode", Tail(code), n, tmp, stream, left)
    BY <2>5, <2>6, StandsAt DEF Stages
  <2> QED
    BY <1>2, <2>1, <2>6, <2>7, <2>8 DEF Goes, Going, ClampField, Continue
<1>3. CASE AddBits
  <2>1. code # <<>> /\ Stmt.op = "bits" /\ w = "encode" /\ Running
    BY <1>3 DEF AddBits, Runs, Going
  <2>2. PICK j \in 1..Len(fields) : \E st, k, c :
             Facing(w, code, j, st, k, c) /\ Holds(w, j, st, k, c, msg, tmp, stream, left)
    BY <2>1, Facts
  <2>3. PICK st, k, c : Facing(w, code, j, st, k, c) /\ Holds(w, j, st, k, c, msg, tmp, stream, left)
    BY <2>2
  <2>4. st = "unit" /\ AtUnit(w, code, j) /\ Grouped(j, O) /\ w \in Codec
    BY <2>1, <2>3, FacingOp DEF Stmt, Codec
  <2> DEFINE f == fields[j]
             t == OrByte(tmp, Span(msg[f.name], Bits(f.type), 8 - Used(j)))
  <2>5. Stmt = BitsUnit(f, 8 - Used(j)) /\ PosAt("encode", Tail(code), j, "after", 0, 0)
    <3>1. Stmt = Unit(j) /\ PosAt("encode", Tail(code), j, "after", 0, 0)
      BY <2>1, <2>4 DEF AtUnit, Line, Stmt, UnitOf
    <3>2. Unit(j) = BitsUnit(f, 8 - Used(j))
      BY DEF Unit, GroupUnit, Used
    <3> QED
      BY <3>1, <3>2
  <2>6. Holds("encode", j, "after", 0, 0, msg, t, stream, left)
    BY <2>1, <2>3, <2>4, HoldsBitsOut DEF Going
  <2>7. tmp' = t
    BY <1>3, <2>5 DEF AddBits, BitsUnit
  <2>8. t \in Nat
    BY OrXorNat DEF Going
  <2> HIDE DEF t
  <2>9. Stands("encode", Tail(code), msg, t, stream, left)
    BY <2>5, <2>6, StandsAt DEF Stages
  <2> QED
    BY <1>3, <2>1, <2>7, <2>8, <2>9 DEF Goes, Going, AddBits, Continue
<1> QED
  BY <1>1, <1>2, <1>3

LEMMA GetGoes ==
  ASSUME NEW w, Going(w), Get
  PROVE  Goes(w)
<1>1. /\ w = "decode" /\ w \in Codec /\ code # <<>> /\ Stmt.op \in Moving
      /\ Running /\ Settled /\ Compiles /\ Typed(msg) /\ tmp \in Nat
      /\ left \in Seq(Nat) /\ stream \in Seq(Nat) /\ ~OutOfRange(Stmt)
  BY DEF Get, Runs, Going, Running
<1>2. PICK j \in 1..Len(fields) : \E st, k, c :
           Facing(w, code, j, st, k, c) /\ Holds(w, j, st, k, c, msg, tmp, stream, left)
  BY <1>1, Facts
<1>3. PICK st, k, c : Facing(w, code, j, st, k, c) /\ Holds(w, j, st, k, c, msg, tmp, stream, left)
  BY <1>2
<1> DEFINE f == fields[j]
           q == Wanted(Stmt)
           bytes == SubSeq(left, 1, q)
           rest == SubSeq(left, q + 1, Len(left))
           P(m, t, to, x, y) == /\ msg' = m /\ tmp' = t /\ Typed(m) /\ t \in Nat
                                /\ PosAt("decode", Tail(code), j, to, x, y)
                                /\ Holds("decode", j, to, x, y, m, t, stream, rest)
<1>4. q <= Len(left) /\ left' = rest /\ code' = Tail(code) /\ stream' = stream
  BY DEF Get, Continue
<1>5. /\ msg' = Stored(Stmt, bytes)
      /\ tmp' = IF Stmt.op = "byte" THEN XorByte(bytes[1], ConstVal(Stmt.xor)) ELSE tmp
  BY DEF Get
<1>6. ASSUME q \in Nat, NEW m, NEW t, NEW to \in Stages, NEW x, NEW y, P(m, t, to, x, y)
      PROVE  Goes(w)
  <2>1. rest \in Seq(Nat)
    <3> HIDE DEF q
    <3>1. q \in 0..Len(left)
      BY <1>1, <1>4, <1>6
    <3> QED
      BY <1>1, <3>1, Cut
  <2> HIDE DEF rest, q
  <2>2. Stands("decode", Tail(code), m, t, stream, rest)
    BY <1>6, StandsAt
  <2> QED
    BY <1>1, <1>4, <1>6, <2>1, <2>2 DEF Goes
<1>7. "end" \in Stages /\ "after" \in Stages /\ "elems" \in Stages /\ "unit" \in Stages
  BY DEF Stages
<1>8. ASSUME q = 1 PROVE left # <<>> /\ rest = SubSeq(left, 2, Len(left)) /\ bytes[1] = left[1] /\ left[1] \in Nat
  <2>1. 1 <= Len(left) /\ 1 + 1 = 2 /\ 1 \in 0..Len(left) /\ 1 \in 1..1
    BY <1>1, <1>4, <1>8
  <2>2. SubSeq(left, 1, 1)[1] = left[1]
    BY <1>1, <2>1, Cut
  <2>3. left # <<>> /\ left[1] \in Nat
    BY <1>1, <2>1
  <2> HIDE DEF q
  <2> QED
    BY <1>8, <2>1, <2>2, <2>3
<1>9. CASE Stmt.op = "byte"
  <2>1. st = "load" /\ AtLoad(w, code, j)
    BY <1>1, <1>3, <1>9, FacingOp DEF Stmt, AtFiller
  <2> DEFINE t == XorByte(left[1], ConstVal(Plain(f.xor)))
  <2>2. Grouped(j, O) /\ Before(O, j) = 0 /\ Stmt = TmpByte(f.xor) /\ PosAt("decode", Tail(code), j, "unit", 0, 0)
    BY <1>1, <2>1 DEF AtLoad, Line, Stmt
  <2>3. q = 1
    BY <1>9 DEF Wanted
  <2>4. msg' = msg /\ tmp' = t
    <3>1. Stored(Stmt, bytes) = msg
      BY <1>9 DEF Stored
    <3>2. Stmt.xor = Plain(f.xor)
      BY <2>2 DEF TmpByte
    <3> HIDE DEF bytes
    <3> QED
      BY <1>5, <1>8, <1>9, <2>3, <3>1, <3>2
  <2>5. t \in Nat
    BY <1>8, <2>3, OrXorNat
  <2>6. Holds("decode", j, "unit", 0, 0, msg, t, stream, rest)
    <3> HIDE DEF q
    <3> QED
      BY <1>1, <1>3, <1>8, <2>1, <2>2, <2>3, HoldsLoad
  <2> HIDE DEF t, rest
  <2>7. P(msg, t, "unit", 0, 0)
    BY <1>1, <2>2, <2>4, <2>5, <2>6
  <2> HIDE DEF P
  <2> QED
    BY <1>6, <1>7, <2>3, <2>7
<1>10. CASE Stmt.op = "int"
  <2>1. st = "unit" /\ AtUnit(w, code, j) /\ ~Grouped(j, O)
    BY <1>1, <1>3, <1>10, FacingOp DEF Stmt
  <2> DEFINE m == [msg EXCEPT ![f.name] = Number(Masked(bytes, ConstVal(Plain(f.xor))))]
  <2>2. Simple(j) /\ Stmt = IntUnit(f) /\ f.type.k = "prim" /\ PosAt("decode", Tail(code), j, "after", 0, 0)
    BY <1>1, <2>1 DEF AtUnit, Line, Stmt, UnitOf, Simple
  <2>3. q = Bits(f.type) \div 8 /\ q \in Nat
    <3>1. q = Bits(f.type) \div 8
      BY <1>10, <2>2 DEF Wanted, IntUnit
    <3>2. \A b \in 0..64 : b \div 8 \in Nat
      OBVIOUS
    <3>3. Bits(f.type) \in 0..64
      BY BitsRange
    <3> HIDE DEF q
    <3> QED
      BY <3>1, <3>2, <3>3
  <2>4. msg' = m /\ tmp' = tmp
    <3>1. Stmt.xor = Plain(f.xor) /\ Stmt.f = f.name
      BY <2>2 DEF IntUnit
    <3>2. Stored(Stmt, bytes) = m
      BY <1>10, <3>1 DEF Stored
    <3> HIDE DEF m
    <3> QED
      BY <1>5, <1>10, <3>2
  <2>5. Typed(m) /\ Holds("decode", j, "after", 0, 0, m, tmp, stream, rest)
    <3> HIDE DEF q
    <3> QED
      BY <1>1, <1>3, <1>4, <2>1, <2>2, <2>3, HoldsIntIn
  <2> HIDE DEF m, rest
  <2>6. P(m, tmp, "after", 0, 0)
    BY <1>1, <2>2, <2>4, <2>5
  <2> HIDE DEF P
  <2> QED
    BY <1>6, <1>7, <2>3, <2>6
<1>11. CASE Stmt.op = "msg"
  <2>1. st = "body" /\ AtMsg(w, code, j)
    BY <1>1, <1>3, <1>11, FacingOp DEF Stmt
  <2> DEFINE m == [msg EXCEPT ![f.name] = left[1]]
  <2>2. /\ ~Grouped(j, O) /\ f.type.k \in {"struct", "undef"} /\ Stmt = MsgUnit(f)
        /\ PosAt("decode", Tail(code), j, "end", 0, 0)
    BY <1>1, <2>1 DEF AtMsg, Line, Stmt
  <2>3. q = 1
    BY <1>11 DEF Wanted
  <2>4. msg' = m /\ tmp' = tmp
    <3>1. Stmt.f = f.name
      BY <2>2 DEF MsgUnit
    <3>2. Stored(Stmt, bytes) = [msg EXCEPT ![f.name] = bytes[1]]
      BY <1>11, <3>1 DEF Stored
    <3> HIDE DEF bytes, q
    <3> QED
      BY <1>5, <1>8, <1>11, <2>3, <3>2
  <2>5. Typed(m) /\ Holds("decode", j, "end", 0, 0, m, tmp, stream, rest)
    <3> HIDE DEF q
    <3> QED
      BY <1>1, <1>3, <1>8, <2>1, <2>2, <2>3, HoldsMsgIn
  <2> HIDE DEF m, rest
  <2>6. P(m, tmp, "end", 0, 0)
    BY <1>1, <2>2, <2>4, <2>5
  <2> HIDE DEF P
  <2> QED
    BY <1>6, <1>7, <2>3, <2>6
<1>12. CASE Stmt.op = "bytes"
  <2>1. st = "body" /\ AtArray(w, code, j) /\ ~Each(f)
    BY <1>1, <1>3, <1>12, FacingOp DEF Stmt
  <2> DEFINE a == msg[f.name]
             m == [msg EXCEPT ![f.name] = [i \in DOMAIN a |-> IF i \in DOMAIN bytes THEN bytes[i] ELSE a[i]]]
  <2>2. /\ ~Grouped(j, O) /\ f.type.k = "array" /\ Stmt = ArrayCode(w, f)
        /\ PosAt("decode", Tail(code), j, "end", 0, 0)
    BY <1>1, <2>1 DEF AtArray, Line, Stmt
  <2>3. Stmt.f = f.name /\ q = Limit(f, msg) /\ q \in Nat
    <3>1. Stmt.f = f.name /\ Count(Stmt) = Limit(f, msg)
      BY <2>2, CountIs
    <3>2. q = Count(Stmt)
      BY <1>12 DEF Wanted
    <3>3. Limit(f, msg) \in Nat
      BY <1>1, <2>2, LimitIs
    <3> HIDE DEF q
    <3> QED
      BY <3>1, <3>2, <3>3
  <2>4. msg' = m /\ tmp' = tmp
    <3>1. Stored(Stmt, bytes) = m
      <4>1. f.name \in DOMAIN msg
        BY <1>1 DEF Typed
      <4>2. Stored(Stmt, bytes) = [msg EXCEPT ![Stmt.f] = [i \in DOMAIN @ |-> IF i \in DOMAIN bytes THEN bytes[i] ELSE @[i]]]
        BY <1>12 DEF Stored
      <4> HIDE DEF bytes
      <4> QED
        BY <2>3, <4>1, <4>2
    <3> HIDE DEF m
    <3> QED
      BY <1>5, <1>12, <3>1
  <2>5. Typed(m) /\ Holds("decode", j, "end", 0, 0, m, tmp, stream, rest)
    <3> DEFINE z == Limit(f, msg)
               b == SubSeq(left, 1, z)
               v == [i \in DOMAIN a |-> IF i \in DOMAIN b THEN b[i] ELSE a[i]]
               n == [msg EXCEPT ![f.name] = v]
               more == SubSeq(left, z + 1, Len(left))
    <3> HIDE DEF q
    <3>1. z <= Len(left)
      BY <1>4, <2>3
    <3>2. Typed(n) /\ Holds("decode", j, "end", 0, 0, n, tmp, stream, more)
      BY <1>1, <1>3, <2>1, <2>2, <3>1, HoldsBytesIn
    <3>3. bytes = b /\ rest = more
      BY <2>3
    <3> HIDE DEF bytes, b, rest, more, a
    <3>4. [i \in DOMAIN a |-> IF i \in DOMAIN bytes THEN bytes[i] ELSE a[i]] = v
      BY <3>3
    <3> HIDE DEF v
    <3>5. m = n
      BY <3>4
    <3> HIDE DEF m, n
    <3> QED
      BY <3>2, <3>3, <3>5
  <2> HIDE DEF m, rest
  <2>6. P(m, tmp, "end", 0, 0)
    BY <1>1, <2>2, <2>4, <2>5
  <2> HIDE DEF P
  <2> QED
    BY <1>6, <1>7, <2>3, <2>6
<1>13. CASE Stmt.op = "elem"
  <2>1. st = "elems" /\ AtElem(w, code, j, k, c)
    BY <1>1, <1>3, <1>13, FacingOp DEF Stmt
  <2> DEFINE h == k + 1
             a == msg[f.name]
             m == [msg EXCEPT ![f.name][h] = Number(bytes)]
  <2>2. /\ ~Grouped(j, O) /\ Each(f) /\ f.type.k = "array" /\ c \in Nat /\ k \in 0..c /\ k # c /\ k \in Nat
        /\ Stmt = ElemOf(f, h) /\ PosAt("decode", Tail(code), j, "elems", h, c)
    BY <1>1, <2>1 DEF AtElem, Line, Stmt, Each
  <2>3. Stmt.f = f.name /\ Stmt.i = h
    BY <2>2 DEF ElemOf
  <2>4. Len(a) = Size(f) /\ Size(f) \in Nat /\ ElemOk(f.type.elem)
    BY <1>1, <2>2, LimitIs
  <2>5. h <= Size(f)
    <3>1. ~(h > Len(a))
      BY <1>1, <1>13, <2>3 DEF OutOfRange
    <3> HIDE DEF a
    <3> QED
      BY <2>2, <2>4, <3>1
  <2>6. q = ElemOf(f, h).w \div 8 /\ q \in Nat
    <3>1. q = Stmt.w \div 8
      BY <1>13 DEF Wanted
    <3>2. q = ElemOf(f, h).w \div 8
      BY <2>2, <3>1
    <3>3. ElemOf(f, h).w \in Widths
      BY <2>4, ElemWidth
    <3>4. \A b \in Widths : b \div 8 \in Nat
      BY DEF Widths
    <3> HIDE DEF q, h
    <3> QED
      BY <3>2, <3>3, <3>4
  <2>7. msg' = m /\ tmp' = tmp
    <3>1. Stored(Stmt, bytes) = m
      <4> HIDE DEF bytes, h
      <4> QED
        BY <1>13, <2>3 DEF Stored
    <3> HIDE DEF m
    <3> QED
      BY <1>5, <1>13, <3>1
  <2>8. Typed(m) /\ Holds("decode", j, "elems", h, c, m, tmp, stream, rest)
    <3> HIDE DEF q
    <3> QED
      BY <1>1, <1>3, <1>4, <2>1, <2>2, <2>5, <2>6, HoldsElemIn
  <2> HIDE DEF m, rest, h
  <2>9. P(m, tmp, "elems", h, c)
    BY <1>1, <2>2, <2>7, <2>8
  <2> HIDE DEF P
  <2> QED
    BY <1>6, <1>7, <2>6, <2>9
<1> QED
  BY <1>1, <1>9, <1>10, <1>11, <1>12, <1>13 DEF Moving

LEMMA TakeGoes ==
  ASSUME NEW w, Going(w), TakeBits
  PROVE  Goes(w)
<1>1. code # <<>> /\ Stmt.op = "bits" /\ w = "decode" /\ Running /\ Settled /\ tmp \in Nat /\ Typed(msg)
  BY DEF TakeBits, Runs, Going, Running
<1>2. PICK j \in 1..Len(fields) : \E st, k, c :
           Facing(w, code, j, st, k, c) /\ Holds(w, j, st, k, c, msg, tmp, stream, left)
  BY <1>1, Facts
<1>3. PICK st, k, c : Facing(w, code, j, st, k, c) /\ Holds(w, j, st, k, c, msg, tmp, stream, left)
  BY <1>2
<1>4. st = "unit" /\ AtUnit(w, code, j) /\ Grouped(j, O) /\ w \in Codec
  BY <1>1, <1>3, FacingOp DEF Stmt, Codec
<1> DEFINE f == fields[j]
           n == [msg EXCEPT ![f.name] = (tmp \div 2^(8 - Used(j))) % 2^Bits(f.type)]
<1>5. Stmt = BitsUnit(f, 8 - Used(j)) /\ PosAt("decode", Tail(code), j, "after", 0, 0)
  <2>1. Stmt = Unit(j) /\ PosAt("decode", Tail(code), j, "after", 0, 0)
    BY <1>1, <1>4 DEF AtUnit, Line, Stmt, UnitOf
  <2>2. Unit(j) = BitsUnit(f, 8 - Used(j))
    BY DEF Unit, GroupUnit, Used
  <2> QED
    BY <2>1, <2>2
<1>6. Typed(n) /\ Holds("decode", j, "after", 0, 0, n, tmp, stream, left)
  BY <1>1, <1>3, <1>4, HoldsBitsIn
<1>7. msg' = n
  <2>1. Stmt.f = f.name /\ Stmt.w = Bits(f.type) /\ Stmt.sh = 8 - Used(j)
    BY <1>5 DEF BitsUnit
  <2> QED
    BY <2>1 DEF TakeBits
<1> HIDE DEF n
<1>8. Stands("decode", Tail(code), n, tmp, stream, left)
  BY <1>5, <1>6, StandsAt DEF Stages
<1> QED
  BY <1>1, <1>6, <1>7, <1>8 DEF Goes, Going, TakeBits, Continue

LEMMA CheckGoes ==
  ASSUME NEW w, Going(w), Runs("decode", {"most", "equal"})
  PROVE  \E j \in 1..Len(fields) : \E k, c :
           /\ Simple(j) /\ HasCheck(j) /\ Holds("decode", j, "after", k, c, msg, tmp, stream, left)
           /\ Passes(Stmt) <=> Demand(j, msg)
           /\ Passes(Stmt) => Stands("decode", Tail(code), msg, tmp, stream, left)
<1>1. code # <<>> /\ Stmt.op \in {"most", "equal"} /\ w = "decode" /\ Running /\ Settled /\ Typed(msg)
  BY DEF Runs, Going, Running
<1>2. PICK j \in 1..Len(fields) : \E st, k, c :
           Facing(w, code, j, st, k, c) /\ Holds(w, j, st, k, c, msg, tmp, stream, left)
  BY <1>1, Facts
<1>3. PICK st, k, c : Facing(w, code, j, st, k, c) /\ Holds(w, j, st, k, c, msg, tmp, stream, left)
  BY <1>2
<1>4. st = "after" /\ AtCheck(w, code, j) /\ w \in Codec
  BY <1>1, <1>3, FacingOp DEF Stmt, Codec
<1>5. Simple(j) /\ HasCheck(j) /\ Stmt = CheckOf(j) /\ PosAt("decode", Tail(code), j, "end", 0, 0)
  BY <1>1, <1>4 DEF AtCheck, Line, Stmt
<1>6. Passes(Stmt) <=> Demand(j, msg)
  BY <1>5 DEF Passes, Demand
<1>7. Demand(j, msg) => Holds("decode", j, "end", 0, 0, msg, tmp, stream, left)
  BY <1>1, <1>3, <1>4, <1>5, HoldsCheck
<1>8. Demand(j, msg) => Stands("decode", Tail(code), msg, tmp, stream, left)
  BY <1>5, <1>7, StandsAt DEF Stages
<1> QED
  BY <1>1, <1>3, <1>4, <1>5, <1>6, <1>8

(* Arrays stay within their bounds.                                        *)
LEMMA NotOver ==
  ASSUME NEW w, Going(w), LimitsBounded, code # <<>>, Stmt.op \in {"bytes", "elem"}
  PROVE  ~OutOfRange(Stmt)
<1>1. w \in Codec /\ Running /\ Settled /\ Compiles /\ Typed(msg)
  BY DEF Going, Running
<1>2. PICK j \in 1..Len(fields) : \E st, k, c :
           Facing(w, code, j, st, k, c) /\ Holds(w, j, st, k, c, msg, tmp, stream, left)
  BY Facts
<1>3. PICK st, k, c : Facing(w, code, j, st, k, c) /\ Holds(w, j, st, k, c, msg, tmp, stream, left)
  BY <1>2
<1> DEFINE f == fields[j]
           a == msg[f.name]
<1>4. CASE Stmt.op = "bytes"
  <2>1. st = "body" /\ AtArray(w, code, j)
    BY <1>1, <1>3, <1>4, FacingOp DEF Stmt
  <2>2. f.type.k = "array" /\ Stmt = ArrayCode(w, f)
    BY <2>1 DEF AtArray, Line, Stmt
  <2>3. Stmt.f = f.name /\ Count(Stmt) = Limit(f, msg)
    BY <2>2, CountIs
  <2>4. Capped(msg, j - 1)
    BY <1>3, <2>1 DEF Holds, Weak, Done
  <2>5. Limit(f, msg) \in Nat /\ Limit(f, msg) <= Size(f) /\ Len(a) = Size(f) /\ Size(f) \in Nat
    BY <1>1, <2>2, <2>4, LimitIs
  <2>6. ~(Limit(f, msg) > Len(a))
    <3> DEFINE x == Limit(f, msg)
               y == Len(a)
    <3>1. x \in Nat /\ x <= y /\ y \in Nat
      BY <2>5
    <3> HIDE DEF x, y
    <3>2. ~(x > y)
      BY <3>1
    <3> QED
      BY <3>2 DEF x, y
  <2> QED
    BY <1>4, <2>3, <2>6 DEF OutOfRange
<1>5. CASE Stmt.op = "elem"
  <2>1. st = "elems" /\ AtElem(w, code, j, k, c)
    BY <1>1, <1>3, <1>5, FacingOp DEF Stmt
  <2>2. f.type.k = "array" /\ c \in Nat /\ k \in 0..c /\ k # c /\ Stmt = ElemOf(f, k + 1)
    BY <2>1 DEF AtElem, Line, Stmt, Each
  <2>3. Stmt.f = f.name /\ Stmt.i = k + 1
    BY <2>2 DEF ElemOf
  <2>4. c <= Size(f)
    BY <1>3, <2>1 DEF Holds, Weak
  <2>5. Len(a) = Size(f) /\ Size(f) \in Nat
    BY <1>1, <2>2, LimitIs
  <2>6. ~(k + 1 > Len(a))
    <3> DEFINE y == Len(a)
    <3>1. c <= y /\ y \in Nat
      BY <2>4, <2>5
    <3> HIDE DEF y
    <3>2. ~(k + 1 > y)
      BY <2>2, <3>1
    <3> QED
      BY <3>2 DEF y
  <2> QED
    BY <1>5, <2>3, <2>6 DEF OutOfRange
<1> QED
  BY <1>4, <1>5

-----------------------------------------------------------------------------
(* What happens to the bytes of an encoder that has sent all of them, or   *)
(* only some.                                                              *)
(* A read fails only if the encoder has.                                   *)
LEMMA ReadsFail ==
  ASSUME NEW w, Going(w), Runs("decode", Moving), ~OutOfRange(Stmt), Wanted(Stmt) > Len(left), Trusted("decode")
  PROVE  encRet # "ok"
<1>1. /\ w = "decode" /\ w \in Codec /\ code # <<>> /\ Stmt.op \in Moving
      /\ Running /\ Settled /\ Sound /\ Typed(msg) /\ left \in Seq(Nat)
  BY DEF Runs, Going, Running, Trusted
<1>2. PICK j \in 1..Len(fields) : \E st, k, c :
           Facing(w, code, j, st, k, c) /\ Holds(w, j, st, k, c, msg, tmp, stream, left)
  BY <1>1, Facts
<1>3. PICK st, k, c : Facing(w, code, j, st, k, c) /\ Holds(w, j, st, k, c, msg, tmp, stream, left)
  BY <1>2
<1>4. Strong("decode", j, st, k, c, msg, tmp, stream, left)
  BY <1>1, <1>3 DEF Holds
<1> DEFINE f == fields[j]
           q == Wanted(Stmt)
<1>5. ASSUME q = 1 PROVE left = <<>>
  <2>1. 1 > Len(left)
    BY <1>5
  <2>2. Len(left) \in Nat
    BY <1>1
  <2>3. Len(left) = 0
    BY <2>1, <2>2
  <2> QED
    BY <1>1, <2>3
<1>6. CASE Stmt.op = "byte"
  <2>1. st = "load" /\ AtLoad(w, code, j)
    BY <1>1, <1>3, <1>6, FacingOp DEF Stmt, AtFiller
  <2>2. Grouped(j, O) /\ Before(O, j) = 0
    BY <2>1 DEF AtLoad
  <2>3. q = 1
    BY <1>6 DEF Wanted
  <2> QED
    BY <1>1, <1>4, <1>5, <2>1, <2>2, <2>3, StrongLoad
<1>7. CASE Stmt.op = "int"
  <2>1. st = "unit" /\ AtUnit(w, code, j) /\ ~Grouped(j, O)
    BY <1>1, <1>3, <1>7, FacingOp DEF Stmt
  <2>2. Stmt = IntUnit(f) /\ f.type.k = "prim"
    BY <1>1, <2>1 DEF AtUnit, Line, Stmt, UnitOf, Simple
  <2>3. q = Bits(f.type) \div 8
    BY <1>7, <2>2 DEF Wanted, IntUnit
  <2> HIDE DEF q
  <2> QED
    BY <1>1, <1>4, <2>1, <2>2, <2>3, StrongIntIn DEF q
<1>8. CASE Stmt.op = "msg"
  <2>1. st = "body" /\ AtMsg(w, code, j)
    BY <1>1, <1>3, <1>8, FacingOp DEF Stmt
  <2>2. ~Grouped(j, O) /\ f.type.k \in {"struct", "undef"}
    BY <2>1 DEF AtMsg
  <2>3. q = 1
    BY <1>8 DEF Wanted
  <2> QED
    BY <1>1, <1>4, <1>5, <2>1, <2>2, <2>3, StrongMsgIn
<1>9. CASE Stmt.op = "bytes"
  <2>1. st = "body" /\ AtArray(w, code, j) /\ ~Each(f)
    BY <1>1, <1>3, <1>9, FacingOp DEF Stmt
  <2>2. ~Grouped(j, O) /\ f.type.k = "array" /\ Stmt = ArrayCode(w, f)
    BY <1>1, <2>1 DEF AtArray, Line, Stmt
  <2>3. q = Limit(f, msg)
    <3>1. Count(Stmt) = Limit(f, msg)
      BY <2>2, CountIs
    <3>2. q = Count(Stmt)
      BY <1>9 DEF Wanted
    <3> QED
      BY <3>1, <3>2
  <2> HIDE DEF q
  <2> QED
    BY <1>1, <1>4, <2>1, <2>2, <2>3, StrongBytesIn DEF q
<1>10. CASE Stmt.op = "elem"
  <2>1. st = "elems" /\ AtElem(w, code, j, k, c)
    BY <1>1, <1>3, <1>10, FacingOp DEF Stmt
  <2> DEFINE h == k + 1
  <2>2. /\ ~Grouped(j, O) /\ Each(f) /\ c \in Nat /\ k \in 0..c /\ k # c
        /\ Stmt = ElemOf(f, h)
    BY <1>1, <2>1 DEF AtElem, Line, Stmt
  <2>3. q = ElemOf(f, h).w \div 8
    <3>1. q = Stmt.w \div 8
      BY <1>10 DEF Wanted
    <3> QED
      BY <2>2, <3>1
  <2>4. q > Len(left)
    OBVIOUS
  <2> HIDE DEF q
  <2>5. ASSUME NEW e, e = h PROVE encRet # "ok"
    <3>1. e = k + 1 /\ q = ElemOf(f, e).w \div 8
      BY <2>3, <2>5
    <3> QED
      BY <1>1, <1>4, <2>1, <2>2, <2>4, <3>1, StrongElemIn
  <2> QED
    BY <2>5
<1> QED
  BY <1>1, <1>6, <1>7, <1>8, <1>9, <1>10 DEF Moving

(* The checks pass what the encoder has sent.                              *)
LEMMA ChecksPass ==
  ASSUME NEW w, Going(w), Runs("decode", {"most", "equal"}), Trusted("decode")
  PROVE  Passes(Stmt)
<1>1. Running /\ Settled /\ Sound /\ Fitting /\ Typed(msg) /\ "decode" \in Codec
  BY DEF Going, Running, Trusted, Sound, Codec
<1>2. PICK j \in 1..Len(fields) : \E k, c :
           /\ Simple(j) /\ HasCheck(j) /\ Holds("decode", j, "after", k, c, msg, tmp, stream, left)
           /\ Passes(Stmt) <=> Demand(j, msg)
  BY CheckGoes
<1>3. PICK k, c : Holds("decode", j, "after", k, c, msg, tmp, stream, left)
  BY <1>2
<1>4. Strong("decode", j, "after", k, c, msg, tmp, stream, left)
  BY <1>3 DEF Holds
<1> DEFINE f == fields[j]
<1>5. msg[f.name] = Final(f)
  <2>1. Got("decode", j, msg)
    BY <1>1, <1>4, StrongIs
  <2> QED
    BY <2>1 DEF Got
<1>6. Demand(j, msg)
  <2>1. CASE ~Grouped(j, O) /\ f.max # NoName
    <3>1. f.type.k = "prim"
      BY <1>2, <2>1 DEF Simple
    <3>2. Final(f) <= Consts[f.max]
      BY <1>1, <2>1, <3>1, FinalIs
    <3>3. Demand(j, msg) <=> msg[f.name] <= Consts[f.max]
      BY <1>1, <1>2, <2>1, DemandIs
    <3> QED
      BY <1>5, <3>2, <3>3
  <2>2. CASE ~(~Grouped(j, O) /\ f.max # NoName)
    <3>1. f.equ # NoName /\ (Demand(j, msg) <=> msg[f.name] = Consts[f.equ])
      BY <1>1, <1>2, <2>2, DemandIs
    <3>2. Final(f) = Consts[f.equ]
      BY <1>1, <2>2, <3>1, FinalIs
    <3> QED
      BY <1>5, <3>1, <3>2
  <2> QED
    BY <2>1, <2>2
<1> QED
  BY <1>2, <1>6

(* The last byte is full.                                                  *)
LEMMA LastClosed ==
  ASSUME Running, Sound
  PROVE  Len(fields) \in Nat /\ Before(O, Len(fields) + 1) = 0 /\ Before(O, 0 + 1) = 0
<1>1. Len(fields) \in Nat
  BY Shape DEF Running, Settled, GenInv, IInv
<1>2. WhollyLaid
  BY DEF Running, Settled, GenInv, BuiltInv, Sound
<1>3. Before(O, 0 + 1) = 0
  BY DEF Before
<1> QED
  BY <1>1, <1>2, <1>3 DEF WhollyLaid

Owed(s) == \E x \in Seq(Nat) : s \o x = Onward[0]

(* At every place, an encoder still owes a text of bytes.                  *)
LEMMA Owing ==
  ASSUME Running, Sound, NEW i \in 0..Len(fields), NEW st \in Stages, st # "end" => i # 0,
         NEW k, NEW c, NEW m, NEW t, NEW s, NEW l, Strong("encode", i, st, k, c, m, t, s, l),
         st = "elems" => Each(fields[i]) /\ k \in 0..c
  PROVE  Owed(s)
<1>1. "encode" \in Codec /\ Len(fields) \in Nat
  BY LastClosed DEF Codec
<1>2. ASSUME NEW rest \in Seq(Nat), NEW n, Side("encode", s, l, rest, m, n) PROVE Owed(s)
  BY <1>2 DEF Side, Owed
<1>3. \A j \in 0..Len(fields) : Onward[j] \in Seq(Nat)
  BY OnwardIs
<1>4. \A j \in 1..Len(fields) : Low[j] \in Nat /\ (Grouped(j, O) => LowAfter(j) \in Nat)
  <2>1. TAKE j \in 1..Len(fields)
  <2>2. LowFits(j) /\ (Grouped(j, O) => Spanned(j))
    BY LowRange DEF Sound
  <2>3. \A p : \A x \in 0..p : x \in Nat
    OBVIOUS
  <2> QED
    BY <2>2, <2>3 DEF LowFits, Spanned
<1>5. ASSUME NEW j, j = i, NEW hi, NEW lo \in Nat, NEW n, InGroup("encode", j, hi, lo, t, s, l, m, n) PROVE Owed(s)
  <2> DEFINE b == XorByte(t + lo, XorOf(i))
  <2>1. t \in 0..255
    BY <1>5 DEF InGroup
  <2>2. t + lo \in Nat
    BY <2>1
  <2>3. b \in Nat
    BY <2>2, OrXorNat
  <2>4. Side("encode", s, l, <<b>> \o Onward[i], m, n)
    BY <1>5 DEF InGroup
  <2> HIDE DEF b
  <2>5. <<b>> \o Onward[i] \in Seq(Nat)
    BY <1>3, <2>3
  <2> QED
    BY <1>2, <2>4, <2>5
<1>6. CASE st = "end"
  <2>1. IF Before(O, i + 1) = 0 THEN Side("encode", s, l, Onward[i], m, i)
        ELSE InGroup("encode", i, Before(O, i + 1), Low[i+1], t, s, l, m, i)
    BY <1>1, <1>6, StrongIs
  <2>2. CASE Before(O, i + 1) = 0
    BY <1>2, <1>3, <2>1, <2>2
  <2>3. CASE Before(O, i + 1) # 0
    <3>1. i # Len(fields)
      BY <2>3, LastClosed
    <3>2. i + 1 \in 1..Len(fields)
      BY <1>1, <3>1
    <3>3. Low[i+1] \in Nat
      BY <1>4, <3>2
    <3> QED
      BY <1>5, <2>1, <2>3, <3>3
  <2> QED
    BY <2>2, <2>3
<1>7. CASE st # "end"
  <2>1. i \in 1..Len(fields) /\ i - 1 \in 0..Len(fields)
    BY <1>1, <1>7
  <2>2. Onward[i-1] \in Seq(Nat) /\ Onward[i] \in Seq(Nat) /\ Low[i] \in Nat /\ (Grouped(i, O) => LowAfter(i) \in Nat)
    BY <1>3, <1>4, <2>1
  <2>3. CASE st = "all"
    <3>1. IF Before(O, i) = 0 THEN Side("encode", s, l, Onward[i-1], m, i - 1)
          ELSE InGroup("encode", i, Before(O, i), Low[i], t, s, l, m, i - 1)
      BY <1>1, <2>3, StrongIs
    <3> QED
      BY <1>2, <1>5, <2>2, <3>1
  <2>4. CASE st = "load"
    <3>1. Side("encode", s, l, Onward[i-1], m, i - 1)
      BY <1>1, <2>4, StrongIs
    <3> QED
      BY <1>2, <2>2, <3>1
  <2>5. CASE st = "body"
    <3>1. Side("encode", s, l, Onward[i-1], m, i - 1)
      BY <1>1, <2>5, StrongIs
    <3> QED
      BY <1>2, <2>2, <3>1
  <2>6. CASE st = "unit"
    <3>1. IF Grouped(i, O) THEN InGroup("encode", i, Before(O, i), Low[i], t, s, l, m, Half("encode", i))
          ELSE Side("encode", s, l, Onward[i-1], m, Half("encode", i))
      BY <1>1, <2>6, StrongIs
    <3> QED
      BY <1>2, <1>5, <2>2, <3>1
  <2>7. CASE st = "after"
    <3>1. IF Grouped(i, O) THEN InGroup("encode", i, Used(i), LowAfter(i), t, s, l, m, Half("encode", i))
          ELSE Side("encode", s, l, Onward[i], m, Half("encode", i))
      BY <1>1, <2>7, StrongIs
    <3> QED
      BY <1>2, <1>5, <2>2, <3>1
  <2>8. CASE st = "elems"
    <3>1. c = Extent(fields[i]) /\ Side("encode", s, l, ElemBytes(fields[i])[k] \o Onward[i], m, i - 1)
      BY <1>1, <2>8, StrongIs
    <3>2. fields[i].type.k = "array" /\ k \in 0..Extent(fields[i])
      BY <2>8, <3>1 DEF Each
    <3>3. ElemBytes(fields[i])[k] \in Seq(Nat)
      BY <2>1, <3>2, ElemTails
    <3>4. ElemBytes(fields[i])[k] \o Onward[i] \in Seq(Nat)
      BY <2>2, <3>3
    <3> QED
      BY <1>2, <3>1, <3>4
  <2> QED
    BY <1>7, <2>3, <2>4, <2>5, <2>6, <2>7, <2>8 DEF Stages
<1> QED
  BY <1>6, <1>7

LEMMA StandsOwing ==
  ASSUME Running, Sound, NEW text, NEW m, NEW t, NEW s, NEW l, Stands("encode", text, m, t, s, l)
  PROVE  Owed(s)
<1>1. PICK i, st, k, c : st \in Stages /\ PosAt("encode", text, i, st, k, c) /\ Holds("encode", i, st, k, c, m, t, s, l)
  BY DEF Stands
<1>2. i \in 0..Len(fields) /\ (st # "end" => i # 0)
  BY <1>1 DEF PosAt
<1>3. st = "elems" => Each(fields[i]) /\ k \in 0..c
  <2>1. \E r : Stage("encode", i, st, k, c, r)
    BY <1>1 DEF PosAt
  <2> QED
    BY <2>1 DEF Stage
<1>4. Strong("encode", i, st, k, c, m, t, s, l)
  BY <1>1 DEF Holds, Trusted
<1> QED
  BY <1>1, <1>2, <1>3, <1>4, Owing

(* At the end of its text, a function has written or read all the bytes.   *)
LEMMA EndReached ==
  ASSUME NEW w, Going(w), code = <<>>
  PROVE  /\ w = "decode" => Valid(msg, Len(fields))
         /\ Trusted(w) => Side(w, stream, left, <<>>, msg, Len(fields))
<1>1. Running /\ w \in Codec /\ Typed(msg)
  BY DEF Going
<1>2. Ready(w, code, msg, tmp, stream, left)
  BY <1>1, StandsReady DEF Going
<1>3. ASSUME NEW j \in 1..Len(fields), NEW st, NEW k, NEW c, Facing(w, code, j, st, k, c) PROVE FALSE
  BY <1>1, <1>3, FacingOp
<1>4. PICK k, c : Holds(w, Len(fields), "end", k, c, msg, tmp, stream, left)
  BY <1>2, <1>3 DEF Ready
<1>5. ASSUME Trusted(w) PROVE Side(w, stream, left, <<>>, msg, Len(fields))
  <2>1. Strong(w, Len(fields), "end", k, c, msg, tmp, stream, left) /\ Sound
    BY <1>4, <1>5 DEF Holds, Trusted
  <2>2. IF Before(O, Len(fields) + 1) = 0 THEN Side(w, stream, left, Onward[Len(fields)], msg, Len(fields))
        ELSE InGroup(w, Len(fields), Before(O, Len(fields) + 1), Low[Len(fields)+1], tmp, stream, left, msg, Len(fields))
    BY <1>1, <2>1, StrongIs
  <2>3. Before(O, Len(fields) + 1) = 0 /\ Onward[Len(fields)] = <<>>
    BY <1>1, <2>1, LastClosed, OnwardIs
  <2> QED
    BY <2>2, <2>3
<1> QED
  BY <1>4, <1>5 DEF Holds, Weak, Done

-----------------------------------------------------------------------------
(* Where the functions start.                                              *)
EncodeBegins == Running /\ msg = given /\ stream = <<>>
EncodeBegun  == Sound => Strong("encode", 0, "end", 0, 0, msg, tmp, stream, left)
DecodeBegins == Running /\ (Sound /\ clean => Missing(left, Onward[0]))
DecodeBegun  == Sound /\ clean => Strong("decode", 0, "end", 0, 0, msg, tmp, stream, left)

LEMMA Begun == (EncodeBegins => EncodeBegun) /\ (DecodeBegins => DecodeBegun)
<1>1. ASSUME Running, Sound, NEW w \in Codec, Side(w, stream, left, Onward[0], msg, 0)
      PROVE  Strong(w, 0, "end", 0, 0, msg, tmp, stream, left)
  <2>1. Before(O, 0 + 1) = 0
    BY <1>1, LastClosed
  <2> QED
    BY <1>1, <2>1, StrongIs
<1>2. ASSUME EncodeBegins, Sound PROVE EncodeBegun
  <2>1. Running /\ msg = given /\ stream = <<>>
    BY <1>2 DEF EncodeBegins
  <2>2. Onward[0] \in Seq(Nat) /\ 0 \in 0..Len(fields)
    BY <1>2, <2>1, LastClosed, OnwardIs
  <2>3. stream \o Onward[0] = Onward[0]
    BY <2>1, <2>2, NoBytes
  <2>4. Kept(msg, 0)
    BY <2>1 DEF Kept
  <2>5. Side("encode", stream, left, Onward[0], msg, 0)
    BY <2>3, <2>4 DEF Side
  <2> QED
    BY <1>1, <1>2, <2>1, <2>5 DEF EncodeBegun, Codec
<1>3. ASSUME DecodeBegins, Sound, clean PROVE DecodeBegun
  <2>1. Agreed(msg, 0)
    BY DEF Agreed
  <2>2. Side("decode", stream, left, Onward[0], msg, 0)
    BY <1>3, <2>1 DEF Side, DecodeBegins
  <2> QED
    BY <1>1, <1>3, <2>2 DEF DecodeBegun, DecodeBegins, Codec
<1> QED
  BY <1>2, <1>3 DEF EncodeBegun, DecodeBegun

LEMMA BegunNext == (EncodeBegins' => EncodeBegun') /\ (DecodeBegins' => DecodeBegun')
  BY Begun, PTL

-----------------------------------------------------------------------------
(***************************************************************************)
(* The invariant.                                                          *)
(***************************************************************************)
MachineOk ==
  /\ phase \in {"generate", "encode", "deliver", "decode", "end"}
  /\ tmp \in Nat /\ stream \in Seq(Nat) /\ left \in Seq(Nat)
  /\ phase = "generate" => stream = <<>>
  /\ phase \in {"generate", "encode"} => encRet = "none"
  /\ phase \in {"deliver", "decode", "end"} => encRet \in {"ok", "fail", "panic"}
  /\ phase \in {"decode", "end"} => encRet # "panic"
  /\ phase # "end" => decRet = "none"
  /\ phase = "end" => decRet \in {"ok", "fail", "panic"}

RunOk ==
  /\ phase # "generate" => Running
  /\ phase \in Codec => Typed(msg) /\ Stands(phase, code, msg, tmp, stream, left)
  /\ phase = "end" => Typed(msg)

(* What the functions return.                                              *)
NeverOver == LimitsBounded => encRet # "panic" /\ decRet # "panic"
Accepted == decRet = "ok" => Valid(msg, Len(fields))

(* What has gone through: an encoder that returns ok has sent all the      *)
(* bytes of the message, one that fails the first of them, or all; of      *)
(* bytes that arrive as they were written, a decoder accepts nothing but   *)
(* the message, and accepts that.                                          *)
Delivered == phase = "deliver" /\ encRet # "panic" => Missing(stream, Onward[0])
Arrived == phase = "end" /\ clean =>
             /\ decRet = "ok" => left = <<>> /\ Agreed(msg, Len(fields))
             /\ encRet = "ok" => decRet = "ok"
Transferred == Sound => Delivered /\ Arrived

CodecInv == GenInv /\ MachineOk /\ RunOk /\ NeverOver /\ Accepted /\ Transferred

(* What the steps of the machine leave alone.                              *)
LEMMA SameGen ==
  ASSUME GenInv, [Next]_vars
  PROVE  GenInv' /\ fields' = fields
<1>1. IInv' /\ TextInv' /\ WireInv' /\ BuiltInv'
  BY Inductive, TextInductive, WireInductive, BuiltInductive DEF GenInv
<1>2. fields' = fields
  BY FieldsStay DEF GenInv
<1> QED
  BY <1>1, <1>2 DEF GenInv

LEMMA SameValues ==
  ASSUME fields' = fields
  PROVE  /\ \A m : Typed(m)' <=> Typed(m)
         /\ \A m : Fresh(m)' <=> Fresh(m)
         /\ \A m, n : Capped(m, n)' <=> Capped(m, n)
         /\ \A m, n : Valid(m, n)' <=> Valid(m, n)
         /\ LimitsBounded' <=> LimitsBounded
<1>1. \A f : LimitRef(f)' = LimitRef(f) /\ ArraySize(f)' = ArraySize(f)
  BY DEF LimitRef, LimitFieldMax, ArraySize
<1>2. \A f : Size(f)' = Size(f) /\ ValuesOf(f)' = ValuesOf(f)
  BY <1>1 DEF Size, ValuesOf
<1>3. \A m : Typed(m)' <=> Typed(m)
  BY <1>2 DEF Typed
<1>4. \A f, v : Wide(f, v)' <=> Wide(f, v)
  <2>1. \A f, k : ElemOf(f, k)' = ElemOf(f, k)
    BY DEF ElemOf, ElemUnit
  <2> QED
    BY <1>2, <2>1 DEF Wide, IsIntType, IsBitType, Bits
<1>5. \A m : Fresh(m)' <=> Fresh(m)
  BY <1>3, <1>4 DEF Fresh
<1>6. \A f, m : Under(f, m)' <=> Under(f, m)
  BY DEF Under, Bounded, IsIntType, IsBitType, Bits
<1>7. \A m, n : Capped(m, n)' <=> Capped(m, n)
  BY <1>6 DEF Capped
<1>8. \A n : FieldNamed(n)' = FieldNamed(n)
  BY DEF FieldNamed
<1>9. Conditions' <=> Conditions
  BY <1>8 DEF Conditions
<1>10. \A f, m : Satisfies(f, m)' <=> Satisfies(f, m)
  BY DEF Satisfies, Present, IsIntType, IsBitType, Bits
<1>11. \A m, n : Valid(m, n)' <=> Valid(m, n)
  BY <1>9, <1>10 DEF Valid
<1>12. LimitsBounded' <=> LimitsBounded
  BY <1>1, <1>8 DEF LimitsBounded, Bounded, IsIntType, IsBitType, Bits
<1> QED
  BY <1>3, <1>5, <1>7, <1>11, <1>12

LEMMA SamePlaces ==
  ASSUME fields' = fields
  PROVE  \A w, text, i, st, k, c : PosAt(w, text, i, st, k, c)' <=> PosAt(w, text, i, st, k, c)
<1>1. O' = O /\ \A i : Opener(i)' = Opener(i)
  BY SameLayout
<1>2. \A w, i, t : TextOfField(w, i, t)' <=> TextOfField(w, i, t)
  BY SameText
<1>3. \A w, text, m : Remains(w, text, m)' <=> Remains(w, text, m)
  BY <1>2 DEF Remains, Precedes
<1>4. \A i : Used(i)' = Used(i) /\ Before(O, i)' = Before(O, i) /\ Grouped(i, O)' = Grouped(i, O) /\ Unit(i)' = Unit(i)
  BY <1>1 DEF Used, Grouped, Unit, GroupUnit, Before
<1>5. \A i : Filler(i)' = Filler(i) /\ UnitOf(i)' = UnitOf(i) /\ (Simple(i)' <=> Simple(i))
  BY <1>1, <1>4 DEF Filler, UnitOf, Simple
<1>6. \A f : LimitRef(f)' = LimitRef(f)
  BY DEF LimitRef, LimitFieldMax
<1>7. \A w, f : Body(w, f)' = Body(w, f)
  BY <1>6 DEF Body, EncodeBody, DecodeBody, ArrayUnit, ArrayRead
<1>8. \A w, i : After(w, i)' = After(w, i)
  BY <1>4, <1>5 DEF After
<1>9. \A w, i, st, k, c, r : Stage(w, i, st, k, c, r)' <=> Stage(w, i, st, k, c, r)
  BY <1>2, <1>4, <1>5, <1>7, <1>8 DEF Stage
<1>10. \A r : Text(r)' <=> Text(r)
  BY DEF Text
<1> DEFINE Split(w, text, i, st, k, c) ==
             \E r, rest : /\ Text(r) /\ Text(rest) /\ text = r \o rest
                          /\ Stage(w, i, st, k, c, r) /\ Remains(w, rest, i)
<1>11. \A w, text, i, st, k, c : Split(w, text, i, st, k, c)' <=> Split(w, text, i, st, k, c)
  BY <1>3, <1>9, <1>10
<1> HIDE DEF Split
<1>12. \A w, text, i, st, k, c :
         PosAt(w, text, i, st, k, c) <=> i \in 0..Len(fields) /\ (st # "end" => i # 0) /\ Split(w, text, i, st, k, c)
  BY DEF PosAt, Split
<1>13. \A w, text, i, st, k, c :
         PosAt(w, text, i, st, k, c)' <=> i \in 0..Len(fields) /\ (st # "end" => i # 0) /\ Split(w, text, i, st, k, c)'
  BY DEF PosAt, Split
<1> QED
  BY <1>11, <1>12, <1>13

(* What is given, and whether the encoder has succeeded, settle what the   *)
(* functions do with the bytes.                                            *)
Fixed == UNCHANGED <<vars, given>>
Still == Fixed /\ encRet' = encRet

LEMMA SameTransfer ==
  ASSUME Fixed
  PROVE  /\ \A f : Final(f)' = Final(f) /\ Extent(f)' = Extent(f) /\ (There(f)' <=> There(f))
         /\ \A f : ElemBytes(f)' = ElemBytes(f)
         /\ Onward' = Onward /\ Low' = Low
         /\ \A i : XorOf(i)' = XorOf(i) /\ LowAfter(i)' = LowAfter(i)
<1>1. fields' = fields /\ given' = given
  BY DEF Fixed, vars
<1>2. O' = O /\ \A i : Opener(i)' = Opener(i)
  BY <1>1, SameLayout
<1>3. \A n : FieldNamed(n)' = FieldNamed(n)
  BY <1>1 DEF FieldNamed
<1>4. \A f : Final(f)' = Final(f)
  BY <1>1 DEF Final, Clamped, IsIntType, IsBitType, Bits
<1>5. \A n : FinalOf(n)' = FinalOf(n)
  BY <1>1, <1>3, <1>4 DEF FinalOf
<1>6. \A f : There(f)' <=> There(f)
  BY <1>5 DEF There, IsBitType
<1>7. \A f : LimitRef(f)' = LimitRef(f) /\ ArraySize(f)' = ArraySize(f)
  BY <1>1 DEF LimitRef, LimitFieldMax, ArraySize
<1>8. \A f : Extent(f)' = Extent(f)
  BY <1>5, <1>7 DEF Extent, Size
<1>9. \A f : ElemBytes(f)' = ElemBytes(f)
  <2>1. TAKE f
  <2>2. Extent(f)' = Extent(f) /\ Final(f)' = Final(f)
    BY <1>4, <1>8
  <2> QED
    BY <2>2 DEF ElemBytes
<1>10. \A i : Used(i)' = Used(i) /\ Before(O, i)' = Before(O, i) /\ Grouped(i, O)' = Grouped(i, O)
  BY <1>1, <1>2 DEF Used, Grouped, Before
<1>11. \A f : Payload(f)' = Payload(f)
  BY <1>4, <1>8, <1>9 DEF Payload, ConstVal, Plain
<1>12. \A l : IsLow(l)' <=> IsLow(l)
  BY <1>1, <1>2, <1>4, <1>10 DEF IsLow
<1>13. Low' = Low
  BY <1>12 DEF Low
<1>14. \A i : XorOf(i)' = XorOf(i) /\ LowAfter(i)' = LowAfter(i)
  BY <1>1, <1>2, <1>13 DEF XorOf, LowAfter
<1>15. \A i : Chunk(i)' = Chunk(i)
  BY <1>1, <1>6, <1>10, <1>11, <1>13, <1>14 DEF Chunk
<1>16. Onward' = Onward
  BY <1>1, <1>15 DEF Onward
<1> QED
  BY <1>4, <1>6, <1>8, <1>9, <1>13, <1>14, <1>16

LEMMA SameSound == ASSUME Fixed PROVE Sound' <=> Sound
<1>1. fields' = fields /\ given' = given
  BY DEF Fixed, vars
<1>2. Closed' <=> Closed
  BY DEF Fixed, vars, Closed
<1>3. \A n : FieldNamed(n)' = FieldNamed(n)
  BY <1>1 DEF FieldNamed
<1>4. Conditions' <=> Conditions
  BY <1>1, <1>3 DEF Conditions
<1>5. ConditionsCarried' <=> ConditionsCarried
  BY <1>1, <1>3 DEF ConditionsCarried, IsBitType
<1>6. LimitsBounded' <=> LimitsBounded
  BY <1>1, SameValues
<1>7. Fitting' <=> Fitting
  BY <1>1 DEF Fitting, IsBitType, Bits
<1> QED
  BY <1>2, <1>4, <1>5, <1>6, <1>7 DEF Sound

LEMMA SameSides ==
  ASSUME Fixed
  PROVE  /\ \A m, n : Kept(m, n)' <=> Kept(m, n)
         /\ \A m, n : Agreed(m, n)' <=> Agreed(m, n)
         /\ encRet' = encRet => \A l, all : Missing(l, all)' <=> Missing(l, all)
<1>1. /\ \A f : Final(f)' = Final(f) /\ Extent(f)' = Extent(f) /\ (There(f)' <=> There(f))
      /\ fields' = fields /\ given' = given
  BY SameTransfer DEF Fixed, vars
<1>2. \A m, n : Kept(m, n)' <=> Kept(m, n)
  BY <1>1 DEF Kept
<1>3. \A f, m : Alike(f, m)' <=> Alike(f, m)
  BY <1>1 DEF Alike
<1>4. \A m, n : Agreed(m, n)' <=> Agreed(m, n)
  BY <1>1, <1>3 DEF Agreed
<1>5. encRet' = encRet => \A l, all : Missing(l, all)' <=> Missing(l, all)
  BY DEF Missing
<1> QED
  BY <1>2, <1>4, <1>5

LEMMA SameStrong ==
  ASSUME Still
  PROVE  \A w, i, st, k, c, m, t, s, l : Strong(w, i, st, k, c, m, t, s, l)' <=> Strong(w, i, st, k, c, m, t, s, l)
<1>1. /\ \A f : Final(f)' = Final(f) /\ Extent(f)' = Extent(f) /\ (There(f)' <=> There(f))
      /\ \A f : ElemBytes(f)' = ElemBytes(f)
      /\ Onward' = Onward /\ Low' = Low
      /\ \A i : XorOf(i)' = XorOf(i) /\ LowAfter(i)' = LowAfter(i)
      /\ fields' = fields
  BY SameTransfer DEF Still, Fixed, vars
<1>2. /\ \A m, n : Kept(m, n)' <=> Kept(m, n)
      /\ \A m, n : Agreed(m, n)' <=> Agreed(m, n)
      /\ \A l, all : Missing(l, all)' <=> Missing(l, all)
  BY SameSides DEF Still
<1>3. \A i : Used(i)' = Used(i) /\ Before(O, i)' = Before(O, i) /\ Grouped(i, O)' = Grouped(i, O)
  <2>1. O' = O
    BY <1>1, SameLayout
  <2> QED
    BY <1>1, <2>1 DEF Used, Grouped, Before
<1>4. \A i, st : /\ Pending(i, st)' <=> Pending(i, st)
                 /\ Taken(i, st)' = Taken(i, st) /\ Lower(i, st)' = Lower(i, st)
  BY <1>1, <1>3 DEF Pending, Taken, Lower
<1>5. \A i, st : Behind(i, st)' = Behind(i, st)
  BY <1>4 DEF Behind
<1>6. \A i, st, k : ToRead(i, st, k)' = ToRead(i, st, k)
  BY <1>1, <1>5 DEF ToRead
<1>7. \A i, st, k, t : ToWrite(i, st, k, t)' = ToWrite(i, st, k, t)
  BY <1>1, <1>4, <1>6 DEF ToWrite
<1>8. \A w, i, st, t : TmpOk(w, i, st, t)' <=> TmpOk(w, i, st, t)
  BY <1>4 DEF TmpOk
<1>9. \A i, st, c : Within(i, st, c)' <=> Within(i, st, c)
  BY <1>1 DEF Within
<1>10. \A w, i, st : Done(w, i, st)' = Done(w, i, st)
  BY DEF Done
<1>11. \A i, st, k, m, t, s : Sends(i, st, k, m, t, s)' <=> Sends(i, st, k, m, t, s)
  BY <1>1, <1>2, <1>7, <1>10 DEF Sends
<1>12. \A i, st, k, m, l : Receives(i, st, k, m, l)' <=> Receives(i, st, k, m, l)
  BY <1>1, <1>2, <1>6, <1>10 DEF Receives
<1> QED
  BY <1>8, <1>9, <1>11, <1>12 DEF Strong

LEMMA SameHolds ==
  ASSUME Still, clean' = clean
  PROVE  \A w, i, st, k, c, m, t, s, l : Holds(w, i, st, k, c, m, t, s, l)' <=> Holds(w, i, st, k, c, m, t, s, l)
<1> fields' = fields /\ encRet' = encRet
  BY DEF Still, Fixed, vars
<1>1. \A f : Size(f)' = Size(f)
  <2>1. \A f : ArraySize(f)' = ArraySize(f)
    BY DEF ArraySize, LimitFieldMax
  <2> QED
    BY <2>1 DEF Size
<1>2. /\ \A m, n : Capped(m, n)' <=> Capped(m, n)
      /\ \A m, n : Valid(m, n)' <=> Valid(m, n)
      /\ LimitsBounded' <=> LimitsBounded
  BY SameValues
<1>3. \A w, i, st, k, c, m : Weak(w, i, st, k, c, m)' <=> Weak(w, i, st, k, c, m)
  BY <1>1, <1>2 DEF Weak, Done
<1>4. \A w : Trusted(w)' <=> Trusted(w)
  BY SameSound DEF Still, Trusted
<1>5. \A w, i, st, k, c, m, t, s, l : Strong(w, i, st, k, c, m, t, s, l)' <=> Strong(w, i, st, k, c, m, t, s, l)
  BY SameStrong
<1> QED
  BY <1>3, <1>4, <1>5 DEF Holds

LEMMA SameCompiles == ASSUME UNCHANGED vars PROVE Compiles' <=> Compiles
<1>1. /\ fields' = fields /\ encoder' = encoder /\ decoder' = decoder /\ struct' = struct
  BY DEF vars
<1>2. \A n : Width(n)' = Width(n)
  BY <1>1 DEF Width, FieldNamed
<1>3. \A r : (Integer(r)' <=> Integer(r))
  BY <1>1 DEF Integer
<1>4. \A s : (StatementOk(s)' <=> StatementOk(s))
  BY <1>2, <1>3 DEF StatementOk
<1> QED
  BY <1>1, <1>3, <1>4 DEF Compiles

LEMMA SameRun ==
  ASSUME GenInv, UNCHANGED vars, given' = given
  PROVE  Running' <=> Running
<1>1. GenInv' /\ walk' = walk /\ fields' = fields
  BY SameGen DEF vars
<1>2. Compiles' <=> Compiles
  BY SameCompiles
<1>3. Fresh(given)' <=> Fresh(given)
  BY <1>1, SameValues
<1> QED
  BY <1>1, <1>2, <1>3 DEF Running, Settled

LEMMA SameStands ==
  ASSUME Still, clean' = clean
  PROVE  \A w, text, m, t, s, l : Stands(w, text, m, t, s, l)' <=> Stands(w, text, m, t, s, l)
<1>1. \A w, text, i, st, k, c : PosAt(w, text, i, st, k, c)' <=> PosAt(w, text, i, st, k, c)
  BY SamePlaces DEF Still, Fixed, vars
<1>2. \A w, i, st, k, c, m, t, s, l : Holds(w, i, st, k, c, m, t, s, l)' <=> Holds(w, i, st, k, c, m, t, s, l)
  BY SameHolds
<1> QED
  BY <1>1, <1>2 DEF Stands

LEMMA CodecInitial == ASSUME CodecInit PROVE CodecInv
<1>1. Init
  BY DEF CodecInit
<1>2. GenInv
  <2>1. TextInv
    BY <1>1 DEF Init, TextInv
  <2> QED
    BY <1>1, <2>1, InitInv, WireInit, BuiltInit DEF GenInv
<1>3. MachineOk
  <2>1. <<>> \in Seq(Nat)
    OBVIOUS
  <2> QED
    BY <2>1 DEF CodecInit, MachineOk
<1>4. RunOk /\ NeverOver /\ Accepted /\ Transferred
  BY DEF CodecInit, RunOk, NeverOver, Accepted, Codec, Transferred, Delivered, Arrived
<1> QED
  BY <1>2, <1>3, <1>4 DEF CodecInv

(* A function starts before the first field.                               *)
LEMMA Starts ==
  ASSUME Settled, NEW w \in Codec
  PROVE  PosAt(w, CodeOf(w), 0, "end", 0, 0)
<1>1. Len(fields) \in Nat /\ Built(w, CodeOf(w), Len(fields))
  BY Shape DEF Settled, GenInv, IInv, BuiltInv, Codec, CodeOf
<1>2. Remains(w, CodeOf(w), 0) /\ Text(CodeOf(w))
  BY <1>1, BuiltRemains
<1>3. Stage(w, 0, "end", 0, 0, <<>>) /\ Text(<<>>) /\ CodeOf(w) = <<>> \o CodeOf(w)
  BY <1>2, TextEmpty, PushNothing DEF Stage
<1>4. 0 \in 0..Len(fields)
  BY <1>1
<1> QED
  BY <1>2, <1>3, <1>4 DEF PosAt

(* The steps.                                                              *)
Frame == UNCHANGED <<vars, phase, encRet, decRet, caller>>

LEMMA GoesInv ==
  ASSUME CodecInv, NEW w, Going(w), Goes(w), Frame
  PROVE  CodecInv'
<1>1. GenInv' /\ fields' = fields /\ Len(fields)' = Len(fields)
  BY SameGen DEF CodecInv, Frame, vars
<1>2. /\ UNCHANGED <<phase, encRet, decRet, caller, given, clean>>
      /\ phase \in {"encode", "decode"}
  BY DEF Frame, caller, Going, Codec
<1>3. MachineOk'
  BY <1>2 DEF CodecInv, MachineOk, Goes
<1>4. Running'
  BY <1>2, SameRun DEF CodecInv, Going, Frame
<1>5. Typed(msg)'
  BY <1>1, SameValues DEF Goes
<1>6. Stands(phase, code, msg, tmp, stream, left)'
  <2>1. \A v, text, m, t, s, l : Stands(v, text, m, t, s, l)' <=> Stands(v, text, m, t, s, l)
    BY <1>1, <1>2, SameStands DEF Still, Fixed, Frame
  <2>2. Stands(w, code', msg', tmp', stream', left') /\ phase' = w
    BY <1>2 DEF Goes, Going
  <2> QED
    BY <2>1, <2>2
<1>7. NeverOver'
  BY <1>1, <1>2, SameValues DEF CodecInv, NeverOver
<1>8. Accepted'
  <2>1. decRet' = "none"
    BY <1>2 DEF Going, CodecInv, MachineOk, Codec
  <2> QED
    BY <2>1 DEF Accepted
<1>9. Transferred'
  <2>1. phase' \in Codec
    BY <1>2 DEF Going
  <2>2. phase' \notin {"deliver", "decode", "end"} \/ phase = "decode"
    BY <2>1, <1>2 DEF Codec
  <2>3. CASE phase = "decode"
    <3>1. Sound' <=> Sound
      BY <1>2, SameSound DEF Fixed, Frame
    <3>2. Delivered' /\ Arrived'
      BY <1>2, <2>3 DEF Delivered, Arrived
    <3> QED
      BY <3>1, <3>2 DEF CodecInv, Transferred
  <2>4. CASE phase' \notin {"deliver", "decode", "end"}
    BY <2>4 DEF Transferred, Delivered, Arrived
  <2> QED
    BY <2>2, <2>3, <2>4
<1> QED
  BY <1>1, <1>3, <1>4, <1>5, <1>6, <1>7, <1>8, <1>9 DEF CodecInv, RunOk

LEMMA AtWork == ASSUME CodecInv, phase \in Codec PROVE Going(phase)
  BY DEF CodecInv, RunOk, MachineOk, Going, Codec

(* A function returns r.                                                   *)
Results == {"ok", "fail", "panic"}

LEMMA ReturnInv ==
  ASSUME CodecInv, phase \in Codec, NEW r \in Results, Return(r), stream' \in Seq(Nat), left' \in Seq(Nat),
         LimitsBounded => r # "panic",
         phase = "decode" /\ r = "ok" => Valid(msg, Len(fields)),
         Sound /\ phase = "encode" /\ r # "panic" =>
           \E x \in Seq(Nat) : stream' \o x = Onward[0] /\ (r = "ok" => x = <<>>),
         Sound /\ phase = "decode" /\ clean =>
           /\ r = "ok" => left' = <<>> /\ Agreed(msg, Len(fields))
           /\ encRet = "ok" => r = "ok"
  PROVE  CodecInv'
<1>1. UNCHANGED <<vars, msg, tmp, caller, given, clean>>
  BY DEF Return, caller
<1>2. GenInv' /\ fields' = fields /\ Len(fields)' = Len(fields)
  BY <1>1, SameGen DEF CodecInv, vars
<1>3. \/ phase = "encode" /\ phase' = "deliver" /\ encRet' = r /\ decRet' = decRet
      \/ phase = "decode" /\ phase' = "end" /\ decRet' = r /\ encRet' = encRet
  BY DEF Return, Codec
<1>4. MachineOk'
  <2>1. decRet = "none" /\ tmp \in Nat /\ (phase = "decode" => encRet \in Results /\ encRet # "panic")
    BY DEF CodecInv, MachineOk, Codec, Results
  <2> QED
    BY <1>1, <1>3, <2>1 DEF MachineOk, Results
<1>5. Running'
  BY <1>1, <1>3, SameRun DEF CodecInv, RunOk
<1>6. RunOk'
  <2>1. Typed(msg)'
    BY <1>1, <1>2, SameValues DEF CodecInv, RunOk
  <2> QED
    BY <1>3, <1>5, <2>1 DEF RunOk, Codec
<1>7. NeverOver'
  BY <1>2, <1>3, SameValues DEF CodecInv, NeverOver
<1>8. Accepted'
  <2>1. CASE decRet' = "ok"
    <3>1. Valid(msg, Len(fields))
      BY <1>3, <2>1 DEF CodecInv, MachineOk
    <3> QED
      BY <1>1, <1>2, <3>1, SameValues DEF Accepted
  <2> QED
    BY <2>1 DEF Accepted
<1>9. Transferred'
  <2> SUFFICES ASSUME Sound' PROVE Delivered' /\ Arrived'
    BY DEF Transferred
  <2>1. Fixed /\ Sound
    BY <1>1, SameSound DEF Fixed
  <2>2. /\ \A m, n : Agreed(m, n)' <=> Agreed(m, n)
        /\ Onward' = Onward
    BY <2>1, SameSides, SameTransfer
  <2>3. CASE phase = "encode"
    <3>1. phase' = "deliver" /\ encRet' = r
      BY <1>3, <2>3
    <3>2. ASSUME encRet' # "panic" PROVE Missing(stream, Onward[0])'
      <4>1. PICK x \in Seq(Nat) : stream' \o x = Onward[0] /\ (r = "ok" => x = <<>>)
        BY <2>1, <2>3, <3>1, <3>2
      <4> QED
        BY <2>2, <3>1, <4>1 DEF Missing
    <3> QED
      BY <3>1, <3>2 DEF Delivered, Arrived
  <2>4. CASE phase = "decode"
    <3>1. phase' = "end" /\ decRet' = r /\ encRet' = encRet
      BY <1>3, <2>4
    <3>2. Arrived'
      BY <1>1, <1>2, <2>1, <2>2, <2>4, <3>1 DEF Arrived
    <3> QED
      BY <3>1, <3>2 DEF Delivered
  <2> QED
    BY <2>3, <2>4 DEF Codec
<1> QED
  BY <1>2, <1>4, <1>6, <1>7, <1>8, <1>9 DEF CodecInv


LEMMA GenerateInv == ASSUME CodecInv, Generate PROVE CodecInv'
<1>1. GenInv' /\ fields' = fields
  BY SameGen DEF CodecInv, Generate
<1>2. UNCHANGED <<phase, tmp, stream, left, encRet, decRet>> /\ phase = "generate"
  BY DEF Generate, machine
<1>3. MachineOk'
  BY <1>2 DEF CodecInv, MachineOk
<1>4. RunOk'
  BY <1>2 DEF RunOk, Codec
<1>5. NeverOver'
  BY <1>1, <1>2, SameValues DEF CodecInv, NeverOver
<1>6. Accepted'
  BY <1>2 DEF CodecInv, MachineOk, Accepted
<1>7. Transferred'
  BY <1>2 DEF Transferred, Delivered, Arrived
<1> QED
  BY <1>1, <1>3, <1>4, <1>5, <1>6, <1>7 DEF CodecInv

LEMMA CallInv == ASSUME CodecInv, CallEncoder PROVE CodecInv'
<1>1. /\ UNCHANGED <<vars, tmp, stream, left, encRet, decRet>> /\ phase = "generate" /\ phase' = "encode"
      /\ msg' \in Structs(Values) /\ given' = msg' /\ code' = encoder /\ Settled /\ Compiles
  BY DEF CallEncoder, CodecInv, Settled
<1>2. GenInv' /\ fields' = fields /\ encoder' = encoder
  BY <1>1, SameGen DEF CodecInv, vars
<1>3. Fresh(msg') /\ Typed(msg')
  BY <1>1, StructFresh DEF Fresh
<1>4. MachineOk'
  BY <1>1 DEF CodecInv, MachineOk
<1>5. Running'
  <2>1. Compiles'
    BY <1>1, SameCompiles
  <2>2. walk' = walk
    BY <1>1 DEF vars
  <2>3. Fresh(given)'
    BY <1>1, <1>2, <1>3, SameValues
  <2> QED
    BY <1>1, <1>2, <2>1, <2>2, <2>3 DEF Running, Settled
<1>6. Typed(msg)'
  BY <1>2, <1>3, SameValues
<1>7. Stands(phase, code, msg, tmp, stream, left)'
  <2>1. PosAt("encode", encoder, 0, "end", 0, 0)
    BY <1>1, Starts DEF Codec, CodeOf
  <2>2. PosAt("encode", code, 0, "end", 0, 0)'
    BY <1>1, <1>2, <2>1, SamePlaces
  <2>4. Len(fields)' \in Nat
    BY <1>1, <1>2, Shape DEF Settled, GenInv, IInv
  <2>5. EncodeBegun'
    <3>1. stream' = <<>>
      BY <1>1 DEF CodecInv, MachineOk
    <3>2. EncodeBegins'
      BY <1>1, <1>5, <3>1 DEF EncodeBegins
    <3> QED
      BY <3>2, BegunNext
  <2>6. Holds("encode", 0, "end", 0, 0, msg, tmp, stream, left)'
    BY <2>4, <2>5 DEF Holds, Weak, Done, Capped, Valid, EncodeBegun, Trusted
  <2> QED
    BY <1>1, <2>2, <2>6 DEF Stands, Stages
<1>8. NeverOver'
  BY <1>1, <1>2, SameValues DEF CodecInv, NeverOver
<1>9. Accepted'
  BY <1>1 DEF CodecInv, MachineOk, Accepted
<1>10. Transferred'
  BY <1>1 DEF Transferred, Delivered, Arrived
<1> QED
  BY <1>1, <1>2, <1>4, <1>5, <1>6, <1>7, <1>8, <1>9, <1>10 DEF CodecInv, RunOk

LEMMA DeliverInv == ASSUME CodecInv, Deliver PROVE CodecInv'
<1>1. /\ UNCHANGED <<vars, tmp, given, encRet, decRet>> /\ phase = "deliver" /\ phase' = "decode"
      /\ left' = stream' /\ code' = decoder /\ Running /\ Settled /\ Compiles
  BY DEF Deliver, CodecInv, RunOk, Running
<1>2. GenInv' /\ fields' = fields
  BY <1>1, SameGen DEF CodecInv, vars
<1>4. Typed(msg)'
  <2>1. msg' \in Structs(Leftovers)
    BY DEF Deliver
  <2>2. Typed(msg')
    BY <1>1, <2>1, StructFresh DEF Fresh
  <2> QED
    BY <1>2, <2>2, SameValues
<1>5. stream' \in Seq(Nat)
  <2>1. stream \in Seq(Nat)
    BY DEF CodecInv, MachineOk
  <2>2. CASE stream' = stream
    BY <2>1, <2>2
  <2>3. ASSUME NEW i \in DOMAIN stream, NEW x \in Noise, stream' = [stream EXCEPT ![i] = x] PROVE stream' \in Seq(Nat)
    <3>1. x \in Nat
      BY NoiseAssumption
    <3> QED
      BY <2>1, <2>3, <3>1
  <2>4. ASSUME stream' \in Arrivals PROVE stream' \in Seq(Nat)
    <3>1. \A s, S, T : s \in Seq(S) /\ S \subseteq T => s \in Seq(T)
      OBVIOUS
    <3>2. stream' \in Seq(0..255) /\ 0..255 \subseteq Nat
      BY <2>4, ArrivalsAssumption
    <3> QED
      BY <3>1, <3>2
  <2> QED
    BY <2>2, <2>3, <2>4 DEF Deliver
<1>6. MachineOk'
  <2>1. encRet \in {"ok", "fail", "panic"} /\ encRet # "panic" /\ decRet = "none"
    BY <1>1 DEF CodecInv, MachineOk, Deliver
  <2>2. tmp \in Nat
    BY DEF CodecInv, MachineOk
  <2> QED
    BY <1>1, <1>5, <2>1, <2>2 DEF MachineOk
<1>7. Running'
  BY <1>1, SameRun DEF CodecInv
<1>8. Stands(phase, code, msg, tmp, stream, left)'
  <2>1. PosAt("decode", decoder, 0, "end", 0, 0)
    BY <1>1, Starts DEF Codec, CodeOf
  <2>2. PosAt("decode", code, 0, "end", 0, 0)'
    BY <1>1, <1>2, <2>1, SamePlaces
  <2>3. Len(fields)' \in Nat
    BY <1>1, <1>2, Shape DEF Settled, GenInv, IInv
  <2>4. DecodeBegun'
    <3>1. ASSUME Sound', clean' PROVE Missing(left, Onward[0])'
      <4>1. Fixed /\ Sound /\ encRet' = encRet
        BY <1>1, <3>1, SameSound DEF Fixed
      <4>2. Missing(stream, Onward[0])
        BY <1>1, <4>1 DEF CodecInv, Transferred, Delivered, Deliver
      <4>3. left' = stream
        BY <1>1, <3>1 DEF Deliver
      <4>4. Onward' = Onward /\ \A l, all : Missing(l, all)' <=> Missing(l, all)
        BY <4>1, SameTransfer, SameSides
      <4> QED
        BY <4>2, <4>3, <4>4
    <3>2. DecodeBegins'
      BY <1>7, <3>1 DEF DecodeBegins
    <3> QED
      BY <3>2, BegunNext
  <2>5. Holds("decode", 0, "end", 0, 0, msg, tmp, stream, left)'
    BY <2>3, <2>4 DEF Holds, Weak, Done, Capped, Valid, DecodeBegun, Trusted
  <2> QED
    BY <1>1, <2>2, <2>5 DEF Stands, Stages
<1>9. NeverOver'
  BY <1>1, <1>2, SameValues DEF CodecInv, NeverOver
<1>10. Accepted'
  BY <1>1 DEF CodecInv, MachineOk, Accepted
<1>11. Transferred'
  BY <1>1 DEF Transferred, Delivered, Arrived
<1> QED
  BY <1>1, <1>2, <1>4, <1>6, <1>7, <1>8, <1>9, <1>10, <1>11 DEF CodecInv, RunOk

LEMMA OverrunInv == ASSUME CodecInv, Overrun PROVE CodecInv'
<1>1. /\ phase \in Codec /\ code # <<>> /\ Stmt.op \in {"bytes", "elem"} /\ OutOfRange(Stmt)
      /\ Return("panic") /\ UNCHANGED <<stream, left>>
  BY DEF Overrun, Runs, Codec
<1>2. ~LimitsBounded
  BY <1>1, AtWork, NotOver
<1>3. stream' \in Seq(Nat) /\ left' \in Seq(Nat)
  BY <1>1 DEF CodecInv, MachineOk
<1>4. ~Sound
  BY <1>2 DEF Sound
<1> QED
  BY <1>1, <1>2, <1>3, <1>4, ReturnInv DEF Results

LEMMA EndInv == ASSUME CodecInv, EndOfBody PROVE CodecInv'
<1>1. phase \in Codec /\ code = <<>> /\ Return("ok") /\ UNCHANGED <<stream, left>>
  BY DEF EndOfBody, Codec
<1>2. Going(phase)
  BY <1>1, AtWork
<1>3. /\ phase = "decode" => Valid(msg, Len(fields))
      /\ Trusted(phase) => Side(phase, stream, left, <<>>, msg, Len(fields))
  BY <1>1, <1>2, EndReached
<1>4. stream' \in Seq(Nat) /\ left' \in Seq(Nat) /\ stream' = stream /\ left' = left /\ <<>> \in Seq(Nat)
  BY <1>1 DEF CodecInv, MachineOk
<1>5. ASSUME Sound, phase = "encode"
      PROVE  stream' \o <<>> = Onward[0]
  BY <1>3, <1>4, <1>5 DEF Trusted, Side
<1>6. ASSUME Sound, phase = "decode", clean
      PROVE  left' = <<>> /\ Agreed(msg, Len(fields))
  <2>1. Trusted(phase)
    BY <1>6 DEF CodecInv, MachineOk, Trusted
  <2>2. Missing(left, <<>>) /\ Agreed(msg, Len(fields))
    BY <1>3, <1>6, <2>1 DEF Side
  <2>3. PICK x \in Seq(Nat) : left \o x = <<>>
    BY <2>2 DEF Missing
  <2>4. Len(left) = 0
    <3>1. Len(left \o x) = Len(left) + Len(x) /\ Len(left) \in Nat /\ Len(x) \in Nat
      BY <1>4, <2>3, Joined
    <3>2. Len(left \o x) = 0
      BY <2>3
    <3> QED
      BY <3>1, <3>2
  <2>5. left = <<>>
    BY <1>4, <2>4
  <2> QED
    BY <1>4, <2>2, <2>5
<1>7. Sound /\ phase = "encode" => \E x \in Seq(Nat) : stream' \o x = Onward[0] /\ x = <<>>
  BY <1>4, <1>5
<1> QED
  BY <1>1, <1>3, <1>4, <1>5, <1>6, <1>7, ReturnInv DEF Results

LEMMA EncodeInv == ASSUME CodecInv, EncodeStep PROVE CodecInv'
<1>1. phase = "encode" /\ phase \in Codec
  BY DEF EncodeStep, ClampField, AddBits, Put, PutFails, Runs, Codec
<1>2. Going(phase)
  BY <1>1, AtWork
<1>3. CASE ClampField \/ AddBits \/ Put
  <2>1. Frame
    BY <1>3 DEF ClampField, AddBits, Put, Continue, Frame
  <2> QED
    BY <1>2, <1>3, <2>1, EncodeGoes, GoesInv
<1>4. CASE PutFails
  <2>1. /\ Runs("encode", Moving) /\ ~OutOfRange(Stmt) /\ Return("fail") /\ left' = left
        /\ \E n \in 0..Len(Output(Stmt)) : stream' = stream \o SubSeq(Output(Stmt), 1, n)
    BY <1>4 DEF PutFails
  <2> DEFINE out == Output(Stmt)
  <2>2. out \in Seq(Nat)
    BY <1>2, <2>1, PutGoes
  <2>3. PICK n \in 0..Len(out) : stream' = stream \o SubSeq(out, 1, n)
    BY <2>1
  <2>4. stream \in Seq(Nat) /\ left \in Seq(Nat)
    BY DEF CodecInv, MachineOk
  <2> HIDE DEF out
  <2>5. SubSeq(out, 1, n) \in Seq(Nat)
    BY <2>2, Cut
  <2> DEFINE part == SubSeq(out, 1, n)
             rest == SubSeq(out, n + 1, Len(out))
  <2>6. part \in Seq(Nat) /\ rest \in Seq(Nat) /\ part \o rest = out
    BY <2>2, Cut
  <2>7. stream' = stream \o part
    BY <2>3
  <2> HIDE DEF part, rest
  <2>8. stream' \in Seq(Nat) /\ left' \in Seq(Nat)
    BY <2>1, <2>4, <2>6, <2>7, Joined
  <2>9. ASSUME Sound PROVE \E x \in Seq(Nat) : stream' \o x = Onward[0]
    <3>1. Stands("encode", Tail(code), msg, tmp, stream \o out, left) /\ Running
      BY <1>2, <2>1, PutGoes DEF Going, out
    <3>2. PICK y \in Seq(Nat) : (stream \o out) \o y = Onward[0]
      BY <2>9, <3>1, StandsOwing DEF Owed
    <3>3. rest \o y \in Seq(Nat)
      BY <2>6, <3>2, Joined
    <3>4. stream' \o (rest \o y) = Onward[0]
      <4>1. stream' \o (rest \o y) = stream \o (part \o (rest \o y))
        BY <2>4, <2>6, <2>7, <3>3, Assoc
      <4>2. part \o (rest \o y) = out \o y
        BY <2>6, <3>2, Assoc
      <4>3. stream \o (out \o y) = (stream \o out) \o y
        BY <2>2, <2>4, <3>2, Assoc DEF out
      <4> QED
        BY <3>2, <4>1, <4>2, <4>3
    <3> QED
      BY <3>3, <3>4
  <2> QED
    BY <1>1, <2>1, <2>8, <2>9, ReturnInv DEF Results
<1> QED
  BY <1>3, <1>4 DEF EncodeStep

LEMMA DecodeInv == ASSUME CodecInv, DecodeStep PROVE CodecInv'
<1>1. phase = "decode" /\ phase \in Codec
  BY DEF DecodeStep, TakeBits, CheckField, Get, GetFails, Runs, Codec
<1>2. Going(phase)
  BY <1>1, AtWork
<1>3. stream \in Seq(Nat) /\ left \in Seq(Nat) /\ <<>> \in Seq(Nat)
  BY DEF CodecInv, MachineOk
<1>4. CASE TakeBits
  BY <1>2, <1>4, TakeGoes, GoesInv DEF TakeBits, Continue, Frame
<1>5. CASE Get
  BY <1>2, <1>5, GetGoes, GoesInv DEF Get, Continue, Frame
<1>6. CASE CheckField /\ Passes(Stmt)
  <2>1. /\ code' = Tail(code) /\ UNCHANGED <<msg, tmp, stream, left>> /\ Frame
        /\ Runs("decode", {"most", "equal"})
    BY <1>6 DEF CheckField, Continue, Frame
  <2>2. Stands("decode", Tail(code), msg, tmp, stream, left)
    BY <1>2, <1>6, <2>1, CheckGoes
  <2>3. Goes(phase)
    BY <1>1, <1>2, <2>1, <2>2 DEF Goes, Going
  <2> QED
    BY <1>2, <2>1, <2>3, GoesInv
<1>7. Sound /\ clean => Trusted("decode")
  BY <1>1 DEF CodecInv, MachineOk, Trusted
<1>8. CASE CheckField /\ ~Passes(Stmt)
  <2>1. Return("fail") /\ UNCHANGED <<stream, left>> /\ Runs("decode", {"most", "equal"})
    BY <1>8 DEF CheckField
  <2>2. ~(Sound /\ clean)
    BY <1>2, <1>7, <1>8, <2>1, ChecksPass
  <2> QED
    BY <1>1, <1>3, <2>1, <2>2, ReturnInv DEF Results
<1>9. CASE GetFails
  <2>1. /\ Return("fail") /\ left' = <<>> /\ stream' = stream
        /\ Runs("decode", Moving) /\ ~OutOfRange(Stmt) /\ Wanted(Stmt) > Len(left)
    BY <1>9 DEF GetFails
  <2>2. Sound /\ clean => encRet # "ok"
    BY <1>2, <1>7, <2>1, ReadsFail
  <2> QED
    BY <1>1, <1>3, <2>1, <2>2, ReturnInv DEF Results
<1> QED
  BY <1>4, <1>5, <1>6, <1>8, <1>9 DEF DecodeStep

LEMMA CodecInductive == ASSUME CodecInv, [CodecNext]_cvars PROVE CodecInv'
<1>1. ASSUME NEW w, phase = w, w \in Codec, ClearByte \/ If \/ Loop PROVE CodecInv'
  <2>1. Going(w)
    BY <1>1, AtWork
  <2>2. Goes(w)
    BY <1>1, <2>1, ClearByteGoes, IfGoes, LoopGoes
  <2>3. Frame
    BY <1>1 DEF ClearByte, If, Loop, Continue, Frame
  <2> QED
    BY <2>1, <2>2, <2>3, GoesInv
<1>2. CASE ClearByte \/ If \/ Loop
  <2>1. phase \in Codec
    BY <1>2 DEF ClearByte, If, Loop, Runs, Codec
  <2> QED
    BY <1>1, <1>2, <2>1
<1>3. CASE UNCHANGED cvars
  <2>1. UNCHANGED <<vars, phase, msg, code, tmp, stream, left, encRet, decRet, caller, given, clean>>
    BY <1>3 DEF cvars, machine, caller
  <2>2. GenInv' /\ fields' = fields /\ Len(fields)' = Len(fields)
    BY <2>1, SameGen DEF CodecInv, vars
  <2>3. MachineOk'
    BY <2>1 DEF CodecInv, MachineOk
  <2>4. Running' <=> Running
    BY <2>1, SameRun DEF CodecInv
  <2>5. Typed(msg)' <=> Typed(msg)
    BY <2>1, <2>2, SameValues
  <2>6. Stands(phase, code, msg, tmp, stream, left)' <=> Stands(phase, code, msg, tmp, stream, left)
    BY <2>1, <2>2, SameStands DEF Still, Fixed
  <2>7. NeverOver' /\ Accepted'
    BY <2>1, <2>2, SameValues DEF CodecInv, NeverOver, Accepted
  <2>8. Transferred' <=> Transferred
    <3>1. Fixed
      BY <2>1 DEF Fixed
    <3>2. /\ Sound' <=> Sound
          /\ Onward' = Onward
          /\ \A m, n : Agreed(m, n)' <=> Agreed(m, n)
          /\ \A l, all : Missing(l, all)' <=> Missing(l, all)
      BY <2>1, <3>1, SameSound, SameTransfer, SameSides
    <3>3. Delivered' <=> Delivered
      BY <2>1, <3>2 DEF Delivered
    <3>4. Arrived' <=> Arrived
      BY <2>1, <2>2, <3>2 DEF Arrived
    <3> QED
      BY <3>2, <3>3, <3>4 DEF Transferred
  <2> QED
    BY <2>1, <2>2, <2>3, <2>4, <2>5, <2>6, <2>7, <2>8 DEF CodecInv, RunOk
<1> QED
  BY <1>2, <1>3, GenerateInv, CallInv, DeliverInv, OverrunInv, EndInv, EncodeInv, DecodeInv DEF CodecNext

LEMMA CodecInvariance == CodecSpec => []CodecInv
<1>1. CodecInit => CodecInv
  BY CodecInitial
<1>2. CodecInv /\ [CodecNext]_cvars => CodecInv'
  BY CodecInductive
<1> QED
  BY <1>1, <1>2, PTL DEF CodecSpec

(* Whatever message the encoder is given and whatever bytes the decoder    *)
(* gets, neither function leaves the bounds of an array.                   *)
THEOREM CodecsStayInBounds == CodecSpec => []NoOverrun
<1>1. CodecInv => NoOverrun
  BY DEF CodecInv, NeverOver, NoOverrun
<1> QED
  BY <1>1, CodecInvariance, PTL

(* What the decoder of a message accepts satisfies the maxima and the      *)
(* equals the generator writes checks for, whatever bytes arrive.          *)
THEOREM AcceptedIsValid == CodecSpec => []ValidDecoded
<1>1. ASSUME CodecInv, decRet = "ok", Conditions, NEW f \in Range(fields) PROVE Satisfies(f, msg)
  <2>1. Valid(msg, Len(fields)) /\ DOMAIN fields = 1..Len(fields)
    BY <1>1, Shape DEF CodecInv, Accepted, GenInv, IInv
  <2>2. PICK j \in DOMAIN fields : fields[j] = f
    BY DEF Range
  <2> QED
    BY <1>1, <2>1, <2>2 DEF Valid
<1>2. CodecInv => ValidDecoded
  BY <1>1 DEF ValidDecoded, Satisfies
<1> QED
  BY <1>2, CodecInvariance, PTL

(* What was to be sent is what the encoder makes of the values it is given *)
LEMMA MeantKept == ASSUME Running PROVE Kept(Meant, Len(fields))
<1>1. Typed(given) /\ Len(fields) \in Nat
  BY Shape DEF Running, Fresh, Settled, GenInv, IInv
<1>2. ASSUME NEW j \in 1..Len(fields) PROVE Meant[fields[j].name] = Final(fields[j])
  <2> DEFINE f == fields[j]
  <2>1. f.name \in DOMAIN given /\ FieldNamed(f.name) = j
    BY <1>1, FieldByName DEF Running, Typed
  <2> QED
    BY <2>1 DEF Meant, Final, Clamped
<1> QED
  BY <1>1, <1>2 DEF Kept

(* ... and, field by field, what the decoder has read.                     *)
LEMMA CarriedAlike ==
  ASSUME Running, Sound, NEW m, Typed(m), NEW sent, Kept(sent, Len(fields)), Agreed(m, Len(fields)),
         NEW i \in 1..Len(fields), Present(fields[i], sent)
  PROVE  Carried(fields[i], m) = Carried(fields[i], sent)
<1> DEFINE f == fields[i]
<1>1. Agreed(sent, Len(fields)) /\ Len(fields) \in Nat
  BY LastClosed DEF Kept, Agreed, Alike
<1>2. Passed("decode", sent, i - 1) /\ Passed("decode", m, i - 1)
  BY <1>1 DEF Agreed, Passed
<1>3. There(f)
  <2>1. CASE f.existIf = NoName \/ IsBitType(f.type)
    BY <2>1 DEF There
  <2>2. CASE ~(f.existIf = NoName \/ IsBitType(f.type))
    <3>1. ~Grouped(i, O)
      BY <2>2, SettledField DEF Running
    <3>2. sent[f.existIf] # 0
      BY <2>2 DEF Present
    <3> QED
      BY <1>2, <2>2, <3>1, <3>2, CondIs
  <2> QED
    BY <2>1, <2>2
<1>4. sent[f.name] = Final(f) /\ Alike(f, m)
  BY <1>3 DEF Kept, Agreed
<1>5. CASE f.type.k # "array"
  BY <1>4, <1>5 DEF Alike, Carried
<1>6. CASE f.type.k = "array"
  <2>1. Limit(f, sent) = Extent(f) /\ Limit(f, m) = Extent(f)
    BY <1>2, <1>6, LimitKnown
  <2> DEFINE n == Extent(f)
             a == m[f.name]
             b == Final(f)
  <2>2. Carried(f, m) = SubSeq(a, 1, n) /\ Carried(f, sent) = SubSeq(b, 1, n)
    BY <1>4, <1>6, <2>1 DEF Carried, Limit
  <2>3. a \in Seq(Nat) /\ Len(a) = Size(f)
    BY <1>6, LimitIs
  <2>4. b \in Seq(Nat) /\ Len(b) = Size(f) /\ n \in Nat /\ n <= Size(f) /\ Size(f) \in Nat
    BY <1>6, ExtentIs
  <2>5. \A e \in 1..n : a[e] = b[e]
    BY <1>4, <1>6 DEF Alike
  <2> HIDE DEF n, a, b
  <2>6. n \in 0..Len(a) /\ n \in 0..Len(b)
    BY <2>3, <2>4
  <2> DEFINE c == SubSeq(a, 1, n)
             d == SubSeq(b, 1, n)
  <2>7. /\ c \in Seq(Nat) /\ Len(c) = n /\ \A e \in 1..n : c[e] = a[e]
        /\ d \in Seq(Nat) /\ Len(d) = n /\ \A e \in 1..n : d[e] = b[e]
    BY <2>3, <2>4, <2>6, Cut
  <2> HIDE DEF c, d
  <2>8. c = d
    BY <2>5, <2>7, Equals
  <2> QED
    BY <2>2, <2>8 DEF c, d
<1> QED
  BY <1>5, <1>6

(* Of bytes that arrive as they were written, a decoder accepts only the   *)
(* whole message.                                                          *)
LEMMA AcceptedIsReceived ==
  ASSUME CodecInv, phase = "end", clean, Sound, decRet = "ok"
  PROVE  Received
<1>1. Running /\ Typed(msg) /\ left = <<>> /\ Agreed(msg, Len(fields))
  BY DEF CodecInv, RunOk, Transferred, Arrived
<1>2. ASSUME NEW f \in Range(fields), Present(f, Meant) PROVE Carried(f, msg) = Carried(f, Meant)
  <2>1. DOMAIN fields = 1..Len(fields)
    BY Shape DEF CodecInv, GenInv, IInv
  <2>2. PICK j \in 1..Len(fields) : fields[j] = f
    BY <2>1 DEF Range
  <2> QED
    BY <1>1, <1>2, <2>2, MeantKept, CarriedAlike
<1> QED
  BY <1>1, <1>2 DEF Received

(* A message goes through: what was to be sent, every integer above its    *)
(* max cut to it, is what the decoder accepts, reads to the last byte and  *)
(* stores, whatever its struct held before.                                *)
THEOREM MessagesGoThrough == CodecSpec => []RoundTrip
<1>1. CodecInv => RoundTrip
  BY AcceptedIsReceived DEF RoundTrip, CodecInv, Transferred, Arrived
<1> QED
  BY <1>1, CodecInvariance, PTL

(* The bytes of an encoder whose write has failed, at whatever byte of the *)
(* message or after the last one, are refused by the decoder, unless they  *)
(* are the whole message: then it is received.                             *)
THEOREM CutMessagesAreNotMistaken == CodecSpec => []CutShort
<1>1. ASSUME CodecInv, phase = "end", clean, Sound, decRet # "ok" PROVE decRet = "fail"
  BY <1>1 DEF CodecInv, MachineOk, NeverOver, Sound
<1>2. CodecInv => CutShort
  BY <1>1, AcceptedIsReceived DEF CutShort
<1> QED
  BY <1>2, CodecInvariance, PTL
=============================================================================
