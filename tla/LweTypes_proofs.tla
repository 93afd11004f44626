-------------------------- MODULE LweTypes_proofs --------------------------
(***************************************************************************)
(* Facts about the types of the language and about laid-out messages that  *)
(* the theorems about the analyser and about the generator share, and the  *)
(* induction they use where a definition recurs over a sequence.           *)
(***************************************************************************)
EXTENDS LweTypes, WellFoundedInduction, TLAPS

(* Induction without a predicate as parameter: the numbers a claim holds   *)
(* of are given as a set.                                                  *)
LEMMA SetInduction ==
  ASSUME NEW T, 0 \in T, \A n \in Nat : n \in T => n + 1 \in T
  PROVE  Nat \subseteq T
<1> DEFINE B == Nat \ T
           R == {ss \in Nat \X Nat : ss[1] < ss[2]}
<1>1. SUFFICES ASSUME B # {} PROVE FALSE
  OBVIOUS
<1>2. IsWellFoundedOn(R, Nat)
  BY NatLessThanWellFounded DEF OpToRel
<1>3. \E x \in B : \A y \in B : ~(<<y, x>> \in R)
  <2> HIDE DEF R
  <2> QED
    BY <1>1, <1>2, WFMin
<1>4. PICK m \in B : \A k \in B : ~(<<k, m>> \in R)
  BY <1>3
<1>5. \A k \in B : ~(k < m)
  BY <1>4
<1>6. m # 0 /\ m - 1 \in Nat /\ m - 1 \in T
  BY <1>5
<1> QED
  BY <1>6

(* The widths of the integer types.                                        *)
LEMMA BitsRange ==
  ASSUME NEW t
  PROVE  /\ Bits(t) \in {0, 1, 2, 3, 4, 5, 6, 7, 8, 16, 32, 64}
         /\ IsIntType(t) => Bits(t) # 0
         /\ IsBitType(t) => Bits(t) \in 1..7
         /\ IsIntType(t) /\ ~IsBitType(t) => Bits(t) % 8 = 0
<1>1. ASSUME IsIntType(t)
      PROVE  Bits(t) \in {1, 2, 3, 4, 5, 6, 7, 8, 16, 32, 64}
  BY <1>1 DEF Bits, IsIntType, IntBits, BitNames, ByteNames
<1>2. ~IsIntType(t) => Bits(t) = 0
  BY DEF Bits
<1>3. IsBitType(t) => Bits(t) \in 1..7
  BY <1>1 DEF IsBitType
<1> QED
  BY <1>1, <1>2, <1>3 DEF IsBitType

(* A bit type is a primitive one and no variable integer, which has the    *)
(* width of whole bytes.                                                   *)
LEMMA BitNotVar ==
  ASSUME NEW t, IsBitType(t)
  PROVE  t.k = "prim" /\ IsIntType(t) /\ ~IsVarInt(t)
<1>1. IsIntType(t) /\ t.k = "prim" /\ Bits(t) \in 1..7
  BY BitsRange DEF IsBitType, IsIntType
<1>2. IsVarInt(t) => Bits(t) \in {32, 64}
  BY <1>1 DEF IsVarInt, VarNames, Bits, IntBits, BitNames, ByteNames
<1> QED
  BY <1>1, <1>2

(* What LaidOutBy says of one field, in the terms of the three walks: the  *)
(* bits in use before it are 0..7; in an open group it is an integer that  *)
(* fits; at a boundary a bit field opens a group and nothing else does.    *)
LEMMA LaidOutField ==
  ASSUME NEW fields, NEW off, LaidOutBy(fields, off), IsSequence(fields),
         off \in [1..Len(fields) -> 0..7],
         NEW i \in DOMAIN fields
  PROVE  /\ Before(off, i) \in 0..7
         /\ Before(off, i + 1) = off[i]
         /\ Before(off, i) # 0 =>
              /\ IsIntType(fields[i].type)
              /\ Before(off, i) + Bits(fields[i].type) <= 8
              /\ off[i] = (Before(off, i) + Bits(fields[i].type)) % 8
         /\ Before(off, i) = 0 =>
              off[i] = IF IsBitType(fields[i].type) THEN Bits(fields[i].type) ELSE 0
<1>1. i \in 1..Len(fields) /\ Len(fields) \in Nat
  BY DEF IsSequence
<1>2. Before(off, i) \in 0..7
  BY <1>1 DEF Before
<1>3. Before(off, i + 1) = off[i]
  BY <1>1 DEF Before
<1>4. FitsAt(fields, off, i)
  BY DEF LaidOutBy
<1>5. IsBitType(fields[i].type) => Bits(fields[i].type) \in 1..7
  BY BitsRange
<1> QED
  BY <1>1, <1>2, <1>3, <1>4, <1>5 DEF FitsAt
=============================================================================
