--------------------------- MODULE MsgGen_proofs ---------------------------
(***************************************************************************)
(* Theorems about the generator of one message, for every set of messages  *)
(* the analyser's layout check can accept.                                 *)
(*                                                                         *)
(* The walks carry their own bit counters, and what keeps them in step     *)
(* with the analyser's is a layout o of the message: in either codec walk  *)
(* the open group holds exactly the Before(o, fi) bits that o says are in  *)
(* use before the field the walk is at.                                    *)
(*                                                                         *)
(* The second part is about the text it writes: what the encoder and the   *)
(* decoder do to tmp, and that the one reads what the other writes.        *)
(***************************************************************************)
EXTENDS MsgGen, LweTypes_proofs

Codec == {"encode", "decode"}

GroupAt(o) == walk \in Codec => /\ bitAggr <=> Before(o, fi) # 0
                                /\ bitAggr => bits = Before(o, fi)

GroupOK == \E o \in [1..Len(fields) -> 0..7] : LaidOutBy(fields, o) /\ GroupAt(o)

(* The struct walk has let through only arrays that have a limit, and the  *)
(* encoder's walk only fields that code can be written for.                *)
Limited(f) == f.type.k = "array" => f.limit # NoName

PassedOK == /\ walk = "struct" => ~bitAggr /\ \A i \in 1..fi-1 : Limited(fields[i])
            /\ walk \in {"encode", "decode", "done"} => \A i \in DOMAIN fields : Limited(fields[i])
            /\ walk = "encode" => \A i \in 1..fi-1 : Generable(fields[i])
            /\ walk \in {"decode", "done"} => \A i \in DOMAIN fields : Generable(fields[i])
            /\ walk = "panic" => ~Generable(Field) /\ ~bitAggr

IInv == TypeOK /\ fields \in Messages /\ GroupOK /\ PassedOK

LEMMA Shape ==
  ASSUME fields \in Messages
  PROVE  IsSequence(fields) /\ Len(fields) \in Nat /\ DOMAIN fields = 1..Len(fields)
  BY MessagesAssumption DEF IsSequence

-----------------------------------------------------------------------------
(* The kinds of steps, as far as the invariant can tell.                   *)

GivesUp == /\ At(walk) /\ ~Generable(Field) /\ ~bitAggr
           /\ walk' = "panic"
           /\ UNCHANGED <<fields, fi, hasTmp, bitAggr, bits>>

Declares == /\ At("struct") /\ Limited(Field)
            /\ walk' = walk /\ fi' = fi + 1
            /\ UNCHANGED <<fields, hasTmp, bitAggr, bits>>

(* A codec walk passes a field and leaves the group as the layout says.    *)
PassesOn == /\ walk \in Codec /\ fi \in DOMAIN fields
          /\ Generable(Field)
          /\ walk' = walk /\ fi' = fi + 1 /\ fields' = fields
          /\ hasTmp' \in BOOLEAN /\ bitAggr' \in BOOLEAN /\ bits' \in 0..8
          /\ \A o \in [1..Len(fields) -> 0..7] :
               LaidOutBy(fields, o) /\ GroupAt(o) =>
                 /\ bitAggr' <=> Before(o, fi + 1) # 0
                 /\ bitAggr' => bits' = Before(o, fi + 1)

Turns == \E w \in {<<"struct", "encode">>, <<"encode", "decode">>, <<"decode", "done">>} :
           walk = w[1] /\ fi = Len(fields) + 1 /\ StartWalk(w[2])

(* What the layout says of the field a codec walk is at.                   *)
LEMMA AtField ==
  ASSUME IInv, walk \in Codec, fi \in DOMAIN fields,
         NEW o \in [1..Len(fields) -> 0..7], LaidOutBy(fields, o), GroupAt(o)
  PROVE  /\ bitAggr => /\ IsIntType(Type)
                       /\ bits \in 1..7
                       /\ bits + Bits(Type) <= 8
                       /\ Before(o, fi + 1) = (bits + Bits(Type)) % 8
         /\ ~bitAggr => Before(o, fi + 1) = IF IsBitType(Type) THEN Bits(Type) ELSE 0
<1>1. IsSequence(fields)
  BY Shape DEF IInv
<1>2. /\ Before(o, fi) \in 0..7
      /\ Before(o, fi + 1) = o[fi]
      /\ Before(o, fi) # 0 => /\ IsIntType(Type)
                              /\ Before(o, fi) + Bits(Type) <= 8
                              /\ o[fi] = (Before(o, fi) + Bits(Type)) % 8
      /\ Before(o, fi) = 0 => o[fi] = IF IsBitType(Type) THEN Bits(Type) ELSE 0
  BY <1>1, LaidOutField DEF Type, Field
<1>3. (bitAggr <=> Before(o, fi) # 0) /\ (bitAggr => bits = Before(o, fi))
  BY DEF GroupAt
<1>4. CASE bitAggr
  BY <1>2, <1>3, <1>4
<1>5. CASE ~bitAggr
  BY <1>2, <1>3, <1>5
<1> QED
  BY <1>4, <1>5

(* An open group meets an integer of at most seven bits.                   *)
LEMMA AtOpen ==
  ASSUME IInv, walk \in Codec, fi \in DOMAIN fields, bitAggr
  PROVE  /\ IsIntType(Type) /\ Type.k = "prim" /\ Bits(Type) \in 1..7
         /\ bits \in 1..7 /\ bits + Bits(Type) <= 8
         /\ Generable(Field)
<1>1. PICK o \in [1..Len(fields) -> 0..7] : LaidOutBy(fields, o) /\ GroupAt(o)
  BY DEF IInv, GroupOK
<1>2. IsIntType(Type) /\ bits \in 1..7 /\ bits + Bits(Type) <= 8
  BY <1>1, AtField
<1>3. Bits(Type) \in 1..7
  BY <1>2, BitsRange
<1>4. Type.k = "prim"
  BY <1>2 DEF IsIntType
<1>5. ~IsVarInt(Type)
  BY <1>2, <1>3 DEF IsVarInt, VarNames, IsIntType, Bits, IntBits, BitNames, ByteNames
<1> QED
  BY <1>2, <1>3, <1>4, <1>5 DEF Generable, Type

-----------------------------------------------------------------------------
(* Every action is of one of these kinds.                                  *)

LEMMA StructKinds == ASSUME IInv, DeclareField PROVE Declares \/ GivesUp
<1>1. At(walk) /\ At("struct") /\ fi \in DOMAIN fields
  BY DEF DeclareField, At
<1>2. CASE IF Type.k = "array" THEN Field.limit # NoName /\ HasGoName(Type.elem) ELSE HasGoName(Type)
  <2>1. Limited(Field)
    BY <1>2 DEF Limited, Type
  <2> QED
    BY <1>1, <1>2, <2>1 DEF DeclareField, Require, Declares, aggr, At
<1>3. CASE ~(IF Type.k = "array" THEN Field.limit # NoName /\ HasGoName(Type.elem) ELSE HasGoName(Type))
  <2>1. Panic
    BY <1>3 DEF DeclareField, Require
  <2>2. ~Generable(Field)
    BY <1>3 DEF Generable, HasGoName, ElemOk, Type
  <2>3. ~bitAggr
    BY <1>1 DEF IInv, PassedOK, At
  <2> QED
    BY <1>1, <2>1, <2>2, <2>3 DEF GivesUp, Panic, aggr
<1> QED
  BY <1>2, <1>3

(* The bits in use after n of them, counted from a byte boundary.          *)
LEMMA Remainder == ASSUME NEW n \in 1..8
                   PROVE  n % 8 \in 0..7 /\ (n < 8 <=> n % 8 # 0) /\ (n < 8 => n % 8 = n)
  OBVIOUS

LEMMA EncodeBitsKinds == ASSUME IInv, EncodeBits PROVE PassesOn
<1> DEFINE n == bits + Bits(Type)
<1>1. walk \in Codec /\ fi \in DOMAIN fields /\ bitAggr
  BY DEF EncodeBits, At, Codec
<1>2. /\ IsIntType(Type) /\ Bits(Type) \in 1..7
      /\ bits \in 1..7 /\ n <= 8 /\ Generable(Field)
  BY <1>1, AtOpen
<1>3. Fits(n)
  BY <1>2 DEF Fits
<1>4. /\ EncodeGroup(n) /\ UNCHANGED hasTmp
      /\ fi' = fi + 1 /\ UNCHANGED <<fields, walk>>
  BY <1>3 DEF EncodeBits, Require
<1>5. bits' = n /\ (bitAggr' <=> n < 8) /\ bitAggr' \in BOOLEAN /\ hasTmp' = hasTmp
  <2> HIDE DEF n
  <2>1. bits' = n /\ hasTmp' = hasTmp
    BY <1>4 DEF EncodeGroup
  <2>2. bitAggr' = (n < 8)
    BY <1>4 DEF EncodeGroup
  <2>3. bitAggr' <=> n < 8
    BY <2>2
  <2>4. bitAggr' \in BOOLEAN
    BY <2>2
  <2> QED
    BY <2>1, <2>3, <2>4
<1>6. n \in 1..8
  BY <1>2
<1>7. bits' \in 0..8 /\ bitAggr' \in BOOLEAN /\ hasTmp' \in BOOLEAN
  <2> HIDE DEF n
  <2> QED
    BY <1>5, <1>6, Remainder DEF IInv, TypeOK
<1>8. ASSUME NEW o \in [1..Len(fields) -> 0..7], LaidOutBy(fields, o), GroupAt(o)
      PROVE  (bitAggr' <=> Before(o, fi + 1) # 0) /\ (bitAggr' => bits' = Before(o, fi + 1))
  <2>1. Before(o, fi + 1) = n % 8
    BY <1>1, <1>8, AtField
  <2> HIDE DEF n
  <2> QED
    BY <2>1, <1>5, <1>6, Remainder
<1> QED
  BY <1>1, <1>2, <1>4, <1>7, <1>8 DEF PassesOn

LEMMA DecodeBitsKinds == ASSUME IInv, DecodeBits PROVE PassesOn
<1> DEFINE n == bits + Bits(Type)
<1>1. walk \in Codec /\ fi \in DOMAIN fields /\ bitAggr
  BY DEF DecodeBits, At, Codec
<1>2. /\ IsIntType(Type) /\ Bits(Type) \in 1..7
      /\ bits \in 1..7 /\ n <= 8 /\ Generable(Field)
  BY <1>1, AtOpen
<1>3. Fits(n)
  BY <1>2 DEF Fits
<1>4. /\ DecodeGroup(n) /\ UNCHANGED <<hasTmp, xorVar>>
      /\ fi' = fi + 1 /\ UNCHANGED <<fields, walk>>
  BY <1>3 DEF DecodeBits, Require
<1>5. bits' = n % 8 /\ (bitAggr' <=> n < 8) /\ bitAggr' \in BOOLEAN /\ hasTmp' = hasTmp
  <2> HIDE DEF n
  <2>1. bits' = n % 8 /\ hasTmp' = hasTmp
    BY <1>4 DEF DecodeGroup
  <2>2. bitAggr' = (n < 8)
    BY <1>4 DEF DecodeGroup
  <2>3. bitAggr' <=> n < 8
    BY <2>2
  <2>4. bitAggr' \in BOOLEAN
    BY <2>2
  <2> QED
    BY <2>1, <2>3, <2>4
<1>6. n \in 1..8
  BY <1>2
<1>7. bits' \in 0..8 /\ bitAggr' \in BOOLEAN /\ hasTmp' \in BOOLEAN
  <2> HIDE DEF n
  <2> QED
    BY <1>5, <1>6, Remainder DEF IInv, TypeOK
<1>8. ASSUME NEW o \in [1..Len(fields) -> 0..7], LaidOutBy(fields, o), GroupAt(o)
      PROVE  (bitAggr' <=> Before(o, fi + 1) # 0) /\ (bitAggr' => bits' = Before(o, fi + 1))
  <2>1. Before(o, fi + 1) = n % 8
    BY <1>1, <1>8, AtField
  <2> HIDE DEF n
  <2> QED
    BY <2>1, <1>5, <1>6, Remainder
<1> QED
  BY <1>1, <1>2, <1>4, <1>7, <1>8 DEF PassesOn

(* Opening a group is the same in both walks.                              *)
LEMMA OpenKinds ==
  ASSUME IInv, walk \in Codec, fi \in DOMAIN fields, IsBitType(Type), ~bitAggr,
         Opened, fi' = fi + 1, UNCHANGED <<fields, walk>>
  PROVE  PassesOn
<1>1. Bits(Type) \in 1..7
  BY BitsRange
<1>2. hasTmp' = TRUE /\ bitAggr' = TRUE /\ bits' = Bits(Type)
  BY DEF Opened
<1>3. Generable(Field)
  BY BitNotVar DEF Generable, Type
<1>4. ASSUME NEW o \in [1..Len(fields) -> 0..7], LaidOutBy(fields, o), GroupAt(o)
      PROVE  Before(o, fi + 1) = Bits(Type)
  BY <1>4, AtField
<1>5. bits' \in 0..8 /\ bitAggr' \in BOOLEAN /\ hasTmp' \in BOOLEAN
  BY <1>1, <1>2
<1> QED
  BY <1>1, <1>2, <1>3, <1>4, <1>5 DEF PassesOn

(* So is a field of whole bytes, or giving up on it.                       *)
LEMMA WholeKinds ==
  ASSUME IInv, walk \in Codec, fi \in DOMAIN fields, ~IsBitType(Type), ~bitAggr,
         \/ Generable(Field) /\ UNCHANGED aggr /\ fi' = fi + 1 /\ UNCHANGED <<fields, walk>>
         \/ ~Generable(Field) /\ Panic
  PROVE  PassesOn \/ GivesUp
<1>1. CASE Generable(Field) /\ UNCHANGED aggr /\ fi' = fi + 1 /\ UNCHANGED <<fields, walk>>
  <2>1. ASSUME NEW o \in [1..Len(fields) -> 0..7], LaidOutBy(fields, o), GroupAt(o)
        PROVE  Before(o, fi + 1) = 0
    BY <2>1, AtField
  <2>2. ~bitAggr'
    BY <1>1 DEF aggr
  <2>3. bits' \in 0..8 /\ bitAggr' \in BOOLEAN /\ hasTmp' \in BOOLEAN
    BY <1>1 DEF IInv, TypeOK, aggr
  <2> QED
    BY <1>1, <2>1, <2>2, <2>3 DEF PassesOn
<1>2. CASE ~Generable(Field) /\ Panic
  BY <1>2 DEF Panic, GivesUp, At, aggr
<1> QED
  BY <1>1, <1>2

LEMMA EncodeKinds == ASSUME IInv, Encode PROVE PassesOn \/ GivesUp
<1>1. walk = "encode" /\ walk \in Codec /\ fi \in DOMAIN fields
  BY DEF Encode, EncodeBits, OpenEncodeGroup, EncodeInt, EncodeMsg, EncodeArray, At, Codec
<1>2. CASE EncodeBits
  BY <1>2, EncodeBitsKinds
<1>3. CASE OpenEncodeGroup
  <2>1. Opened /\ fi' = fi + 1 /\ UNCHANGED <<fields, walk>> /\ IsBitType(Type) /\ ~bitAggr
    BY <1>3 DEF OpenEncodeGroup, Require
  <2> QED
    BY <1>1, <2>1, OpenKinds
<1>4. CASE EncodeInt
  <2>1. Generable(Field) <=> IsIntType(Type) /\ ~IsVarInt(Type)
    BY <1>4 DEF EncodeInt, Generable, Type
  <2>2. ~IsBitType(Type) /\ ~bitAggr
    BY <1>4 DEF EncodeInt
  <2>3. \/ Generable(Field) /\ UNCHANGED aggr /\ fi' = fi + 1 /\ UNCHANGED <<fields, walk>>
        \/ ~Generable(Field) /\ Panic
    BY <1>4, <2>1 DEF EncodeInt, Require
  <2> QED
    BY <1>1, <2>2, <2>3, WholeKinds
<1>5. CASE EncodeMsg
  <2>1. Generable(Field) /\ Type.k # "prim"
    BY <1>5 DEF EncodeMsg, Generable, Type
  <2>2. ~IsBitType(Type) /\ ~bitAggr
    BY <1>1, <2>1, AtOpen DEF IsBitType, IsIntType
  <2>3. Generable(Field) /\ UNCHANGED aggr /\ fi' = fi + 1 /\ UNCHANGED <<fields, walk>>
    BY <1>5, <2>1 DEF EncodeMsg, Require
  <2> QED
    BY <1>1, <2>2, <2>3, WholeKinds
<1>6. CASE EncodeArray
  <2>1. Type.k = "array" /\ Field.limit # NoName
    BY <1>1, <1>6 DEF EncodeArray, IInv, PassedOK, Limited, Type, Field
  <2>2. Generable(Field) <=> ElemOk(Type.elem)
    BY <2>1 DEF Generable, Type
  <2>3. ~IsBitType(Type) /\ ~bitAggr
    BY <1>1, <2>1, AtOpen DEF IsBitType, IsIntType
  <2>4. \/ Generable(Field) /\ UNCHANGED aggr /\ fi' = fi + 1 /\ UNCHANGED <<fields, walk>>
        \/ ~Generable(Field) /\ Panic
    BY <1>6, <2>2 DEF EncodeArray, Require
  <2> QED
    BY <1>1, <2>3, <2>4, WholeKinds
<1> QED
  BY <1>2, <1>3, <1>4, <1>5, <1>6 DEF Encode

LEMMA DecodeKinds == ASSUME IInv, Decode PROVE PassesOn \/ GivesUp
<1>1. walk = "decode" /\ walk \in Codec /\ fi \in DOMAIN fields
  BY DEF Decode, DecodeBits, OpenDecodeGroup, DecodeInt, DecodeMsg, DecodeArray, At, Codec
<1>2. CASE DecodeBits
  BY <1>2, DecodeBitsKinds
<1>3. CASE OpenDecodeGroup
  <2>1. Opened /\ fi' = fi + 1 /\ UNCHANGED <<fields, walk>> /\ IsBitType(Type) /\ ~bitAggr
    BY <1>3 DEF OpenDecodeGroup, Require
  <2> QED
    BY <1>1, <2>1, OpenKinds
<1>4. CASE DecodeInt
  <2>1. Generable(Field) <=> IsIntType(Type) /\ ~IsVarInt(Type)
    BY <1>4 DEF DecodeInt, Generable, Type
  <2>2. ~IsBitType(Type) /\ ~bitAggr
    BY <1>4 DEF DecodeInt
  <2>3. \/ Generable(Field) /\ UNCHANGED aggr /\ fi' = fi + 1 /\ UNCHANGED <<fields, walk>>
        \/ ~Generable(Field) /\ Panic
    BY <1>4, <2>1 DEF DecodeInt, Require
  <2> QED
    BY <1>1, <2>2, <2>3, WholeKinds
<1>5. CASE DecodeMsg
  <2>1. Generable(Field) /\ Type.k # "prim"
    BY <1>5 DEF DecodeMsg, Generable, Type
  <2>2. ~IsBitType(Type) /\ ~bitAggr
    BY <1>1, <2>1, AtOpen DEF IsBitType, IsIntType
  <2>3. Generable(Field) /\ UNCHANGED aggr /\ fi' = fi + 1 /\ UNCHANGED <<fields, walk>>
    BY <1>5, <2>1 DEF DecodeMsg, Require
  <2> QED
    BY <1>1, <2>2, <2>3, WholeKinds
<1>6. CASE DecodeArray
  <2>1. Type.k = "array" /\ Field.limit # NoName
    BY <1>1, <1>6 DEF DecodeArray, IInv, PassedOK, Limited, Type, Field
  <2>2. Generable(Field) <=> ElemOk(Type.elem)
    BY <2>1 DEF Generable, Type
  <2>3. ~IsBitType(Type) /\ ~bitAggr
    BY <1>1, <2>1, AtOpen DEF IsBitType, IsIntType
  <2>4. \/ Generable(Field) /\ UNCHANGED aggr /\ fi' = fi + 1 /\ UNCHANGED <<fields, walk>>
        \/ ~Generable(Field) /\ Panic
    BY <1>6, <2>2 DEF DecodeArray, Require
  <2> QED
    BY <1>1, <2>3, <2>4, WholeKinds
<1> QED
  BY <1>2, <1>3, <1>4, <1>5, <1>6 DEF Decode

LEMMA NextKinds == ASSUME IInv, Next PROVE Declares \/ PassesOn \/ GivesUp \/ Turns
<1>1. CASE DeclareField
  BY <1>1, StructKinds
<1>2. CASE Encode
  BY <1>2, EncodeKinds
<1>3. CASE Decode
  BY <1>3, DecodeKinds
<1>4. CASE EndStruct \/ EndEncode \/ EndDecode
  BY <1>4 DEF EndStruct, EndEncode, EndDecode, Turns
<1> QED
  BY <1>1, <1>2, <1>3, <1>4 DEF Next

-----------------------------------------------------------------------------
(* The inductive invariant.                                                *)

LEMMA InitInv == ASSUME Init PROVE IInv
<1>1. IsSequence(fields) /\ LaidOut(fields) /\ fields \in Messages
  BY MessagesAssumption DEF Init
<1>2. TypeOK
  <2>1. hasTmp \in BOOLEAN /\ bitAggr \in BOOLEAN
    BY DEF Init
  <2>2. walk \in Walks /\ walk # "panic" /\ fi \in 1..Len(fields) + 1 /\ bits \in 0..8
    BY <1>1 DEF Init, Walks, IsSequence
  <2> QED
    BY <2>1, <2>2 DEF TypeOK
<1>3. GroupOK
  BY <1>1 DEF LaidOut, GroupOK, GroupAt, Init, Codec
<1>4. PassedOK
  BY DEF PassedOK, Init
<1> QED
  BY <1>1, <1>2, <1>3, <1>4 DEF IInv

(* A walk over a legal message may also start at the encoder: the codec of *)
(* a type declaration has no struct of its own.                            *)
LEMMA StartInv ==
  ASSUME fields' \in Messages, walk' \in {"struct", "encode"}, fi' = 1,
         hasTmp' = FALSE, bitAggr' = FALSE, bits' = 0,
         \A i \in DOMAIN fields' : Limited(fields'[i])
  PROVE  IInv'
<1>1. IsSequence(fields') /\ LaidOut(fields')
  BY MessagesAssumption
<1>2. TypeOK'
  <2>1. hasTmp' \in BOOLEAN /\ bitAggr' \in BOOLEAN
    OBVIOUS
  <2>2. walk' \in Walks' /\ walk' # "panic" /\ fi' \in 1..Len(fields') + 1 /\ bits' \in 0..8
    BY <1>1 DEF Walks, IsSequence
  <2> QED
    BY <2>1, <2>2 DEF TypeOK
<1>3. GroupOK'
  BY <1>1 DEF LaidOut, GroupOK, GroupAt, Before
<1>4. PassedOK'
  BY DEF PassedOK
<1> QED
  BY <1>2, <1>3, <1>4 DEF IInv

LEMMA PassesInv == ASSUME IInv, PassesOn PROVE IInv'
<1>1. /\ walk' = walk /\ walk \in Codec /\ fields' = fields
      /\ fi' = fi + 1 /\ fi \in 1..Len(fields) /\ Len(fields) \in Nat
  BY Shape DEF PassesOn, IInv
<1>2. TypeOK'
  <2>1. hasTmp' \in BOOLEAN /\ bitAggr' \in BOOLEAN /\ bits' \in 0..8
    BY DEF PassesOn
  <2>2. fi' \in 1..Len(fields') + 1
    BY <1>1
  <2> QED
    BY <1>1, <2>1, <2>2 DEF TypeOK, Codec, Walks
<1>3. GroupOK'
  <2>1. PICK o \in [1..Len(fields) -> 0..7] : LaidOutBy(fields, o) /\ GroupAt(o)
    BY DEF IInv, GroupOK
  <2>2. (bitAggr' <=> Before(o, fi + 1) # 0) /\ (bitAggr' => bits' = Before(o, fi + 1))
    BY <2>1 DEF PassesOn
  <2>3. GroupAt(o)'
    BY <1>1, <2>2 DEF GroupAt
  <2> QED
    BY <1>1, <2>1, <2>3 DEF GroupOK
<1>4. PassedOK'
  <2>1. Generable(fields[fi])
    BY DEF PassesOn, Field
  <2> QED
    BY <1>1, <2>1 DEF PassedOK, IInv, Codec
<1> QED
  BY <1>1, <1>2, <1>3, <1>4 DEF IInv

LEMMA DeclaresInv == ASSUME IInv, Declares PROVE IInv'
<1>1. /\ walk' = walk /\ walk = "struct" /\ fields' = fields
      /\ fi' = fi + 1 /\ fi \in 1..Len(fields) /\ Len(fields) \in Nat
      /\ UNCHANGED <<hasTmp, bitAggr, bits>>
  BY Shape DEF Declares, IInv, At
<1>2. TypeOK'
  BY <1>1 DEF TypeOK, IInv
<1>3. GroupOK'
  BY <1>1 DEF GroupOK, GroupAt, Codec, IInv
<1>4. PassedOK'
  BY <1>1 DEF PassedOK, IInv, Declares, Field
<1> QED
  BY <1>1, <1>2, <1>3, <1>4 DEF IInv

LEMMA GivesUpInv == ASSUME IInv, GivesUp PROVE IInv'
<1>1. /\ walk' = "panic" /\ fields' = fields /\ fi' = fi /\ fi \in DOMAIN fields
      /\ UNCHANGED <<hasTmp, bitAggr, bits>>
  BY DEF GivesUp, At
<1>2. TypeOK'
  BY <1>1 DEF TypeOK, IInv, Walks
<1>3. GroupOK'
  BY <1>1 DEF GroupOK, GroupAt, Codec, IInv
<1>4. Field' = Field
  BY <1>1 DEF Field
<1>5. PassedOK'
  BY <1>1, <1>4 DEF PassedOK, GivesUp
<1> QED
  BY <1>1, <1>2, <1>3, <1>5 DEF IInv

LEMMA TurnsInv == ASSUME IInv, Turns PROVE IInv'
<1>1. /\ fi = Len(fields) + 1 /\ fi' = 1 /\ fields' = fields
      /\ hasTmp' = FALSE /\ bitAggr' = FALSE /\ bits' = 0
      /\ Len(fields) \in Nat /\ DOMAIN fields = 1..Len(fields)
  BY Shape DEF Turns, StartWalk, IInv
<1>2. \/ walk = "struct" /\ walk' = "encode"
      \/ walk = "encode" /\ walk' = "decode"
      \/ walk = "decode" /\ walk' = "done"
  BY DEF Turns, StartWalk
<1>3. TypeOK'
  <2>1. hasTmp' \in BOOLEAN /\ bitAggr' \in BOOLEAN
    BY <1>1
  <2>2. Walks' = Walks /\ walk' \in Walks /\ walk' # "panic"
    BY <1>2 DEF Walks
  <2>3. fi' \in 1..Len(fields') + 1 /\ bits' \in 0..8
    BY <1>1
  <2> QED
    BY <2>1, <2>2, <2>3 DEF TypeOK
<1>4. GroupOK'
  BY <1>1 DEF GroupOK, GroupAt, IInv, Before
<1>5. PassedOK'
  BY <1>1, <1>2 DEF PassedOK, IInv
<1> QED
  BY <1>1, <1>3, <1>4, <1>5 DEF IInv

LEMMA Inductive == ASSUME IInv, [Next]_vars PROVE IInv'
<1>1. CASE Next
  BY <1>1, NextKinds, PassesInv, DeclaresInv, GivesUpInv, TurnsInv
<1>2. CASE UNCHANGED vars
  BY <1>2 DEF vars, IInv, TypeOK, GroupOK, GroupAt, PassedOK, Field
<1> QED
  BY <1>1, <1>2

LEMMA Invariance == Spec => []IInv
<1>1. Init => IInv
  BY InitInv
<1>2. IInv /\ [Next]_vars => IInv'
  BY Inductive
<1> QED
  BY <1>1, <1>2, PTL DEF Spec

-----------------------------------------------------------------------------
(* The generator's walks stay within the fields and within one byte.       *)
THEOREM TypeCorrect == Spec => []TypeOK
<1>1. IInv => TypeOK
  BY DEF IInv
<1> QED
  BY <1>1, Invariance, PTL

(* Whatever accepted message the generator is given, it stops early only   *)
(* at a field whose type no code can be written for, and never in the bit  *)
(* assembly (doPanic "bit assemble mode error").                           *)
THEOREM PanicsAreTyped == Spec => []PanicIsTyped
<1>1. IInv => PanicIsTyped
  BY DEF IInv, PassedOK, PanicIsTyped
<1> QED
  BY <1>1, Invariance, PTL

-----------------------------------------------------------------------------
(* Both codec walks implement ByteLayout.                                  *)

Off(w) == IF walk = w /\ bitAggr THEN bits ELSE 0
Placed(w) == IF walk = w THEN fi - 1 ELSE 0

(* A field a codec walk passes is put in the byte under construction, or,  *)
(* at a byte boundary, in bytes of its own.                                *)
LEMMA PassesPuts ==
  ASSUME IInv, PassesOn
  PROVE  \/ /\ ~bitAggr /\ ~bitAggr'
         \/ \E n \in 1..7 : LET before == IF bitAggr THEN bits ELSE 0
                            IN  /\ before + n <= 8
                                /\ (IF bitAggr' THEN bits' ELSE 0) = (before + n) % 8
<1>1. walk \in Codec /\ fi \in DOMAIN fields
  BY DEF PassesOn
<1>2. PICK o \in [1..Len(fields) -> 0..7] : LaidOutBy(fields, o) /\ GroupAt(o)
  BY DEF IInv, GroupOK
<1> DEFINE after == Before(o, fi + 1)
<1>3. (bitAggr' <=> after # 0) /\ (bitAggr' => bits' = after)
  BY <1>2 DEF PassesOn
<1>4. (IF bitAggr' THEN bits' ELSE 0) = after
  BY <1>3
<1>5. /\ bitAggr => after = (bits + Bits(Type)) % 8
      /\ ~bitAggr => after = IF IsBitType(Type) THEN Bits(Type) ELSE 0
  BY <1>1, <1>2, AtField
<1>6. CASE bitAggr
  BY <1>1, <1>4, <1>5, <1>6, AtOpen
<1>7. CASE ~bitAggr /\ IsBitType(Type)
  <2>1. Bits(Type) \in 1..7 /\ (0 + Bits(Type)) % 8 = Bits(Type)
    BY <1>7, BitsRange
  <2> QED
    BY <1>4, <1>5, <1>7, <2>1
<1>8. CASE ~bitAggr /\ ~IsBitType(Type)
  BY <1>3, <1>5, <1>8
<1> QED
  BY <1>6, <1>7, <1>8

LEMMA StepPuts ==
  ASSUME IInv, [Next]_vars, NEW w \in Codec
  PROVE  \/ \E n \in 1..7 : /\ Off(w) + n <= 8
                            /\ Off(w)' = (Off(w) + n) % 8
                            /\ Placed(w)' = Placed(w) + 1
         \/ Off(w) = 0 /\ Off(w)' = 0 /\ Placed(w)' = Placed(w) + 1
         \/ Off(w)' = 0 /\ Placed(w)' = 0
         \/ UNCHANGED <<Off(w), Placed(w)>>
<1>1. CASE PassesOn
  <2>1. walk' = walk /\ fi' = fi + 1 /\ fi \in Int
    BY <1>1, Shape DEF PassesOn, IInv, TypeOK
  <2>2. CASE walk = w
    <3>1. Placed(w)' = Placed(w) + 1
      BY <2>1, <2>2 DEF Placed
    <3>2. /\ Off(w) = IF bitAggr THEN bits ELSE 0
          /\ Off(w)' = IF bitAggr' THEN bits' ELSE 0
      BY <2>1, <2>2 DEF Off
    <3> QED
      BY <1>1, <3>1, <3>2, PassesPuts
  <2>3. CASE walk # w
    BY <2>1, <2>3 DEF Off, Placed
  <2> QED
    BY <2>2, <2>3
<1>2. CASE Declares
  BY <1>2 DEF Declares, At, Off, Placed, Codec
<1>3. CASE GivesUp
  BY <1>3 DEF GivesUp, Off, Placed, Codec
<1>4. CASE Turns
  BY <1>4 DEF Turns, StartWalk, Off, Placed
<1>5. CASE UNCHANGED vars
  BY <1>5 DEF vars, Off, Placed
<1> QED
  BY <1>1, <1>2, <1>3, <1>4, <1>5, NextKinds

(* The encoder's generator lays the fields of every accepted message out   *)
(* as ByteLayout says: no field straddles two bytes and what is made of    *)
(* whole bytes starts at a byte boundary.                                  *)
THEOREM EncoderLaysOut == Spec => EncodeLayoutSpec
<1>1. Init => EncodeLayout!Init
  BY DEF Init, EncodeLayout!Init
<1>2. IInv /\ [Next]_vars => [EncodeLayout!Next]_EncodeLayout!vars
  BY StepPuts DEF Codec, Off, Placed, EncodeLayout!Next, EncodeLayout!PutBits,
       EncodeLayout!PutBytes, EncodeLayout!NewMessage, EncodeLayout!vars
<1> QED
  BY <1>1, <1>2, Invariance, PTL DEF Spec, EncodeLayoutSpec, EncodeLayout!Spec

(* So does the decoder's, with its own copy of the bit counters: what it   *)
(* reads starts where the encoder put it.                                  *)
THEOREM DecoderLaysOut == Spec => DecodeLayoutSpec
<1>1. Init => DecodeLayout!Init
  BY DEF Init, DecodeLayout!Init
<1>2. IInv /\ [Next]_vars => [DecodeLayout!Next]_DecodeLayout!vars
  BY StepPuts DEF Codec, Off, Placed, DecodeLayout!Next, DecodeLayout!PutBits,
       DecodeLayout!PutBytes, DecodeLayout!NewMessage, DecodeLayout!vars
<1> QED
  BY <1>1, <1>2, Invariance, PTL DEF Spec, DecodeLayoutSpec, DecodeLayout!Spec

-----------------------------------------------------------------------------
(* Selecting statements.                                                   *)

(* g[k] is what is selected from the first k statements of code.           *)
Selects(g, ops, code) ==
  /\ g[0] = <<>>
  /\ \A k \in 1..Len(code) :
       g[k] = IF code[k].op \in ops THEN Append(g[k-1], code[k]) ELSE g[k-1]

LEMMA OfSelects ==
  ASSUME NEW ops, NEW code, Len(code) \in Nat
  PROVE  \E g : Selects(g, ops, code) /\ Of(ops, code) = g[Len(code)]
<1> DEFINE Step(g, k) == IF k = 0 THEN <<>>
                         ELSE IF code[k].op \in ops THEN Append(g[k-1], code[k]) ELSE g[k-1]
           T == {n \in Nat : \E g : g = [k \in 0..n |-> Step(g, k)]}
<1>1. 0 \in T
  <2> DEFINE g == [k \in 0..0 |-> <<>>]
  <2>1. g = [k \in 0..0 |-> Step(g, k)]
    OBVIOUS
  <2> QED
    BY <2>1
<1>2. ASSUME NEW n \in Nat, n \in T PROVE n + 1 \in T
  <2>1. PICK g : g = [k \in 0..n |-> Step(g, k)]
    BY <1>2
  <2> DEFINE h == [k \in 0..n+1 |-> IF k = n + 1 THEN Step(g, k) ELSE g[k]]
  <2>2. ASSUME NEW k \in 0..n+1 PROVE h[k] = Step(h, k)
    <3>1. k # 0 => h[k-1] = g[k-1]
      OBVIOUS
    <3>2. Step(h, k) = Step(g, k)
      BY <3>1
    <3>3. k # n + 1 => g[k] = Step(g, k)
      <4> HIDE DEF Step, h
      <4> QED
        BY <2>1
    <3> QED
      BY <3>2, <3>3
  <2>3. h = [k \in 0..n+1 |-> Step(h, k)]
    <3>1. h = [k \in 0..n+1 |-> h[k]]
      OBVIOUS
    <3> HIDE DEF h, Step
    <3> QED
      BY <2>2, <3>1
  <2> HIDE DEF h, Step
  <2>4. \E f : f = [k \in 0..n+1 |-> Step(f, k)]
    BY <2>3
  <2> QED
    BY <2>4
<1>3. Len(code) \in T
  <2> HIDE DEF T
  <2> QED
    BY <1>1, <1>2, SetInduction
<1> DEFINE of == CHOOSE g : g = [k \in 0..Len(code) |-> Step(g, k)]
<1>4. of = [k \in 0..Len(code) |-> Step(of, k)]
  <2> HIDE DEF Step
  <2> QED
    BY <1>3
<1>5. Of(ops, code) = of[Len(code)]
  BY DEF Of
<1>6. Selects(of, ops, code)
  <2>1. \A k \in 0..Len(code) : of[k] = Step(of, k)
    <3> HIDE DEF Step, of
    <3> QED
      BY <1>4
  <2> HIDE DEF of
  <2> QED
    BY <2>1 DEF Selects
<1> QED
  BY <1>5, <1>6

(* Two selections from codes that begin alike begin alike.                 *)
LEMMA SelectsAgree ==
  ASSUME NEW ops, NEW s, NEW t, Len(s) \in Nat, Len(t) \in Nat, Len(s) <= Len(t),
         \A k \in 1..Len(s) : s[k] = t[k],
         NEW g, Selects(g, ops, s), NEW h, Selects(h, ops, t)
  PROVE  \A k \in 0..Len(s) : g[k] = h[k]
<1> DEFINE T == {n \in Nat : n <= Len(s) => g[n] = h[n]}
<1>1. 0 \in T
  BY DEF Selects
<1>2. ASSUME NEW n \in Nat, n \in T PROVE n + 1 \in T
  <2>1. SUFFICES ASSUME n + 1 <= Len(s) PROVE g[n+1] = h[n+1]
    OBVIOUS
  <2>2. n + 1 \in 1..Len(s) /\ n + 1 \in 1..Len(t) /\ (n + 1) - 1 = n
    BY <2>1
  <2>3. g[n] = h[n] /\ s[n+1] = t[n+1]
    BY <1>2, <2>1, <2>2
  <2> QED
    BY <2>2, <2>3 DEF Selects
<1>3. Nat \subseteq T
  <2> HIDE DEF T
  <2> QED
    BY <1>1, <1>2, SetInduction
<1> QED
  BY <1>3

LEMMA OfEmpty == ASSUME NEW ops PROVE Of(ops, <<>>) = <<>>
  BY OfSelects DEF Selects

LEMMA OfAppend ==
  ASSUME NEW ops, NEW S, NEW s \in Seq(S), NEW x \in S
  PROVE  Of(ops, Append(s, x)) = IF x.op \in ops THEN Append(Of(ops, s), x) ELSE Of(ops, s)
<1> DEFINE t == Append(s, x)
           n == Len(s)
<1>1. /\ n \in Nat /\ Len(t) = n + 1 /\ t[n + 1] = x
      /\ \A k \in 1..n : s[k] = t[k]
  OBVIOUS
<1> HIDE DEF t
<1>2. PICK g : Selects(g, ops, s) /\ Of(ops, s) = g[n]
  BY <1>1, OfSelects
<1>3. PICK h : Selects(h, ops, t) /\ Of(ops, t) = h[n + 1]
  BY <1>1, OfSelects
<1>4. g[n] = h[n]
  <2>1. /\ Len(s) \in Nat /\ Len(t) \in Nat /\ Len(s) <= Len(t) /\ Len(s) \in 0..Len(s)
        /\ \A k \in 1..Len(s) : s[k] = t[k]
    BY <1>1
  <2>2. Selects(g, ops, s) /\ Selects(h, ops, t)
    BY <1>2, <1>3
  <2>3. \A k \in 0..Len(s) : g[k] = h[k]
    BY <2>1, <2>2, SelectsAgree
  <2> QED
    BY <2>1, <2>3
<1>5. n + 1 \in 1..Len(t) /\ (n + 1) - 1 = n
  BY <1>1
<1>6. h[n + 1] = IF x.op \in ops THEN Append(h[n], x) ELSE h[n]
  BY <1>1, <1>3, <1>5 DEF Selects
<1> QED
  BY <1>2, <1>3, <1>4, <1>6 DEF t

(* A text is a sequence of statements, whatever they are.                  *)
Text(s) == \E S : s \in Seq(S)

LEMMA TextEmpty == Text(<<>>)
<1>1. <<>> \in Seq({})
  OBVIOUS
<1> QED
  BY <1>1 DEF Text

LEMMA TextShape ==
  ASSUME NEW s, Text(s)
  PROVE  Len(s) \in Nat /\ DOMAIN s = 1..Len(s) /\ (s = <<>> <=> Len(s) = 0)
  BY DEF Text

LEMMA TextOf == ASSUME NEW ops, NEW s, Text(s) PROVE Text(Of(ops, s))
<1>1. PICK S : s \in Seq(S)
  BY DEF Text
<1>2. PICK g : Selects(g, ops, s) /\ Of(ops, s) = g[Len(s)]
  BY <1>1, OfSelects
<1> DEFINE T == {n \in Nat : n <= Len(s) => g[n] \in Seq(S)}
<1>3. 0 \in T
  <2>1. g[0] = <<>> /\ <<>> \in Seq(S)
    BY <1>2 DEF Selects
  <2> QED
    BY <2>1
<1>4. ASSUME NEW n \in Nat, n \in T PROVE n + 1 \in T
  <2>1. SUFFICES ASSUME n + 1 <= Len(s) PROVE g[n+1] \in Seq(S)
    OBVIOUS
  <2>2. n + 1 \in 1..Len(s) /\ (n + 1) - 1 = n /\ s[n+1] \in S
    BY <1>1, <2>1
  <2>3. g[n] \in Seq(S)
    BY <1>4, <2>1
  <2>4. g[n+1] = IF s[n+1].op \in ops THEN Append(g[n], s[n+1]) ELSE g[n]
    BY <1>2, <2>2 DEF Selects
  <2> QED
    BY <2>2, <2>3, <2>4
<1>5. Nat \subseteq T
  <2> HIDE DEF T
  <2> QED
    BY <1>3, <1>4, SetInduction
<1>6. Len(s) \in Nat /\ Len(s) <= Len(s)
  BY <1>1
<1>7. g[Len(s)] \in Seq(S)
  BY <1>5, <1>6
<1> QED
  BY <1>2, <1>7 DEF Text

(* One more statement.                                                     *)
LEMMA TextAppend ==
  ASSUME NEW s, Text(s), NEW x
  PROVE  /\ Text(Append(s, x)) /\ Append(s, x) # <<>>
         /\ Len(Append(s, x)) = Len(s) + 1
         /\ Append(s, x)[Len(s) + 1] = x
         /\ \A k \in 1..Len(s) : Append(s, x)[k] = s[k]
         /\ \A ops : Of(ops, Append(s, x)) = IF x.op \in ops THEN Append(Of(ops, s), x) ELSE Of(ops, s)
<1>1. PICK S : s \in Seq(S)
  BY DEF Text
<1>2. s \in Seq(S \cup {x}) /\ x \in S \cup {x}
  BY <1>1
<1>3. Append(s, x) \in Seq(S \cup {x})
  BY <1>2
<1>4. \A ops : Of(ops, Append(s, x)) = IF x.op \in ops THEN Append(Of(ops, s), x) ELSE Of(ops, s)
  BY <1>2, OfAppend
<1>5. Append(s, x) # <<>>
  <2>1. Len(Append(s, x)) = Len(s) + 1 /\ Len(s) \in Nat
    BY <1>2
  <2>2. Len(<<>>) = 0
    OBVIOUS
  <2> QED
    BY <2>1, <2>2
<1> QED
  BY <1>2, <1>3, <1>4, <1>5 DEF Text

(* The statements an action writes, one after the other.                   *)
LEMMA Push ==
  ASSUME NEW s, Text(s), NEW x
  PROVE  s \o <<x>> = Append(s, x)
  BY DEF Text

LEMMA PushTwo ==
  ASSUME NEW s, Text(s), NEW x, NEW y
  PROVE  s \o <<x, y>> = Append(Append(s, x), y)
<1>1. PICK S : s \in Seq(S)
  BY DEF Text
<1> DEFINE A == S \cup {x, y}
<1>2. s \in Seq(A) /\ x \in A /\ y \in A
  BY <1>1
<1> HIDE DEF A
<1> QED
  BY <1>2

LEMMA PushThree ==
  ASSUME NEW s, Text(s), NEW x, NEW y, NEW z
  PROVE  s \o <<x, y, z>> = Append(Append(Append(s, x), y), z)
<1>1. PICK S : s \in Seq(S)
  BY DEF Text
<1> DEFINE A == S \cup {x, y, z}
<1>2. s \in Seq(A) /\ x \in A /\ y \in A /\ z \in A
  BY <1>1
<1> HIDE DEF A
<1> QED
  BY <1>2

LEMMA PushMore ==
  ASSUME NEW s, Text(s), NEW b, Text(b), NEW c, Text(c)
  PROVE  s \o (b \o c) = (s \o b) \o c
<1>1. PICK S : s \in Seq(S)
  BY DEF Text
<1>2. PICK B : b \in Seq(B)
  BY DEF Text
<1>3. PICK C : c \in Seq(C)
  BY DEF Text
<1> DEFINE A == S \cup B \cup C
<1>4. s \in Seq(A) /\ b \in Seq(A) /\ c \in Seq(A)
  BY <1>1, <1>2, <1>3
<1> HIDE DEF A
<1> QED
  BY <1>4

LEMMA PushNothing ==
  ASSUME NEW s, Text(s)
  PROVE  s \o <<>> = s /\ <<>> \o s = s
  BY DEF Text

LEMMA Tuples ==
  ASSUME NEW x, NEW y, NEW z
  PROVE  Text(<<x>>) /\ Text(<<x, y>>) /\ Text(<<x, y, z>>)
<1>1. <<x>> \in Seq({x, y, z}) /\ <<x, y>> \in Seq({x, y, z}) /\ <<x, y, z>> \in Seq({x, y, z})
  OBVIOUS
<1> QED
  BY <1>1 DEF Text

LEMMA Pair == ASSUME NEW x, NEW y PROVE <<x>> \o <<y>> = <<x, y>>
<1>1. <<x>> \o <<y>> = Append(<<x>>, y)
  <2>1. Text(<<x>>)
    BY Tuples
  <2> QED
    BY <2>1, Push
<1>2. <<x>> = Append(<<>>, x)
  <2>1. Text(<<x>>) /\ Text(<<>>)
    BY Tuples, TextEmpty
  <2>2. <<>> \o <<x>> = <<x>> /\ <<>> \o <<x>> = Append(<<>>, x)
    BY <2>1, PushNothing, Push
  <2> QED
    BY <2>2
<1>3. <<x, y>> = Append(Append(<<>>, x), y)
  <2>1. Text(<<x, y>>) /\ Text(<<>>)
    BY Tuples, TextEmpty
  <2>2. <<>> \o <<x, y>> = <<x, y>>
    BY <2>1, PushNothing
  <2>3. <<>> \o <<x, y>> = Append(Append(<<>>, x), y)
    BY <2>1, PushTwo
  <2> QED
    BY <2>2, <2>3
<1> QED
  BY <1>1, <1>2, <1>3

(* A block of statements and what may follow it.                           *)
LEMMA PushOneMore ==
  ASSUME NEW s, Text(s), NEW x, NEW e, Text(e)
  PROVE  s \o (<<x>> \o e) = Append(s, x) \o e
<1> DEFINE b == <<x>>
<1>1. Text(b)
  BY Tuples
<1>2. s \o b = Append(s, x)
  BY Push
<1> HIDE DEF b
<1>3. s \o (b \o e) = (s \o b) \o e
  BY <1>1, PushMore
<1> QED
  BY <1>2, <1>3 DEF b

LEMMA PushThreeMore ==
  ASSUME NEW s, Text(s), NEW x, NEW y, NEW z, NEW e, Text(e)
  PROVE  s \o (<<x, y, z>> \o e) = Append(Append(Append(s, x), y), z) \o e
<1> DEFINE b == <<x, y, z>>
<1>1. Text(b)
  BY Tuples
<1>2. s \o b = Append(Append(Append(s, x), y), z)
  BY PushThree
<1> HIDE DEF b
<1>3. s \o (b \o e) = (s \o b) \o e
  BY <1>1, PushMore
<1> QED
  BY <1>2, <1>3 DEF b

-----------------------------------------------------------------------------
(* What both codecs do to tmp.                                             *)

Open(code) == LET c == Spans(code) IN c # <<>> /\ IsSpan(c[Len(c)]) /\ c[Len(c)].sh > 0

(* The statement a text ends with.                                         *)
EndOf(code) == StmtAt(Spans(code), Len(Spans(code)))

(* Every statement stands where it may, whatever comes next.               *)
StandsRight(codec, code) ==
  LET c == Spans(code)
  IN  \A k \in DOMAIN c : Follows(codec, StmtAt(c, k-1), c[k])

WellKept(codec, code) == Text(code) /\ StandsRight(codec, code) /\ DeclaredOnce(code)

(* A text that may end here.                                               *)
Ended(codec, code) == WellKept(codec, code) /\ Follows(codec, EndOf(code), Edge)

(* The code under way: the group the generator holds open, with used bits, *)
(* is the span the text ends with, and tmp is there if the generator       *)
(* believes it is.                                                         *)
Writing(codec, code, open, used, tmp) ==
  /\ Ended(codec, code)
  /\ open <=> Open(code)
  /\ open => EndOf(code).sh = 8 - used
  /\ tmp <=> Of({"tmp"}, code) # <<>>

TextInv ==
  /\ walk = "struct" => encoder = <<>> /\ decoder = <<>>
  /\ walk = "encode" => Writing("encode", encoder, bitAggr, bits, hasTmp) /\ decoder = <<>>
  /\ walk = "decode" => Ended("encode", encoder) /\ Writing("decode", decoder, bitAggr, bits, hasTmp)
  /\ walk \in {"done", "panic"} => Ended("encode", encoder) /\ Ended("decode", decoder)

LEMMA EdgeIs == Edge.op = "edge" /\ ~IsSpan(Edge)
  BY DEF Edge, IsSpan

LEMMA SoundEmpty ==
  ASSUME NEW codec \in Codec
  PROVE  Ended(codec, <<>>) /\ ~Open(<<>>) /\ Of({"tmp"}, <<>>) = <<>>
<1>1. Spans(<<>>) = <<>> /\ Of({"tmp"}, <<>>) = <<>>
  BY OfEmpty DEF Spans
<1>2. DOMAIN <<>> = {}
  OBVIOUS
<1>3. StandsRight(codec, <<>>)
  BY <1>1, <1>2 DEF StandsRight
<1>4. DeclaredOnce(<<>>)
  BY <1>1, <1>2 DEF DeclaredOnce
<1>5. ~Open(<<>>)
  BY <1>1 DEF Open
<1>6. EndOf(<<>>) = Edge
  BY <1>1, <1>2 DEF EndOf, StmtAt
<1>7. Follows(codec, Edge, Edge)
  BY EdgeIs DEF Follows
<1> QED
  BY <1>1, <1>3, <1>4, <1>5, <1>6, <1>7, TextEmpty DEF Ended, WellKept

LEMMA EmptyNotOpen == ~Open(<<>>)
  BY SoundEmpty DEF Codec

(* A text that is well kept and may end is what GroupsWhole asks for.      *)
LEMMA EndedIs ==
  ASSUME NEW codec, NEW code, Ended(codec, code)
  PROVE  SpansAdjacent(codec, code)
<1> DEFINE c == Spans(code)
           n == Len(c)
<1>1. Text(c)
  BY TextOf DEF Ended, WellKept, Spans
<1>2. n \in Nat /\ DOMAIN c = 1..n
  BY <1>1, TextShape
<1>3. \A k \in DOMAIN c : Follows(codec, StmtAt(c, k-1), c[k])
  BY DEF Ended, WellKept, StandsRight
<1>4. Follows(codec, StmtAt(c, n), Edge)
  BY DEF Ended, EndOf
<1> HIDE DEF c
<1>5. SUFFICES ASSUME NEW k \in 1..n+1 PROVE Follows(codec, StmtAt(c, k-1), StmtAt(c, k))
  BY DEF SpansAdjacent, c
<1>6. CASE k \in 1..n
  BY <1>2, <1>3, <1>6 DEF StmtAt
<1>7. CASE k = n + 1
  <2>1. k - 1 = n /\ k \notin DOMAIN c
    BY <1>2, <1>7
  <2>2. StmtAt(c, k) = Edge
    BY <2>1 DEF StmtAt
  <2> QED
    BY <1>4, <2>1, <2>2
<1> QED
  BY <1>2, <1>6, <1>7

(* A statement that is no part of the spans and does not clear tmp.        *)
LEMMA AddSilent ==
  ASSUME NEW codec, NEW code, WellKept(codec, code), NEW x, x.op = "equal"
  PROVE  /\ WellKept(codec, Append(code, x))
         /\ Spans(Append(code, x)) = Spans(code)
         /\ Of({"tmp"}, Append(code, x)) = Of({"tmp"}, code)
<1>1. x.op \notin SpanOps /\ x.op \notin {"tmp"}
  BY DEF SpanOps, UnitOps
<1>2. /\ Spans(Append(code, x)) = Spans(code)
      /\ Of({"tmp"}, Append(code, x)) = Of({"tmp"}, code)
      /\ Text(Append(code, x))
  BY <1>1, TextAppend DEF Spans, WellKept
<1> QED
  BY <1>2 DEF WellKept, StandsRight, DeclaredOnce

(* A statement of the spans fits behind those before it, tmp is declared   *)
(* the first time it is cleared.                                           *)
LEMMA AddSpan ==
  ASSUME NEW codec, NEW code, WellKept(codec, code), NEW x, x.op \in SpanOps, Follows(codec, EndOf(code), x),
         x.op = "tmp" => (x.decl <=> Of({"tmp"}, code) = <<>>)
  PROVE  LET d == Append(code, x)
         IN  /\ WellKept(codec, d)
             /\ EndOf(d) = x
             /\ Open(d) <=> IsSpan(x) /\ x.sh > 0
             /\ Of({"tmp"}, d) = IF x.op = "tmp" THEN Append(Of({"tmp"}, code), x) ELSE Of({"tmp"}, code)
<1> DEFINE c == Spans(code)
           d == Append(code, x)
           e == Append(c, x)
           n == Len(c)
           t == Of({"tmp"}, code)
<1>1. /\ Text(code) /\ StandsRight(codec, code) /\ DeclaredOnce(code)
      /\ Text(c) /\ Text(t)
  BY TextOf DEF WellKept, Spans
<1>2. /\ Text(d) /\ Spans(d) = e
      /\ Of({"tmp"}, d) = IF x.op = "tmp" THEN Append(t, x) ELSE t
  <2>1. Text(d) /\ Spans(d) = IF x.op \in SpanOps THEN e ELSE c
    BY <1>1, TextAppend DEF Spans
  <2>2. Of({"tmp"}, d) = IF x.op \in {"tmp"} THEN Append(t, x) ELSE t
    BY <1>1, TextAppend
  <2> QED
    BY <2>1, <2>2
<1>0. /\ \A k \in DOMAIN c : Follows(codec, StmtAt(c, k-1), c[k])
      /\ Follows(codec, StmtAt(c, n), x)
  BY <1>1 DEF StandsRight, EndOf
<1> HIDE DEF c, t, d, e
<1>3. /\ n \in Nat /\ DOMAIN c = 1..n /\ (c = <<>> <=> n = 0)
      /\ Text(e) /\ Len(e) = n + 1 /\ e[n + 1] = x
      /\ \A k \in 1..n : e[k] = c[k]
  BY <1>1, TextShape, TextAppend DEF e
<1>4. DOMAIN e = 1..n+1 /\ e # <<>> /\ e[Len(e)] = x
  BY <1>3, TextShape
<1>5. Open(d) <=> IsSpan(x) /\ x.sh > 0
  BY <1>2, <1>4 DEF Open
<1>6. EndOf(d) = x
  <2>1. n + 1 \in DOMAIN e /\ Len(e) = n + 1
    BY <1>3, <1>4
  <2> QED
    BY <1>2, <1>4, <2>1 DEF EndOf, StmtAt
<1>7. StandsRight(codec, d)
  <2>1. ASSUME NEW k \in 0..n PROVE StmtAt(e, k) = StmtAt(c, k)
    <3>1. k \in DOMAIN e <=> k \in DOMAIN c
      BY <1>3, <1>4
    <3>2. k \in DOMAIN c => e[k] = c[k]
      BY <1>3
    <3> QED
      BY <3>1, <3>2 DEF StmtAt
  <2>2. SUFFICES ASSUME NEW k \in 1..n+1 PROVE Follows(codec, StmtAt(e, k-1), e[k])
    BY <1>2, <1>4 DEF StandsRight
  <2>3. k - 1 \in 0..n /\ StmtAt(e, k-1) = StmtAt(c, k-1)
    BY <1>3, <2>1
  <2>4. CASE k \in 1..n
    BY <1>0, <1>3, <2>3, <2>4
  <2>5. CASE k = n + 1
    <3>1. k - 1 = n /\ e[k] = x
      BY <1>3, <2>5
    <3> QED
      BY <1>0, <2>3, <3>1
  <2> QED
    BY <1>3, <2>4, <2>5
<1>8. DeclaredOnce(d)
  <2>1. CASE x.op # "tmp"
    BY <1>1, <1>2, <2>1 DEF DeclaredOnce, t
  <2>2. CASE x.op = "tmp"
    <3> DEFINE u == Append(t, x)
               m == Len(t)
    <3>1. /\ m \in Nat /\ DOMAIN t = 1..m /\ (t = <<>> <=> m = 0)
          /\ Text(u) /\ Len(u) = m + 1 /\ u[m + 1] = x
          /\ \A k \in 1..m : u[k] = t[k]
      BY <1>1, TextShape, TextAppend
    <3>2. DOMAIN u = 1..m+1 /\ Of({"tmp"}, d) = u
      BY <1>2, <2>2, <3>1, TextShape
    <3> HIDE DEF u
    <3>3. ASSUME NEW k \in 1..m+1 PROVE u[k].decl <=> k = 1
      <4>1. CASE k \in 1..m
        BY <1>1, <3>1, <4>1 DEF DeclaredOnce, t
      <4>2. CASE k = m + 1
        BY <2>2, <3>1, <4>2 DEF t
      <4> QED
        BY <4>1, <4>2
    <3> QED
      BY <3>2, <3>3 DEF DeclaredOnce
  <2> QED
    BY <2>1, <2>2
<1>9. WellKept(codec, d)
  BY <1>2, <1>7, <1>8 DEF WellKept
<1> QED
  BY <1>2, <1>5, <1>6, <1>9 DEF c, d, e, t

(* What a text ends with decides whether a group is open.                  *)
LEMMA OpenFinal ==
  ASSUME NEW code, Text(code)
  PROVE  Open(code) <=> IsSpan(EndOf(code)) /\ EndOf(code).sh > 0
<1> DEFINE c == Spans(code)
<1>1. Text(c)
  BY TextOf DEF Spans
<1> HIDE DEF c
<1>2. Len(c) \in Nat /\ DOMAIN c = 1..Len(c) /\ (c = <<>> <=> Len(c) = 0)
  BY <1>1, TextShape
<1>3. CASE c = <<>>
  <2>1. Len(c) \notin DOMAIN c
    BY <1>2, <1>3
  <2> QED
    BY <1>3, <2>1, EdgeIs DEF EndOf, StmtAt, Open, c
<1>4. CASE c # <<>>
  <2>1. Len(c) \in DOMAIN c
    BY <1>2, <1>4
  <2> QED
    BY <1>4, <2>1 DEF EndOf, StmtAt, Open, c
<1> QED
  BY <1>3, <1>4

(* A further field of the open group.                                      *)
Extended(codec, code, f, n, tmp) ==
  LET x == BitsUnit(f, 8 - n)
      d == Append(code, x)
  IN  /\ WellKept(codec, d) /\ EndOf(d) = x /\ IsSpan(x)
      /\ Open(d) <=> n < 8
      /\ x.sh = 8 - n
      /\ tmp <=> Of({"tmp"}, d) # <<>>

LEMMA WriteSpan ==
  ASSUME NEW codec \in Codec, NEW code, NEW was, was, NEW used \in 1..7, NEW tmp \in BOOLEAN,
         Writing(codec, code, was, used, tmp),
         NEW f, Bits(f.type) \in 1..7, used + Bits(f.type) <= 8
  PROVE  Extended(codec, code, f, used + Bits(f.type), tmp)
<1> DEFINE n == used + Bits(f.type)
           x == BitsUnit(f, 8 - n)
<1>1. /\ x.op = "bits" /\ x.w = Bits(f.type) /\ x.sh = 8 - n
      /\ IsSpan(x) /\ x.op \in SpanOps /\ x.op # "tmp"
  BY DEF BitsUnit, IsSpan, SpanOps, UnitOps
<1>2. /\ WellKept(codec, code) /\ Open(code) /\ EndOf(code).sh = 8 - used
      /\ tmp <=> Of({"tmp"}, code) # <<>>
  BY DEF Writing, Ended
<1>3. x.sh + x.w = 8 - used /\ (x.sh > 0 <=> n < 8)
  BY <1>1
<1>4. IsSpan(EndOf(code)) /\ EndOf(code).sh > 0
  BY <1>2, OpenFinal DEF WellKept
<1> HIDE DEF x, n
<1>5. Follows(codec, EndOf(code), x)
  <2>1. EndOf(code).op = "bits" /\ x.op = "bits"
    BY <1>1, <1>4 DEF IsSpan
  <2>2. EndOf(code).sh # 0
    BY <1>4
  <2> QED
    BY <1>1, <1>2, <1>3, <1>4, <2>1, <2>2 DEF Follows
<1> DEFINE d == Append(code, x)
<1>6. /\ WellKept(codec, d) /\ (Open(d) <=> x.sh > 0)
      /\ EndOf(d) = x
      /\ Of({"tmp"}, d) = Of({"tmp"}, code)
  BY <1>1, <1>2, <1>5, AddSpan
<1> HIDE DEF d
<1>7. /\ WellKept(codec, d) /\ EndOf(d) = x /\ IsSpan(x) /\ (Open(d) <=> n < 8)
      /\ x.sh = 8 - n /\ (tmp <=> Of({"tmp"}, d) # <<>>)
  BY <1>1, <1>2, <1>3, <1>6
<1>8. Extended(codec, code, f, n, tmp)
  BY <1>7 DEF d, x, Extended
<1> QED
  BY <1>8 DEF n

(* The encoder goes on after a span that leaves the byte open, the decoder *)
(* after any.                                                              *)
LEMMA WriteBits ==
  ASSUME NEW codec \in Codec, NEW code, NEW was, was, NEW used \in 1..7, NEW tmp \in BOOLEAN,
         Writing(codec, code, was, used, tmp),
         NEW f, Bits(f.type) \in 1..7, used + Bits(f.type) <= 8,
         NEW open \in BOOLEAN, open <=> used + Bits(f.type) < 8, codec = "decode" \/ open
  PROVE  Writing(codec, Append(code, BitsUnit(f, 8 - (used + Bits(f.type)))), open, used + Bits(f.type), tmp)
<1> DEFINE n == used + Bits(f.type)
           x == BitsUnit(f, 8 - n)
           d == Append(code, x)
<1>0. Extended(codec, code, f, n, tmp)
  BY WriteSpan
<1>1. /\ WellKept(codec, d) /\ EndOf(d) = x /\ IsSpan(x) /\ (Open(d) <=> n < 8)
      /\ x.sh = 8 - n /\ (tmp <=> Of({"tmp"}, d) # <<>>)
  BY <1>0 DEF Extended
<1>2. open => x.sh # 0
  BY <1>1
<1>3. x.op = "bits"
  BY <1>1 DEF IsSpan
<1> HIDE DEF n, x, d
<1>4. Follows(codec, x, Edge)
  BY <1>2, <1>3, EdgeIs DEF Follows, Codec
<1>5. Writing(codec, d, open, n, tmp)
  BY <1>1, <1>4 DEF Writing, Ended, n
<1> QED
  BY <1>5 DEF d, n, x

(* ... and writes out the byte a span has filled.                          *)
LEMMA WriteByte ==
  ASSUME NEW code, NEW was, was, NEW used \in 1..7, NEW tmp \in BOOLEAN,
         Writing("encode", code, was, used, tmp),
         NEW f, Bits(f.type) \in 1..7, used + Bits(f.type) = 8, NEW v
  PROVE  Writing("encode", Append(Append(code, BitsUnit(f, 8 - (used + Bits(f.type)))), TmpByte(v)),
                 FALSE, used + Bits(f.type), tmp)
<1> DEFINE n == used + Bits(f.type)
           x == BitsUnit(f, 8 - n)
           d == Append(code, x)
           y == TmpByte(v)
<1>0. "encode" \in Codec /\ n <= 8 /\ n = 8
  BY DEF Codec
<1>1. /\ WellKept("encode", d) /\ EndOf(d) = x /\ IsSpan(x)
      /\ x.sh = 8 - n /\ (tmp <=> Of({"tmp"}, d) # <<>>)
  <2>1. Extended("encode", code, f, n, tmp)
    BY <1>0, WriteSpan
  <2> QED
    BY <2>1 DEF Extended
<1>2. x.sh = 0 /\ x.op = "bits"
  BY <1>0, <1>1 DEF IsSpan
<1>3. y.op = "byte" /\ y.op \in SpanOps /\ ~IsSpan(y)
  BY DEF TmpByte, SpanOps, IsSpan
<1> HIDE DEF n, x, d, y
<1>4. Follows("encode", x, y)
  BY <1>1, <1>2, <1>3 DEF Follows
<1>5. /\ WellKept("encode", Append(d, y)) /\ EndOf(Append(d, y)) = y /\ ~Open(Append(d, y))
      /\ Of({"tmp"}, Append(d, y)) = Of({"tmp"}, d)
  BY <1>1, <1>3, <1>4, AddSpan
<1>6. Follows("encode", y, Edge)
  BY <1>3, EdgeIs DEF Follows
<1>7. Writing("encode", Append(d, y), FALSE, n, tmp)
  BY <1>1, <1>5, <1>6 DEF Writing, Ended
<1> QED
  BY <1>7 DEF d, n, x, y

(* tmp is cleared for a new group ...                                      *)
Primed(codec, op, code) ==
  /\ WellKept(codec, code) /\ EndOf(code).op = op
  /\ Of({"tmp"}, code) # <<>>

LEMMA WriteClear ==
  ASSUME NEW codec \in Codec, NEW code, NEW open, ~open, NEW used, NEW tmp \in BOOLEAN,
         Writing(codec, code, open, used, tmp)
  PROVE  Primed(codec, "tmp", Append(code, ClearTmp(tmp)))
<1> DEFINE x == ClearTmp(tmp)
           d == Append(code, x)
<1>1. x.op = "tmp" /\ (x.decl <=> ~tmp) /\ x.op \in SpanOps /\ ~IsSpan(x)
  BY DEF ClearTmp, SpanOps, IsSpan
<1>2. /\ WellKept(codec, code) /\ Follows(codec, EndOf(code), Edge) /\ ~Open(code)
      /\ tmp <=> Of({"tmp"}, code) # <<>>
  BY DEF Writing, Ended
<1>3. ~(IsSpan(EndOf(code)) /\ EndOf(code).sh > 0)
  BY <1>2, OpenFinal DEF WellKept
<1> HIDE DEF x
<1>4. Follows(codec, EndOf(code), x)
  BY <1>1, <1>2, <1>3, EdgeIs DEF Follows
<1>5. x.decl <=> Of({"tmp"}, code) = <<>>
  BY <1>1, <1>2
<1>6. /\ WellKept(codec, d) /\ EndOf(d) = x
      /\ Of({"tmp"}, d) = Append(Of({"tmp"}, code), x)
  BY <1>1, <1>2, <1>4, <1>5, AddSpan
<1>7. Of({"tmp"}, d) # <<>>
  <2>1. Text(Of({"tmp"}, code))
    BY <1>2, TextOf DEF WellKept
  <2>2. Append(Of({"tmp"}, code), x) # <<>>
    BY <2>1, TextAppend
  <2> QED
    BY <1>6, <2>2
<1>8. Primed(codec, "tmp", d)
  BY <1>1, <1>6, <1>7 DEF Primed
<1> QED
  BY <1>8 DEF x

(* ... and the decoder reads it.                                           *)
LEMMA ReadByte ==
  ASSUME NEW code, Primed("decode", "tmp", code), NEW v
  PROVE  Primed("decode", "byte", Append(code, TmpByte(v)))
<1> DEFINE y == TmpByte(v)
           d == Append(code, y)
<1>1. y.op = "byte" /\ y.op \in SpanOps /\ ~IsSpan(y)
  BY DEF TmpByte, SpanOps, IsSpan
<1>2. /\ WellKept("decode", code) /\ EndOf(code).op = "tmp" /\ Of({"tmp"}, code) # <<>>
      /\ ~IsSpan(EndOf(code))
  BY DEF Primed, IsSpan
<1> HIDE DEF y
<1>3. Follows("decode", EndOf(code), y)
  BY <1>1, <1>2 DEF Follows
<1>4. WellKept("decode", d) /\ EndOf(d) = y /\ Of({"tmp"}, d) = Of({"tmp"}, code)
  BY <1>1, <1>2, <1>3, AddSpan
<1>5. Primed("decode", "byte", d)
  BY <1>1, <1>2, <1>4 DEF Primed
<1> QED
  BY <1>5 DEF y

LEMMA WriteFirst ==
  ASSUME NEW codec \in Codec, NEW code, Primed(codec, IF codec = "encode" THEN "tmp" ELSE "byte", code),
         NEW f, Bits(f.type) \in 1..7
  PROVE  \A open, tmp : open /\ tmp =>
           Writing(codec, Append(code, BitsUnit(f, 8 - Bits(f.type))), open, Bits(f.type), tmp)
<1> DEFINE x == BitsUnit(f, 8 - Bits(f.type))
           d == Append(code, x)
<1>1. /\ x.op = "bits" /\ x.w = Bits(f.type) /\ x.sh = 8 - Bits(f.type)
      /\ IsSpan(x) /\ x.op \in SpanOps /\ x.op # "tmp"
  BY DEF BitsUnit, IsSpan, SpanOps, UnitOps
<1>2. x.sh + x.w = 8 /\ x.sh > 0 /\ x.sh # 0
  BY <1>1
<1>3. /\ WellKept(codec, code) /\ EndOf(code).op = IF codec = "encode" THEN "tmp" ELSE "byte"
      /\ Of({"tmp"}, code) # <<>>
  BY DEF Primed
<1>4. ~IsSpan(EndOf(code)) /\ (codec = "decode" => EndOf(code).op = "byte")
  BY <1>3 DEF IsSpan, Codec
<1> HIDE DEF x
<1>5. Follows(codec, EndOf(code), x)
  BY <1>1, <1>2, <1>3, <1>4 DEF Follows, Codec
<1>6. /\ WellKept(codec, d) /\ Open(d) /\ EndOf(d) = x
      /\ Of({"tmp"}, d) = Of({"tmp"}, code)
  BY <1>1, <1>2, <1>3, <1>5, AddSpan
<1>7. Follows(codec, x, Edge)
  BY <1>1, <1>2, EdgeIs DEF Follows, Codec
<1> HIDE DEF d
<1>8. ASSUME NEW open, NEW tmp, open, tmp PROVE Writing(codec, d, open, Bits(f.type), tmp)
  BY <1>1, <1>3, <1>6, <1>7, <1>8 DEF Writing, Ended
<1> QED
  BY <1>8 DEF x, d

LEMMA WriteSilent ==
  ASSUME NEW codec, NEW code, NEW x, x.op = "equal",
         NEW open, NEW used, NEW tmp, Writing(codec, code, open, used, tmp)
  PROVE  Writing(codec, Append(code, x), open, used, tmp)
<1> DEFINE d == Append(code, x)
<1>1. WellKept(codec, d) /\ Spans(d) = Spans(code) /\ Of({"tmp"}, d) = Of({"tmp"}, code)
  BY AddSilent DEF Writing, Ended
<1> HIDE DEF d
<1>2. EndOf(d) = EndOf(code) /\ (Open(d) <=> Open(code))
  BY <1>1, Zenon DEF EndOf, Open
<1>3. Writing(codec, d, open, used, tmp)
  BY <1>1, <1>2, Zenon DEF Writing, Ended
<1> QED
  BY <1>3 DEF d

(* The statements of a field of whole bytes.                               *)
PlainOps == {"int", "msg", "bytes", "each", "if", "clamp", "most", "equal"}

Plains(b) == \/ \E x : b = <<x>> /\ x.op \in PlainOps
             \/ \E x, y : b = <<x, y>> /\ x.op \in PlainOps /\ y.op \in PlainOps

LEMMA WritePlain ==
  ASSUME NEW codec \in Codec, NEW code, NEW open, ~open, NEW used, NEW tmp,
         Writing(codec, code, open, used, tmp), NEW x, x.op \in PlainOps
  PROVE  Writing(codec, Append(code, x), open, used, tmp)
<1>1. CASE x.op = "equal"
  BY <1>1, WriteSilent
<1>2. CASE x.op # "equal"
  <2>1. x.op \in SpanOps /\ ~IsSpan(x) /\ x.op \notin {"tmp", "byte"}
    BY <1>2 DEF PlainOps, SpanOps, UnitOps, IsSpan
  <2>2. WellKept(codec, code) /\ Follows(codec, EndOf(code), Edge) /\ ~Open(code)
    BY DEF Writing, Ended
  <2>3. ~(IsSpan(EndOf(code)) /\ EndOf(code).sh > 0)
    BY <2>2, OpenFinal DEF WellKept
  <2>4. Follows(codec, EndOf(code), x)
    BY <2>1, <2>2, <2>3, EdgeIs DEF Follows
  <2>5. /\ WellKept(codec, Append(code, x)) /\ ~Open(Append(code, x)) /\ EndOf(Append(code, x)) = x
        /\ Of({"tmp"}, Append(code, x)) = Of({"tmp"}, code)
    BY <2>1, <2>2, <2>4, AddSpan
  <2>6. Follows(codec, x, Edge)
    BY <2>1, EdgeIs DEF Follows, Codec
  <2> QED
    BY <2>5, <2>6, Zenon DEF Writing, Ended
<1> QED
  BY <1>1, <1>2

LEMMA WritePlains ==
  ASSUME NEW codec \in Codec, NEW code, NEW open, ~open, NEW used, NEW tmp,
         Writing(codec, code, open, used, tmp), NEW b, Plains(b)
  PROVE  Writing(codec, code \o b, open, used, tmp)
<1>1. Text(code)
  BY DEF Writing, Ended, WellKept
<1>2. CASE \E x : b = <<x>> /\ x.op \in PlainOps
  <2>1. PICK x : b = <<x>> /\ x.op \in PlainOps
    BY <1>2
  <2>2. code \o b = Append(code, x)
    BY <1>1, <2>1, Push
  <2> QED
    BY <2>1, <2>2, WritePlain
<1>3. CASE \E x, y : b = <<x, y>> /\ x.op \in PlainOps /\ y.op \in PlainOps
  <2>1. PICK x, y : b = <<x, y>> /\ x.op \in PlainOps /\ y.op \in PlainOps
    BY <1>3
  <2>2. code \o b = Append(Append(code, x), y)
    BY <1>1, <2>1, PushTwo
  <2>3. Writing(codec, Append(code, x), open, used, tmp)
    BY <2>1, WritePlain
  <2> QED
    BY <2>1, <2>2, <2>3, WritePlain
<1> QED
  BY <1>2, <1>3 DEF Plains

-----------------------------------------------------------------------------
(* What each action writes.                                                *)

(* The span of a further field of the open group.                          *)
NextSpan == BitsUnit(Field, 8 - (bits + Bits(Type)))
FirstSpan == BitsUnit(Field, 8 - Bits(Type))
EqualOf(braces) == [op |-> "equal", f |-> Field.name, ref |-> Plain(Field.equ), braces |-> braces]

LEMMA PushEqual ==
  ASSUME NEW s, Text(s), NEW braces
  PROVE  /\ Text(Equal(Field, braces))
         /\ s \o Equal(Field, braces) = IF Field.equ = NoName THEN s ELSE Append(s, EqualOf(braces))
<1>1. CASE Field.equ = NoName
  <2>1. Equal(Field, braces) = <<>>
    BY <1>1 DEF Equal
  <2> QED
    BY <1>1, <2>1, PushNothing, TextEmpty
<1>2. CASE Field.equ # NoName
  <2> DEFINE x == EqualOf(braces)
  <2>1. Equal(Field, braces) = <<x>>
    BY <1>2 DEF Equal, EqualOf
  <2> HIDE DEF x
  <2>2. Text(<<x>>) /\ s \o <<x>> = Append(s, x)
    BY Tuples, Push
  <2>3. s \o Equal(Field, braces) = Append(s, x) /\ Text(Equal(Field, braces))
    BY <2>1, <2>2, Zenon
  <2> QED
    BY <1>2, <2>3 DEF x
<1> QED
  BY <1>1, <1>2

LEMMA EncodeBitsText ==
  ASSUME IInv, EncodeBits, Text(encoder)
  PROVE  /\ encoder' = IF bits + Bits(Type) = 8
                       THEN Append(Append(encoder, NextSpan), TmpByte(xorVar))
                       ELSE Append(encoder, NextSpan)
         /\ bits' = bits + Bits(Type) /\ (bitAggr' <=> bits + Bits(Type) < 8) /\ bitAggr' \in BOOLEAN
         /\ hasTmp' = hasTmp /\ UNCHANGED <<fields, walk, struct, decoder>> /\ fi' = fi + 1
         /\ xorVar' = IF bits + Bits(Type) = 8 THEN NoName ELSE xorVar
<1> DEFINE n == bits + Bits(Type)
<1>1. walk \in Codec /\ fi \in DOMAIN fields /\ bitAggr
  BY DEF EncodeBits, At, Codec
<1>2. IsIntType(Type) /\ n <= 8
  BY <1>1, AtOpen
<1>3. Fits(n)
  BY <1>2 DEF Fits
<1>4. /\ Write(<<BitsUnit(Field, 8 - n)>> \o FullByte(n))
      /\ EncodeGroup(n) /\ UNCHANGED hasTmp
      /\ fi' = fi + 1 /\ UNCHANGED <<fields, walk>>
  BY <1>3 DEF EncodeBits, Require
<1> HIDE DEF n
<1>5. bits' = n /\ xorVar' = IF n = 8 THEN NoName ELSE xorVar
  BY <1>4 DEF EncodeGroup
<1>6. (bitAggr' <=> n < 8) /\ bitAggr' \in BOOLEAN
  <2>1. bitAggr' = (n < 8)
    BY <1>4 DEF EncodeGroup
  <2>2. bitAggr' <=> n < 8
    BY <2>1
  <2>3. bitAggr' \in BOOLEAN
    BY <2>1
  <2> QED
    BY <2>2, <2>3
<1>7. encoder' = encoder \o (<<BitsUnit(Field, 8 - n)>> \o FullByte(n)) /\ UNCHANGED <<struct, decoder>>
  BY <1>4 DEF Write
<1> DEFINE x == BitsUnit(Field, 8 - n)
<1>8. encoder' = Append(encoder, x) \o FullByte(n)
  <2>1. Text(FullByte(n))
    BY Tuples, TextEmpty DEF FullByte
  <2> HIDE DEF x
  <2>2. encoder \o (<<x>> \o FullByte(n)) = Append(encoder, x) \o FullByte(n)
    BY <2>1, PushOneMore
  <2> QED
    BY <1>7, <2>2 DEF x
<1> HIDE DEF x
<1>9. encoder' = IF n = 8 THEN Append(Append(encoder, x), TmpByte(xorVar)) ELSE Append(encoder, x)
  <2>1. Text(Append(encoder, x))
    BY TextAppend
  <2>2. CASE n = 8
    <3>1. FullByte(n) = <<TmpByte(xorVar)>>
      BY <2>2 DEF FullByte
    <3> QED
      BY <1>8, <2>1, <2>2, <3>1, Push
  <2>3. CASE n # 8
    <3>1. FullByte(n) = <<>>
      BY <2>3 DEF FullByte
    <3> QED
      BY <1>8, <2>1, <2>3, <3>1, PushNothing
  <2> QED
    BY <2>2, <2>3
<1>10. x = NextSpan
  BY DEF x, n, NextSpan
<1> QED
  BY <1>4, <1>5, <1>6, <1>7, <1>9, <1>10 DEF n

LEMMA DecodeBitsText ==
  ASSUME IInv, DecodeBits, Text(decoder)
  PROVE  /\ decoder' = IF Field.equ = NoName THEN Append(decoder, NextSpan)
                       ELSE Append(Append(decoder, NextSpan), EqualOf(FALSE))
         /\ bits' = (bits + Bits(Type)) % 8 /\ (bitAggr' <=> bits + Bits(Type) < 8) /\ bitAggr' \in BOOLEAN
         /\ hasTmp' = hasTmp /\ UNCHANGED <<fields, walk, struct, encoder>> /\ fi' = fi + 1
<1> DEFINE n == bits + Bits(Type)
<1>1. walk \in Codec /\ fi \in DOMAIN fields /\ bitAggr
  BY DEF DecodeBits, At, Codec
<1>2. IsIntType(Type) /\ n <= 8
  BY <1>1, AtOpen
<1>3. Fits(n)
  BY <1>2 DEF Fits
<1>4. /\ Read(<<BitsUnit(Field, 8 - n)>> \o Equal(Field, FALSE))
      /\ DecodeGroup(n) /\ UNCHANGED <<hasTmp, xorVar>>
      /\ fi' = fi + 1 /\ UNCHANGED <<fields, walk>>
  BY <1>3 DEF DecodeBits, Require
<1> HIDE DEF n
<1>5. bits' = n % 8
  BY <1>4 DEF DecodeGroup
<1>6. (bitAggr' <=> n < 8) /\ bitAggr' \in BOOLEAN
  <2>1. bitAggr' = (n < 8)
    BY <1>4 DEF DecodeGroup
  <2>2. bitAggr' <=> n < 8
    BY <2>1
  <2>3. bitAggr' \in BOOLEAN
    BY <2>1
  <2> QED
    BY <2>2, <2>3
<1>7. decoder' = decoder \o (<<BitsUnit(Field, 8 - n)>> \o Equal(Field, FALSE)) /\ UNCHANGED <<struct, encoder>>
  BY <1>4 DEF Read
<1> DEFINE x == BitsUnit(Field, 8 - n)
           e == Equal(Field, FALSE)
<1>8. Text(e) /\ Text(Append(decoder, x))
  <2>1. Text(e)
    BY PushEqual
  <2> HIDE DEF x, e
  <2>2. Text(Append(decoder, x))
    BY TextAppend
  <2> QED
    BY <2>1, <2>2
<1>9. decoder' = Append(decoder, x) \o e
  <2> HIDE DEF x, e
  <2>1. decoder \o (<<x>> \o e) = Append(decoder, x) \o e
    BY <1>8, PushOneMore
  <2> QED
    BY <1>7, <2>1 DEF x, e
<1>10. Append(decoder, x) \o e = IF Field.equ = NoName THEN Append(decoder, x) ELSE Append(Append(decoder, x), EqualOf(FALSE))
  <2> HIDE DEF x
  <2> QED
    BY <1>8, PushEqual
<1>11. x = NextSpan
  BY DEF n, NextSpan
<1> HIDE DEF x, e
<1>12. decoder' = IF Field.equ = NoName THEN Append(decoder, NextSpan) ELSE Append(Append(decoder, NextSpan), EqualOf(FALSE))
  BY <1>9, <1>10, <1>11
<1> QED
  BY <1>4, <1>5, <1>6, <1>7, <1>12 DEF n

LEMMA OpenEncodeText ==
  ASSUME OpenEncodeGroup, Text(encoder)
  PROVE  /\ encoder' = Append(Append(encoder, ClearTmp(hasTmp)), FirstSpan)
         /\ bits' = Bits(Type) /\ bitAggr' /\ hasTmp' /\ bitAggr' = TRUE /\ hasTmp' = TRUE
         /\ UNCHANGED <<fields, walk, struct, decoder>> /\ fi' = fi + 1
         /\ xorVar' = Field.xor
<1>1. /\ Write(<<ClearTmp(hasTmp), BitsUnit(Field, 8 - Bits(Type))>>)
      /\ Opened /\ xorVar' = Field.xor /\ fi' = fi + 1 /\ UNCHANGED <<fields, walk>>
  BY DEF OpenEncodeGroup, Require
<1>2. encoder' = encoder \o <<ClearTmp(hasTmp), FirstSpan>> /\ UNCHANGED <<struct, decoder>>
  BY <1>1 DEF Write, FirstSpan
<1>3. encoder' = Append(Append(encoder, ClearTmp(hasTmp)), FirstSpan)
  BY <1>2, PushTwo
<1> QED
  BY <1>1, <1>2, <1>3 DEF Opened

LEMMA OpenDecodeText ==
  ASSUME OpenDecodeGroup, Text(decoder)
  PROVE  /\ LET d == Append(Append(Append(decoder, ClearTmp(hasTmp)), TmpByte(Field.xor)), FirstSpan)
            IN  decoder' = IF Field.equ = NoName THEN d ELSE Append(d, EqualOf(TRUE))
         /\ bits' = Bits(Type) /\ bitAggr' /\ hasTmp' /\ bitAggr' = TRUE /\ hasTmp' = TRUE
         /\ UNCHANGED <<fields, walk, struct, encoder>> /\ fi' = fi + 1
<1>1. /\ Read(<<ClearTmp(hasTmp), TmpByte(Field.xor), BitsUnit(Field, 8 - Bits(Type))>> \o Equal(Field, TRUE))
      /\ Opened /\ fi' = fi + 1 /\ UNCHANGED <<fields, walk>>
  BY DEF OpenDecodeGroup, Require
<1>2. /\ decoder' = decoder \o (<<ClearTmp(hasTmp), TmpByte(Field.xor), FirstSpan>> \o Equal(Field, TRUE))
      /\ UNCHANGED <<struct, encoder>>
  BY <1>1 DEF Read, FirstSpan
<1> DEFINE x == ClearTmp(hasTmp)
           y == TmpByte(Field.xor)
           e == Equal(Field, TRUE)
           d == Append(Append(Append(decoder, x), y), FirstSpan)
<1>3. Text(e) /\ Text(d)
  BY PushEqual, TextAppend
<1>4. decoder' = d \o e
  <2> HIDE DEF x, y, e
  <2>1. decoder \o (<<x, y, FirstSpan>> \o e) = d \o e
    BY <1>3, PushThreeMore
  <2> QED
    BY <1>2, <2>1 DEF x, y, e
<1>5. d \o e = IF Field.equ = NoName THEN d ELSE Append(d, EqualOf(TRUE))
  <2> HIDE DEF d
  <2> QED
    BY <1>3, PushEqual
<1>6. decoder' = IF Field.equ = NoName THEN d ELSE Append(d, EqualOf(TRUE))
  BY <1>4, <1>5
<1> HIDE DEF d
<1>7. /\ bits' = Bits(Type) /\ bitAggr' /\ hasTmp' /\ bitAggr' = TRUE /\ hasTmp' = TRUE
      /\ UNCHANGED <<fields, walk, struct, encoder>> /\ fi' = fi + 1
  BY <1>1, <1>2 DEF Opened
<1> QED
  BY <1>6, <1>7 DEF d

(* A field of whole bytes is carried by one unit, with a check or a clamp  *)
(* next to it, all of it under the field's "exist if".                     *)
UnitFor(f) ==
  CASE f.type.k = "prim" -> IntUnit(f)
    [] f.type.k \in {"struct", "undef"} -> MsgUnit(f)
    [] OTHER -> IF IsByte(f.type.elem) THEN BytesUnit(f, LimitRef(f))
                ELSE EachUnit(f, LimitRef(f), ElemUnit(f.type.elem))

(* What the decoder is told to read: a byte array without a length is read *)
(* whole.                                                                  *)
ReadAs(f, u) ==
  \/ u = UnitFor(f)
  \/ /\ f.type.k = "array" /\ IsByte(f.type.elem)
     /\ ~LimitRef(f).this /\ u = BytesUnit(f, NoRef)

Beside == {"clamp", "most", "equal"}

Carries(body, u) ==
  \/ body = <<u>>
  \/ \E x : x.op \in Beside /\ (body = <<x, u>> \/ body = <<u, x>>)

LEMMA CarriedOp ==
  ASSUME NEW f, NEW u, ReadAs(f, u)
  PROVE  u.op \in {"int", "msg", "bytes", "each"} /\ u.f = f.name
  BY DEF ReadAs, UnitFor, IntUnit, MsgUnit, BytesUnit, EachUnit

LEMMA WrapPlains ==
  ASSUME NEW f, NEW u, u.op \in {"int", "msg", "bytes", "each"}, NEW body, Carries(body, u)
  PROVE  Plains(Wrap(f, body))
<1>1. CASE f.existIf = NoName
  <2>1. Wrap(f, body) = body
    BY <1>1 DEF Wrap
  <2>2. \A x : x.op \in Beside => x.op \in PlainOps
    BY DEF Beside, PlainOps
  <2>3. u.op \in PlainOps
    BY DEF PlainOps
  <2>4. Plains(body)
    BY <2>2, <2>3, Zenon DEF Carries, Plains
  <2> QED
    BY <2>1, <2>4
<1>2. CASE f.existIf # NoName
  <2> DEFINE x == [op |-> "if", cond |-> This(f.existIf), body |-> body]
  <2>1. Wrap(f, body) = <<x>>
    BY <1>2 DEF Wrap
  <2>2. x.op \in PlainOps
    BY DEF PlainOps
  <2> HIDE DEF x
  <2> QED
    BY <2>1, <2>2 DEF Plains
<1> QED
  BY <1>1, <1>2

(* The three actions of either walk for fields of whole bytes.             *)
EncodeWhole == EncodeInt \/ EncodeMsg \/ EncodeArray
DecodeWhole == DecodeInt \/ DecodeMsg \/ DecodeArray

StepsOver == ~bitAggr /\ fi' = fi + 1 /\ UNCHANGED <<fields, walk, struct, hasTmp, bitAggr, bits, xorVar>>

WritesWhole ==
  \E body : /\ Carries(body, UnitFor(Field))
            /\ encoder' = encoder \o Wrap(Field, body) /\ decoder' = decoder

ReadsWhole ==
  \E body, u : /\ Carries(body, u) /\ ReadAs(Field, u)
               /\ decoder' = decoder \o Wrap(Field, body) /\ encoder' = encoder

LEMMA WholeNotOpen ==
  ASSUME IInv, EncodeWhole \/ DecodeWhole
  PROVE  ~bitAggr /\ ~IsBitType(Type)
<1>1. walk \in Codec /\ fi \in DOMAIN fields
  BY DEF EncodeWhole, DecodeWhole, EncodeInt, EncodeMsg, EncodeArray, DecodeInt, DecodeMsg, DecodeArray, At, Codec
<1>2. CASE EncodeInt \/ DecodeInt
  BY <1>2 DEF EncodeInt, DecodeInt
<1>3. CASE Type.k # "prim"
  BY <1>1, <1>3, AtOpen DEF IsBitType, IsIntType
<1> QED
  BY <1>2, <1>3 DEF EncodeWhole, DecodeWhole, EncodeMsg, EncodeArray, DecodeMsg, DecodeArray

LEMMA EncodeWholeText ==
  ASSUME IInv, EncodeWhole
  PROVE  Panic \/ (StepsOver /\ WritesWhole)
<1>1. ~bitAggr
  BY WholeNotOpen
<1>2. CASE EncodeInt
  <2>1. UnitFor(Field) = IntUnit(Field)
    BY <1>2 DEF EncodeInt, UnitFor, Type
  <2> DEFINE body == Clamp(Field) \o <<IntUnit(Field)>>
  <2>2. Panic \/ (Write(Wrap(Field, body)) /\ UNCHANGED aggr /\ fi' = fi + 1 /\ UNCHANGED <<fields, walk>>)
    BY <1>2 DEF EncodeInt, Require
  <2>3. Carries(body, IntUnit(Field))
    <3> DEFINE u == IntUnit(Field)
               x == [op |-> "clamp", f |-> Field.name, ref |-> Plain(Field.max)]
    <3>1. CASE Field.max = NoName
      <4>1. Clamp(Field) = <<>>
        BY <3>1 DEF Clamp
      <4> HIDE DEF u
      <4>2. <<>> \o <<u>> = <<u>>
        OBVIOUS
      <4> QED
        BY <4>1, <4>2 DEF u, Carries
    <3>2. CASE Field.max # NoName
      <4>1. Clamp(Field) = <<x>>
        BY <3>2 DEF Clamp
      <4>2. x.op \in Beside
        BY DEF Beside
      <4> HIDE DEF u, x
      <4>3. <<x>> \o <<u>> = <<x, u>>
        BY Pair
      <4> QED
        BY <4>1, <4>2, <4>3 DEF u, Carries
    <3> QED
      BY <3>1, <3>2
  <2> HIDE DEF body
  <2> QED
    BY <1>1, <2>1, <2>2, <2>3 DEF Write, StepsOver, WritesWhole, aggr
<1>3. CASE EncodeMsg
  <2>1. UnitFor(Field) = MsgUnit(Field)
    BY <1>3 DEF EncodeMsg, UnitFor, Type
  <2>2. Write(Wrap(Field, <<MsgUnit(Field)>>)) /\ UNCHANGED aggr /\ fi' = fi + 1 /\ UNCHANGED <<fields, walk>>
    BY <1>3 DEF EncodeMsg, Require
  <2>3. Carries(<<MsgUnit(Field)>>, MsgUnit(Field))
    BY DEF Carries
  <2> QED
    BY <1>1, <2>1, <2>2, <2>3 DEF Write, StepsOver, WritesWhole, aggr
<1>4. CASE EncodeArray
  <2> DEFINE u == UnitFor(Field)
  <2>1. (IF IsByte(Type.elem) THEN <<BytesUnit(Field, LimitRef(Field))>>
         ELSE <<EachUnit(Field, LimitRef(Field), ElemUnit(Type.elem))>>) = <<u>>
    BY <1>4 DEF EncodeArray, UnitFor, Type
  <2>2. Panic \/ (Write(Wrap(Field, <<u>>)) /\ UNCHANGED aggr /\ fi' = fi + 1 /\ UNCHANGED <<fields, walk>>)
    BY <1>4, <2>1 DEF EncodeArray, Require
  <2> HIDE DEF u
  <2>3. Carries(<<u>>, u)
    BY DEF Carries
  <2> QED
    BY <1>1, <2>2, <2>3 DEF Write, StepsOver, WritesWhole, aggr, u
<1> QED
  BY <1>2, <1>3, <1>4 DEF EncodeWhole

LEMMA DecodeWholeText ==
  ASSUME IInv, DecodeWhole
  PROVE  Panic \/ (StepsOver /\ ReadsWhole)
<1>1. ~bitAggr
  BY WholeNotOpen
<1>2. CASE DecodeInt
  <2> DEFINE more == IF Field.max # NoName THEN <<Most(Field)>> ELSE Equal(Field, TRUE)
             body == <<IntUnit(Field)>> \o more
             u == IntUnit(Field)
  <2>1. ReadAs(Field, u)
    BY <1>2 DEF DecodeInt, ReadAs, UnitFor, Type
  <2>2. Panic \/ (Read(Wrap(Field, body)) /\ UNCHANGED aggr /\ fi' = fi + 1 /\ UNCHANGED <<fields, walk>>)
    BY <1>2 DEF DecodeInt, Require
  <2>3. more = <<>> \/ \E x : x.op \in Beside /\ more = <<x>>
    <3>1. Most(Field).op \in Beside /\ EqualOf(TRUE).op \in Beside
      BY DEF Most, EqualOf, Beside
    <3>2. Equal(Field, TRUE) = <<>> \/ Equal(Field, TRUE) = <<EqualOf(TRUE)>>
      BY DEF Equal, EqualOf
    <3> QED
      BY <3>1, <3>2
  <2>4. Carries(body, u)
    <3> HIDE DEF more, u
    <3>1. CASE more = <<>>
      <4>1. <<u>> \o <<>> = <<u>>
        OBVIOUS
      <4> QED
        BY <3>1, <4>1 DEF u, Carries
    <3>2. ASSUME NEW x, x.op \in Beside, more = <<x>> PROVE Carries(body, u)
      <4>1. <<u>> \o <<x>> = <<u, x>>
        BY Pair
      <4> QED
        BY <3>2, <4>1 DEF u, Carries
    <3> QED
      BY <2>3, <3>1, <3>2
  <2> HIDE DEF body, u
  <2> QED
    BY <1>1, <2>1, <2>2, <2>4 DEF Read, StepsOver, ReadsWhole, aggr
<1>3. CASE DecodeMsg
  <2>1. ReadAs(Field, MsgUnit(Field))
    BY <1>3 DEF DecodeMsg, ReadAs, UnitFor, Type
  <2>2. Read(Wrap(Field, <<MsgUnit(Field)>>)) /\ UNCHANGED aggr /\ fi' = fi + 1 /\ UNCHANGED <<fields, walk>>
    BY <1>3 DEF DecodeMsg, Require
  <2>3. Carries(<<MsgUnit(Field)>>, MsgUnit(Field))
    BY DEF Carries
  <2> QED
    BY <1>1, <2>1, <2>2, <2>3 DEF Read, StepsOver, ReadsWhole, aggr
<1>4. CASE DecodeArray
  <2> DEFINE u == IF IsByte(Type.elem)
                  THEN BytesUnit(Field, IF LimitRef(Field).this THEN LimitRef(Field) ELSE NoRef)
                  ELSE EachUnit(Field, LimitRef(Field), ElemUnit(Type.elem))
  <2>1. ReadAs(Field, u)
    BY <1>4 DEF DecodeArray, ReadAs, UnitFor, Type
  <2>2. Panic \/ (Read(Wrap(Field, <<u>>)) /\ UNCHANGED aggr /\ fi' = fi + 1 /\ UNCHANGED <<fields, walk>>)
    BY <1>4 DEF DecodeArray, Require
  <2> HIDE DEF u
  <2>3. Carries(<<u>>, u)
    BY DEF Carries
  <2> QED
    BY <1>1, <2>1, <2>2, <2>3 DEF Read, StepsOver, ReadsWhole, aggr
<1> QED
  BY <1>2, <1>3, <1>4 DEF DecodeWhole

-----------------------------------------------------------------------------
(* Each step keeps the text sound.                                         *)

LEMMA BothSound == ASSUME TypeOK, TextInv PROVE Ended("encode", encoder) /\ Ended("decode", decoder)
  BY SoundEmpty DEF TypeOK, Walks, TextInv, Writing, Codec

LEMMA WritingEmpty ==
  ASSUME NEW codec \in Codec, NEW open, NEW tmp, ~open, ~tmp, NEW used
  PROVE  Writing(codec, <<>>, open, used, tmp)
  BY SoundEmpty DEF Writing

LEMMA EncodeSound ==
  ASSUME IInv, TextInv, Encode
  PROVE  Panic \/ (/\ walk = "encode" /\ walk' = "encode" /\ decoder' = <<>>
                  /\ Writing("encode", encoder, bitAggr, bits, hasTmp)')
<1>1. /\ walk = "encode" /\ walk \in Codec /\ fi \in DOMAIN fields
      /\ Writing("encode", encoder, bitAggr, bits, hasTmp) /\ decoder = <<>>
  BY DEF Encode, EncodeBits, OpenEncodeGroup, EncodeInt, EncodeMsg, EncodeArray, At, Codec, TextInv
<1>2. Text(encoder)
  BY <1>1 DEF Writing, Ended, WellKept
<1>3. bitAggr \in BOOLEAN /\ hasTmp \in BOOLEAN
  BY DEF IInv, TypeOK
<1>4. CASE EncodeBits
  <2> DEFINE n == bits + Bits(Type)
  <2>1. /\ encoder' = IF n = 8 THEN Append(Append(encoder, NextSpan), TmpByte(xorVar)) ELSE Append(encoder, NextSpan)
        /\ bits' = n /\ (bitAggr' <=> n < 8) /\ bitAggr' \in BOOLEAN
        /\ hasTmp' = hasTmp /\ UNCHANGED <<walk, decoder>>
    BY <1>2, <1>4, EncodeBitsText
  <2>2. bitAggr /\ Bits(Type) \in 1..7 /\ bits \in 1..7 /\ n <= 8
    BY <1>1, <1>4, AtOpen DEF EncodeBits
  <2>3. n # 8 => Writing("encode", Append(encoder, NextSpan), bitAggr', n, hasTmp)
    <3>1. SUFFICES ASSUME n # 8 PROVE Writing("encode", Append(encoder, NextSpan), bitAggr', n, hasTmp)
      OBVIOUS
    <3>2. bitAggr' /\ bitAggr' \in BOOLEAN /\ (bitAggr' <=> n < 8) /\ "encode" \in Codec
      BY <2>1, <2>2, <3>1 DEF Codec
    <3> QED
      BY <1>1, <1>3, <2>2, <3>2, WriteBits DEF NextSpan, Type
  <2>4. n = 8 => Writing("encode", Append(Append(encoder, NextSpan), TmpByte(xorVar)), bitAggr', n, hasTmp)
    <3>1. SUFFICES ASSUME n = 8
                   PROVE  Writing("encode", Append(Append(encoder, NextSpan), TmpByte(xorVar)), bitAggr', n, hasTmp)
      OBVIOUS
    <3>2. bitAggr' = FALSE
      BY <2>1, <3>1
    <3>3. Writing("encode", Append(Append(encoder, NextSpan), TmpByte(xorVar)), FALSE, n, hasTmp)
      BY <1>1, <1>3, <2>2, <3>1, WriteByte DEF NextSpan, Type
    <3> QED
      BY <3>2, <3>3
  <2> HIDE DEF n
  <2>5. Writing("encode", encoder', bitAggr', n, hasTmp)
    BY <2>1, <2>3, <2>4
  <2> QED
    BY <1>1, <2>1, <2>5
<1>5. CASE OpenEncodeGroup
  <2>1. /\ encoder' = Append(Append(encoder, ClearTmp(hasTmp)), FirstSpan)
        /\ bits' = Bits(Type) /\ bitAggr' /\ hasTmp' /\ UNCHANGED <<walk, decoder>>
    BY <1>2, <1>5, OpenEncodeText
  <2>2. ~bitAggr /\ Bits(Type) \in 1..7
    BY <1>5, BitsRange DEF OpenEncodeGroup
  <2>3. Primed("encode", "tmp", Append(encoder, ClearTmp(hasTmp)))
    BY <1>1, <1>3, <2>2, WriteClear DEF Codec
  <2>4. Writing("encode", encoder', bitAggr', bits', hasTmp')
    BY <2>1, <2>2, <2>3, WriteFirst DEF FirstSpan, Type, Codec
  <2> QED
    BY <1>1, <2>1, <2>4
<1>6. CASE EncodeWhole
  <2>1. CASE StepsOver /\ WritesWhole
    <3>1. PICK body : Carries(body, UnitFor(Field)) /\ encoder' = encoder \o Wrap(Field, body) /\ decoder' = decoder
      BY <2>1 DEF WritesWhole
    <3>2. UnitFor(Field).op \in {"int", "msg", "bytes", "each"}
      BY CarriedOp DEF ReadAs
    <3>3. Plains(Wrap(Field, body))
      BY <3>1, <3>2, WrapPlains
    <3>4. ~bitAggr /\ UNCHANGED <<walk, bitAggr, bits, hasTmp>>
      BY <2>1 DEF StepsOver
    <3>5. Writing("encode", encoder \o Wrap(Field, body), bitAggr, bits, hasTmp)
      BY <1>1, <3>3, <3>4, WritePlains DEF Codec
    <3> QED
      BY <1>1, <3>1, <3>4, <3>5
  <2> QED
    BY <1>6, <2>1, EncodeWholeText
<1> QED
  BY <1>4, <1>5, <1>6 DEF Encode, EncodeWhole

LEMMA DecodeSound ==
  ASSUME IInv, TextInv, Decode
  PROVE  Panic \/ (/\ walk = "decode" /\ walk' = "decode" /\ encoder' = encoder
                  /\ Writing("decode", decoder, bitAggr, bits, hasTmp)')
<1>1. /\ walk = "decode" /\ walk \in Codec /\ fi \in DOMAIN fields
      /\ Writing("decode", decoder, bitAggr, bits, hasTmp)
  BY DEF Decode, DecodeBits, OpenDecodeGroup, DecodeInt, DecodeMsg, DecodeArray, At, Codec, TextInv
<1>2. Text(decoder)
  BY <1>1 DEF Writing, Ended, WellKept
<1>3. bitAggr \in BOOLEAN /\ hasTmp \in BOOLEAN
  BY DEF IInv, TypeOK
<1>4. EqualOf(FALSE).op = "equal" /\ EqualOf(TRUE).op = "equal"
  BY DEF EqualOf
<1>5. CASE DecodeBits
  <2> DEFINE n == bits + Bits(Type)
  <2>1. /\ decoder' = IF Field.equ = NoName THEN Append(decoder, NextSpan) ELSE Append(Append(decoder, NextSpan), EqualOf(FALSE))
        /\ bits' = n % 8 /\ (bitAggr' <=> n < 8) /\ bitAggr' \in BOOLEAN
        /\ hasTmp' = hasTmp /\ UNCHANGED <<walk, encoder>>
    BY <1>2, <1>5, DecodeBitsText
  <2>2. bitAggr /\ Bits(Type) \in 1..7 /\ bits \in 1..7 /\ n <= 8
    BY <1>1, <1>5, AtOpen DEF DecodeBits
  <2>3. Writing("decode", Append(decoder, NextSpan), bitAggr', n, hasTmp)
    BY <1>1, <1>3, <2>1, <2>2, WriteBits DEF NextSpan, Type, Codec
  <2>4. n \in 1..8
    BY <2>2
  <2> HIDE DEF n
  <2>5. Writing("decode", Append(Append(decoder, NextSpan), EqualOf(FALSE)), bitAggr', n, hasTmp)
    <3> DEFINE x == EqualOf(FALSE)
    <3>1. x.op = "equal"
      BY <1>4
    <3> HIDE DEF x
    <3>2. Writing("decode", Append(Append(decoder, NextSpan), x), bitAggr', n, hasTmp)
      BY <2>3, <3>1, WriteSilent
    <3> QED
      BY <3>2 DEF x
  <2>6. Writing("decode", decoder', bitAggr', n, hasTmp)
    BY <2>1, <2>3, <2>5
  <2>7. bitAggr' => bits' = n
    BY <2>1, <2>4, Remainder
  <2>8. Writing("decode", decoder', bitAggr', bits', hasTmp')
    BY <2>1, <2>6, <2>7 DEF Writing
  <2> QED
    BY <1>1, <2>1, <2>8
<1>6. CASE OpenDecodeGroup
  <2> DEFINE c == Append(Append(decoder, ClearTmp(hasTmp)), TmpByte(Field.xor))
             d == Append(c, FirstSpan)
  <2>1. /\ decoder' = IF Field.equ = NoName THEN d ELSE Append(d, EqualOf(TRUE))
        /\ bits' = Bits(Type) /\ bitAggr' /\ hasTmp' /\ UNCHANGED <<walk, encoder>>
    BY <1>2, <1>6, OpenDecodeText
  <2>2. ~bitAggr /\ Bits(Type) \in 1..7
    BY <1>6, BitsRange DEF OpenDecodeGroup
  <2>3. Primed("decode", "tmp", Append(decoder, ClearTmp(hasTmp)))
    BY <1>1, <1>3, <2>2, WriteClear DEF Codec
  <2>4. Primed("decode", "byte", c)
    BY <2>3, ReadByte
  <2> HIDE DEF c
  <2>5. Writing("decode", d, bitAggr', bits', hasTmp')
    BY <2>1, <2>2, <2>4, WriteFirst DEF FirstSpan, Type, Codec
  <2> HIDE DEF d
  <2>6. Writing("decode", Append(d, EqualOf(TRUE)), bitAggr', bits', hasTmp')
    <3> DEFINE x == EqualOf(TRUE)
    <3>1. x.op = "equal"
      BY <1>4
    <3> HIDE DEF x
    <3>2. Writing("decode", Append(d, x), bitAggr', bits', hasTmp')
      BY <2>5, <3>1, WriteSilent
    <3> QED
      BY <3>2 DEF x
  <2>7. Writing("decode", decoder', bitAggr', bits', hasTmp')
    BY <2>1, <2>5, <2>6
  <2> QED
    BY <1>1, <2>1, <2>7
<1>7. CASE DecodeWhole
  <2>1. CASE StepsOver /\ ReadsWhole
    <3>1. PICK body, u : Carries(body, u) /\ ReadAs(Field, u) /\ decoder' = decoder \o Wrap(Field, body) /\ encoder' = encoder
      BY <2>1 DEF ReadsWhole
    <3>2. u.op \in {"int", "msg", "bytes", "each"}
      BY <3>1, CarriedOp
    <3>3. Plains(Wrap(Field, body))
      BY <3>1, <3>2, WrapPlains
    <3>4. ~bitAggr /\ UNCHANGED <<walk, bitAggr, bits, hasTmp>>
      BY <2>1 DEF StepsOver
    <3>5. Writing("decode", decoder \o Wrap(Field, body), bitAggr, bits, hasTmp)
      BY <1>1, <3>3, <3>4, WritePlains DEF Codec
    <3> QED
      BY <1>1, <3>1, <3>4, <3>5
  <2> QED
    BY <1>7, <2>1, DecodeWholeText
<1> QED
  BY <1>5, <1>6, <1>7 DEF Decode, DecodeWhole

LEMMA TextInductive == ASSUME IInv, TextInv, [Next]_vars PROVE TextInv'
<1>1. Ended("encode", encoder) /\ Ended("decode", decoder)
  BY BothSound DEF IInv
<1>2. CASE Panic
  BY <1>1, <1>2 DEF Panic, TextInv
<1>3. CASE DeclareField
  <2>1. walk = "struct" /\ ((walk' = "struct" /\ UNCHANGED <<encoder, decoder>>) \/ Panic)
    BY <1>3 DEF DeclareField, Require, At
  <2> QED
    BY <1>2, <2>1 DEF TextInv
<1>4. CASE EndStruct
  <2>1. /\ walk = "struct" /\ walk' = "encode" /\ UNCHANGED <<encoder, decoder>>
        /\ ~bitAggr' /\ ~hasTmp'
    BY <1>4 DEF EndStruct, StartWalk
  <2>2. encoder = <<>> /\ decoder = <<>>
    BY <2>1 DEF TextInv
  <2>3. Writing("encode", encoder', bitAggr', bits', hasTmp')
    BY <2>1, <2>2, WritingEmpty DEF Codec
  <2> QED
    BY <2>1, <2>2, <2>3 DEF TextInv
<1>5. CASE Encode
  BY <1>2, <1>5, EncodeSound DEF TextInv
<1>6. CASE EndEncode
  <2>1. /\ walk = "encode" /\ walk' = "decode" /\ UNCHANGED <<encoder, decoder>>
        /\ ~bitAggr' /\ ~hasTmp'
    BY <1>6 DEF EndEncode, StartWalk
  <2>2. decoder = <<>>
    BY <2>1 DEF TextInv
  <2>3. Writing("decode", decoder', bitAggr', bits', hasTmp')
    BY <2>1, <2>2, WritingEmpty DEF Codec
  <2> QED
    BY <1>1, <2>1, <2>3 DEF TextInv
<1>7. CASE Decode
  <2>1. walk = "decode" \/ Panic
    BY <1>7, DecodeSound
  <2> QED
    BY <1>1, <1>2, <1>7, <2>1, DecodeSound DEF TextInv
<1>8. CASE EndDecode
  BY <1>1, <1>8 DEF EndDecode, StartWalk, TextInv
<1>9. CASE UNCHANGED vars
  BY <1>9 DEF vars, TextInv
<1> QED
  BY <1>3, <1>4, <1>5, <1>6, <1>7, <1>8, <1>9 DEF Next

LEMMA TextInvariance == Spec => []TextInv
<1>1. Init => TextInv
  BY DEF Init, TextInv
<1>2. IInv /\ TextInv /\ [Next]_vars => TextInv'
  BY TextInductive
<1> QED
  BY <1>1, <1>2, Invariance, PTL DEF Spec

(* In either codec of every message, as far as it is written: the spans of *)
(* one tmp lie side by side from the top bit down and nothing but checks   *)
(* of equals comes between them; a group starts, and only there, where tmp has been        *)
(* cleared and, in the decoder, its byte read; the encoder writes the byte *)
(* behind the span that fills it, once and nowhere else; tmp is declared   *)
(* the first time it is cleared and never again.                           *)
THEOREM GroupsAreWhole == Spec => []GroupsWhole
<1>1. IInv /\ TextInv => GroupsWhole
  BY BothSound, EndedIs DEF IInv, GroupsWhole, Ended, WellKept
<1> QED
  BY <1>1, Invariance, TextInvariance, PTL

-----------------------------------------------------------------------------
(***************************************************************************)
(* The decoder of every message reads what its encoder writes.             *)
(*                                                                         *)
(* The encoder is complete before the first statement of the decoder is    *)
(* written, so neither can be compared with the other under way.  Both are *)
(* compared with the message instead: with a layout o of its fields, the   *)
(* k-th unit of either codec is the one o puts field k in, and the bytes   *)
(* of bit fields are the heads of its groups.                              *)
(***************************************************************************)

WireOps == UnitOps \cup {"if"}

Grouped(i, o) == Before(o, i) # 0 \/ IsBitType(fields[i].type)

GroupUnit(i, o) == BitsUnit(fields[i], 8 - (Before(o, i) + Bits(fields[i].type)))

(* A field of whole bytes as either walk may write it.                     *)
PutWhole(f, x) ==
  \E u, body : /\ ReadAs(f, u) /\ Carries(body, u)
               /\ x = IF f.existIf = NoName THEN u
                      ELSE [op |-> "if", cond |-> This(f.existIf), body |-> body]

Puts(i, o, x) == IF Grouped(i, o) THEN x = GroupUnit(i, o) ELSE PutWhole(fields[i], x)

(* The units of code are those of the first n fields.                      *)
Codes(code, n, o) ==
  LET us == Of(WireOps, code)
  IN  /\ Text(code) /\ Len(us) = n
      /\ \A k \in 1..n : Puts(k, o, us[k])

(* The heads of the groups: the byte a field opens.                        *)
Heads(o) ==
  [i \in 1..Len(fields) |-> IF Before(o, i) = 0 /\ IsBitType(fields[i].type)
                            THEN TmpByte(fields[i].xor) ELSE [op |-> "none"]]

(* The struct declares the first n fields.                                 *)
Declared(n) ==
  /\ Text(struct) /\ Len(struct) = n
  /\ \A i \in 1..n : /\ struct[i].f = fields[i].name
                     /\ fields[i].type.k = "array" => struct[i].len = ArraySize(fields[i])

(* g[n]: the bytes of bit fields of the first n fields.  The encoder is    *)
(* one behind while a group is open: it writes the byte when it is full.   *)
EncodeHeads(g, n, code, open, xor) ==
  g[n] = IF open THEN Append(TmpBytes(code), TmpByte(xor)) ELSE TmpBytes(code)

WireAt(o, g) ==
  /\ walk = "struct" => Declared(fi - 1)
  /\ walk \in {"encode", "decode", "done"} => Declared(Len(fields))
  /\ walk = "encode" => /\ Codes(encoder, fi - 1, o)
                        /\ EncodeHeads(g, fi - 1, encoder, bitAggr, xorVar)
  /\ walk \in {"decode", "done"} => /\ Codes(encoder, Len(fields), o)
                                    /\ Closed => TmpBytes(encoder) = g[Len(fields)]
  /\ walk = "decode" => Codes(decoder, fi - 1, o) /\ TmpBytes(decoder) = g[fi - 1]
  /\ walk = "done" => Codes(decoder, Len(fields), o) /\ TmpBytes(decoder) = g[Len(fields)]

WireInv == \E o, g :
             /\ o \in [1..Len(fields) -> 0..7]
             /\ LaidOutBy(fields, o) /\ GroupAt(o)
             /\ Selects(g, {"byte"}, Heads(o))
             /\ WireAt(o, g)

-----------------------------------------------------------------------------
(* The fields and the layout do not change, so neither does what is said   *)
(* of them.                                                                *)
LEMMA PutsStay ==
  ASSUME fields' = fields, NEW i, NEW o, NEW x
  PROVE  Puts(i, o, x)' <=> Puts(i, o, x)
  BY DEF Puts, Grouped, GroupUnit, PutWhole, ReadAs, UnitFor, LimitRef, LimitFieldMax

LEMMA CodesStay ==
  ASSUME fields' = fields, NEW code, NEW n, NEW o
  PROVE  Codes(code, n, o)' <=> Codes(code, n, o)
  BY PutsStay DEF Codes

LEMMA DeclaredStay ==
  ASSUME fields' = fields, struct' = struct, NEW n
  PROVE  Declared(n)' <=> Declared(n)
  BY DEF Declared, ArraySize, LimitFieldMax

LEMMA ClosedStays ==
  ASSUME encoder' = encoder, NEW g, NEW h, Closed => TmpBytes(encoder) = g[h]
  PROVE  Closed' => TmpBytes(encoder') = g[h]
<1>1. Closed' = Closed
  BY DEF Closed, LastOpen, Spans, Of
<1> QED
  BY <1>1

LEMMA HeadsStay ==
  ASSUME fields' = fields, NEW o
  PROVE  Heads(o)' = Heads(o)
  BY DEF Heads

-----------------------------------------------------------------------------
(* One more statement of a codec.                                          *)

LEMMA CodesMore ==
  ASSUME NEW code, NEW n \in Nat, NEW o, Codes(code, n, o), NEW x, x.op \in WireOps, Puts(n + 1, o, x)
  PROVE  Codes(Append(code, x), n + 1, o) /\ TmpBytes(Append(code, x)) = TmpBytes(code)
<1> DEFINE us == Of(WireOps, code)
           vs == Of(WireOps, Append(code, x))
<1>1. Text(code) /\ Text(us) /\ Len(us) = n /\ \A k \in 1..n : Puts(k, o, us[k])
  BY TextOf DEF Codes
<1>2. /\ Text(Append(code, x)) /\ vs = Append(us, x)
      /\ TmpBytes(Append(code, x)) = TmpBytes(code)
  <2>1. x.op \notin {"byte"}
    BY DEF WireOps, UnitOps
  <2> QED
    BY <1>1, <2>1, TextAppend DEF TmpBytes
<1> HIDE DEF us, vs
<1>3. Len(vs) = n + 1 /\ vs[n + 1] = x /\ \A k \in 1..n : vs[k] = us[k]
  BY <1>1, <1>2, TextAppend
<1>4. ASSUME NEW k \in 1..n+1 PROVE Puts(k, o, vs[k])
  <2>1. k \in 1..n \/ k = n + 1
    OBVIOUS
  <2> QED
    BY <1>1, <1>3, <2>1
<1> QED
  BY <1>2, <1>3, <1>4 DEF Codes, us, vs

LEMMA CodesSame ==
  ASSUME NEW code, NEW n, NEW o, Codes(code, n, o), NEW x, x.op \notin WireOps
  PROVE  /\ Codes(Append(code, x), n, o)
         /\ x.op # "byte" => TmpBytes(Append(code, x)) = TmpBytes(code)
         /\ x.op = "byte" => TmpBytes(Append(code, x)) = Append(TmpBytes(code), x)
<1>1. Text(code)
  BY DEF Codes
<1>2. Text(Append(code, x)) /\ Of(WireOps, Append(code, x)) = Of(WireOps, code)
  BY <1>1, TextAppend
<1>3. Of({"byte"}, Append(code, x)) = IF x.op \in {"byte"} THEN Append(Of({"byte"}, code), x) ELSE Of({"byte"}, code)
  BY <1>1, TextAppend
<1>4. Codes(Append(code, x), n, o)
  BY <1>2 DEF Codes
<1> QED
  BY <1>3, <1>4 DEF TmpBytes

LEMMA CodesWhole ==
  ASSUME NEW code, NEW n \in Nat, NEW o, Codes(code, n, o), ~Grouped(n + 1, o),
         NEW f, f = fields[n + 1], NEW u, ReadAs(f, u), NEW body, Carries(body, u)
  PROVE  /\ Codes(code \o Wrap(f, body), n + 1, o)
         /\ TmpBytes(code \o Wrap(f, body)) = TmpBytes(code)
<1>1. Text(code)
  BY DEF Codes
<1>2. CASE f.existIf # NoName
  <2> DEFINE x == [op |-> "if", cond |-> This(f.existIf), body |-> body]
  <2>1. PutWhole(f, x)
    BY <1>2 DEF PutWhole
  <2>2. x.op \in WireOps /\ Wrap(f, body) = <<x>>
    BY <1>2 DEF WireOps, Wrap
  <2> HIDE DEF x
  <2>3. Puts(n + 1, o, x)
    BY <2>1 DEF Puts
  <2>4. code \o Wrap(f, body) = Append(code, x)
    BY <1>1, <2>2, Push
  <2>5. Codes(Append(code, x), n + 1, o) /\ TmpBytes(Append(code, x)) = TmpBytes(code)
    BY <2>2, <2>3, CodesMore
  <2> QED
    BY <2>4, <2>5
<1>3. CASE f.existIf = NoName
  <2>1. Wrap(f, body) = body
    BY <1>3 DEF Wrap
  <2>2. PutWhole(f, u)
    BY <1>3 DEF PutWhole
  <2>3. u.op \in WireOps /\ Puts(n + 1, o, u)
    BY <2>2, CarriedOp DEF WireOps, UnitOps, Puts
  <2>4. Codes(Append(code, u), n + 1, o) /\ TmpBytes(Append(code, u)) = TmpBytes(code)
    BY <2>3, CodesMore
  <2>5. CASE body = <<u>>
    <3>1. code \o <<u>> = Append(code, u)
      BY <1>1, Push
    <3> QED
      BY <2>1, <2>4, <2>5, <3>1
  <2>6. ASSUME NEW x, x.op \in Beside, body = <<x, u>> \/ body = <<u, x>>
        PROVE  /\ Codes(code \o body, n + 1, o)
               /\ TmpBytes(code \o body) = TmpBytes(code)
    <3>1. x.op \notin WireOps /\ x.op # "byte"
      BY <2>6 DEF Beside, WireOps, UnitOps
    <3>2. CASE body = <<x, u>>
      <4> DEFINE c == Append(code, x)
      <4>1. code \o <<x, u>> = Append(c, u)
        BY <1>1, PushTwo
      <4>2. Codes(c, n, o) /\ TmpBytes(c) = TmpBytes(code)
        BY <3>1, CodesSame
      <4> HIDE DEF c
      <4>3. Codes(Append(c, u), n + 1, o) /\ TmpBytes(Append(c, u)) = TmpBytes(c)
        BY <2>3, <4>2, CodesMore
      <4> QED
        BY <3>2, <4>1, <4>2, <4>3
    <3>3. CASE body = <<u, x>>
      <4> DEFINE c == Append(code, u)
      <4>1. code \o <<u, x>> = Append(c, x)
        BY <1>1, PushTwo
      <4>2. Codes(c, n + 1, o) /\ TmpBytes(c) = TmpBytes(code)
        BY <2>4
      <4> HIDE DEF c
      <4>3. Codes(Append(c, x), n + 1, o) /\ TmpBytes(Append(c, x)) = TmpBytes(c)
        BY <3>1, <4>2, CodesSame
      <4> QED
        BY <3>3, <4>1, <4>2, <4>3
    <3> QED
      BY <2>6, <3>2, <3>3
  <2> QED
    BY <2>1, <2>5, <2>6 DEF Carries
<1> QED
  BY <1>2, <1>3

-----------------------------------------------------------------------------
(* What the layout and the heads say of the field a codec walk is at.      *)
LEMMA HeadStep ==
  ASSUME IInv, fi \in DOMAIN fields, NEW o, NEW g, Selects(g, {"byte"}, Heads(o))
  PROVE  g[fi] = IF Before(o, fi) = 0 /\ IsBitType(Type) THEN Append(g[fi - 1], TmpByte(Field.xor)) ELSE g[fi - 1]
<1>1. /\ Len(fields) \in Nat /\ fi \in 1..Len(fields)
  BY Shape DEF IInv
<1> DEFINE hs == Heads(o)
<1>2. Len(hs) = Len(fields)
  BY <1>1 DEF Heads
<1>3. hs[fi] = IF Before(o, fi) = 0 /\ IsBitType(Type) THEN TmpByte(Field.xor) ELSE [op |-> "none"]
  BY <1>1 DEF Heads, Type, Field
<1>4. TmpByte(Field.xor).op = "byte" /\ [op |-> "none"].op = "none"
  BY DEF TmpByte
<1> HIDE DEF hs
<1>5. g[fi] = IF hs[fi].op \in {"byte"} THEN Append(g[fi - 1], hs[fi]) ELSE g[fi - 1]
  BY <1>1, <1>2 DEF Selects, hs
<1>6. CASE Before(o, fi) = 0 /\ IsBitType(Type)
  BY <1>3, <1>4, <1>5, <1>6
<1>7. CASE ~(Before(o, fi) = 0 /\ IsBitType(Type))
  <2>1. hs[fi].op # "byte"
    BY <1>3, <1>4, <1>7
  <2> QED
    BY <1>5, <1>7, <2>1
<1> QED
  BY <1>6, <1>7

LEMMA SpanIsUnit ==
  ASSUME walk \in Codec, NEW o, GroupAt(o), fi \in Int
  PROVE  /\ bitAggr => NextSpan = GroupUnit(fi, o) /\ Grouped(fi, o)
         /\ ~bitAggr /\ IsBitType(Type) => /\ FirstSpan = GroupUnit(fi, o) /\ Grouped(fi, o)
                                           /\ Before(o, fi) = 0
         /\ ~bitAggr /\ ~IsBitType(Type) => ~Grouped(fi, o) /\ Before(o, fi) = 0
         /\ NextSpan.op \in WireOps /\ FirstSpan.op \in WireOps
<1>1. NextSpan.op \in WireOps /\ FirstSpan.op \in WireOps
  BY DEF NextSpan, FirstSpan, BitsUnit, WireOps, UnitOps
<1>2. bitAggr => NextSpan = GroupUnit(fi, o) /\ Grouped(fi, o)
  BY DEF GroupAt, NextSpan, GroupUnit, Grouped, Type, Field
<1>3. ~bitAggr => Before(o, fi) = 0
  BY DEF GroupAt
<1>4. ~bitAggr /\ IsBitType(Type) => FirstSpan = GroupUnit(fi, o) /\ Grouped(fi, o)
  <2>1. Bits(Type) \in Int
    BY DEF Bits, IntBits, IsIntType
  <2>2. ~bitAggr => 8 - (Before(o, fi) + Bits(Type)) = 8 - Bits(Type)
    BY <1>3, <2>1
  <2> QED
    BY <2>2 DEF FirstSpan, GroupUnit, Grouped, Type, Field
<1>5. ~bitAggr /\ ~IsBitType(Type) => ~Grouped(fi, o)
  BY <1>3 DEF Grouped, Type, Field
<1> QED
  BY <1>1, <1>2, <1>3, <1>4, <1>5

-----------------------------------------------------------------------------
(* Each step of a codec walk puts its field where the layout says.         *)

LEMMA EncodeWire ==
  ASSUME IInv, Encode, ~Panic, NEW o, GroupAt(o), NEW g, Selects(g, {"byte"}, Heads(o)),
         Codes(encoder, fi - 1, o), EncodeHeads(g, fi - 1, encoder, bitAggr, xorVar)
  PROVE  /\ UNCHANGED <<fields, walk, struct, decoder>> /\ fi' = fi + 1
         /\ Codes(encoder', fi, o)
         /\ EncodeHeads(g, fi, encoder', bitAggr', xorVar')
<1>1. /\ walk = "encode" /\ walk \in Codec /\ fi \in DOMAIN fields
  BY DEF Encode, EncodeBits, OpenEncodeGroup, EncodeInt, EncodeMsg, EncodeArray, At, Codec
<1>2. fi \in Nat \ {0} /\ fi - 1 \in Nat /\ (fi - 1) + 1 = fi
  BY <1>1, Shape DEF IInv
<1>3. Text(encoder)
  BY DEF Codes
<1>4. g[fi] = IF Before(o, fi) = 0 /\ IsBitType(Type) THEN Append(g[fi - 1], TmpByte(Field.xor)) ELSE g[fi - 1]
  BY <1>1, HeadStep
<1>5. /\ bitAggr => NextSpan = GroupUnit(fi, o) /\ Grouped(fi, o)
      /\ ~bitAggr /\ IsBitType(Type) => FirstSpan = GroupUnit(fi, o) /\ Grouped(fi, o) /\ Before(o, fi) = 0
      /\ ~bitAggr /\ ~IsBitType(Type) => ~Grouped(fi, o) /\ Before(o, fi) = 0
      /\ NextSpan.op \in WireOps /\ FirstSpan.op \in WireOps
  BY <1>1, <1>2, SpanIsUnit
<1>6. CASE EncodeBits
  <2> DEFINE n == bits + Bits(Type)
             c == Append(encoder, NextSpan)
             x == TmpByte(xorVar)
  <2>1. /\ encoder' = IF n = 8 THEN Append(c, x) ELSE c
        /\ (bitAggr' <=> n < 8) /\ UNCHANGED <<fields, walk, struct, decoder>> /\ fi' = fi + 1
        /\ xorVar' = IF n = 8 THEN NoName ELSE xorVar
    BY <1>3, <1>6, EncodeBitsText
  <2>2. bitAggr /\ n <= 8 /\ bits \in Int /\ Bits(Type) \in Int
    BY <1>1, <1>6, AtOpen DEF EncodeBits
  <2>3. Puts(fi, o, NextSpan)
    BY <1>5, <2>2 DEF Puts
  <2>4. Codes(c, fi, o) /\ TmpBytes(c) = TmpBytes(encoder)
    BY <1>2, <1>5, <2>3, CodesMore
  <2>5. x.op = "byte" /\ x.op \notin WireOps
    BY DEF TmpByte, WireOps, UnitOps
  <2> HIDE DEF c, x
  <2>6. Codes(Append(c, x), fi, o) /\ TmpBytes(Append(c, x)) = Append(TmpBytes(c), x)
    BY <2>4, <2>5, CodesSame
  <2>7. Before(o, fi) # 0
    BY <1>1, <2>2 DEF GroupAt
  <2>8. g[fi] = Append(TmpBytes(encoder), x)
    BY <1>4, <2>2, <2>7 DEF EncodeHeads, x
  <2>10. CASE n = 8
    <3>1. encoder' = Append(c, x) /\ ~bitAggr'
      BY <2>1, <2>10
    <3>2. g[fi] = TmpBytes(encoder')
      BY <2>4, <2>6, <2>8, <3>1
    <3>3. EncodeHeads(g, fi, encoder', bitAggr', xorVar')
      BY <2>1, <3>1, <3>2 DEF EncodeHeads
    <3> QED
      BY <2>1, <2>6, <3>1, <3>3
  <2>11. CASE n # 8
    <3>1. encoder' = c /\ bitAggr' /\ xorVar' = xorVar
      <4>1. n < 8
        BY <2>2, <2>11
      <4> HIDE DEF n
      <4> QED
        BY <2>1, <2>11, <4>1
    <3>2. g[fi] = Append(TmpBytes(encoder'), TmpByte(xorVar'))
      BY <2>4, <2>8, <3>1 DEF x
    <3>3. EncodeHeads(g, fi, encoder', bitAggr', xorVar')
      BY <2>1, <3>1, <3>2 DEF EncodeHeads
    <3> QED
      BY <2>1, <2>4, <3>1, <3>3
  <2> QED
    BY <2>10, <2>11
<1>7. CASE OpenEncodeGroup
  <2> DEFINE x == ClearTmp(hasTmp)
             c == Append(encoder, x)
  <2>1. /\ encoder' = Append(c, FirstSpan)
        /\ bitAggr' /\ UNCHANGED <<fields, walk, struct, decoder>> /\ fi' = fi + 1
        /\ xorVar' = Field.xor
    BY <1>3, <1>7, OpenEncodeText
  <2>2. ~bitAggr /\ IsBitType(Type)
    BY <1>7 DEF OpenEncodeGroup
  <2>3. x.op \notin WireOps /\ x.op # "byte"
    BY DEF ClearTmp, WireOps, UnitOps
  <2> HIDE DEF x
  <2>4. Codes(c, fi - 1, o) /\ TmpBytes(c) = TmpBytes(encoder)
    BY <2>3, CodesSame
  <2> HIDE DEF c
  <2>5. Puts(fi, o, FirstSpan)
    BY <1>5, <2>2 DEF Puts
  <2>6. Codes(encoder', fi, o) /\ TmpBytes(encoder') = TmpBytes(c)
    BY <1>2, <1>5, <2>1, <2>4, <2>5, CodesMore
  <2>7. g[fi] = Append(TmpBytes(encoder'), TmpByte(xorVar'))
    BY <1>4, <1>5, <2>1, <2>2, <2>4, <2>6 DEF EncodeHeads
  <2>8. EncodeHeads(g, fi, encoder', bitAggr', xorVar')
    BY <2>1, <2>7 DEF EncodeHeads
  <2> QED
    BY <2>1, <2>6, <2>8
<1>8. CASE EncodeWhole
  <2>1. StepsOver /\ WritesWhole /\ ~IsBitType(Type)
    BY <1>8, EncodeWholeText, WholeNotOpen
  <2>2. PICK body : Carries(body, UnitFor(Field)) /\ encoder' = encoder \o Wrap(Field, body) /\ decoder' = decoder
    BY <2>1 DEF WritesWhole
  <2>3. ~bitAggr /\ UNCHANGED <<fields, walk, struct, bitAggr, xorVar>> /\ fi' = fi + 1
    BY <2>1 DEF StepsOver
  <2>4. ~Grouped((fi - 1) + 1, o) /\ Field = fields[(fi - 1) + 1] /\ ReadAs(Field, UnitFor(Field))
    BY <1>2, <1>5, <2>1, <2>3 DEF Field, ReadAs
  <2>5. Codes(encoder', fi, o) /\ TmpBytes(encoder') = TmpBytes(encoder)
    BY <1>2, <2>2, <2>4, CodesWhole
  <2>6. g[fi] = TmpBytes(encoder')
    BY <1>4, <2>1, <2>3, <2>5 DEF EncodeHeads
  <2>7. EncodeHeads(g, fi, encoder', bitAggr', xorVar')
    BY <2>3, <2>6 DEF EncodeHeads
  <2> QED
    BY <2>2, <2>3, <2>5, <2>7
<1> QED
  BY <1>6, <1>7, <1>8 DEF Encode, EncodeWhole

LEMMA DecodeWire ==
  ASSUME IInv, Decode, ~Panic, NEW o, GroupAt(o), NEW g, Selects(g, {"byte"}, Heads(o)),
         Codes(decoder, fi - 1, o), TmpBytes(decoder) = g[fi - 1]
  PROVE  /\ UNCHANGED <<fields, walk, struct, encoder>> /\ fi' = fi + 1
         /\ Codes(decoder', fi, o)
         /\ TmpBytes(decoder') = g[fi]
<1>1. /\ walk = "decode" /\ walk \in Codec /\ fi \in DOMAIN fields
  BY DEF Decode, DecodeBits, OpenDecodeGroup, DecodeInt, DecodeMsg, DecodeArray, At, Codec
<1>2. fi \in Nat \ {0} /\ fi - 1 \in Nat /\ (fi - 1) + 1 = fi
  BY <1>1, Shape DEF IInv
<1>3. Text(decoder)
  BY DEF Codes
<1>4. g[fi] = IF Before(o, fi) = 0 /\ IsBitType(Type) THEN Append(g[fi - 1], TmpByte(Field.xor)) ELSE g[fi - 1]
  BY <1>1, HeadStep
<1>5. /\ bitAggr => NextSpan = GroupUnit(fi, o) /\ Grouped(fi, o)
      /\ ~bitAggr /\ IsBitType(Type) => FirstSpan = GroupUnit(fi, o) /\ Grouped(fi, o) /\ Before(o, fi) = 0
      /\ ~bitAggr /\ ~IsBitType(Type) => ~Grouped(fi, o) /\ Before(o, fi) = 0
      /\ NextSpan.op \in WireOps /\ FirstSpan.op \in WireOps
  BY <1>1, <1>2, SpanIsUnit
<1>6. ASSUME NEW c, Codes(c, fi, o), NEW b
      PROVE  Codes(Append(c, EqualOf(b)), fi, o) /\ TmpBytes(Append(c, EqualOf(b))) = TmpBytes(c)
  <2> DEFINE x == EqualOf(b)
  <2>1. x.op \notin WireOps /\ x.op # "byte"
    BY DEF EqualOf, WireOps, UnitOps
  <2> HIDE DEF x
  <2>2. Codes(Append(c, x), fi, o) /\ TmpBytes(Append(c, x)) = TmpBytes(c)
    BY <1>6, <2>1, CodesSame
  <2> QED
    BY <2>2 DEF x
<1>7. CASE DecodeBits
  <2> DEFINE c == Append(decoder, NextSpan)
  <2>1. /\ decoder' = IF Field.equ = NoName THEN c ELSE Append(c, EqualOf(FALSE))
        /\ UNCHANGED <<fields, walk, struct, encoder>> /\ fi' = fi + 1
    BY <1>3, <1>7, DecodeBitsText
  <2>2. bitAggr
    BY <1>7 DEF DecodeBits
  <2>3. Puts(fi, o, NextSpan)
    BY <1>5, <2>2 DEF Puts
  <2>4. Codes(c, fi, o) /\ TmpBytes(c) = TmpBytes(decoder)
    BY <1>2, <1>5, <2>3, CodesMore
  <2>5. Before(o, fi) # 0
    BY <1>1, <2>2 DEF GroupAt
  <2> HIDE DEF c
  <2>6. Codes(decoder', fi, o) /\ TmpBytes(decoder') = TmpBytes(decoder)
    BY <1>6, <2>1, <2>4
  <2> QED
    BY <1>4, <2>1, <2>5, <2>6
<1>8. CASE OpenDecodeGroup
  <2> DEFINE x == ClearTmp(hasTmp)
             y == TmpByte(Field.xor)
             b == Append(decoder, x)
             c == Append(b, y)
             d == Append(c, FirstSpan)
  <2>1. /\ decoder' = IF Field.equ = NoName THEN d ELSE Append(d, EqualOf(TRUE))
        /\ UNCHANGED <<fields, walk, struct, encoder>> /\ fi' = fi + 1
    BY <1>3, <1>8, OpenDecodeText
  <2>2. ~bitAggr /\ IsBitType(Type)
    BY <1>8 DEF OpenDecodeGroup
  <2>3. x.op \notin WireOps /\ x.op # "byte" /\ y.op \notin WireOps /\ y.op = "byte"
    BY DEF ClearTmp, TmpByte, WireOps, UnitOps
  <2> HIDE DEF x, y
  <2>4. Codes(b, fi - 1, o) /\ TmpBytes(b) = TmpBytes(decoder)
    BY <2>3, CodesSame
  <2> HIDE DEF b
  <2>5. Codes(c, fi - 1, o) /\ TmpBytes(c) = Append(TmpBytes(b), y)
    BY <2>3, <2>4, CodesSame
  <2> HIDE DEF c
  <2>6. Puts(fi, o, FirstSpan)
    BY <1>5, <2>2 DEF Puts
  <2>7. Codes(d, fi, o) /\ TmpBytes(d) = TmpBytes(c)
    BY <1>2, <1>5, <2>5, <2>6, CodesMore
  <2> HIDE DEF d
  <2>8. Codes(decoder', fi, o) /\ TmpBytes(decoder') = TmpBytes(d)
    BY <1>6, <2>1, <2>7
  <2>9. g[fi] = Append(g[fi - 1], y)
    BY <1>4, <1>5, <2>2 DEF y
  <2> QED
    BY <2>1, <2>4, <2>5, <2>7, <2>8, <2>9
<1>9. CASE DecodeWhole
  <2>1. StepsOver /\ ReadsWhole /\ ~IsBitType(Type)
    BY <1>9, DecodeWholeText, WholeNotOpen
  <2>2. PICK body, u : Carries(body, u) /\ ReadAs(Field, u) /\ decoder' = decoder \o Wrap(Field, body) /\ encoder' = encoder
    BY <2>1 DEF ReadsWhole
  <2>3. ~bitAggr /\ UNCHANGED <<fields, walk, struct>> /\ fi' = fi + 1
    BY <2>1 DEF StepsOver
  <2>4. ~Grouped((fi - 1) + 1, o) /\ Field = fields[(fi - 1) + 1]
    BY <1>2, <1>5, <2>1, <2>3 DEF Field
  <2>5. Codes(decoder', fi, o) /\ TmpBytes(decoder') = TmpBytes(decoder)
    BY <1>2, <2>2, <2>4, CodesWhole
  <2> QED
    BY <1>4, <2>1, <2>2, <2>3, <2>5
<1> QED
  BY <1>7, <1>8, <1>9 DEF Decode, DecodeWhole

-----------------------------------------------------------------------------
(* The invariant is inductive.                                             *)

LEMMA FieldsStay == ASSUME IInv, [Next]_vars PROVE fields' = fields
  BY NextKinds DEF Declares, PassesOn, GivesUp, Turns, StartWalk, vars

LEMMA GroupAtStays ==
  ASSUME IInv, [Next]_vars, NEW o \in [1..Len(fields) -> 0..7], LaidOutBy(fields, o), GroupAt(o)
  PROVE  GroupAt(o)'
<1>1. CASE Declares
  BY <1>1 DEF Declares, At, GroupAt, Codec
<1>2. CASE PassesOn
  BY <1>2 DEF PassesOn, GroupAt
<1>3. CASE GivesUp
  BY <1>3 DEF GivesUp, GroupAt, Codec
<1>4. CASE Turns
  BY <1>4 DEF Turns, StartWalk, GroupAt, Before
<1>5. CASE UNCHANGED vars
  BY <1>5 DEF vars, GroupAt
<1> QED
  BY <1>1, <1>2, <1>3, <1>4, <1>5, NextKinds

LEMMA DeclareOne ==
  ASSUME IInv, DeclareField, ~Panic, Declared(fi - 1)
  PROVE  walk' = "struct" /\ Declared(fi - 1)'
<1>1. /\ struct' = Append(struct, [f |-> Field.name, len |-> IF Type.k = "array" THEN ArraySize(Field) ELSE NoName])
      /\ fi' = fi + 1 /\ UNCHANGED <<fields, walk>> /\ walk = "struct" /\ fi \in DOMAIN fields
  BY DEF DeclareField, Require, At
<1>2. fi \in Nat \ {0} /\ fi - 1 \in Nat /\ (fi - 1) + 1 = fi
  BY <1>1, Shape DEF IInv
<1> DEFINE x == [f |-> Field.name, len |-> IF Type.k = "array" THEN ArraySize(Field) ELSE NoName]
           d == Append(struct, x)
<1>3. x.f = Field.name /\ (Type.k = "array" => x.len = ArraySize(Field))
  OBVIOUS
<1> HIDE DEF x
<1>4. /\ Text(struct) /\ Len(struct) = fi - 1
      /\ \A i \in 1..fi-1 : /\ struct[i].f = fields[i].name
                            /\ fields[i].type.k = "array" => struct[i].len = ArraySize(fields[i])
  BY DEF Declared
<1>5. /\ Text(d) /\ Len(d) = fi /\ d[fi] = x /\ \A i \in 1..fi-1 : d[i] = struct[i]
  BY <1>2, <1>4, TextAppend
<1> HIDE DEF d
<1>6. ASSUME NEW i \in 1..fi
      PROVE  d[i].f = fields[i].name /\ (fields[i].type.k = "array" => d[i].len = ArraySize(fields[i]))
  <2>1. i \in 1..fi-1 \/ i = fi
    BY <1>2
  <2> QED
    BY <1>3, <1>4, <1>5, <2>1 DEF Type, Field
<1>7. struct' = d
  BY <1>1 DEF d, x
<1>8. \A y : ArraySize(y)' = ArraySize(y)
  BY <1>1 DEF ArraySize, LimitFieldMax
<1>9. fi' - 1 = fi
  BY <1>1, <1>2
<1> QED
  BY <1>1, <1>5, <1>6, <1>7, <1>8, <1>9 DEF Declared

LEMMA WireStep ==
  ASSUME IInv, TextInv, [Next]_vars, NEW o \in [1..Len(fields) -> 0..7], LaidOutBy(fields, o), GroupAt(o),
         NEW g, Selects(g, {"byte"}, Heads(o)), WireAt(o, g)
  PROVE  WireAt(o, g)'
<1>1. fields' = fields /\ Len(fields)' = Len(fields) /\ fi \in Nat
  BY FieldsStay, Shape DEF IInv, TypeOK
<1>2. g[0] = <<>>
  BY DEF Selects
<1>3. CASE Panic
  BY <1>3 DEF Panic, WireAt
<1>4. CASE DeclareField /\ ~Panic
  <2>1. walk = "struct"
    BY <1>4 DEF DeclareField, At
  <2> QED
    BY <1>4, <2>1, DeclareOne DEF WireAt
<1>5. CASE EndStruct
  <2>1. /\ walk = "struct" /\ walk' = "encode" /\ fi = Len(fields) + 1 /\ fi' = 1 /\ ~bitAggr'
        /\ UNCHANGED <<struct, encoder, decoder>>
    BY <1>5 DEF EndStruct, StartWalk
  <2>2. encoder = <<>>
    BY <2>1 DEF TextInv
  <2>3. Declared(Len(fields)) /\ fi' - 1 = 0
    BY <1>1, <2>1, Shape DEF WireAt, IInv
  <2>4. Declared(Len(fields))'
    BY <1>1, <2>1, <2>3, DeclaredStay
  <2>5. Of({"byte"}, <<>>) = <<>> /\ Of(WireOps, <<>>) = <<>>
    BY OfEmpty
  <2>6. Codes(<<>>, 0, o)
    BY <2>5, TextEmpty DEF Codes
  <2>7. Codes(encoder, fi - 1, o)'
    BY <1>1, <2>1, <2>2, <2>3, <2>6, CodesStay
  <2>8. EncodeHeads(g, fi' - 1, encoder', bitAggr', xorVar')
    BY <1>2, <2>1, <2>2, <2>3, <2>5 DEF EncodeHeads, TmpBytes
  <2> QED
    BY <2>1, <2>4, <2>7, <2>8 DEF WireAt
<1>6. CASE Encode /\ ~Panic
  <2>1. walk = "encode"
    BY <1>6 DEF Encode, EncodeBits, OpenEncodeGroup, EncodeInt, EncodeMsg, EncodeArray, At
  <2>2. Codes(encoder, fi - 1, o) /\ EncodeHeads(g, fi - 1, encoder, bitAggr, xorVar) /\ Declared(Len(fields))
    BY <2>1 DEF WireAt
  <2>3. /\ UNCHANGED <<walk, struct>> /\ fi' - 1 = fi
        /\ Codes(encoder', fi, o) /\ EncodeHeads(g, fi, encoder', bitAggr', xorVar')
    BY <1>1, <1>6, <2>2, EncodeWire
  <2>4. Codes(encoder, fi - 1, o)'
    BY <1>1, <2>3, CodesStay
  <2>5. Declared(Len(fields))'
    BY <1>1, <2>2, <2>3, DeclaredStay
  <2> QED
    BY <1>1, <2>1, <2>3, <2>4, <2>5 DEF WireAt, TmpBytes
<1>7. CASE EndEncode
  <2>1. /\ walk = "encode" /\ walk' = "decode" /\ fi = Len(fields) + 1 /\ fi' = 1
        /\ UNCHANGED <<struct, encoder, decoder>>
    BY <1>7 DEF EndEncode, StartWalk
  <2>2. decoder = <<>> /\ (bitAggr <=> Open(encoder))
    BY <2>1 DEF TextInv, Writing
  <2>3. /\ Declared(Len(fields)) /\ fi' - 1 = 0 /\ fi - 1 = Len(fields)
        /\ Codes(encoder, fi - 1, o) /\ EncodeHeads(g, fi - 1, encoder, bitAggr, xorVar)
    BY <1>1, <2>1, Shape DEF WireAt, IInv
  <2>4. Declared(Len(fields))' /\ Codes(encoder, Len(fields), o)'
    BY <1>1, <2>1, <2>3, DeclaredStay, CodesStay
  <2>5. Of({"byte"}, <<>>) = <<>> /\ Of(WireOps, <<>>) = <<>>
    BY OfEmpty
  <2>6. Codes(<<>>, 0, o)
    BY <2>5, TextEmpty DEF Codes
  <2>7. Codes(decoder, fi - 1, o)'
    BY <1>1, <2>1, <2>2, <2>3, <2>6, CodesStay
  <2>8. TmpBytes(decoder') = g[fi' - 1]
    BY <1>2, <2>1, <2>2, <2>3, <2>5 DEF TmpBytes
  <2>9. Open(encoder) => LastOpen(encoder)
    <3>1. Spans(<<>>) = <<>>
      BY OfEmpty DEF Spans
    <3> QED
      BY <3>1 DEF Open, LastOpen, Last, IsSpan
  <2>10. Closed => ~bitAggr
    <3>1. Open(encoder) => encoder # <<>>
      BY EmptyNotOpen
    <3> QED
      BY <2>2, <2>9, <3>1 DEF Closed
  <2>11. Closed => TmpBytes(encoder) = g[Len(fields)]
    BY <2>3, <2>10 DEF EncodeHeads
  <2>12. Closed' => TmpBytes(encoder') = g[Len(fields)]
    BY <2>1, <2>11, ClosedStays
  <2> QED
    BY <1>1, <2>1, <2>4, <2>7, <2>8, <2>12 DEF WireAt, TmpBytes
<1>8. CASE Decode /\ ~Panic
  <2>1. walk = "decode"
    BY <1>8 DEF Decode, DecodeBits, OpenDecodeGroup, DecodeInt, DecodeMsg, DecodeArray, At
  <2>2. /\ Codes(decoder, fi - 1, o) /\ TmpBytes(decoder) = g[fi - 1] /\ Declared(Len(fields))
        /\ Codes(encoder, Len(fields), o) /\ (Closed => TmpBytes(encoder) = g[Len(fields)])
    BY <2>1 DEF WireAt
  <2>3. /\ UNCHANGED <<walk, struct, encoder>> /\ fi' - 1 = fi
        /\ Codes(decoder', fi, o) /\ TmpBytes(decoder') = g[fi]
    BY <1>1, <1>8, <2>2, DecodeWire
  <2>4. Codes(decoder, fi - 1, o)' /\ Codes(encoder, Len(fields), o)'
    BY <1>1, <2>2, <2>3, CodesStay
  <2>5. Declared(Len(fields))'
    BY <1>1, <2>2, <2>3, DeclaredStay
  <2>6. Closed' => TmpBytes(encoder') = g[Len(fields)]
    BY <2>2, <2>3, ClosedStays
  <2> QED
    BY <1>1, <2>1, <2>3, <2>4, <2>5, <2>6 DEF WireAt, TmpBytes
<1>9. CASE EndDecode
  <2>1. /\ walk = "decode" /\ walk' = "done" /\ fi = Len(fields) + 1
        /\ UNCHANGED <<struct, encoder, decoder>>
    BY <1>9 DEF EndDecode, StartWalk
  <2>2. /\ Codes(decoder, fi - 1, o) /\ TmpBytes(decoder) = g[fi - 1] /\ Declared(Len(fields))
        /\ Codes(encoder, Len(fields), o) /\ (Closed => TmpBytes(encoder) = g[Len(fields)])
        /\ fi - 1 = Len(fields)
    BY <2>1, Shape DEF WireAt, IInv
  <2>3. Codes(decoder, Len(fields), o)' /\ Codes(encoder, Len(fields), o)' /\ Declared(Len(fields))'
    BY <1>1, <2>1, <2>2, CodesStay, DeclaredStay
  <2>4. Closed' => TmpBytes(encoder') = g[Len(fields)]
    BY <2>1, <2>2, ClosedStays
  <2>5. TmpBytes(decoder') = g[Len(fields)]
    BY <2>1, <2>2
  <2> QED
    BY <1>1, <2>1, <2>3, <2>4, <2>5 DEF WireAt, TmpBytes
<1>10. CASE UNCHANGED vars
  <2>1. UNCHANGED <<fields, walk, fi, struct, encoder, decoder, bitAggr, xorVar>>
    BY <1>10 DEF vars
  <2>2. /\ \A n : Declared(n)' <=> Declared(n)
        /\ \A c, n : Codes(c, n, o)' <=> Codes(c, n, o)
    BY <1>1, <2>1, DeclaredStay, CodesStay
  <2>3. (Closed => TmpBytes(encoder) = g[Len(fields)]) => (Closed' => TmpBytes(encoder') = g[Len(fields)])
    BY <2>1, ClosedStays
  <2> QED
    BY <1>1, <2>1, <2>2, <2>3 DEF WireAt, TmpBytes, EncodeHeads
<1> QED
  BY <1>3, <1>4, <1>5, <1>6, <1>7, <1>8, <1>9, <1>10 DEF Next

LEMMA WireInit == Init => WireInv
<1>1. SUFFICES ASSUME Init PROVE WireInv
  OBVIOUS
<1>2. Len(fields) \in Nat /\ walk = "struct" /\ fi = 1 /\ struct = <<>>
  BY <1>1, InitInv, Shape DEF IInv, Init
<1>3. PICK o \in [1..Len(fields) -> 0..7] : LaidOutBy(fields, o) /\ GroupAt(o)
  BY <1>1, InitInv DEF IInv, GroupOK
<1>4. Len(Heads(o)) = Len(fields)
  BY <1>2 DEF Heads
<1>5. PICK g : Selects(g, {"byte"}, Heads(o))
  BY <1>2, <1>4, OfSelects
<1>6. Declared(fi - 1)
  BY <1>2, TextEmpty DEF Declared
<1>7. WireAt(o, g)
  BY <1>2, <1>6 DEF WireAt
<1> QED
  BY <1>3, <1>5, <1>7 DEF WireInv

LEMMA WireInductive == ASSUME IInv, TextInv, WireInv, [Next]_vars PROVE WireInv'
<1>1. PICK o, g :
        o \in [1..Len(fields) -> 0..7] /\ LaidOutBy(fields, o) /\ GroupAt(o) /\ Selects(g, {"byte"}, Heads(o)) /\ WireAt(o, g)
  BY DEF WireInv
<1>2. fields' = fields
  BY FieldsStay
<1>3. GroupAt(o)' /\ WireAt(o, g)'
  BY <1>1, GroupAtStays, WireStep
<1>4. Selects(g, {"byte"}, Heads(o)')
  BY <1>1, <1>2, HeadsStay
<1> QED
  BY <1>1, <1>2, <1>3, <1>4 DEF WireInv

LEMMA WireInvariance == Spec => []WireInv
<1>1. IInv /\ TextInv /\ WireInv /\ [Next]_vars => WireInv'
  BY WireInductive
<1> QED
  BY <1>1, WireInit, Invariance, TextInvariance, PTL DEF Spec

-----------------------------------------------------------------------------
(* What a message's fields say, the units of both codecs say.              *)

(* The unit of field i on the wire.                                        *)
WireUnit(i, o) ==
  IF Grouped(i, o) THEN GroupUnit(i, o)
  ELSE IF fields[i].existIf = NoName THEN UnitFor(fields[i])
  ELSE [op |-> "if", cond |-> This(fields[i].existIf), body |-> <<UnitFor(fields[i])>>]

(* A byte array read whole has the length the struct declares.             *)
LEMMA WholeUnit ==
  ASSUME fields \in Messages, Declared(Len(fields)), NEW i \in DOMAIN fields, Generable(fields[i]),
         NEW u, ReadAs(fields[i], u)
  PROVE  Whole(u) = UnitFor(fields[i])
<1> DEFINE f == fields[i]
<1>1. CASE u = UnitFor(f)
  <2>1. LimitRef(f) # NoRef \/ f.limit = NoName
    BY DEF LimitRef, NoRef, This, Plain
  <2>2. u.op = "bytes" => f.type.k = "array" /\ u = BytesUnit(f, LimitRef(f))
    <3>1. f.type.k = "prim" \/ f.type.k \in {"struct", "undef"} \/ f.type.k = "array"
      BY DEF Generable
    <3>2. f.type.k = "prim" => u.op = "int"
      BY <1>1 DEF UnitFor, IntUnit
    <3>3. f.type.k \in {"struct", "undef"} => u.op = "msg"
      BY <1>1 DEF UnitFor, MsgUnit
    <3>4. f.type.k = "array" => u.op = "each" \/ u = BytesUnit(f, LimitRef(f))
      BY <1>1 DEF UnitFor, EachUnit
    <3> QED
      BY <3>1, <3>2, <3>3, <3>4
  <2>3. u.op = "bytes" => u.len # NoRef
    BY <2>1, <2>2 DEF BytesUnit, Generable
  <2> QED
    BY <1>1, <2>3 DEF Whole
<1>2. CASE f.type.k = "array" /\ IsByte(f.type.elem) /\ ~LimitRef(f).this /\ u = BytesUnit(f, NoRef)
  <2>1. u.op = "bytes" /\ u.len = NoRef /\ u.f = f.name
    BY <1>2 DEF BytesUnit
  <2> DEFINE d == CHOOSE j \in DOMAIN struct : struct[j].f = u.f
  <2>2. DOMAIN struct = 1..Len(fields) /\ DOMAIN fields = 1..Len(fields)
    BY Shape, TextShape DEF Declared
  <2>3. d \in 1..Len(fields) /\ struct[d].f = fields[i].name
    BY <2>1, <2>2 DEF Declared
  <2>4. d = i
    BY <2>2, <2>3, MessagesAssumption DEF Declared
  <2>5. struct[d].len = ArraySize(f)
    BY <1>2, <2>2, <2>4 DEF Declared
  <2>6. LimitRef(f) = Plain(ArraySize(f))
    BY <1>2 DEF LimitRef, ArraySize, This
  <2>7. Whole(u) = [u EXCEPT !.len = Plain(struct[d].len)]
    BY <2>1 DEF Whole
  <2>8. Whole(u) = BytesUnit(f, LimitRef(f))
    BY <1>2, <2>5, <2>6, <2>7 DEF BytesUnit
  <2> QED
    BY <1>2, <2>8 DEF UnitFor
<1> QED
  BY <1>1, <1>2 DEF ReadAs

(* The units of what stands under an "exist if".                           *)
LEMMA OfSkip ==
  ASSUME NEW ops, NEW s, Text(s), NEW x, x.op \notin ops
  PROVE  Of(ops, Append(s, x)) = Of(ops, s)
<1>1. Of(ops, Append(s, x)) = IF x.op \in ops THEN Append(Of(ops, s), x) ELSE Of(ops, s)
  BY TextAppend
<1> QED
  BY <1>1

LEMMA SelectOne ==
  ASSUME NEW ops, NEW s, Text(s), Of(ops, s) = <<>>, NEW u, u.op \in ops
  PROVE  /\ Of(ops, s \o <<u>>) = <<u>>
         /\ \A x : x.op \notin ops => Of(ops, s \o <<x, u>>) = <<u>> /\ Of(ops, s \o <<u, x>>) = <<u>>
<1> DEFINE c == Append(s, u)
<1>1. Text(c) /\ Of(ops, c) = Append(Of(ops, s), u) /\ s \o <<u>> = c
  BY TextAppend, Push
<1>2. Append(Of(ops, s), u) = <<u>>
  <2>1. Text(<<u>>) /\ Text(<<>>)
    BY Tuples, TextEmpty
  <2>2. <<>> \o <<u>> = <<u>> /\ <<>> \o <<u>> = Append(<<>>, u)
    BY <2>1, PushNothing, Push
  <2> QED
    BY <2>2
<1> HIDE DEF c
<1>3. ASSUME NEW x, x.op \notin ops
      PROVE  Of(ops, s \o <<x, u>>) = <<u>> /\ Of(ops, s \o <<u, x>>) = <<u>>
  <2> DEFINE e == Append(s, x)
  <2>1. Text(e)
    BY TextAppend
  <2>6. s \o <<x, u>> = Append(e, u)
    BY PushTwo
  <2>5. Of(ops, e) = Of(ops, s)
    BY <1>3, OfSkip
  <2>2. s \o <<u, x>> = Append(c, x)
    BY PushTwo DEF c
  <2> HIDE DEF e
  <2>3. Of(ops, Append(e, u)) = Append(Of(ops, e), u)
    BY <2>1, TextAppend
  <2>4. Of(ops, Append(c, x)) = Of(ops, c)
    BY <1>1, <1>3, OfSkip
  <2> QED
    BY <1>1, <1>2, <2>1, <2>2, <2>3, <2>4, <2>5, <2>6
<1> QED
  BY <1>1, <1>2, <1>3

LEMMA BodyUnits ==
  ASSUME NEW u, u.op \in UnitOps, NEW body, Carries(body, u)
  PROVE  Units(body) = <<Whole(u)>>
<1>1. Of(UnitOps, body) = <<u>>
  <2>1. \A x : x.op \in Beside => x.op \notin UnitOps
    BY DEF Beside, UnitOps
  <2>2. PICK s : s = <<>>
    OBVIOUS
  <2>3. Text(s) /\ Of(UnitOps, s) = <<>>
    BY <2>2, TextEmpty, OfEmpty
  <2>4. /\ Of(UnitOps, s \o <<u>>) = <<u>>
        /\ \A x : x.op \notin UnitOps => Of(UnitOps, s \o <<x, u>>) = <<u>> /\ Of(UnitOps, s \o <<u, x>>) = <<u>>
    BY <2>3, SelectOne
  <2>5. s \o body = body
    <3>1. Text(body)
      BY Tuples DEF Carries
    <3> QED
      BY <2>2, <3>1, PushNothing
  <2> QED
    BY <2>1, <2>4, <2>5 DEF Carries
<1>2. DOMAIN <<u>> = {1} /\ <<u>>[1] = u
  OBVIOUS
<1>3. Units(body) = [k \in {1} |-> Whole(u)]
  BY <1>1, <1>2 DEF Units
<1>4. <<Whole(u)>> = [k \in {1} |-> Whole(u)]
  OBVIOUS
<1> QED
  BY <1>3, <1>4

LEMMA PutsWired ==
  ASSUME fields \in Messages, Declared(Len(fields)), NEW i \in DOMAIN fields, Generable(fields[i]),
         NEW o, NEW x, Puts(i, o, x)
  PROVE  Wired(x) = WireUnit(i, o)
<1>1. CASE Grouped(i, o)
  <2>1. x = GroupUnit(i, o) /\ x.op = "bits"
    BY <1>1 DEF Puts, GroupUnit, BitsUnit
  <2> QED
    BY <1>1, <2>1 DEF Wired, Whole, WireUnit
<1>2. CASE ~Grouped(i, o)
  <2> DEFINE f == fields[i]
  <2>1. PICK u, body : /\ ReadAs(f, u) /\ Carries(body, u)
                       /\ x = IF f.existIf = NoName THEN u
                              ELSE [op |-> "if", cond |-> This(f.existIf), body |-> body]
    BY <1>2 DEF Puts, PutWhole
  <2>2. u.op \in UnitOps /\ u.op # "if"
    BY <2>1, CarriedOp DEF UnitOps
  <2>3. Whole(u) = UnitFor(f)
    BY <2>1, WholeUnit
  <2>4. CASE f.existIf = NoName
    BY <1>2, <2>1, <2>2, <2>3, <2>4 DEF Wired, WireUnit
  <2>5. CASE f.existIf # NoName
    <3>1. Units(body) = <<UnitFor(f)>>
      BY <2>1, <2>2, <2>3, BodyUnits
    <3>2. x = [op |-> "if", cond |-> This(f.existIf), body |-> body]
      BY <2>1, <2>5
    <3>3. x.op = "if" /\ x.body = body
      BY <3>2
    <3>4. Wired(x) = [x EXCEPT !.body = <<UnitFor(f)>>]
      BY <3>1, <3>3 DEF Wired
    <3>5. Wired(x) = [op |-> "if", cond |-> This(f.existIf), body |-> <<UnitFor(f)>>]
      BY <3>2, <3>4
    <3> QED
      BY <1>2, <2>5, <3>5 DEF WireUnit
  <2> QED
    BY <2>4, <2>5
<1> QED
  BY <1>1, <1>2

LEMMA CodesWired ==
  ASSUME fields \in Messages, Declared(Len(fields)), \A i \in DOMAIN fields : Generable(fields[i]),
         NEW code, NEW o, Codes(code, Len(fields), o)
  PROVE  Wire(code) = [k \in 1..Len(fields) |-> WireUnit(k, o)]
<1> DEFINE us == Of(WireOps, code)
<1>1. /\ DOMAIN us = 1..Len(fields) /\ DOMAIN fields = 1..Len(fields)
      /\ \A k \in 1..Len(fields) : Puts(k, o, us[k])
  <2>1. Text(us) /\ Len(us) = Len(fields)
    BY TextOf DEF Codes
  <2> QED
    BY <2>1, Shape, TextShape DEF Codes
<1>2. \A k \in 1..Len(fields) : Wired(us[k]) = WireUnit(k, o)
  BY <1>1, PutsWired
<1>3. Wire(code) = [k \in DOMAIN us |-> Wired(us[k])]
  BY DEF Wire, WireOps
<1> HIDE DEF us
<1> QED
  BY <1>1, <1>2, <1>3

(* For every accepted message whose last bit group is full, the generated  *)
(* decoder reads the very units its encoder writes, in their order, under  *)
(* the same conditions, and as many bytes of bit fields, xored with the    *)
(* same constants; where the message ends inside a group, all of it but    *)
(* that group's byte.                                                      *)
THEOREM CodecsAreSymmetric == Spec => []Symmetric
<1>1. ASSUME IInv, WireInv PROVE Symmetric
  <2>1. SUFFICES ASSUME walk = "done"
                 PROVE  /\ Wire(encoder) = Wire(decoder)
                        /\ Closed => TmpBytes(encoder) = TmpBytes(decoder)
    BY DEF Symmetric
  <2>2. PICK o, g : o \in [1..Len(fields) -> 0..7] /\ WireAt(o, g)
    BY <1>1 DEF WireInv
  <2>3. /\ Declared(Len(fields)) /\ Codes(encoder, Len(fields), o) /\ Codes(decoder, Len(fields), o)
        /\ Closed => TmpBytes(encoder) = g[Len(fields)]
        /\ TmpBytes(decoder) = g[Len(fields)]
    BY <2>1, <2>2 DEF WireAt
  <2>4. fields \in Messages /\ \A i \in DOMAIN fields : Generable(fields[i])
    BY <1>1, <2>1 DEF IInv, PassedOK
  <2>5. Wire(encoder) = Wire(decoder)
    BY <2>3, <2>4, CodesWired
  <2> QED
    BY <2>3, <2>5
<1> QED
  BY <1>1, Invariance, WireInvariance, PTL
=============================================================================
