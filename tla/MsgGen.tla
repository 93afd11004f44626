------------------------------- MODULE MsgGen -------------------------------
(***************************************************************************)
(* The Go generator for one message (protoc/interp_go.go).                 *)
(* visitMsgDefine_Go walks the fields three times: it writes the struct    *)
(* declaration, then the encoder, then the decoder.  The encoder's and the *)
(* decoder's walk each carry their own bit-assembly state; the semantic    *)
(* analyser has checked the layout with a third copy of it.                *)
(*                                                                         *)
(* The generated text is modelled as a sequence of statements.  A unit of  *)
(* the wire has the same record in the encoder and in the decoder, where   *)
(* the first writes what the second reads:                                 *)
(*   bits  [f, w, sh]       w bits of field f at bit sh of tmp             *)
(*   int   [f, w, xor]      an integer of w bits, xored with xor           *)
(*   msg   [f]              a nested message                               *)
(*   bytes [f, len]         the first len bytes of an array                *)
(*   each  [f, len, elem]   len elements of an array, one by one           *)
(* Around them: tmp [decl] clears the byte under assembly, declaring it or *)
(* not; byte [xor] writes it out or reads it in; clamp, most and equal     *)
(* [f, ref] are the code of max and equal; if [cond, body] is the code of  *)
(* "exist if", whose condition is abstracted to one field being non-zero.  *)
(*                                                                         *)
(* An identifier in the text is a reference: with "m." in front it is a    *)
(* field of the message, without it a constant of the file.                *)
(*                                                                         *)
(* A definition Op_Slip just before Op is Op with one plausible mistake,   *)
(* for the mutation runs only.                                             *)
(***************************************************************************)
EXTENDS LweTypes, SequencesExt

CONSTANT Messages    \* field sequences of accepted messages

ASSUME MessagesAssumption ==
  \A m \in Messages :
    /\ IsSequence(m) /\ LaidOut(m)
    /\ \A i, j \in DOMAIN m : m[i].name = m[j].name => i = j

VARIABLES
  fields,   \* the fields of the message (never assigned)
  walk,     \* "struct" | "encode" | "decode" | "done" | "panic"
  fi,       \* the field the walk is at
  hasTmp, bitAggr, bits, xorVar,  \* the locals of the two codec walks
  struct,   \* the declared fields: sequence of [f, len]
  encoder, decoder                \* the statements written so far

vars == <<fields, walk, fi, hasTmp, bitAggr, bits, xorVar, struct, encoder, decoder>>
aggr == <<hasTmp, bitAggr, bits, xorVar>>

Field == fields[fi]
Type == Field.type
-----------------------------------------------------------------------------
(* Identifiers and statements.                                             *)

NoRef    == [this |-> FALSE, name |-> NoName]
Plain(n) == [this |-> FALSE, name |-> n]
This(n)  == [this |-> TRUE, name |-> n]

BitsUnit(f, sh)      == [op |-> "bits", f |-> f.name, w |-> Bits(f.type), sh |-> sh]
IntUnit(f)           == [op |-> "int", f |-> f.name, w |-> Bits(f.type), xor |-> Plain(f.xor)]
MsgUnit(f)           == [op |-> "msg", f |-> f.name]
BytesUnit(f, len)    == [op |-> "bytes", f |-> f.name, len |-> len]
EachUnit(f, len, el) == [op |-> "each", f |-> f.name, len |-> len, elem |-> el]
ClearTmp(declared)   == [op |-> "tmp", decl |-> ~declared]
TmpByte(xor)         == [op |-> "byte", xor |-> Plain(xor)]

Clamp(f) == IF f.max = NoName THEN <<>>
            ELSE <<[op |-> "clamp", f |-> f.name, ref |-> Plain(f.max)]>>

Most(f)  == [op |-> "most", f |-> f.name, ref |-> Plain(f.max)]

(* braces is FALSE where the text of the check is "if ... return -1;",     *)
(* which is no Go statement.                                               *)
Equal(f, braces) == IF f.equ = NoName THEN <<>>
                    ELSE <<[op |-> "equal", f |-> f.name, ref |-> Plain(f.equ), braces |-> braces]>>

(* wrapExist_Go                                                            *)
Wrap(f, body) == IF f.existIf = NoName THEN body
                 ELSE <<[op |-> "if", cond |-> This(f.existIf), body |-> body]>>

(* getLimitFieldMax: the max of the first field of that name, nil if it    *)
(* has none or if no field has the name.                                   *)
LimitFieldMax(name) ==
  LET js == {j \in DOMAIN fields : fields[j].name = name}
  IN  IF js = {} THEN NoName
      ELSE fields[CHOOSE j \in js : \A k \in js : j <= k].max

(* The length of an array: limited by a field with a max it is that field, *)
(* otherwise the limit is taken for a constant.                            *)
LimitRef(f) == IF LimitFieldMax(f.limit) # NoName THEN This(f.limit) ELSE Plain(f.limit)

(* The array type in the struct: [max of the limit] or [limit].            *)
ArraySize(f) == IF LimitFieldMax(f.limit) # NoName THEN LimitFieldMax(f.limit) ELSE f.limit

(* typeName4Go panics on every other type.                                 *)
HasGoName(t) == t.k \in {"struct", "undef"} \/ IsIntType(t)

IsByte(t) == IsIntType(t) /\ Bits(t) = 8

(* The element types the loops of an array can handle.                     *)
ElemOk(t) == t.k = "struct" \/ (IsIntType(t) /\ Bits(t) % 8 = 0)

ElemUnit(t) == IF t.k = "struct" THEN [op |-> "msg"] ELSE [op |-> "int", w |-> Bits(t)]
-----------------------------------------------------------------------------
(* The walks.                                                              *)

At(w) == walk = w /\ fi \in DOMAIN fields

Panic == /\ walk' = "panic"
         /\ UNCHANGED <<fields, fi, aggr, struct, encoder, decoder>>

(* doPanic unless ok.                                                      *)
Require(ok, step) == IF ok THEN step /\ fi' = fi + 1 /\ UNCHANGED <<fields, walk>> ELSE Panic

StartWalk(w) == /\ walk' = w
                /\ fi' = 1
                /\ hasTmp' = FALSE /\ bitAggr' = FALSE /\ bits' = 0 /\ xorVar' = NoName
                /\ UNCHANGED fields

DeclareField ==
  /\ At("struct")
  /\ Require(IF Type.k = "array" THEN Field.limit # NoName /\ HasGoName(Type.elem) ELSE HasGoName(Type),
             /\ struct' = Append(struct, [f   |-> Field.name,
                                          len |-> IF Type.k = "array" THEN ArraySize(Field) ELSE NoName])
             /\ UNCHANGED <<aggr, encoder, decoder>>)

EndStruct == /\ walk = "struct" /\ fi = Len(fields) + 1
             /\ StartWalk("encode")
             /\ UNCHANGED <<struct, encoder, decoder>>
-----------------------------------------------------------------------------
(* Bit groups: a field of n bits up to its end still fits the open byte; a *)
(* first field opens the group.                                            *)

Fits_NeverFull(n) == IsIntType(Type) /\ n < 8
Fits(n) == IsIntType(Type) /\ n <= 8

Opened_Adds == hasTmp' = TRUE /\ bitAggr' = TRUE /\ bits' = bits + Bits(Type)
Opened == hasTmp' = TRUE /\ bitAggr' = TRUE /\ bits' = Bits(Type)
-----------------------------------------------------------------------------
(* visitMsgEncode_Go                                                       *)

Write(code) == encoder' = encoder \o code /\ UNCHANGED <<struct, decoder>>

FullByte_Always(n) == <<TmpByte(xorVar)>>
FullByte_OwnXor(n) == IF n = 8 THEN <<TmpByte(Field.xor)>> ELSE <<>>
FullByte(n) == IF n = 8 THEN <<TmpByte(xorVar)>> ELSE <<>>

EncodeGroup_StaysOpen(n) == bits' = n /\ bitAggr' = TRUE /\ UNCHANGED xorVar
EncodeGroup(n) == /\ bits' = n
                  /\ bitAggr' = (n < 8)
                  /\ xorVar' = IF n = 8 THEN NoName ELSE xorVar

(* A further field of the open group, which is written out when full.      *)
EncodeBits ==
  /\ At("encode") /\ Type.k = "prim" /\ bitAggr
  /\ LET n == bits + Bits(Type)
     IN  Require(Fits(n),
                 /\ Write(<<BitsUnit(Field, 8 - n)>> \o FullByte(n))
                 /\ EncodeGroup(n)
                 /\ UNCHANGED hasTmp)

OpenEncodeGroup ==
  /\ At("encode") /\ IsBitType(Type) /\ ~bitAggr
  /\ Require(TRUE,
             /\ Write(<<ClearTmp(hasTmp), BitsUnit(Field, 8 - Bits(Type))>>)
             /\ Opened
             /\ xorVar' = Field.xor)

EncodeInt ==
  /\ At("encode") /\ Type.k = "prim" /\ ~IsBitType(Type) /\ ~bitAggr
  /\ Require(IsIntType(Type) /\ ~IsVarInt(Type),
             /\ Write(Wrap(Field, Clamp(Field) \o <<IntUnit(Field)>>))
             /\ UNCHANGED aggr)

(* Structs, and types that were never declared: their codec is called.     *)
(* Nothing looks at the open group.                                        *)
EncodeMsg ==
  /\ At("encode") /\ Type.k \in {"struct", "undef"}
  /\ Require(TRUE, Write(Wrap(Field, <<MsgUnit(Field)>>)) /\ UNCHANGED aggr)

EncodeArray ==
  /\ At("encode") /\ Type.k = "array"
  /\ Require(ElemOk(Type.elem),
             /\ Write(Wrap(Field, IF IsByte(Type.elem) THEN <<BytesUnit(Field, LimitRef(Field))>>
                              ELSE <<EachUnit(Field, LimitRef(Field), ElemUnit(Type.elem))>>))
             /\ UNCHANGED aggr)

EndEncode == /\ walk = "encode" /\ fi = Len(fields) + 1
             /\ StartWalk("decode")
             /\ UNCHANGED <<struct, encoder, decoder>>
-----------------------------------------------------------------------------
(* visitMsgDecode_Go                                                       *)

Read(code) == decoder' = decoder \o code /\ UNCHANGED <<struct, encoder>>

DecodeGroup_StaysOpen(n) == bits' = n /\ bitAggr' = TRUE
DecodeGroup(n) == bits' = n % 8 /\ bitAggr' = (n < 8)

DecodeBits ==
  /\ At("decode") /\ Type.k = "prim" /\ bitAggr
  /\ LET n == bits + Bits(Type)
     IN  Require(Fits(n),
                 /\ Read(<<BitsUnit(Field, 8 - n)>> \o Equal(Field, FALSE))
                 /\ DecodeGroup(n)
                 /\ UNCHANGED <<hasTmp, xorVar>>)

OpenDecodeGroup ==
  /\ At("decode") /\ IsBitType(Type) /\ ~bitAggr
  /\ Require(TRUE,
             /\ Read(<<ClearTmp(hasTmp), TmpByte(Field.xor), BitsUnit(Field, 8 - Bits(Type))>> \o Equal(Field, TRUE))
             /\ Opened
             /\ UNCHANGED xorVar)

DecodeInt ==
  /\ At("decode") /\ Type.k = "prim" /\ ~IsBitType(Type) /\ ~bitAggr
  /\ Require(IsIntType(Type) /\ ~IsVarInt(Type),
             /\ Read(Wrap(Field, <<IntUnit(Field)>> \o (IF Field.max # NoName THEN <<Most(Field)>> ELSE Equal(Field, TRUE))))
             /\ UNCHANGED aggr)

DecodeMsg ==
  /\ At("decode") /\ Type.k \in {"struct", "undef"}
  /\ Require(TRUE, Read(Wrap(Field, <<MsgUnit(Field)>>)) /\ UNCHANGED aggr)

(* A byte array limited by a constant is read whole: m.f[:].               *)
DecodeArray ==
  /\ At("decode") /\ Type.k = "array"
  /\ Require(ElemOk(Type.elem),
             /\ Read(Wrap(Field, IF IsByte(Type.elem)
                             THEN <<BytesUnit(Field, IF LimitRef(Field).this THEN LimitRef(Field) ELSE NoRef)>>
                             ELSE <<EachUnit(Field, LimitRef(Field), ElemUnit(Type.elem))>>))
             /\ UNCHANGED aggr)

EndDecode == /\ walk = "decode" /\ fi = Len(fields) + 1
             /\ StartWalk("done")
             /\ UNCHANGED <<struct, encoder, decoder>>
-----------------------------------------------------------------------------
Init == /\ fields \in Messages
        /\ walk = "struct" /\ fi = 1
        /\ hasTmp = FALSE /\ bitAggr = FALSE /\ bits = 0 /\ xorVar = NoName
        /\ struct = <<>> /\ encoder = <<>> /\ decoder = <<>>

Encode == EncodeBits \/ OpenEncodeGroup \/ EncodeInt \/ EncodeMsg \/ EncodeArray
Decode == DecodeBits \/ OpenDecodeGroup \/ DecodeInt \/ DecodeMsg \/ DecodeArray

Next == \/ DeclareField \/ EndStruct
        \/ Encode \/ EndEncode
        \/ Decode \/ EndDecode

Spec == Init /\ [][Next]_vars
-----------------------------------------------------------------------------
(***************************************************************************)
(* Properties.                                                             *)
(***************************************************************************)
Walks == {"struct", "encode", "decode", "done", "panic"}

(* Types of the generator's state.                                         *)
TypeOK == /\ walk \in Walks
          /\ fi \in 1..Len(fields) + 1
          /\ walk = "panic" => fi \in DOMAIN fields
          /\ hasTmp \in BOOLEAN /\ bitAggr \in BOOLEAN /\ bits \in 0..8

(* The generator gives up on a message exactly when one of its fields has  *)
(* a type Go code cannot be written for, and never with a bit group open:  *)
(* the panics of the bit assembly, "bit assemble mode error" in either     *)
(* walk, are not reached for a message the analyser has accepted.          *)
Generable(f) ==
  \/ f.type.k = "prim" /\ IsIntType(f.type) /\ ~IsVarInt(f.type)
  \/ f.type.k \in {"struct", "undef"}
  \/ f.type.k = "array" /\ f.limit # NoName /\ ElemOk(f.type.elem)

PanicIsTyped == /\ walk = "panic" => ~Generable(Field) /\ ~bitAggr
                /\ walk = "done" => \A i \in DOMAIN fields : Generable(fields[i])

(* The encoder's walk and the decoder's walk both lay the fields out the   *)
(* way ByteLayout says.  (The encoder leaves bits at 8 when a group closes *)
(* and overwrites it when the next one opens: bitAggr is what counts.)     *)
EncodeLayout == INSTANCE ByteLayout WITH
                  off    <- IF walk = "encode" /\ bitAggr THEN bits ELSE 0,
                  placed <- IF walk = "encode" THEN fi - 1 ELSE 0
DecodeLayout == INSTANCE ByteLayout WITH
                  off    <- IF walk = "decode" /\ bitAggr THEN bits ELSE 0,
                  placed <- IF walk = "decode" THEN fi - 1 ELSE 0
EncodeLayoutSpec == EncodeLayout!Spec
DecodeLayoutSpec == DecodeLayout!Spec

(* In the code written so far the bits of one tmp are adjacent spans from  *)
(* the top down.  A group starts where tmp has been cleared, and in the    *)
(* decoder its byte has been read: there, and only there, is a first span. *)
(* Nothing but the check of an equal stands between the spans of one byte. *)
(* The encoder writes the byte once, behind the span that fills it, and    *)
(* nowhere else; the decoder reads it once, behind the statement that      *)
(* clears tmp, and nowhere else.                                           *)
(* The group the code ends with may be open; the encoder has not written   *)
(* its byte.  tmp is declared by the first statement that clears it and by *)
(* no other.                                                               *)
IsSpan(s) == s.op = "bits"

UnitOps == {"bits", "int", "msg", "bytes", "each"}
SpanOps == UnitOps \cup {"if", "tmp", "byte", "clamp", "most"}

(* The statements of code with one of these ops (SelectSeq, as a recursive *)
(* function, which can be reasoned about).                                 *)
Of(ops, code) ==
  LET of[k \in 0..Len(code)] ==
        IF k = 0 THEN <<>>
        ELSE IF code[k].op \in ops THEN Append(of[k-1], code[k]) ELSE of[k-1]
  IN  of[Len(code)]

Spans(code) == Of(SpanOps, code)

(* Before the first statement and behind the last one.                     *)
Edge == [op |-> "edge"]
StmtAt(c, k) == IF k \in DOMAIN c THEN c[k] ELSE Edge

(* s may stand behind p in the encoder or the decoder.                     *)
Follows(codec, p, s) ==
  LET open == IsSpan(p) /\ p.sh > 0
      full == IsSpan(p) /\ p.sh = 0
  IN  /\ IsSpan(s) => s.sh + s.w = IF open THEN p.sh ELSE 8
      /\ open => IsSpan(s) \/ s = Edge
      /\ (IsSpan(s) /\ ~open) <=> p.op = IF codec = "encode" THEN "tmp" ELSE "byte"
      /\ s.op = "byte" <=> IF codec = "encode" THEN full ELSE p.op = "tmp"

SpansAdjacent(codec, code) ==
  LET c == Spans(code)
  IN  \A k \in 1..Len(c) + 1 : Follows(codec, StmtAt(c, k-1), StmtAt(c, k))

DeclaredOnce(code) ==
  LET c == Of({"tmp"}, code)
  IN  \A k \in DOMAIN c : c[k].decl <=> k = 1

GroupsWhole == /\ SpansAdjacent("encode", encoder) /\ DeclaredOnce(encoder)
               /\ SpansAdjacent("decode", decoder) /\ DeclaredOnce(decoder)

(* A message whose last group is full.                                     *)
LastOpen(code) == code # <<>> /\ Last(Spans(code)).op = "bits" /\ Last(Spans(code)).sh > 0
Closed == encoder # <<>> => ~LastOpen(encoder)

(* The decoder reads exactly the units the encoder writes, in the same     *)
(* order, under the same conditions and with the same masks, as many bytes *)
(* of bit fields and xored with the same constants - unless the message    *)
(* ends inside a bit group.                                                *)
Whole(s) == IF s.op = "bytes" /\ s.len = NoRef
            THEN LET d == CHOOSE i \in DOMAIN struct : struct[i].f = s.f
                 IN  [s EXCEPT !.len = Plain(struct[d].len)]
            ELSE s

Units(code) ==
  LET us == Of(UnitOps, code)
  IN  [k \in DOMAIN us |-> Whole(us[k])]

Wired(s) == IF s.op = "if" THEN [s EXCEPT !.body = Units(s.body)] ELSE Whole(s)

Wire(code) ==
  LET us == Of(UnitOps \cup {"if"}, code)
  IN  [k \in DOMAIN us |-> Wired(us[k])]

TmpBytes(code) == Of({"byte"}, code)

Symmetric ==
  walk = "done" =>
    /\ Wire(encoder) = Wire(decoder)
    /\ Closed => TmpBytes(encoder) = TmpBytes(decoder)

(* Claimed by the error text of visitMsgDefine, "field series not fit in 8 *)
(* bits boundary": an accepted message ends on a byte boundary, so that    *)
(* the encoder writes as many bytes of bit fields as the decoder reads.    *)
SameBytes == walk = "done" => Len(TmpBytes(encoder)) = Len(TmpBytes(decoder))

(* Claimed by data/test.proto, "this will be checked by generated code":   *)
(* every equal of a field is checked in the decoder, by a Go statement.    *)
Checks(code) == UNION {IF code[k].op = "if" THEN Range(code[k].body) ELSE {code[k]} : k \in DOMAIN code}

EqualChecked ==
  walk = "done" =>
    \A i \in DOMAIN fields : fields[i].equ # NoName =>
      \E s \in Checks(decoder) : s.op = "equal" /\ s.f = fields[i].name /\ s.braces
=============================================================================
