------------------------------ MODULE LweTypes ------------------------------
(***************************************************************************)
(* The types of the proto language and the shape of the syntax tree that   *)
(* the parser hands to the semantic analyser and to the generator.         *)
(*                                                                         *)
(* A type is a record whose field k names the Go type that implements      *)
(* AstType: "prim", "array", "struct", "undef"; "nil" is the nil interface *)
(* an unresolved forward reference leaves behind.  Names are strings and   *)
(* the empty string stands for an absent name (a nil *AstVarNameRef, the   *)
(* msgName of a bind to nil, a missing mspace).                            *)
(***************************************************************************)
EXTENDS Integers, Sequences

NoName == ""

(* A Go slice built by append, whatever its length.                        *)
IsSequence(s) == Len(s) \in Nat /\ DOMAIN s = 1..Len(s)

NilType == [k |-> "nil"]
Prim(n) == [k |-> "prim", name |-> n]
StructOf(n) == [k |-> "struct", name |-> n]
ArrayOf(t) == [k |-> "array", elem |-> t]
Undef(n, r) == [k |-> "undef", name |-> n, resolved |-> r]

BitNames  == {"u1", "u2", "u3", "u4", "u5", "u6", "u7"}
ByteNames == {"u8", "char", "u16", "u32", "u64", "v32", "v64"}
VarNames  == {"v32", "v64"}
Builtins  == BitNames \cup ByteNames \cup {"any", "int", "string", "void"}

(***************************************************************************)
(* isIntType returns (true, bits) for these primitive names, (false, 0)    *)
(* for every other type.  "int" is not one of them: it is the type of      *)
(* constants, not of a field on the wire.                                  *)
(***************************************************************************)
IntBits == [n \in BitNames \cup ByteNames |->
              CASE n = "u1" -> 1 [] n = "u2" -> 2 [] n = "u3" -> 3
                [] n = "u4" -> 4 [] n = "u5" -> 5 [] n = "u6" -> 6
                [] n = "u7" -> 7 [] n \in {"u8", "char"} -> 8
                [] n = "u16" -> 16 [] n \in {"u32", "v32"} -> 32
                [] OTHER -> 64]

IsIntType(t) == t.k = "prim" /\ t.name \in DOMAIN IntBits
Bits(t) == IF IsIntType(t) THEN IntBits[t.name] ELSE 0
IsVarInt(t) == t.k = "prim" /\ t.name \in VarNames

(* An integer type whose width is no multiple of 8 opens a bit group.      *)
IsBitType(t) == IsIntType(t) /\ Bits(t) % 8 # 0

(* realType: a forward reference is replaced by what it was resolved to,   *)
(* which is nil when no type declaration ever resolved it.                 *)
RealType(t) == IF t.k = "undef" THEN t.resolved ELSE t

(***************************************************************************)
(* signature() up to what its callers tell apart.  The analyser compares a *)
(* signature with "I", or two signatures with each other and then looks at *)
(* the first element through sigParser.getNextElem; the element of an      *)
(* array and the name of a struct never decide, because both are rejected  *)
(* by their first character.  "!" stands for the panic on a primitive      *)
(* without a case (u3, u5, u6, u7, char) and for an unresolved name.       *)
(***************************************************************************)
IntSigNames == {"int", "u1", "u2", "u4", "u8", "u16", "u32", "u64", "v32", "v64"}

Signature(t) ==
  LET r == RealType(t)
  IN  CASE r.k = "prim" /\ r.name \in IntSigNames -> "I"
        [] r.k = "prim" /\ r.name = "string"      -> "S"
        [] r.k = "prim" /\ r.name = "any"         -> "*"
        [] r.k = "prim" /\ r.name = "void"        -> "V"
        [] r.k = "array"                          -> "["
        [] r.k = "struct"                         -> "s"
        [] OTHER                                  -> "!"

(***************************************************************************)
(* A message whose bit groups fit their bytes: off[i] is the number of     *)
(* bits field i leaves used in the byte under construction.  It is what    *)
(* the bit-assembly code of the generator takes for granted.               *)
(***************************************************************************)
Before(off, i) == IF i = 1 THEN 0 ELSE off[i - 1]

FitsAt(fields, off, i) ==
  LET t == fields[i].type
  IN  IF Before(off, i) # 0 \/ IsBitType(t)
      THEN /\ IsIntType(t)
           /\ Before(off, i) + Bits(t) <= 8
           /\ off[i] = (Before(off, i) + Bits(t)) % 8
      ELSE off[i] = 0

LaidOutBy(fields, off) == \A i \in DOMAIN fields : FitsAt(fields, off, i)

LaidOut(fields) == \E off \in [1..Len(fields) -> 0..7] : LaidOutBy(fields, off)

=============================================================================
