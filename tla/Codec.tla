------------------------------- MODULE Codec -------------------------------
(***************************************************************************)
(* The generated program at work: the encoder MsgGen has written for a     *)
(* message is run on a value of it, its bytes go through a stream, and the *)
(* decoder is run on what arrives.                                         *)
(*                                                                         *)
(* One step is one statement of the generated code, and does what the Go   *)
(* text of that statement does.  A write may fail before, in the middle of *)
(* or after its bytes; a byte of the stream may change, or other bytes     *)
(* arrive altogether.  binary.Write and binary.Read move the bytes of      *)
(* big-endian integers; a nested message is one byte.                      *)
(***************************************************************************)
EXTENDS MsgGen

CONSTANTS Consts,     \* name -> value, the constants of the file
          Values,     \* name of an integer type -> what a caller may give a field of it
          Leftovers,  \* ... -> what a field of the decoder's struct may hold
          Noise,      \* bytes a fault may put in the stream
          Arrivals    \* byte sequences that may arrive instead of the stream

ASSUME ConstsAssumption == \A n \in DOMAIN Consts : Consts[n] \in Int

(* v without its last k bytes.                                             *)
High(v, k) == LET high[j \in 0..k] == IF j = 0 THEN v ELSE high[j-1] \div 256
              IN  high[k]

(* The values of a Go type uintw, and the w of the type typeName4Go gives. *)
Unsigned(v, w) == v \in Nat /\ High(v, w \div 8) = 0
GoBits(n) == IF n \in BitNames THEN 8 ELSE IntBits[n]

ASSUME ValuesAssumption ==
  \A n \in BitNames \cup ByteNames : \A v \in Values[n] \cup Leftovers[n] : Unsigned(v, GoBits(n))
ASSUME NoiseAssumption == Noise \subseteq 0..255
ASSUME ArrivalsAssumption == Arrivals \subseteq Seq(0..255)

VARIABLES
  phase,     \* "generate" | "encode" | "deliver" | "decode" | "end"
  msg,       \* the struct the running function works on
  code, tmp, \* its remaining statements, its local
  given,     \* the message as the caller of the encoder gave it
  stream,    \* the bytes written, then the bytes delivered
  left,      \* the bytes not yet read
  clean,     \* the bytes delivered are the bytes written
  encRet, decRet  \* "none" | "ok" | "fail" (-1) | "panic"

caller == <<given, clean>>
machine == <<phase, msg, code, tmp, stream, left, encRet, decRet, caller>>
cvars == <<vars, machine>>
-----------------------------------------------------------------------------
(* The generated text as the Go compiler sees it: every identifier that is *)
(* not a field is a constant, a constant that is compared, assigned or     *)
(* converted fits the type, the size of an array is not negative, a field  *)
(* that is tested or counted by is an integer, and every statement parses. *)

ConstVal(ref) == IF ref.name = NoName THEN 0 ELSE Consts[ref.name]

FieldNamed(n) == CHOOSE i \in DOMAIN fields : fields[i].name = n
Width(n) == GoBits(fields[FieldNamed(n)].type.name)

Known(ref) == ref.this \/ ref.name \in DOMAIN Consts \cup {NoName}

Literal(ref, w) == Known(ref) /\ Unsigned(ConstVal(ref), w)

Integer(ref) == ref.this => \E f \in Range(fields) : f.name = ref.name /\ IsIntType(f.type)

Flat(c) == UNION {IF c[k].op = "if" THEN Range(c[k].body) ELSE {c[k]} : k \in DOMAIN c}

StatementOk(s) ==
  CASE s.op \in {"clamp", "most"} -> Literal(s.ref, Width(s.f))
    [] s.op = "equal"             -> Literal(s.ref, Width(s.f)) /\ s.braces
    [] s.op = "int"               -> Literal(s.xor, s.w)
    [] s.op = "byte"              -> Literal(s.xor, 8)
    [] s.op \in {"bytes", "each"} -> Known(s.len) /\ Integer(s.len)
    [] OTHER                      -> TRUE

Compiles == /\ \A s \in Flat(encoder) \cup Flat(decoder) : StatementOk(s)
            /\ \A s \in Range(encoder) \cup Range(decoder) : s.op = "if" => Integer(s.cond)
            /\ \A k \in DOMAIN struct : LET size == Plain(struct[k].len)
                                       IN  Known(size) /\ ConstVal(size) \in Nat
-----------------------------------------------------------------------------
(* Values of the struct.                                                   *)

Size(f) == Consts[ArraySize(f)]

(* A field is one element or an array of them, each with a value of pool.  *)
Elems(pool, t) == IF t.k \in {"struct", "undef"} THEN pool["u8"] ELSE pool[t.name]
Contents(pool, f) == IF f.type.k = "array" THEN [1..Size(f) -> Elems(pool, f.type.elem)]
                     ELSE [1..1 -> Elems(pool, f.type)]
FieldValue(f, c) == IF f.type.k = "array" THEN c ELSE c[1]

Structs(pool) ==
  LET contents == {c \in [DOMAIN fields -> UNION {Contents(pool, f) : f \in Range(fields)}] :
                     \A i \in DOMAIN fields : c[i] \in Contents(pool, fields[i])}
  IN  {[n \in {f.name : f \in Range(fields)} |->
          FieldValue(fields[FieldNamed(n)], c[FieldNamed(n)])] : c \in contents}

BigEndian(v, w) == [k \in 1..(w \div 8) |-> High(v, (w \div 8) - k) % 256]
Number(bytes) == LET number[k \in 0..Len(bytes)] ==
                       IF k = 0 THEN 0 ELSE number[k-1] * 256 + bytes[k]
                 IN  number[Len(bytes)]

(* Go's x | y and x ^ y of bytes, and the latter of the bytes of integers. *)
Bit(v, k) == (v \div 2^k) % 2 = 1
Byte(b) == b[0] + 2*b[1] + 4*b[2] + 8*b[3] + 16*b[4] + 32*b[5] + 64*b[6] + 128*b[7]
OrByte(x, y)  == Byte([k \in 0..7 |-> IF Bit(x, k) \/ Bit(y, k) THEN 1 ELSE 0])
XorByte(x, y) == Byte([k \in 0..7 |-> IF Bit(x, k) # Bit(y, k) THEN 1 ELSE 0])
Masked(bytes, v) == LET mask == BigEndian(v, 8 * Len(bytes))
                    IN  [k \in DOMAIN bytes |-> XorByte(bytes[k], mask[k])]
-----------------------------------------------------------------------------
(* The machine.                                                            *)

Stmt == Head(code)
Runs(p, ops) == phase = p /\ code # <<>> /\ Stmt.op \in ops
Continue(rest) == code' = rest /\ UNCHANGED <<vars, phase, encRet, decRet, caller>>

(* The running function returns, or panics.                                *)
Return(r) ==
  /\ code' = <<>>
  /\ IF phase = "encode"
     THEN phase' = "deliver" /\ encRet' = r /\ UNCHANGED decRet
     ELSE phase' = "end" /\ decRet' = r /\ UNCHANGED encRet
  /\ UNCHANGED <<vars, msg, tmp, caller>>

(* How many elements of an array a statement handles.                      *)
Count(s) == CASE s.len = NoRef -> Len(msg[s.f])
              [] s.len.this    -> msg[s.len.name]
              [] OTHER         -> ConstVal(s.len)

OutOfRange(s) == CASE s.op = "bytes" -> Count(s) > Len(msg[s.f])
                   [] s.op = "elem"  -> s.i > Len(msg[s.f])
                   [] OTHER          -> FALSE
-----------------------------------------------------------------------------
(* Statements both functions have.                                         *)

ClearByte == /\ \E p \in {"encode", "decode"} : Runs(p, {"tmp"})
             /\ tmp' = 0
             /\ Continue(Tail(code))
             /\ UNCHANGED <<msg, stream, left>>

If == /\ \E p \in {"encode", "decode"} : Runs(p, {"if"})
      /\ Continue((IF msg[Stmt.cond.name] # 0 THEN Stmt.body ELSE <<>>) \o Tail(code))
      /\ UNCHANGED <<msg, tmp, stream, left>>

(* A loop over an array: its bound does not change while it runs.          *)
Loop == /\ \E p \in {"encode", "decode"} : Runs(p, {"each"})
        /\ LET w == IF Stmt.elem.op = "msg" THEN 8 ELSE Stmt.elem.w
           IN  Continue([i \in 1..Count(Stmt) |-> [op |-> "elem", f |-> Stmt.f, i |-> i, w |-> w]]
                          \o Tail(code))
        /\ UNCHANGED <<msg, tmp, stream, left>>

(* An array is sliced or indexed beyond its size.                          *)
Overrun == /\ \E p \in {"encode", "decode"} : Runs(p, {"bytes", "elem"})
           /\ OutOfRange(Stmt)
           /\ Return("panic")
           /\ UNCHANGED <<stream, left>>

EndOfBody == /\ phase \in {"encode", "decode"} /\ code = <<>>
             /\ Return("ok")
             /\ UNCHANGED <<stream, left>>
-----------------------------------------------------------------------------
(* The encoder.                                                            *)

Span(v, w, sh) == (v % 2^w) * 2^sh

AddBits == /\ Runs("encode", {"bits"})
           /\ tmp' = OrByte(tmp, Span(msg[Stmt.f], Stmt.w, Stmt.sh))
           /\ Continue(Tail(code))
           /\ UNCHANGED <<msg, stream, left>>

Clamped_OneOver(v, k) == IF v > k + 1 THEN k ELSE v
Clamped(v, k) == IF v > k THEN k ELSE v

ClampField == /\ Runs("encode", {"clamp"})
              /\ msg' = [msg EXCEPT ![Stmt.f] = Clamped(@, ConstVal(Stmt.ref))]
              /\ Continue(Tail(code))
              /\ UNCHANGED <<tmp, stream, left>>

(* The bytes a statement writes.                                           *)
Output(s) == CASE s.op = "byte"  -> <<XorByte(tmp, ConstVal(s.xor))>>
               [] s.op = "int"   -> Masked(BigEndian(msg[s.f], s.w), ConstVal(s.xor))
               [] s.op = "msg"   -> <<msg[s.f]>>
               [] s.op = "bytes" -> SubSeq(msg[s.f], 1, Count(s))
               [] s.op = "elem"  -> BigEndian(msg[s.f][s.i], s.w)

(* Statements that move bytes.                                            *)
Moving == {"byte", "int", "msg", "bytes", "elem"}

Put == /\ Runs("encode", Moving) /\ ~OutOfRange(Stmt)
       /\ stream' = stream \o Output(Stmt)
       /\ Continue(Tail(code))
       /\ UNCHANGED <<msg, tmp, left>>

(* The writer reports an error after some of the bytes, none or all of     *)
(* them - also where there are none to write: return -1.                   *)
PutFails == /\ Runs("encode", Moving) /\ ~OutOfRange(Stmt)
            /\ \E n \in 0..Len(Output(Stmt)) : stream' = stream \o SubSeq(Output(Stmt), 1, n)
            /\ Return("fail")
            /\ UNCHANGED left
-----------------------------------------------------------------------------
(* The decoder.                                                            *)

(* The bytes a statement reads.                                            *)
Wanted(s) == CASE s.op = "bytes" -> Count(s)
               [] s.op \in {"int", "elem"} -> s.w \div 8
               [] OTHER -> 1

(* What a statement does with them.                                        *)
Stored(s, bytes) ==
  CASE s.op = "byte"  -> msg
    [] s.op = "int"   -> [msg EXCEPT ![s.f] = Number(Masked(bytes, ConstVal(s.xor)))]
    [] s.op = "msg"   -> [msg EXCEPT ![s.f] = bytes[1]]
    [] s.op = "bytes" -> [msg EXCEPT ![s.f] = [i \in DOMAIN @ |->
                                                   IF i \in DOMAIN bytes THEN bytes[i] ELSE @[i]]]
    [] s.op = "elem"  -> [msg EXCEPT ![s.f][s.i] = Number(bytes)]

Get == /\ Runs("decode", Moving) /\ ~OutOfRange(Stmt)
       /\ LET n == Wanted(Stmt)
              bytes == SubSeq(left, 1, n)
          IN  /\ n <= Len(left)
              /\ left' = SubSeq(left, n + 1, Len(left))
              /\ msg' = Stored(Stmt, bytes)
              /\ tmp' = IF Stmt.op = "byte" THEN XorByte(bytes[1], ConstVal(Stmt.xor)) ELSE tmp
       /\ Continue(Tail(code))
       /\ UNCHANGED stream

(* The stream ends: what is left of it is consumed, nothing is stored.     *)
GetFails_Ignored == /\ Runs("decode", Moving) /\ ~OutOfRange(Stmt)
                    /\ Wanted(Stmt) > Len(left)
                    /\ left' = <<>>
                    /\ Continue(Tail(code))
                    /\ UNCHANGED <<msg, tmp, stream>>

GetFails == /\ Runs("decode", Moving) /\ ~OutOfRange(Stmt)
            /\ Wanted(Stmt) > Len(left)
            /\ left' = <<>>
            /\ Return("fail")
            /\ UNCHANGED stream

TakeBits == /\ Runs("decode", {"bits"})
            /\ msg' = [msg EXCEPT ![Stmt.f] = (tmp \div 2^Stmt.sh) % 2^Stmt.w]
            /\ Continue(Tail(code))
            /\ UNCHANGED <<tmp, stream, left>>

Passes_Anything(s) == TRUE
Passes(s) == IF s.op = "most" THEN msg[s.f] <= ConstVal(s.ref) ELSE msg[s.f] = ConstVal(s.ref)

CheckField == /\ Runs("decode", {"most", "equal"})
              /\ IF Passes(Stmt)
                 THEN Continue(Tail(code)) /\ UNCHANGED <<msg, tmp>>
                 ELSE Return("fail")
              /\ UNCHANGED <<stream, left>>
-----------------------------------------------------------------------------
(* The generator runs, then the encoder on some message, then the decoder  *)
(* on what the stream delivers.                                            *)

Generate == /\ phase = "generate"
            /\ Next
            /\ UNCHANGED machine

CallEncoder == /\ phase = "generate" /\ walk = "done" /\ Compiles
               /\ phase' = "encode"
               /\ msg' \in Structs(Values)
               /\ given' = msg'
               /\ code' = encoder
               /\ UNCHANGED <<vars, tmp, stream, left, clean, encRet, decRet>>

Deliver == /\ phase = "deliver" /\ encRet # "panic"
           /\ phase' = "decode"
           /\ \/ stream' = stream
              \/ \E i \in DOMAIN stream, b \in Noise : stream' = [stream EXCEPT ![i] = b]
              \/ stream' \in Arrivals
           /\ left' = stream'
           /\ clean' = (stream' = stream)
           /\ msg' \in Structs(Leftovers)
           /\ code' = decoder
           /\ UNCHANGED <<vars, tmp, given, encRet, decRet>>

EncodeStep == ClampField \/ AddBits \/ Put \/ PutFails
DecodeStep == TakeBits \/ CheckField \/ Get \/ GetFails

CodecInit == /\ Init
             /\ phase = "generate"
             /\ msg = <<>> /\ code = <<>> /\ tmp = 0
             /\ given = <<>>
             /\ stream = <<>> /\ left = <<>> /\ clean = TRUE
             /\ encRet = "none" /\ decRet = "none"

CodecNext == \/ Generate \/ CallEncoder \/ Deliver
             \/ ClearByte \/ If \/ Loop \/ Overrun \/ EndOfBody
             \/ EncodeStep \/ DecodeStep

CodecSpec == CodecInit /\ [][CodecNext]_cvars
-----------------------------------------------------------------------------
(***************************************************************************)
(* Properties.                                                             *)
(***************************************************************************)
(* A condition on a bit field is not generated.                            *)
Present(f, s) == f.existIf = NoName \/ IsBitType(f.type) \/ s[f.existIf] # 0

(* Conditions are on earlier fields: a decoder has read them.              *)
Conditions ==
  \A i \in DOMAIN fields : fields[i].existIf # NoName => FieldNamed(fields[i].existIf) < i

(* ... and on fields that are always there: the encoder tests the caller's *)
(* value of a field it leaves out, the decoder what its struct was left    *)
(* with.                                                                   *)
ConditionsCarried ==
  \A f \in Range(fields) : f.existIf # NoName =>
    LET c == fields[FieldNamed(f.existIf)]
    IN  c.existIf = NoName \/ IsBitType(c.type)

(* A field that limits an array is clamped and checked before the array:   *)
(* it is an integer of whole bytes, it comes first and is always there.    *)
(* (The analyser takes the limit for a constant where one has the name of  *)
(* a field still to come; the generator takes it for that field.)          *)
Bounded(f) == IsIntType(f.type) /\ ~IsBitType(f.type) /\ f.existIf = NoName

LimitsBounded ==
  \A i \in DOMAIN fields : fields[i].type.k = "array" /\ LimitRef(fields[i]).this =>
    LET lim == FieldNamed(fields[i].limit)
    IN  lim < i /\ Bounded(fields[lim])

(* The message that is to be sent: what the caller gave, no integer of     *)
(* whole bytes above its max.                                              *)
Meant == [n \in DOMAIN given |->
            LET f == fields[FieldNamed(n)]
            IN  IF IsIntType(f.type) /\ ~IsBitType(f.type) /\ f.max # NoName /\ given[n] > Consts[f.max]
                THEN Consts[f.max] ELSE given[n]]

(* The caller must have given bit fields values of their width and         *)
(* compared fields the value compared with; the message must end on a byte *)
(* boundary, with conditions and limits as above.                          *)
Fitting == \A f \in Range(fields) :
             /\ IsBitType(f.type) => given[f.name] < 2^Bits(f.type)
             /\ f.equ # NoName => given[f.name] = Consts[f.equ]

Carried(f, s) ==
  IF f.type.k = "array"
  THEN SubSeq(s[f.name], 1, IF LimitRef(f).this THEN s[f.limit] ELSE Size(f))
  ELSE s[f.name]

Sound == Closed /\ Conditions /\ ConditionsCarried /\ LimitsBounded /\ Fitting

(* The decoder has accepted the message, read to the last byte and stored  *)
(* what was to be sent.                                                    *)
Received == /\ decRet = "ok" /\ left = <<>>
            /\ \A f \in Range(fields) : Present(f, Meant) => Carried(f, msg) = Carried(f, Meant)

(* A message goes through: what the encoder has sent the decoder receives, *)
(* whatever its struct held before.                                        *)
RoundTrip == phase = "end" /\ clean /\ encRet = "ok" /\ Sound => Received

(* The bytes of an encoder whose write has failed are never taken for      *)
(* another message: the decoder refuses them, or the error came after the  *)
(* last byte of the message and the decoder receives it whole.             *)
CutShort == phase = "end" /\ clean /\ encRet = "fail" /\ Sound => decRet = "fail" \/ Received

(* Neither function leaves the bounds of an array, whatever message it is  *)
(* given and whatever bytes arrive: the encoder's clamp and the decoder's  *)
(* check of the field that limits the array keep it inside.                *)
NoOverrun == LimitsBounded => encRet # "panic" /\ decRet # "panic"

(* Whatever bytes arrive, a message the decoder accepts satisfies every    *)
(* max and equal the generator writes a check for: those of integers.      *)
ValidDecoded ==
  decRet = "ok" /\ Conditions =>
    \A f \in Range(fields) : IsIntType(f.type) /\ Present(f, msg) =>
      /\ f.max # NoName /\ ~IsBitType(f.type) => msg[f.name] <= Consts[f.max]
      /\ f.equ # NoName /\ (f.max = NoName \/ IsBitType(f.type)) => msg[f.name] = Consts[f.equ]
=============================================================================
