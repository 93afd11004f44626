---------------------------- MODULE Compiler_proofs ----------------------------
(***************************************************************************)
(* Theorems about the whole compiler, for every set of programs a parser   *)
(* that keeps its contract can deliver.  The theorems about the analyser   *)
(* and about the generator of one message are taken from their modules:    *)
(* here it is shown that they compose.                                     *)
(***************************************************************************)
EXTENDS Compiler, TLAPS

AP == INSTANCE Semantic_proofs

(* The fields the generator may be started on.                             *)
Msgdecls(p) == {d \in DOMAIN p.decls : p.decls[d].kind = "msg"}
Legal == {fs \in UNION {{p.decls[d].fields : d \in Msgdecls(p)} : p \in Programs} :
            IsSequence(fs) /\ LaidOut(fs) /\ AP!OwnNames(fs)}

GP == INSTANCE MsgGen_proofs WITH Messages <- Legal, fi <- gfi, bits <- gbits
-----------------------------------------------------------------------------
(* The instances of a module agree, step by step.                          *)

LEMMA Assumptions == (\A p \in Programs : AP!WellFormed(p)) /\ IntMax \in Nat \ {0}
  BY ParserAssumption, CompilerIntMaxAssumption DEF
       AP!WellFormed, Analyser!WellFormed, AP!IsSequence, Analyser!IsSequence,
       AP!MachineInt, Analyser!MachineInt, AP!Kinds, Analyser!Kinds

LEMMA AnalyserInit == Analyser!Init => AP!Init
  BY ZenonT(30) DEF
       Analyser!Init, AP!Init, Analyser!NoName, AP!NoName, Analyser!EmptyTable,
       AP!EmptyTable, Analyser!NewSymTable, AP!NewSymTable,
       Analyser!BuiltinSym, AP!BuiltinSym, Analyser!Builtins, AP!Builtins,
       Analyser!BitNames, AP!BitNames, Analyser!ByteNames, AP!ByteNames

LEMMA AnalyserStep == Analyser!Next => AP!Next
<1>1. Analyser!CheckSpace => AP!CheckSpace
  BY ZenonT(30) DEF
       Analyser!CheckSpace, AP!CheckSpace, Analyser!NoName, AP!NoName,
       Analyser!tables, AP!tables, Analyser!group, AP!group
<1>2. Analyser!SkipDecl => AP!SkipDecl
  BY ZenonT(30) DEF
       Analyser!SkipDecl, AP!SkipDecl, Analyser!tables, AP!tables,
       Analyser!group, AP!group, Analyser!Decls, AP!Decls, Analyser!Decl,
       AP!Decl, Analyser!NextDecl, AP!NextDecl
<1>3. Analyser!EndPass => AP!EndPass
  BY ZenonT(30) DEF
       Analyser!EndPass, AP!EndPass, Analyser!tables, AP!tables,
       Analyser!group, AP!group, Analyser!Decls, AP!Decls
<1>4. Analyser!VisitConst => AP!VisitConst
  BY ZenonT(30) DEF
       Analyser!VisitConst, AP!VisitConst, Analyser!group, AP!group,
       Analyser!Decl, AP!Decl, Analyser!VarSym, AP!VarSym, Analyser!Put,
       AP!Put, Analyser!LeafType, AP!LeafType, Analyser!ExprOk, AP!ExprOk,
       Analyser!At, AP!At, Analyser!NextDecl, AP!NextDecl, Analyser!Check,
       AP!Check, Analyser!Decls, AP!Decls, Analyser!RealType, AP!RealType,
       Analyser!Prim, AP!Prim, Analyser!VarType, AP!VarType,
       Analyser!FieldTypes, AP!FieldTypes, Analyser!Signature, AP!Signature,
       Analyser!LeafOk, AP!LeafOk, Analyser!Reject, AP!Reject, Analyser!Lookup,
       AP!Lookup, Analyser!MsgFields, AP!MsgFields, Analyser!IntSigNames,
       AP!IntSigNames, Analyser!NoName, AP!NoName, Analyser!NilType,
       AP!NilType, Analyser!IsVar, AP!IsVar, Analyser!tables, AP!tables,
       Analyser!Visible, AP!Visible
<1>5. Analyser!VisitExtern => AP!VisitExtern
  BY ZenonT(30) DEF
       Analyser!VisitExtern, AP!VisitExtern, Analyser!group, AP!group,
       Analyser!Decl, AP!Decl, Analyser!VarSym, AP!VarSym, Analyser!Put,
       AP!Put, Analyser!At, AP!At, Analyser!NextDecl, AP!NextDecl,
       Analyser!Check, AP!Check, Analyser!Decls, AP!Decls, Analyser!RealType,
       AP!RealType, Analyser!Reject, AP!Reject, Analyser!tables, AP!tables
<1>6. Analyser!EnterGroup => AP!EnterGroup
  BY ZenonT(30) DEF
       Analyser!EnterGroup, AP!EnterGroup, Analyser!Prim, AP!Prim,
       Analyser!tables, AP!tables, Analyser!group, AP!group, Analyser!Decl,
       AP!Decl, Analyser!VarSym, AP!VarSym, Analyser!Put, AP!Put, Analyser!At,
       AP!At, Analyser!NextDecl, AP!NextDecl, Analyser!Check, AP!Check,
       Analyser!Decls, AP!Decls, Analyser!RealType, AP!RealType,
       Analyser!Reject, AP!Reject
<1>7. Analyser!VisitItem => AP!VisitItem
  BY ZenonT(30) DEF
       Analyser!VisitItem, AP!VisitItem, Analyser!NoName, AP!NoName,
       Analyser!Decl, AP!Decl, Analyser!Put, AP!Put, Analyser!At, AP!At,
       Analyser!Check, AP!Check, Analyser!Succ, AP!Succ, Analyser!ItemOk,
       AP!ItemOk, Analyser!Decls, AP!Decls, Analyser!Reject, AP!Reject,
       Analyser!tables, AP!tables, Analyser!group, AP!group
<1>8. Analyser!LeaveGroup => AP!LeaveGroup
  BY ZenonT(30) DEF
       Analyser!LeaveGroup, AP!LeaveGroup, Analyser!tables, AP!tables,
       Analyser!group, AP!group, Analyser!Decl, AP!Decl, Analyser!At, AP!At,
       Analyser!NextDecl, AP!NextDecl, Analyser!Decls, AP!Decls
<1>9. Analyser!EnterMsg => AP!EnterMsg
  BY ZenonT(30) DEF
       Analyser!EnterMsg, AP!EnterMsg, Analyser!StructOf, AP!StructOf,
       Analyser!Decl, AP!Decl, Analyser!VarSym, AP!VarSym,
       Analyser!NewSymTable, AP!NewSymTable, Analyser!Put, AP!Put, Analyser!At,
       AP!At, Analyser!Check, AP!Check, Analyser!Decls, AP!Decls,
       Analyser!RealType, AP!RealType, Analyser!Builtins, AP!Builtins,
       Analyser!BuiltinSym, AP!BuiltinSym, Analyser!Reject, AP!Reject,
       Analyser!BitNames, AP!BitNames, Analyser!ByteNames, AP!ByteNames,
       Analyser!tables, AP!tables, Analyser!group, AP!group
<1>10. Analyser!VisitField => AP!VisitField
  BY ZenonT(30) DEF
       Analyser!VisitField, AP!VisitField, Analyser!Decl, AP!Decl,
       Analyser!VarSym, AP!VarSym, Analyser!Put, AP!Put, Analyser!At, AP!At,
       Analyser!Check, AP!Check, Analyser!AggrStep, AP!AggrStep,
       Analyser!FieldOk, AP!FieldOk, Analyser!RefsOk, AP!RefsOk,
       Analyser!Decls, AP!Decls, Analyser!RealType, AP!RealType,
       Analyser!Reject, AP!Reject, Analyser!IsIntType, AP!IsIntType,
       Analyser!Bits, AP!Bits, Analyser!IsBitType, AP!IsBitType,
       Analyser!NoName, AP!NoName, Analyser!IsVarInt, AP!IsVarInt,
       Analyser!AggrOk, AP!AggrOk, Analyser!XorOk, AP!XorOk,
       Analyser!Signature, AP!Signature, Analyser!RefOk, AP!RefOk,
       Analyser!tables, AP!tables, Analyser!group, AP!group, Analyser!IntBits,
       AP!IntBits, Analyser!VarNames, AP!VarNames, Analyser!IntSigNames,
       AP!IntSigNames, Analyser!IsVar, AP!IsVar, Analyser!VarType, AP!VarType,
       Analyser!BitNames, AP!BitNames, Analyser!ByteNames, AP!ByteNames,
       Analyser!Visible, AP!Visible, Analyser!Lookup, AP!Lookup
<1>11. Analyser!LeaveMsg => AP!LeaveMsg
  BY ZenonT(30) DEF
       Analyser!LeaveMsg, AP!LeaveMsg, Analyser!group, AP!group, Analyser!Decl,
       AP!Decl, Analyser!EmptyTable, AP!EmptyTable, Analyser!At, AP!At,
       Analyser!NextDecl, AP!NextDecl, Analyser!Decls, AP!Decls,
       Analyser!BuiltinSym, AP!BuiltinSym
<1>12. Analyser!VisitBind => AP!VisitBind
  BY ZenonT(30) DEF
       Analyser!VisitBind, AP!VisitBind, Analyser!NoName, AP!NoName,
       Analyser!tables, AP!tables, Analyser!group, AP!group, Analyser!Decl,
       AP!Decl, Analyser!At, AP!At, Analyser!NextDecl, AP!NextDecl,
       Analyser!Check, AP!Check, Analyser!BindOk, AP!BindOk, Analyser!Decls,
       AP!Decls, Analyser!Reject, AP!Reject
<1> QED
  BY <1>1, <1>2, <1>3, <1>4, <1>5, <1>6, <1>7, <1>8, <1>9, <1>10, <1>11, <1>12 DEF Analyser!Next, AP!Next

LEMMA GeneratorStep == Generator!Next => GP!Next
<1>1. Generator!DeclareField => GP!DeclareField
  BY ZenonT(30) DEF
       Generator!DeclareField, GP!DeclareField, Generator!NoName, GP!NoName,
       Generator!aggr, GP!aggr, Generator!Field, GP!Field, Generator!Type,
       GP!Type, Generator!ArraySize, GP!ArraySize, Generator!HasGoName,
       GP!HasGoName, Generator!At, GP!At, Generator!Require, GP!Require,
       Generator!LimitFieldMax, GP!LimitFieldMax, Generator!IsIntType,
       GP!IsIntType, Generator!Panic, GP!Panic, Generator!IntBits, GP!IntBits,
       Generator!BitNames, GP!BitNames, Generator!ByteNames, GP!ByteNames
<1>2. Generator!EndStruct => GP!EndStruct
  BY ZenonT(30) DEF
       Generator!EndStruct, GP!EndStruct, Generator!StartWalk, GP!StartWalk,
       Generator!NoName, GP!NoName
<1>3. Generator!EncodeBits => GP!EncodeBits
  BY ZenonT(30) DEF
       Generator!EncodeBits, GP!EncodeBits, Generator!Bits, GP!Bits,
       Generator!Field, GP!Field, Generator!Type, GP!Type, Generator!BitsUnit,
       GP!BitsUnit, Generator!At, GP!At, Generator!Require, GP!Require,
       Generator!Fits, GP!Fits, Generator!Write, GP!Write, Generator!FullByte,
       GP!FullByte, Generator!EncodeGroup, GP!EncodeGroup, Generator!IntBits,
       GP!IntBits, Generator!IsIntType, GP!IsIntType, Generator!Panic,
       GP!Panic, Generator!TmpByte, GP!TmpByte, Generator!NoName, GP!NoName,
       Generator!BitNames, GP!BitNames, Generator!ByteNames, GP!ByteNames,
       Generator!aggr, GP!aggr, Generator!Plain, GP!Plain
<1>4. Generator!OpenEncodeGroup => GP!OpenEncodeGroup
  BY ZenonT(30) DEF
       Generator!OpenEncodeGroup, GP!OpenEncodeGroup, Generator!Bits, GP!Bits,
       Generator!IsBitType, GP!IsBitType, Generator!Field, GP!Field,
       Generator!Type, GP!Type, Generator!BitsUnit, GP!BitsUnit,
       Generator!ClearTmp, GP!ClearTmp, Generator!At, GP!At, Generator!Require,
       GP!Require, Generator!Opened, GP!Opened, Generator!Write, GP!Write,
       Generator!IntBits, GP!IntBits, Generator!IsIntType, GP!IsIntType,
       Generator!Panic, GP!Panic, Generator!BitNames, GP!BitNames,
       Generator!ByteNames, GP!ByteNames, Generator!aggr, GP!aggr
<1>5. Generator!EncodeInt => GP!EncodeInt
  BY ZenonT(30) DEF
       Generator!EncodeInt, GP!EncodeInt, Generator!IsIntType, GP!IsIntType,
       Generator!IsVarInt, GP!IsVarInt, Generator!IsBitType, GP!IsBitType,
       Generator!aggr, GP!aggr, Generator!Field, GP!Field, Generator!Type,
       GP!Type, Generator!IntUnit, GP!IntUnit, Generator!Clamp, GP!Clamp,
       Generator!Wrap, GP!Wrap, Generator!At, GP!At, Generator!Require,
       GP!Require, Generator!Write, GP!Write, Generator!IntBits, GP!IntBits,
       Generator!VarNames, GP!VarNames, Generator!Bits, GP!Bits,
       Generator!Plain, GP!Plain, Generator!NoName, GP!NoName, Generator!This,
       GP!This, Generator!Panic, GP!Panic, Generator!BitNames, GP!BitNames,
       Generator!ByteNames, GP!ByteNames
<1>6. Generator!EncodeMsg => GP!EncodeMsg
  BY ZenonT(30) DEF
       Generator!EncodeMsg, GP!EncodeMsg, Generator!aggr, GP!aggr,
       Generator!Field, GP!Field, Generator!Type, GP!Type, Generator!MsgUnit,
       GP!MsgUnit, Generator!Wrap, GP!Wrap, Generator!At, GP!At,
       Generator!Require, GP!Require, Generator!Write, GP!Write,
       Generator!NoName, GP!NoName, Generator!This, GP!This, Generator!Panic,
       GP!Panic
<1>7. Generator!EncodeArray => GP!EncodeArray
  BY ZenonT(30) DEF
       Generator!EncodeArray, GP!EncodeArray, Generator!aggr, GP!aggr,
       Generator!Field, GP!Field, Generator!Type, GP!Type, Generator!BytesUnit,
       GP!BytesUnit, Generator!EachUnit, GP!EachUnit, Generator!Wrap, GP!Wrap,
       Generator!LimitRef, GP!LimitRef, Generator!IsByte, GP!IsByte,
       Generator!ElemOk, GP!ElemOk, Generator!ElemUnit, GP!ElemUnit,
       Generator!At, GP!At, Generator!Require, GP!Require, Generator!Write,
       GP!Write, Generator!NoName, GP!NoName, Generator!This, GP!This,
       Generator!Plain, GP!Plain, Generator!LimitFieldMax, GP!LimitFieldMax,
       Generator!IsIntType, GP!IsIntType, Generator!Bits, GP!Bits,
       Generator!Panic, GP!Panic, Generator!IntBits, GP!IntBits,
       Generator!BitNames, GP!BitNames, Generator!ByteNames, GP!ByteNames
<1>8. Generator!EndEncode => GP!EndEncode
  BY ZenonT(30) DEF
       Generator!EndEncode, GP!EndEncode, Generator!StartWalk, GP!StartWalk,
       Generator!NoName, GP!NoName
<1>9. Generator!DecodeBits => GP!DecodeBits
  BY ZenonT(30) DEF
       Generator!DecodeBits, GP!DecodeBits, Generator!Bits, GP!Bits,
       Generator!Field, GP!Field, Generator!Type, GP!Type, Generator!BitsUnit,
       GP!BitsUnit, Generator!Equal, GP!Equal, Generator!At, GP!At,
       Generator!Require, GP!Require, Generator!Fits, GP!Fits, Generator!Read,
       GP!Read, Generator!DecodeGroup, GP!DecodeGroup, Generator!IntBits,
       GP!IntBits, Generator!IsIntType, GP!IsIntType, Generator!NoName,
       GP!NoName, Generator!Plain, GP!Plain, Generator!Panic, GP!Panic,
       Generator!BitNames, GP!BitNames, Generator!ByteNames, GP!ByteNames,
       Generator!aggr, GP!aggr
<1>10. Generator!OpenDecodeGroup => GP!OpenDecodeGroup
  BY ZenonT(30) DEF
       Generator!OpenDecodeGroup, GP!OpenDecodeGroup, Generator!Bits, GP!Bits,
       Generator!IsBitType, GP!IsBitType, Generator!Field, GP!Field,
       Generator!Type, GP!Type, Generator!BitsUnit, GP!BitsUnit,
       Generator!ClearTmp, GP!ClearTmp, Generator!TmpByte, GP!TmpByte,
       Generator!Equal, GP!Equal, Generator!At, GP!At, Generator!Require,
       GP!Require, Generator!Opened, GP!Opened, Generator!Read, GP!Read,
       Generator!IntBits, GP!IntBits, Generator!IsIntType, GP!IsIntType,
       Generator!Plain, GP!Plain, Generator!NoName, GP!NoName, Generator!Panic,
       GP!Panic, Generator!BitNames, GP!BitNames, Generator!ByteNames,
       GP!ByteNames, Generator!aggr, GP!aggr
<1>11. Generator!DecodeInt => GP!DecodeInt
  BY ZenonT(30) DEF
       Generator!DecodeInt, GP!DecodeInt, Generator!NoName, GP!NoName,
       Generator!IsIntType, GP!IsIntType, Generator!IsVarInt, GP!IsVarInt,
       Generator!IsBitType, GP!IsBitType, Generator!aggr, GP!aggr,
       Generator!Field, GP!Field, Generator!Type, GP!Type, Generator!IntUnit,
       GP!IntUnit, Generator!Most, GP!Most, Generator!Equal, GP!Equal,
       Generator!Wrap, GP!Wrap, Generator!At, GP!At, Generator!Require,
       GP!Require, Generator!Read, GP!Read, Generator!IntBits, GP!IntBits,
       Generator!VarNames, GP!VarNames, Generator!Bits, GP!Bits,
       Generator!Plain, GP!Plain, Generator!This, GP!This, Generator!Panic,
       GP!Panic, Generator!BitNames, GP!BitNames, Generator!ByteNames,
       GP!ByteNames
<1>12. Generator!DecodeMsg => GP!DecodeMsg
  BY ZenonT(30) DEF
       Generator!DecodeMsg, GP!DecodeMsg, Generator!aggr, GP!aggr,
       Generator!Field, GP!Field, Generator!Type, GP!Type, Generator!MsgUnit,
       GP!MsgUnit, Generator!Wrap, GP!Wrap, Generator!At, GP!At,
       Generator!Require, GP!Require, Generator!Read, GP!Read,
       Generator!NoName, GP!NoName, Generator!This, GP!This, Generator!Panic,
       GP!Panic
<1>13. Generator!DecodeArray => GP!DecodeArray
  BY ZenonT(30) DEF
       Generator!DecodeArray, GP!DecodeArray, Generator!aggr, GP!aggr,
       Generator!Field, GP!Field, Generator!Type, GP!Type, Generator!NoRef,
       GP!NoRef, Generator!BytesUnit, GP!BytesUnit, Generator!EachUnit,
       GP!EachUnit, Generator!Wrap, GP!Wrap, Generator!LimitRef, GP!LimitRef,
       Generator!IsByte, GP!IsByte, Generator!ElemOk, GP!ElemOk,
       Generator!ElemUnit, GP!ElemUnit, Generator!At, GP!At, Generator!Require,
       GP!Require, Generator!Read, GP!Read, Generator!NoName, GP!NoName,
       Generator!This, GP!This, Generator!Plain, GP!Plain,
       Generator!LimitFieldMax, GP!LimitFieldMax, Generator!IsIntType,
       GP!IsIntType, Generator!Bits, GP!Bits, Generator!Panic, GP!Panic,
       Generator!IntBits, GP!IntBits, Generator!BitNames, GP!BitNames,
       Generator!ByteNames, GP!ByteNames
<1>14. Generator!EndDecode => GP!EndDecode
  BY ZenonT(30) DEF
       Generator!EndDecode, GP!EndDecode, Generator!StartWalk, GP!StartWalk,
       Generator!NoName, GP!NoName
<1> QED
  BY <1>1, <1>2, <1>3, <1>4, <1>5, <1>6, <1>7, <1>8, <1>9, <1>10, <1>11, <1>12,
     <1>13, <1>14
  DEF Generator!Next, Generator!Encode, Generator!Decode, GP!Next, GP!Encode, GP!Decode

LEMMA LegalHere ==
  \A fs : /\ (AP!LaidOut(fs) <=> LaidOut(fs)) /\ (GP!LaidOut(fs) <=> LaidOut(fs))
          /\ (Analyser!IsSequence(fs) <=> IsSequence(fs)) /\ (GP!IsSequence(fs) <=> IsSequence(fs))
  BY ZenonT(30) DEF AP!LaidOut, GP!LaidOut, LaidOut, AP!LaidOutBy, GP!LaidOutBy, LaidOutBy,
       AP!FitsAt, GP!FitsAt, FitsAt, AP!Before, GP!Before, Before, AP!Bits, GP!Bits, Bits,
       AP!IsBitType, GP!IsBitType, IsBitType, AP!IsIntType, GP!IsIntType, IsIntType,
       AP!IntBits, GP!IntBits, IntBits, AP!BitNames, GP!BitNames, BitNames,
       AP!ByteNames, GP!ByteNames, ByteNames, Analyser!IsSequence, GP!IsSequence, IsSequence

LEMMA LegalMessages ==
  \A fs \in Legal : /\ GP!IsSequence(fs) /\ GP!LaidOut(fs)
                    /\ \A i, j \in DOMAIN fs : fs[i].name = fs[j].name => i = j
  BY LegalHere DEF Legal, AP!OwnNames
-----------------------------------------------------------------------------
(* The analyser inside the compiler is the analyser.                       *)

LEMMA AnalyserSteps == [Next]_vars => [AP!Next]_(AP!vars)
<1> SUFFICES ASSUME [Next]_vars PROVE [AP!Next]_(AP!vars)
  OBVIOUS
<1>1. CASE Analyse
  BY <1>1, AnalyserStep DEF Analyse
<1>2. ASSUME UNCHANGED analyser PROVE UNCHANGED AP!vars
  BY <1>2 DEF analyser, AP!vars
<1>3. CASE NoFile \/ ParseFails \/ Parse \/ Refused \/ UnknownMode \/ StartInterpreter
  BY <1>2, <1>3 DEF NoFile, ParseFails, Parse, Refused, UnknownMode, StartInterpreter, Stop
<1>4. CASE WriteHeader \/ SkipDecl \/ WriteConst \/ ConstPanics \/ WriteGroup \/ CollectBind
  BY <1>2, <1>4 DEF WriteHeader, SkipDecl, WriteConst, ConstPanics, WriteGroup, CollectBind,
                    Stop, Wrote
<1>5. CASE StartMsg \/ StartTypeDef \/ WriteTypeDef \/ TypeDefPanics
  BY <1>2, <1>5 DEF StartMsg, StartTypeDef, WriteTypeDef, TypeDefPanics, Stop, Wrote
<1>6. CASE Generate \/ FinishCodec \/ CodecPanics \/ WriteBinds \/ Finish
  BY <1>2, <1>6 DEF Generate, FinishCodec, CodecPanics, WriteBinds, Finish, Stop, Wrote
<1>7. CASE UNCHANGED vars
  BY <1>2, <1>7 DEF vars
<1> QED
  BY <1>1, <1>3, <1>4, <1>5, <1>6, <1>7 DEF Next, Interpret

LEMMA AnalyserRuns == Spec => AP!Spec
<1>1. Init => AP!Init
  BY AnalyserInit DEF Init
<1> QED
  BY <1>1, AnalyserSteps, PTL DEF Spec, AP!Spec

(* What the analyser accepts, the generator can lay out.                   *)
GeneratorReady ==
  status = "ok" =>
    \A d \in Msgdecls(prog) : /\ LaidOut(Decls[d].fields) /\ AP!OwnNames(Decls[d].fields)
                              /\ \A i \in DOMAIN Decls[d].fields : GP!Limited(Decls[d].fields[i])

LEMMA AcceptedReady == Spec => []GeneratorReady
<1>1. AP!Spec => []AP!AcceptedLaidOut
  BY Assumptions, AP!AcceptedAreLaidOut
<1>2. AP!Spec => []AP!AcceptedHaveLimits
  BY Assumptions, AP!ArraysLimited
<1>3. AP!Spec => []AP!AcceptedOwnNames
  BY Assumptions, AP!FieldsDistinct
<1>4. AP!AcceptedLaidOut /\ AP!AcceptedHaveLimits /\ AP!AcceptedOwnNames => GeneratorReady
  <2>1. \A f : AP!HasLimit(f) <=> GP!Limited(f)
    BY DEF AP!HasLimit, GP!Limited, AP!NoName, GP!NoName
  <2> QED
    BY <2>1, LegalHere DEF AP!AcceptedLaidOut, AP!AcceptedHaveLimits, AP!AcceptedOwnNames,
                           GeneratorReady, Msgdecls, AP!Decls, Decls
<1> QED
  BY <1>1, <1>2, <1>3, <1>4, AnalyserRuns, PTL
-----------------------------------------------------------------------------
(* The control of the driver and the interpreter.                          *)

SomeSeq(s) == \E S : s \in Seq(S)

CInv ==
  /\ prog \in Programs
  /\ gi \in 0..Len(Decls) + 2
  /\ SomeSeq(out)
  /\ stage \in {"start", "analyse"} => out = <<>>
  /\ stage = "interpret" => status = "ok"
  /\ walk # "idle" => gi \in DOMAIN Decls

LEMMA ProgramShape ==
  ASSUME prog \in Programs
  PROVE  /\ Len(Decls) \in Nat /\ DOMAIN Decls = 1..Len(Decls)
         /\ \A d \in DOMAIN Decls : Decls[d].kind = "msg" => IsSequence(Decls[d].fields)
         /\ \A d \in DOMAIN Decls : Decls[d].kind = "group" => IsSequence(Decls[d].items)
         /\ TypesResolved(Decls)
  BY ParserAssumption DEF Analyser!WellFormed, Analyser!IsSequence, IsSequence, Decls

LEMMA Appended ==
  ASSUME NEW s, SomeSeq(s), NEW t, SomeSeq(t)
  PROVE  SomeSeq(s \o t) /\ (s # <<>> => s \o t # <<>>)
<1>1. PICK S : s \in Seq(S)
  BY DEF SomeSeq
<1>2. PICK T : t \in Seq(T)
  BY DEF SomeSeq
<1>3. s \in Seq(S \cup T) /\ t \in Seq(S \cup T)
  BY <1>1, <1>2
<1>4. s \o t \in Seq(S \cup T) /\ (s # <<>> => s \o t # <<>>)
  BY <1>3
<1> QED
  BY <1>4 DEF SomeSeq

LEMMA Listed ==
  ASSUME NEW n \in Nat, NEW f, f = [i \in 1..n |-> f[i]]
  PROVE  SomeSeq(f)
<1>1. f \in [1..n -> {f[i] : i \in 1..n}]
  OBVIOUS
<1>2. f \in Seq({f[i] : i \in 1..n})
  BY <1>1
<1> QED
  BY <1>2 DEF SomeSeq

LEMMA Single == ASSUME NEW x PROVE SomeSeq(<<x>>)
<1>1. <<x>> \in Seq({x})
  OBVIOUS
<1> QED
  BY <1>1 DEF SomeSeq

LEMMA Nothing == SomeSeq(<<>>)
<1>1. <<>> \in Seq({})
  OBVIOUS
<1> QED
  BY <1>1 DEF SomeSeq

(* The kinds of steps, as far as the promises of a batch compiler can tell.*)
Leaves == stage \in {"start", "analyse"} /\ \E code \in Nat : Stop(code)
Begins == Parse \/ Analyse \/ StartInterpreter
Adds == \E ds : SomeSeq(ds) /\ Emit(ds)
Advances == /\ stage = "interpret" /\ gi \in 0..Len(Decls) + 1 /\ gi' = gi + 1
            /\ Adds /\ walk' = "idle"
            /\ UNCHANGED <<analyser, stage, exit>>
Stays == /\ stage = "interpret" /\ gi \in DOMAIN Decls
         /\ Adds
         /\ UNCHANGED <<analyser, stage, exit, gi>>
Fails == stage = "interpret" /\ gi \in DOMAIN Decls /\ Stop(255)

LEMMA Written ==
  ASSUME NEW ds, SomeSeq(ds), Wrote(ds), stage = "interpret", gi \in 0..Len(Decls) + 1,
         walk = "idle"
  PROVE  Advances
  BY DEF Wrote, NextDecl, Advances, Adds, generator

LEMMA StepKinds ==
  ASSUME CInv, [Next]_vars
  PROVE  Leaves \/ Begins \/ Advances \/ Stays \/ Fails \/ Finish \/ UNCHANGED vars
<1>n. Len(Decls) \in Nat /\ DOMAIN Decls = 1..Len(Decls)
  BY ProgramShape DEF CInv
<1>a. ASSUME NEW k, At(k)
      PROVE  /\ stage = "interpret" /\ gi \in DOMAIN Decls /\ Decl.kind = k
             /\ gi \in 0..Len(Decls) + 1 /\ walk = "idle"
  BY <1>a, <1>n DEF At
<1>1. NoFile \/ ParseFails \/ Refused \/ UnknownMode => Leaves
  BY DEF NoFile, ParseFails, Refused, UnknownMode, Accepted, Leaves
<1>2. Parse \/ Analyse \/ StartInterpreter => Begins
  BY DEF Begins
<1>3. WriteHeader => Advances
  <2>1. 0 \in 0..Len(Decls) + 1 /\ (gi = 0 => walk = "idle")
    BY <1>n DEF CInv
  <2> QED
    BY <2>1, Written, Single DEF WriteHeader
<1>4. SkipDecl => Advances
  BY <1>a, Written, Nothing DEF SkipDecl
<1>5. WriteConst => Advances
  BY <1>a, Written, Single DEF WriteConst
<1>6. WriteGroup => Advances
  <2> SUFFICES ASSUME WriteGroup PROVE Advances
    OBVIOUS
  <2>1. At("group") /\ Wrote(GroupDecls(Decl))
    BY DEF WriteGroup
  <2>2. Len(Decl.items) \in Nat /\ DOMAIN Decl.items = 1..Len(Decl.items)
    BY <1>a, <2>1, ProgramShape DEF CInv, Decl, IsSequence
  <2> DEFINE f == [i \in DOMAIN Decl.items |->
                     IdDecl(Decl.items[i].name, midMap[Decl.items[i].name].idVal)]
             g == <<NamesFunc(Decl.name, [i \in DOMAIN Decl.items |-> Decl.items[i].name])>>
  <2>3. f = [i \in 1..Len(Decl.items) |-> f[i]]
    BY <2>2
  <2>4. GroupDecls(Decl) = f \o g
    BY DEF GroupDecls
  <2>5. SomeSeq(g)
    BY Single
  <2> HIDE DEF f, g
  <2>6. SomeSeq(f \o g)
    BY <2>2, <2>3, <2>5, Listed, Appended
  <2> QED
    BY <1>a, <2>1, <2>4, <2>6, Written
<1>7. CollectBind => Advances
  <2> SUFFICES ASSUME CollectBind PROVE Advances
    OBVIOUS
  <2>1. Emit(<<>>)
    <3>1. out' = out /\ \E S : out \in Seq(S)
      BY DEF CollectBind, CInv, SomeSeq
    <3> QED
      BY <3>1 DEF Emit
  <2> QED
    BY <1>a, <2>1, Nothing DEF CollectBind, Advances, Adds, NextDecl, generator
<1>8. StartMsg => Stays
  BY <1>a, Single DEF StartMsg, Stays, Adds
<1>9. StartTypeDef => Stays
  BY <1>a, Single DEF StartTypeDef, Stays, Adds
<1>10. WriteTypeDef => Advances
  BY <1>a, Written, Single DEF WriteTypeDef
<1>11. Generate => Stays
  <2> SUFFICES ASSUME Generate PROVE Stays
    OBVIOUS
  <2>1. Emit(<<>>)
    <3>1. out' = out /\ \E S : out \in Seq(S)
      BY DEF Generate, CInv, SomeSeq
    <3> QED
      BY <3>1 DEF Emit
  <2> QED
    BY <2>1, Nothing DEF Generate, Stays, Adds, CInv
<1>12. FinishCodec => Advances
  <2>1. FinishCodec => gi \in DOMAIN Decls /\ walk' = "idle"
    BY DEF FinishCodec, CInv, StartGenerator
  <2>2. gi \in DOMAIN Decls => gi \in 0..Len(Decls) + 1
    BY <1>n
  <2> QED
    BY <2>1, <2>2, Single DEF FinishCodec, Advances, Adds, NextDecl
<1>13. ConstPanics \/ TypeDefPanics \/ CodecPanics => Fails
  BY <1>a DEF ConstPanics, TypeDefPanics, CodecPanics, Fails, CInv
<1>14. WriteBinds => Advances
  <2>1. Len(Decls) + 1 \in 0..Len(Decls) + 1 /\ (gi = Len(Decls) + 1 => walk = "idle")
    BY <1>n DEF CInv
  <2>2. SomeSeq(<<EncodeById, DecodeById>>)
    <3>1. <<EncodeById, DecodeById>> \in Seq({EncodeById, DecodeById})
      OBVIOUS
    <3> QED
      BY <3>1 DEF SomeSeq
  <2> QED
    BY <2>1, <2>2, Nothing, Written DEF WriteBinds
<1> QED
  BY <1>1, <1>2, <1>3, <1>4, <1>5, <1>6, <1>7, <1>8, <1>9, <1>10, <1>11, <1>12, <1>13, <1>14
  DEF Next, Interpret

LEMMA CInvInit == Init => CInv
<1> SUFFICES ASSUME Init PROVE CInv
  OBVIOUS
<1>1. prog \in Programs /\ gi = 0 /\ out = <<>> /\ stage = "start" /\ walk = "idle"
  BY DEF Init, Analyser!Init
<1> QED
  BY <1>1, ProgramShape, Nothing DEF CInv

LEMMA ProgramKept == [Next]_vars => UNCHANGED prog
<1>1. [AP!Next]_(AP!vars) => UNCHANGED prog
  BY Assumptions, AP!ProgUnchanged
<1> QED
  BY <1>1, AnalyserSteps

LEMMA CInvNext == CInv /\ [Next]_vars => CInv'
<1> SUFFICES ASSUME CInv, [Next]_vars PROVE CInv'
  OBVIOUS
<1>p. prog' = prog /\ Decls' = Decls /\ Len(Decls) \in Nat
  BY ProgramKept, ProgramShape DEF Decls, CInv
<1>1. CASE Leaves
  BY <1>1, <1>p DEF Leaves, Stop, generator, CInv
<1>2. CASE Begins
  BY <1>2, <1>p DEF Begins, Parse, Analyse, StartInterpreter, Accepted, analyser, generator, CInv
<1>3. CASE Advances
  <2>1. SomeSeq(out')
    BY <1>3, Appended DEF Advances, Adds, Emit, CInv
  <2>2. gi' \in 0..Len(Decls) + 2
    BY <1>3, <1>p DEF Advances
  <2> QED
    BY <1>3, <1>p, <2>1, <2>2 DEF Advances, analyser, CInv
<1>4. CASE Stays
  <2>1. SomeSeq(out')
    BY <1>4, Appended DEF Stays, Adds, Emit, CInv
  <2> QED
    BY <1>4, <1>p, <2>1 DEF Stays, analyser, CInv
<1>5. CASE Fails \/ Finish
  BY <1>5, <1>p DEF Fails, Finish, Stop, generator, CInv
<1>6. CASE UNCHANGED vars
  BY <1>6, <1>p DEF vars, analyser, generator, CInv
<1> QED
  BY <1>1, <1>2, <1>3, <1>4, <1>5, <1>6, StepKinds

(* A step of the analysis leaves it without a verdict or gives one.        *)
LEMMA Verdict ==
  ASSUME Analyser!Next
  PROVE  status \notin {"ok", "reject"}
<1>1. status = "run" \/ status = "start"
  BY DEF Analyser!Next, Analyser!CheckSpace, Analyser!SkipDecl, Analyser!EndPass,
         Analyser!VisitConst, Analyser!VisitExtern, Analyser!EnterGroup, Analyser!VisitItem,
         Analyser!LeaveGroup, Analyser!EnterMsg, Analyser!VisitField, Analyser!LeaveMsg,
         Analyser!VisitBind, Analyser!At
<1> QED
  BY <1>1

(* What the compiler writes it writes in the way Batch says: nothing before*)
(* the verdict, no refused file half translated, exit code 0 exactly when  *)
(* all is written - for every program and every point at which a stage     *)
(* gives up (main, DoAnalyze and DoInterpret).                             *)
THEOREM KeepsPromise == Spec => PromiseSpec
<1>1. Init => Promise!Init
  <2> SUFFICES ASSUME Init PROVE Promise!Init
    OBVIOUS
  <2>1. /\ stage = "start" /\ status = "start" /\ gi = 0 /\ out = <<>> /\ exit = Running
        /\ Len(Decls) \in Nat
    BY ProgramShape DEF Init, Analyser!Init
  <2> QED
    BY <2>1 DEF Promise!Init, Phase
<1>2. CInv /\ [Next]_vars => [Promise!Next]_(Promise!vars)
  <2> SUFFICES ASSUME CInv, [Next]_vars PROVE [Promise!Next]_(Promise!vars)
    OBVIOUS
  <2>p. Decls' = Decls /\ Len(Decls) \in Nat /\ DOMAIN Decls = 1..Len(Decls) /\ gi \in Int
    BY ProgramKept, ProgramShape DEF Decls, CInv
  <2>1. CASE Leaves
    <3>1. Promise!Refuse
      BY <2>1, <2>p DEF Leaves, Stop, analyser, Phase, Promise!Refuse
    <3> QED
      BY <3>1 DEF Promise!Next
  <2>2. CASE Parse
    <3>1. UNCHANGED Promise!vars
      BY <2>2, <2>p DEF Parse, analyser, Phase, Promise!vars
    <3> QED
      BY <3>1
  <2>3. CASE Analyse
    <3>1. Promise!Judge \/ UNCHANGED Promise!vars
      BY <2>3, <2>p, Verdict DEF Analyse, Phase, Promise!Judge, Promise!vars
    <3> QED
      BY <3>1 DEF Promise!Next
  <2>4. CASE StartInterpreter
    <3>1. Promise!Begin
      BY <2>4, <2>p DEF StartInterpreter, Accepted, analyser, Phase, Promise!Begin
    <3> QED
      BY <3>1 DEF Promise!Next
  <2>5. CASE Advances \/ Stays
    <3>1. out # <<>> => out' # <<>>
      BY <2>5, Appended DEF Advances, Stays, Adds, Emit, CInv
    <3>2. (out' # <<>>) \in {out # <<>>, TRUE}
      BY <3>1
    <3>3. /\ Len(Decls) + 2 - gi > 0
          /\ Len(Decls) + 2 - gi' \in {Len(Decls) + 2 - gi, (Len(Decls) + 2 - gi) - 1}
      BY <2>5, <2>p DEF Advances, Stays
    <3>4. stage = "interpret" /\ UNCHANGED <<stage, status, exit>>
      BY <2>5 DEF Advances, Stays, analyser
    <3>5. Phase = "write" /\ UNCHANGED Phase
      BY <3>4 DEF Phase
    <3>6. Promise!Write
      BY <2>p, <3>2, <3>3, <3>4, <3>5 DEF Promise!Write
    <3> QED
      BY <3>6 DEF Promise!Next
  <2>6. CASE Fails
    <3>1. Promise!GiveUp
      BY <2>6, <2>p DEF Fails, Stop, analyser, Phase, Promise!GiveUp
    <3> QED
      BY <3>1 DEF Promise!Next
  <2>7. CASE Finish
    <3>1. Promise!Finish
      BY <2>7, <2>p DEF Finish, Stop, analyser, Phase, Promise!Finish
    <3> QED
      BY <3>1 DEF Promise!Next
  <2>8. CASE UNCHANGED vars
    <3>1. UNCHANGED Promise!vars
      BY <2>8, <2>p DEF vars, analyser, Phase, Promise!vars
    <3> QED
      BY <3>1
  <2> QED
    BY <2>1, <2>2, <2>3, <2>4, <2>5, <2>6, <2>7, <2>8, StepKinds DEF Begins
<1> QED
  BY <1>1, <1>2, CInvInit, CInvNext, PTL DEF Spec, PromiseSpec, Promise!Spec
-----------------------------------------------------------------------------
(* The generator inside the compiler: every walk is one of a message it can*)
(* lay out.                                                                *)
GInv == walk # "idle" => GP!IInv

LEMMA Started ==
  ASSUME GeneratorReady, status = "ok", prog \in Programs,
         NEW d \in Msgdecls(prog), NEW w \in {"struct", "encode"},
         StartGenerator(w, Decls[d].fields)
  PROVE  GP!IInv'
<1>1. /\ fields' = Decls[d].fields /\ walk' = w /\ gfi' = 1
      /\ hasTmp' = FALSE /\ bitAggr' = FALSE /\ gbits' = 0
  BY DEF StartGenerator
<1>2. /\ LaidOut(fields') /\ AP!OwnNames(fields')
      /\ \A i \in DOMAIN fields' : GP!Limited(fields'[i])
  BY <1>1 DEF GeneratorReady
<1>3. IsSequence(fields')
  BY <1>1, ProgramShape DEF Msgdecls, Decls
<1>4. fields' \in Legal
  BY <1>1, <1>2, <1>3 DEF Legal, Decls
<1> QED
  BY <1>1, <1>2, <1>4, LegalMessages, GP!StartInv

LEMMA GInvNext == CInv /\ GeneratorReady /\ GInv /\ [Next]_vars => GInv'
<1> SUFFICES ASSUME CInv, GeneratorReady, GInv, [Next]_vars PROVE GInv'
  OBVIOUS
<1>s. ASSUME GP!IInv, GP!Next \/ UNCHANGED GP!vars PROVE GP!IInv'
  BY <1>s, LegalMessages, GP!Inductive
<1>1. ASSUME UNCHANGED generator PROVE GInv'
  BY <1>1, <1>s DEF generator, GP!vars, GInv
<1>2. CASE Generate
  BY <1>2, <1>s, GeneratorStep DEF Generate, GInv
<1>3. CASE FinishCodec
  BY <1>3 DEF FinishCodec, StartGenerator, GInv
<1>4. CASE StartMsg
  <2>1. gi \in Msgdecls(prog) /\ status = "ok" /\ StartGenerator("struct", Decls[gi].fields)
    BY <1>4 DEF StartMsg, At, CInv, Decl, Decls, Msgdecls
  <2> QED
    BY <2>1, Started DEF GInv, CInv
<1>5. CASE StartTypeDef
  <2> DEFINE n == Decl.impl.name
             d == MsgOf(n)
  <2>1. /\ gi \in DOMAIN Decls /\ Decl.kind = "typedef" /\ Decl.impl.k = "struct"
        /\ status = "ok" /\ StartGenerator("encode", Decls[d].fields)
    BY <1>5 DEF StartTypeDef, At, CInv
  <2>2. Decl.impl \in Mentioned(Decl)
    BY <2>1 DEF Mentioned, Elem
  <2>3. StructsBefore(Decls) /\ DOMAIN Decls = 1..Len(Decls) /\ Len(Decls) \in Nat
    BY ProgramShape DEF TypesResolved, CInv
  <2>4. PICK j \in 1..gi-1 : Decls[j].kind = "msg" /\ Decls[j].name = n
    BY <2>1, <2>2, <2>3 DEF StructsBefore, Decl
  <2>5. j \in DOMAIN Decls
    BY <2>1, <2>3
  <2>6. d \in Msgdecls(prog)
    BY <2>4, <2>5 DEF MsgOf, Msgdecls, Decls
  <2> QED
    BY <2>1, <2>6, Started DEF GInv, CInv
<1>6. CASE NoFile \/ ParseFails \/ Parse \/ Analyse \/ Refused \/ UnknownMode \/ StartInterpreter
  BY <1>1, <1>6 DEF NoFile, ParseFails, Parse, Analyse, Refused, UnknownMode, StartInterpreter, Stop
<1>7. CASE WriteHeader \/ SkipDecl \/ WriteConst \/ ConstPanics \/ WriteGroup \/ CollectBind
  BY <1>1, <1>7 DEF WriteHeader, SkipDecl, WriteConst, ConstPanics, WriteGroup, CollectBind,
                    Stop, Wrote
<1>8. CASE WriteTypeDef \/ TypeDefPanics \/ CodecPanics \/ WriteBinds \/ Finish
  BY <1>1, <1>8 DEF WriteTypeDef, TypeDefPanics, CodecPanics, WriteBinds, Finish, Stop, Wrote
<1>9. CASE UNCHANGED vars
  BY <1>1, <1>9 DEF vars
<1> QED
  BY <1>2, <1>3, <1>4, <1>5, <1>6, <1>7, <1>8, <1>9 DEF Next, Interpret

(* In a file the analyser has accepted, no message and no type declaration *)
(* can make the generator's bit assembly panic: visitMsgEncode_Go and      *)
(* visitMsgDecode_Go give up at a field whose type has no Go code, and     *)
(* nowhere else.  It is where the analyser's layout check, the generator's *)
(* two walks and the parser's promise about structs meet.                  *)
THEOREM GeneratorStopsAtTypes == Spec => []StopsAtTypes
<1>1. Init => GInv
  BY DEF Init, GInv
<1>2. GInv => StopsAtTypes
  <2>1. GP!IInv => GP!PanicIsTyped
    BY DEF GP!IInv, GP!PassedOK, GP!PanicIsTyped
  <2>2. GP!PanicIsTyped => Generator!PanicIsTyped
    BY ZenonT(30) DEF
       GP!PanicIsTyped, Generator!PanicIsTyped, GP!Field, Generator!Field,
       GP!Generable, Generator!Generable, GP!NoName, Generator!NoName,
       GP!IsIntType, Generator!IsIntType, GP!IsVarInt, Generator!IsVarInt,
       GP!ElemOk, Generator!ElemOk, GP!IntBits, Generator!IntBits, GP!VarNames,
       Generator!VarNames, GP!Bits, Generator!Bits, GP!BitNames,
       Generator!BitNames, GP!ByteNames, Generator!ByteNames
  <2> QED
    BY <2>1, <2>2 DEF GInv, StopsAtTypes
<1> QED
  BY <1>1, <1>2, GInvNext, CInvInit, CInvNext, AcceptedReady, PTL DEF Spec

-----------------------------------------------------------------------------
(***************************************************************************)
(* The dispatch.                                                           *)
(***************************************************************************)

(* What the analyser's verdict says of the binds of the file.              *)
BindsMsg(d) == Decls[d].kind = "bind" /\ Decls[d].msgName # NoName

BindsReady ==
  status = "ok" =>
    /\ \A d \in DOMAIN Decls : BindsMsg(d) =>
         /\ Decls[d].msgId \in DOMAIN midMap
         /\ midMap[Decls[d].msgId].bindMsg = Decls[d].msgName
    /\ \A d, e \in DOMAIN Decls :
         BindsMsg(d) /\ BindsMsg(e) /\ Decls[d].msgId = Decls[e].msgId => d = e
    /\ \A n \in DOMAIN midMap : midMap[n].bindMsg # NoName =>
         \E d \in DOMAIN Decls : /\ BindsMsg(d) /\ Decls[d].msgId = n
                                 /\ Decls[d].msgName = midMap[n].bindMsg

LEMMA BindsAccepted == Spec => []BindsReady
<1>1. AP!Spec => []AP!AcceptedBinds
  BY Assumptions, AP!BindsRecorded
<1>2. AP!AcceptedBinds => BindsReady
  BY ZenonT(30) DEF AP!AcceptedBinds, AP!BindsMsg, BindsReady, BindsMsg, AP!Decls, Decls,
                    AP!NoName, NoName
<1> QED
  BY <1>1, <1>2, AnalyserRuns, PTL

(* The interpreter has collected the binds it has passed, all and once.    *)
BindAt(d) == Decls[d].kind = "bind"

Apart(a, b) == NoName \notin {a.msgName, b.msgName} => a.msgId # b.msgId

Collected ==
  /\ SomeSeq(binds)
  /\ \A k \in DOMAIN binds : \E d \in DOMAIN Decls : d < gi /\ BindAt(d) /\ binds[k] = Decls[d]
  /\ \A d \in DOMAIN Decls : d < gi /\ BindAt(d) => \E k \in DOMAIN binds : binds[k] = Decls[d]
  /\ \A j \in DOMAIN binds, k \in DOMAIN binds : j # k => Apart(binds[j], binds[k])

(* Both dispatch functions close the program.                              *)
Dispatched ==
  binds # <<>> => /\ Len(out) \in Nat
                  /\ out[Len(out) - 1] = EncodeById /\ out[Len(out)] = DecodeById

DInv ==
  /\ stage = "start" => status = "start"
  /\ stage \in {"start", "analyse"} => gi = 0 /\ binds = <<>>
  /\ Collected
  /\ gi = Len(Decls) + 2 => Dispatched
  /\ Complete => gi = Len(Decls) + 2
  /\ walk # "idle" => ~BindAt(gi)

LEMMA DInvInit == Init => DInv
<1> SUFFICES ASSUME Init PROVE DInv
  OBVIOUS
<1>1. /\ stage = "start" /\ status = "start" /\ gi = 0 /\ binds = <<>> /\ walk = "idle"
      /\ Len(Decls) \in Nat /\ DOMAIN Decls = 1..Len(Decls)
  BY ProgramShape DEF Init, Analyser!Init
<1>2. Collected
  BY <1>1, Nothing DEF Collected
<1> QED
  BY <1>1, <1>2 DEF DInv, Complete

(* The steps as far as the dispatch can tell.                              *)
Overlooks ==
  /\ stage = "interpret" /\ UNCHANGED <<analyser, binds, stage, exit>>
  /\ gi \in 0..Len(Decls)
  /\ gi' = gi \/ (gi' = gi + 1 /\ (gi = 0 \/ ~BindAt(gi)))

Stops == /\ stage # "interpret"
         /\ \E code \in Nat : Stop(code) /\ (code = 0 => stage = "start")

LEMMA DispatchKinds ==
  ASSUME CInv, walk # "idle" => ~BindAt(gi), [Next]_vars
  PROVE  \/ Overlooks \/ CollectBind \/ WriteBinds \/ Finish
         \/ Stops \/ Fails \/ Begins \/ UNCHANGED vars
<1>n. Len(Decls) \in Nat /\ DOMAIN Decls = 1..Len(Decls)
  BY ProgramShape DEF CInv
<1>a. ASSUME NEW k, At(k)
      PROVE  /\ stage = "interpret" /\ gi \in DOMAIN Decls /\ gi \in 0..Len(Decls)
             /\ Decls[gi].kind = k
  BY <1>a, <1>n DEF At, Decl
<1>w. ASSUME NEW ds, Wrote(ds)
      PROVE  gi' = gi + 1 /\ UNCHANGED <<analyser, stage, binds, exit>>
  BY <1>w DEF Wrote, NextDecl
<1>1. NoFile \/ ParseFails \/ Refused \/ UnknownMode => Stops
  BY DEF NoFile, ParseFails, Refused, UnknownMode, Accepted, Stops
<1>2. Parse \/ Analyse \/ StartInterpreter => Begins
  BY DEF Begins
<1>3. WriteHeader => Overlooks
  <2>1. gi = 0 => gi \in 0..Len(Decls)
    BY <1>n
  <2> QED
    BY <1>w, <2>1 DEF WriteHeader, Overlooks
<1>4. SkipDecl => Overlooks
  BY <1>a, <1>w DEF SkipDecl, Overlooks, BindAt
<1>5. WriteConst => Overlooks
  BY <1>a, <1>w DEF WriteConst, Overlooks, BindAt
<1>6. WriteGroup => Overlooks
  BY <1>a, <1>w DEF WriteGroup, Overlooks, BindAt
<1>7. WriteTypeDef => Overlooks
  BY <1>a, <1>w DEF WriteTypeDef, Overlooks, BindAt
<1>8. StartMsg \/ StartTypeDef => Overlooks
  BY <1>a DEF StartMsg, StartTypeDef, Overlooks
<1>9. Generate \/ FinishCodec => Overlooks
  <2>1. walk # "idle" => gi \in 0..Len(Decls)
    BY <1>n DEF CInv
  <2> QED
    BY <2>1 DEF Generate, FinishCodec, NextDecl, Overlooks
<1>10. ConstPanics \/ TypeDefPanics \/ CodecPanics => Fails
  BY <1>a DEF ConstPanics, TypeDefPanics, CodecPanics, Fails, CInv
<1> QED
  BY <1>1, <1>2, <1>3, <1>4, <1>5, <1>6, <1>7, <1>8, <1>9, <1>10 DEF Next, Interpret

(* A codec is generated for no bind.                                       *)
LEMMA WalkKept ==
  ASSUME CInv, walk # "idle" => ~BindAt(gi), [Next]_vars
  PROVE  (walk # "idle" => ~BindAt(gi))'
<1>p. Decls' = Decls
  BY ProgramKept DEF Decls
<1>1. CASE StartMsg \/ StartTypeDef
  BY <1>1, <1>p DEF StartMsg, StartTypeDef, At, Decl, BindAt
<1>2. CASE Generate
  BY <1>2, <1>p DEF Generate, BindAt
<1>4. CASE Finish
  BY <1>4, <1>p DEF Finish, Stop, generator, BindAt
<1>5. CASE Begins
  BY <1>5, <1>p DEF Begins, Parse, Analyse, StartInterpreter, generator, BindAt
<1>6. CASE UNCHANGED vars
  BY <1>6, <1>p DEF vars, generator, BindAt
<1>7. Next => \/ NoFile \/ ParseFails \/ Refused \/ UnknownMode \/ Begins
              \/ WriteHeader \/ SkipDecl \/ WriteConst \/ WriteGroup \/ CollectBind \/ WriteTypeDef
              \/ WriteBinds \/ FinishCodec
              \/ StartMsg \/ StartTypeDef \/ Generate
              \/ ConstPanics \/ TypeDefPanics \/ CodecPanics \/ Finish
  BY DEF Next, Interpret, Begins
<1>8. CASE StartMsg \/ StartTypeDef \/ Generate
  BY <1>1, <1>2, <1>8
<1>9. CASE NoFile \/ ParseFails \/ Refused \/ UnknownMode \/ ConstPanics \/ TypeDefPanics
           \/ CodecPanics
  BY <1>9, <1>p DEF NoFile, ParseFails, Refused, UnknownMode, ConstPanics, TypeDefPanics,
                    CodecPanics, Stop, generator, BindAt
<1>10. CASE FinishCodec
  BY <1>10 DEF FinishCodec, StartGenerator
<1>11. ASSUME NEW ds, Wrote(ds), walk = "idle" PROVE walk' = "idle"
  BY <1>11 DEF Wrote, generator
<1>12. CASE WriteHeader \/ WriteBinds
  <2>1. walk = "idle"
    BY <1>12, ProgramShape DEF CInv, WriteHeader, WriteBinds
  <2> QED
    BY <1>11, <1>12, <2>1 DEF WriteHeader, WriteBinds
<1>13. CASE SkipDecl \/ WriteConst \/ WriteGroup \/ WriteTypeDef
  BY <1>11, <1>13 DEF SkipDecl, WriteConst, WriteGroup, WriteTypeDef, At
<1>14. CASE CollectBind
  BY <1>14 DEF CollectBind, At, generator
<1> QED
  BY <1>4, <1>5, <1>6, <1>7, <1>8, <1>9, <1>10, <1>12, <1>13, <1>14

(* Passing another declaration, or none, leaves the collection complete.   *)
LEMMA CollectedKept ==
  ASSUME CInv, Collected, UNCHANGED <<prog, binds>>,
         gi' = gi \/ (gi' = gi + 1 /\ (gi \in DOMAIN Decls => ~BindAt(gi)))
  PROVE  Collected'
<1>1. Decls' = Decls /\ DOMAIN Decls = 1..Len(Decls) /\ Len(Decls) \in Nat /\ gi \in Nat
  BY ProgramShape DEF Decls, CInv
<1>2. \A d \in DOMAIN Decls : BindAt(d)' <=> BindAt(d)
  BY <1>1 DEF BindAt
<1>3. \A d \in DOMAIN Decls : d < gi => d < gi'
  BY <1>1
<1>4. \A d \in DOMAIN Decls : d < gi' /\ BindAt(d) => d < gi
  BY <1>1
<1> QED
  BY <1>1, <1>2, <1>3, <1>4 DEF Collected, SomeSeq

LEMMA BindCollected ==
  ASSUME CInv, Collected, BindsReady, CollectBind PROVE Collected'
<1>1. /\ gi \in DOMAIN Decls /\ BindAt(gi) /\ gi' = gi + 1 /\ prog' = prog
      /\ binds' = Append(binds, Decls[gi])
  BY DEF CollectBind, At, Decl, NextDecl, BindAt, analyser
<1>2. Decls' = Decls /\ DOMAIN Decls = 1..Len(Decls) /\ Len(Decls) \in Nat /\ status = "ok"
  BY <1>1, ProgramShape DEF Decls, CInv, CollectBind, At
<1>3. PICK S : binds \in Seq(S)
  BY DEF Collected, SomeSeq
<1> DEFINE n == Len(binds)
           b == Decls[gi]
<1>4. /\ n \in Nat /\ DOMAIN binds = 1..n /\ DOMAIN binds' = 1..n + 1
      /\ \A k \in 1..n : binds'[k] = binds[k]
      /\ binds'[n + 1] = b
      /\ binds' \in Seq(S \cup {b})
  BY <1>1, <1>3
<1> HIDE DEF n
<1>5. SomeSeq(binds')
  BY <1>4 DEF SomeSeq
<1>6. ASSUME NEW k \in 1..n + 1
      PROVE  \E d \in DOMAIN Decls : d < gi' /\ BindAt(d) /\ binds'[k] = Decls[d]
  <2>1. CASE k \in 1..n
    <3>1. PICK d \in DOMAIN Decls : d < gi /\ BindAt(d) /\ binds[k] = Decls[d]
      BY <1>4, <2>1 DEF Collected
    <3> QED
      BY <1>1, <1>2, <1>4, <2>1, <3>1
  <2>2. CASE k = n + 1
    BY <1>1, <1>2, <1>4, <2>2
  <2> QED
    BY <1>4, <1>6, <2>1, <2>2
<1>7. ASSUME NEW d \in DOMAIN Decls, d < gi', BindAt(d)
      PROVE  \E k \in 1..n + 1 : binds'[k] = Decls[d]
  <2>1. CASE d = gi
    BY <1>4, <2>1
  <2>2. CASE d # gi
    <3>1. d < gi
      BY <1>1, <1>2, <1>7, <2>2
    <3>2. PICK k \in 1..n : binds[k] = Decls[d]
      BY <1>4, <1>7, <3>1 DEF Collected
    <3> QED
      BY <1>4, <3>2
  <2> QED
    BY <2>1, <2>2
<1>8. ASSUME NEW k \in 1..n PROVE Apart(binds[k], b) /\ Apart(b, binds[k])
  <2> SUFFICES ASSUME NoName \notin {binds[k].msgName, b.msgName}
               PROVE  binds[k].msgId # b.msgId
    BY DEF Apart
  <2>1. PICK d \in DOMAIN Decls : d < gi /\ BindAt(d) /\ binds[k] = Decls[d]
    BY <1>4 DEF Collected
  <2>2. BindsMsg(d) /\ BindsMsg(gi) /\ d # gi
    BY <1>1, <1>2, <1>8, <2>1 DEF BindsMsg, BindAt
  <2> QED
    BY <1>1, <1>2, <2>1, <2>2 DEF BindsReady
<1>9. ASSUME NEW j \in 1..n + 1, NEW k \in 1..n + 1, j # k
      PROVE  Apart(binds'[j], binds'[k])
  <2>1. CASE j \in 1..n /\ k \in 1..n
    <3>1. Apart(binds[j], binds[k])
      BY <1>4, <1>9, <2>1 DEF Collected
    <3> QED
      BY <1>4, <2>1, <3>1
  <2>2. CASE j \in 1..n /\ k = n + 1
    BY <1>4, <1>8, <1>9, <2>2
  <2>3. CASE j = n + 1 /\ k \in 1..n
    BY <1>4, <1>8, <1>9, <2>3
  <2> QED
    BY <1>4, <1>9, <2>1, <2>2, <2>3
<1>10. \A d \in DOMAIN Decls : BindAt(d)' <=> BindAt(d)
  BY <1>2 DEF BindAt
<1> QED
  BY <1>2, <1>4, <1>5, <1>6, <1>7, <1>9, <1>10 DEF Collected, SomeSeq

LEMMA DInvNext == CInv /\ BindsReady /\ DInv /\ [Next]_vars => DInv'
<1> SUFFICES ASSUME CInv, BindsReady, DInv, [Next]_vars PROVE DInv'
  OBVIOUS
<1>p. /\ Decls' = Decls /\ prog' = prog /\ DOMAIN Decls = 1..Len(Decls) /\ Len(Decls) \in Nat
      /\ gi \in Nat
  BY ProgramKept, ProgramShape DEF Decls, CInv
<1>w. (walk # "idle" => ~BindAt(gi))'
  BY WalkKept DEF DInv
<1>c. ASSUME UNCHANGED <<gi, binds>> PROVE Collected'
  BY <1>c, <1>p, CollectedKept DEF DInv
<1>d. ASSUME UNCHANGED <<binds, out>>, Dispatched PROVE Dispatched'
  BY <1>d DEF Dispatched, EncodeById, DecodeById, DispatchFunc, Cases
<1>1. CASE Overlooks
  <2>1. Collected'
    BY <1>1, <1>p, CollectedKept DEF Overlooks, DInv
  <2>2. stage = "interpret" /\ stage' = "interpret" /\ gi' # Len(Decls) + 2
    BY <1>1, <1>p DEF Overlooks
  <2> QED
    BY <1>p, <1>w, <2>1, <2>2 DEF DInv, Complete
<1>2. CASE CollectBind
  <2>1. /\ stage = "interpret" /\ stage' = "interpret" /\ gi' # Len(Decls) + 2
    BY <1>2, <1>p DEF CollectBind, At, NextDecl
  <2>2. Collected'
    BY <1>2, BindCollected DEF DInv
  <2> QED
    BY <1>p, <1>w, <2>1, <2>2 DEF DInv, Complete
<1>3. CASE WriteBinds
  <2>1. /\ stage = "interpret" /\ stage' = "interpret" /\ gi = Len(Decls) + 1 /\ gi' = gi + 1
        /\ binds' = binds
        /\ Emit(IF binds = <<>> THEN <<>> ELSE <<EncodeById, DecodeById>>)
    BY <1>3 DEF WriteBinds, Wrote, NextDecl
  <2>2. Collected'
    BY <1>p, <2>1, CollectedKept DEF DInv
  <2>3. Dispatched'
    <3>1. CASE binds = <<>>
      BY <2>1, <3>1 DEF Dispatched
    <3>2. CASE binds # <<>>
      <4> DEFINE e == EncodeById
                 d == DecodeById
      <4>1. out' = out \o <<e, d>>
        BY <2>1, <3>2 DEF Emit
      <4>2. PICK S : out \in Seq(S)
        BY DEF CInv, SomeSeq
      <4>3. e' = e /\ d' = d
        BY <2>1 DEF EncodeById, DecodeById, DispatchFunc, Cases
      <4> HIDE DEF e, d
      <4>4. Len(out') \in Nat /\ out'[Len(out') - 1] = e /\ out'[Len(out')] = d
        BY <4>1, <4>2
      <4> QED
        BY <4>3, <4>4 DEF Dispatched, e, d
    <3> QED
      BY <3>1, <3>2
  <2> QED
    BY <1>p, <1>w, <2>1, <2>2, <2>3 DEF DInv, Complete
<1>4. CASE Finish
  <2>1. stage' = "end" /\ gi = Len(Decls) + 2 /\ UNCHANGED <<gi, binds, out>>
    BY <1>4 DEF Finish, Stop
  <2> QED
    BY <1>c, <1>d, <1>p, <1>w, <2>1 DEF DInv
<1>5. CASE Stops
  <2>1. PICK code \in Nat : Stop(code) /\ (code = 0 => stage = "start") /\ stage # "interpret"
    BY <1>5 DEF Stops
  <2>2. /\ stage' = "end" /\ exit' = code
        /\ UNCHANGED <<gi, binds, out, status>>
    BY <2>1 DEF Stop, analyser
  <2>3. ~Complete'
    BY <2>1, <2>2 DEF DInv, Complete
  <2> QED
    BY <1>c, <1>d, <1>p, <1>w, <2>2, <2>3 DEF DInv
<1>6. CASE Fails
  <2>1. stage' = "end" /\ exit' = 255 /\ UNCHANGED <<gi, binds, out>>
    BY <1>6 DEF Fails, Stop
  <2>2. ~Complete'
    BY <2>1 DEF Complete
  <2> QED
    BY <1>c, <1>d, <1>p, <1>w, <2>1, <2>2 DEF DInv
<1>7. CASE Begins
  <2>1. /\ stage \in {"start", "analyse"} /\ stage' \in {"analyse", "interpret"}
        /\ UNCHANGED <<gi, binds, out>>
    BY <1>7 DEF Begins, Parse, Analyse, StartInterpreter, Accepted
  <2>2. ~Complete'
    BY <2>1 DEF Complete
  <2> QED
    BY <1>c, <1>d, <1>p, <1>w, <2>1, <2>2 DEF DInv
<1>8. CASE UNCHANGED vars
  BY <1>8, <1>c, <1>d, <1>p, <1>w DEF vars, analyser, DInv, Complete
<1> QED
  BY <1>1, <1>2, <1>3, <1>4, <1>5, <1>6, <1>7, <1>8, DispatchKinds DEF DInv

(* The dispatch functions of the finished program are what the analyser    *)
(* accepted: both have the same cases, an id has a case for the message    *)
(* recorded with it and for no other, and no two cases of messages share   *)
(* an id.  The binds are collected by the interpreter (visitBinds_Go) and  *)
(* recorded by the analyser (visitBindDef) independently of one another.   *)
THEOREM DispatchIsAccepted == Spec => []DispatchAgrees
<1>1. CInv /\ BindsReady /\ DInv => DispatchAgrees
  <2> SUFFICES ASSUME CInv, BindsReady, DInv, Complete, binds # <<>>
               PROVE  LET enc == out[Len(out) - 1]
                          dec == out[Len(out)]
                      IN  /\ enc.k = "encodeById" /\ dec.k = "decodeById"
                          /\ enc.cases = dec.cases
                          /\ \A n \in DOMAIN midMap :
                               {c.msg : c \in {x \in Range(enc.cases) : x.id = n}} \ {NoName}
                                 = {midMap[n].bindMsg} \ {NoName}
                          /\ \A i, j \in DOMAIN enc.cases :
                               i # j /\ NoName \notin {enc.cases[i].msg, enc.cases[j].msg}
                                 => enc.cases[i].id # enc.cases[j].id
    BY DEF DispatchAgrees
  <2>1. /\ out[Len(out) - 1] = EncodeById /\ out[Len(out)] = DecodeById
        /\ gi = Len(Decls) + 2 /\ Collected /\ status = "ok"
        /\ DOMAIN Decls = 1..Len(Decls) /\ Len(Decls) \in Nat
    BY ProgramShape DEF DInv, Dispatched, Complete, CInv
  <2> DEFINE cs == Cases(binds)
  <2>2. /\ EncodeById.k = "encodeById" /\ DecodeById.k = "decodeById"
        /\ EncodeById.cases = cs /\ DecodeById.cases = cs
    BY DEF EncodeById, DecodeById, DispatchFunc
  <2>3. DOMAIN cs = DOMAIN binds
    BY DEF Cases
  <2>4. \A i \in DOMAIN binds : cs[i].id = binds[i].msgId /\ cs[i].msg = binds[i].msgName
    BY DEF Cases
  <2>5. \A x : x \in Range(cs) <=> \E i \in DOMAIN binds : x = cs[i]
    BY <2>3 DEF Range
  <2> HIDE DEF cs
  <2>6. ASSUME NEW n \in DOMAIN midMap
        PROVE  {c.msg : c \in {x \in Range(cs) : x.id = n}} \ {NoName} = {midMap[n].bindMsg} \ {NoName}
    <3>1. ASSUME NEW i \in DOMAIN binds, cs[i].id = n, cs[i].msg # NoName
          PROVE  cs[i].msg = midMap[n].bindMsg
      <4>1. PICK d \in DOMAIN Decls : BindAt(d) /\ binds[i] = Decls[d]
        BY <2>1 DEF Collected
      <4>2. BindsMsg(d) /\ Decls[d].msgId = n
        BY <2>4, <3>1, <4>1 DEF BindsMsg, BindAt
      <4> QED
        BY <2>1, <2>4, <4>1, <4>2 DEF BindsReady
    <3>2. ASSUME midMap[n].bindMsg # NoName
          PROVE  \E i \in DOMAIN binds : cs[i].id = n /\ cs[i].msg = midMap[n].bindMsg
      <4>1. PICK d \in DOMAIN Decls : /\ BindsMsg(d) /\ Decls[d].msgId = n
                                      /\ Decls[d].msgName = midMap[n].bindMsg
        BY <2>1, <3>2 DEF BindsReady
      <4>2. d < gi /\ BindAt(d)
        BY <2>1, <4>1 DEF BindsMsg, BindAt
      <4>3. PICK i \in DOMAIN binds : binds[i] = Decls[d]
        BY <2>1, <4>2 DEF Collected
      <4> QED
        BY <2>4, <4>1, <4>3
    <3> QED
      BY <2>5, <3>1, <3>2
  <2>7. ASSUME NEW i \in DOMAIN cs, NEW j \in DOMAIN cs, i # j,
               NoName \notin {cs[i].msg, cs[j].msg}
        PROVE  cs[i].id # cs[j].id
    <3>1. Apart(binds[i], binds[j])
      BY <2>1, <2>3, <2>7 DEF Collected
    <3> QED
      BY <2>3, <2>4, <2>7, <3>1 DEF Apart
  <2> QED
    BY <2>1, <2>2, <2>6, <2>7
<1> QED
  BY <1>1, DInvInit, DInvNext, CInvInit, CInvNext, BindsAccepted, PTL DEF Spec
-----------------------------------------------------------------------------
(* The types and the codecs of the program that is written.                *)

(* The declarations that get a codec: a message, and a type declaration of *)
(* one, whose struct it renames.                                           *)
Coded(d) == Decls[d].kind = "msg" \/ IsRename(d)
StructAt(d) == IF Decls[d].kind = "msg" THEN Decls[d].name ELSE Decls[d].impl.name
MsgAt(d) == MsgOf(StructAt(d))
CodecNames == {Decls[d].name : d \in {e \in DOMAIN Decls : Coded(e)}}

(* The declarations before it have been renamed and their types written.   *)
Passed == IF walk = "idle" THEN gi ELSE gi + 1

(* The codec under way.                                                    *)
UnderWay ==
  walk # "idle" => /\ Coded(gi)
                   /\ fields = Decls[MsgAt(gi)].fields
                   /\ goName[StructAt(gi)] = Decls[gi].name

(* A struct has its own name or that of a type declaration of it that has  *)
(* been passed.                                                            *)
NamesInv ==
  /\ DOMAIN goName = {Decls[m].name : m \in Msgs}
  /\ \A n \in DOMAIN goName :
       \/ goName[n] = n
       \/ \E j \in DOMAIN Decls : /\ j < Passed /\ IsRename(j) /\ Decls[j].impl.name = n
                                  /\ goName[n] = Decls[j].name

(* No message nested in message m has been renamed since m was declared.   *)
Undisturbed(m, n) ==
  \A j \in DOMAIN Decls : m <= j /\ j < n /\ IsRename(j) => Decls[j].impl.name \notin Nested(m)

(* The types written, and their fields: those of the codec that would be   *)
(* written now, unless a nested message has been renamed.                  *)
TypeOf(t, d) ==
  /\ DeclaresType(Decls[d]) /\ t.name = Decls[d].name
  /\ Coded(d) /\ Undisturbed(MsgAt(d), Passed) => t.fields = Callees(Decls[MsgAt(d)].fields)

TypesInv ==
  /\ \A i \in DOMAIN out : out[i].k = "type" => \E d \in DOMAIN Decls : d < Passed /\ TypeOf(out[i], d)
  /\ \A d \in DOMAIN Decls : d < Passed /\ Coded(d) =>
       \E i \in DOMAIN out : out[i].k = "type" /\ out[i].name = Decls[d].name

(* The codecs written.                                                     *)
CodecOf(c, d) == Coded(d) /\ c.name = Decls[d].name /\ Range(c.calls) \subseteq CodecNames \cup Uncoded

CodecsInv ==
  /\ \A i \in DOMAIN out : out[i].k = "codec" => \E d \in DOMAIN Decls : d < gi /\ CodecOf(out[i], d)
  /\ \A d \in DOMAIN Decls : d < gi /\ Coded(d) => DefinedOnce(Decls[d].name)

(* What is said of declarations depends on the program only.               *)
LEMMA SameProgram ==
  ASSUME prog' = prog
  PROVE  /\ Decls' = Decls /\ Msgs' = Msgs /\ CodecNames' = CodecNames /\ Uncoded' = Uncoded
         /\ \A d : /\ Coded(d)' <=> Coded(d)
                   /\ IsRename(d)' <=> IsRename(d)
                   /\ StructAt(d)' = StructAt(d) /\ MsgAt(d)' = MsgAt(d) /\ Nested(d)' = Nested(d)
         /\ \A n : Stale(n)' <=> Stale(n)
         /\ \A m, n : Undisturbed(m, n)' <=> Undisturbed(m, n)
<1>1. Decls' = Decls
  BY DEF Decls
<1>2. Msgs' = Msgs /\ Uncoded' = Uncoded
  BY <1>1 DEF Msgs, Uncoded
<1>3. /\ \A d : IsRename(d)' <=> IsRename(d)
      /\ \A d : Nested(d)' = Nested(d)
      /\ \A n : MsgOf(n)' = MsgOf(n)
  BY <1>1 DEF IsRename, Nested, MsgOf
<1>4. /\ \A d : Coded(d)' <=> Coded(d)
      /\ \A d : StructAt(d)' = StructAt(d)
  BY <1>1, <1>3 DEF Coded, StructAt
<1>5. \A d : MsgAt(d)' = MsgAt(d)
  BY <1>1, <1>3, <1>4 DEF MsgAt, MsgOf
<1>6. CodecNames' = CodecNames
  BY <1>1, <1>4 DEF CodecNames
<1>7. \A n : Stale(n)' <=> Stale(n)
  BY <1>1, <1>3 DEF Stale, MsgOf
<1>8. \A m, n : Undisturbed(m, n)' <=> Undisturbed(m, n)
  BY <1>1, <1>3 DEF Undisturbed
<1> QED
  BY <1>1, <1>2, <1>3, <1>4, <1>5, <1>6, <1>7, <1>8

(* The message a codec is for.                                             *)
LEMMA CodedMsg ==
  ASSUME prog \in Programs, NEW d \in DOMAIN Decls, Coded(d)
  PROVE  /\ MsgAt(d) \in DOMAIN Decls /\ MsgAt(d) \in Msgs /\ Decls[MsgAt(d)].kind = "msg"
         /\ Decls[MsgAt(d)].name = StructAt(d)
         /\ Decls[d].kind = "msg" => MsgAt(d) = d
         /\ IsRename(d) => MsgAt(d) < d
<1>1. DOMAIN Decls = 1..Len(Decls) /\ Len(Decls) \in Nat /\ TypesUnique(Decls) /\ StructsBefore(Decls)
  BY ProgramShape DEF TypesResolved
<1>2. PICK m \in DOMAIN Decls : /\ Decls[m].kind = "msg" /\ Decls[m].name = StructAt(d)
                                /\ IsRename(d) => m < d
  <2>1. CASE Decls[d].kind = "msg"
    BY <2>1 DEF StructAt, IsRename
  <2>2. CASE Decls[d].kind # "msg"
    <3>1. Decls[d].kind = "typedef" /\ Decls[d].impl.k = "struct"
      BY <2>2 DEF Coded, IsRename
    <3>2. Decls[d].impl \in Mentioned(Decls[d])
      BY <3>1 DEF Mentioned, Elem
    <3>3. PICK j \in 1..d - 1 : Decls[j].kind = "msg" /\ Decls[j].name = Decls[d].impl.name
      BY <1>1, <3>1, <3>2 DEF StructsBefore
    <3> QED
      BY <1>1, <2>2, <3>3 DEF StructAt
  <2> QED
    BY <2>1, <2>2
<1>3. MsgAt(d) \in DOMAIN Decls /\ Decls[MsgAt(d)].kind = "msg" /\ Decls[MsgAt(d)].name = StructAt(d)
  BY <1>2 DEF MsgAt, MsgOf
<1>4. MsgAt(d) = m
  BY <1>1, <1>2, <1>3 DEF TypesUnique, DeclaresType
<1>5. Decls[d].kind = "msg" => StructAt(d) = Decls[d].name
  BY DEF StructAt
<1>6. Decls[d].kind = "msg" => MsgAt(d) = d
  BY <1>1, <1>3, <1>5 DEF TypesUnique, DeclaresType
<1> QED
  BY <1>2, <1>3, <1>4, <1>6 DEF Msgs

LEMMA CodedNames ==
  ASSUME prog \in Programs, NEW d \in DOMAIN Decls, NEW e \in DOMAIN Decls,
         Coded(d), Decls[d].name = Decls[e].name, DeclaresType(Decls[e])
  PROVE  d = e
  BY ProgramShape DEF TypesResolved, TypesUnique, DeclaresType, Coded, IsRename

LEMMA MsgMentions ==
  ASSUME NEW m \in Msgs
  PROVE  /\ m \in DOMAIN Decls /\ Decls[m].kind = "msg"
         /\ Mentioned(Decls[m]) = {Elem(Decls[m].fields[i].type) : i \in DOMAIN Decls[m].fields}
  BY DEF Msgs, Mentioned

(* The type a function of fields gives for a name.                         *)
FieldNames(fs) == {fs[i].name : i \in NamedFields(fs)}
FieldType(fs, f) == Elem(fs[CHOOSE i \in NamedFields(fs) : fs[i].name = f].type)

LEMMA NamedField ==
  ASSUME NEW m \in Msgs, NEW fs, fs = Decls[m].fields, NEW f \in FieldNames(fs)
  PROVE  FieldType(fs, f) \in Mentioned(Decls[m]) /\ IsNamed(FieldType(fs, f))
<1> DEFINE c == CHOOSE i \in NamedFields(fs) : fs[i].name = f
<1>1. PICK i \in NamedFields(fs) : fs[i].name = f
  BY DEF FieldNames
<1>2. c \in NamedFields(fs)
  BY <1>1
<1>3. c \in DOMAIN fs /\ IsNamed(Elem(fs[c].type))
  BY <1>2 DEF NamedFields
<1> QED
  BY <1>3, MsgMentions DEF FieldType

(* A codec calls codecs of the program, or names that have none.           *)
LEMMA CalleesIn ==
  ASSUME prog \in Programs, NamesInv, NEW m \in Msgs
  PROVE  Range(Callees(Decls[m].fields)) \subseteq CodecNames \cup Uncoded
<1>0. StructsBefore(Decls) /\ ForwardResolved(Decls) /\ DOMAIN Decls = 1..Len(Decls) /\ Len(Decls) \in Nat
  BY ProgramShape DEF TypesResolved
<1>c. \A d \in DOMAIN Decls : Coded(d) => Decls[d].name \in CodecNames
  BY DEF CodecNames
<1>1. ASSUME NEW t \in Mentioned(Decls[m]), IsNamed(t)
      PROVE  GoTypeName(t) \in CodecNames \cup Uncoded
  <2>1. CASE t.k = "struct"
    <3>1. PICK j \in 1..m - 1 : Decls[j].kind = "msg" /\ Decls[j].name = t.name
      BY <1>0, <2>1, MsgMentions DEF StructsBefore
    <3>2. j \in DOMAIN Decls /\ j \in Msgs
      BY <1>0, <3>1, MsgMentions DEF Msgs
    <3>3. t.name \in DOMAIN goName
      BY <3>1, <3>2 DEF NamesInv
    <3>4. goName[t.name] \in CodecNames
      <4>1. CASE goName[t.name] = t.name
        BY <1>c, <3>1, <3>2, <4>1 DEF Coded
      <4>2. CASE goName[t.name] # t.name
        <5>1. PICK d \in DOMAIN Decls : IsRename(d) /\ goName[t.name] = Decls[d].name
          BY <3>3, <4>2 DEF NamesInv
        <5> QED
          BY <1>c, <5>1 DEF Coded
      <4> QED
        BY <4>1, <4>2
    <3> QED
      BY <2>1, <3>4 DEF GoTypeName
  <2>2. CASE t.k # "struct"
    <3>1. t.k = "undef" /\ GoTypeName(t) = t.name
      BY <1>1, <2>2 DEF IsNamed, GoTypeName
    <3>2. CASE t.resolved.k # "struct"
      <4>1. t \in UNION {Mentioned(Decls[i]) : i \in Msgs}
        OBVIOUS
      <4> QED
        BY <3>1, <3>2, <4>1 DEF Uncoded
    <3>3. CASE t.resolved.k = "struct"
      <4>1. m \in DOMAIN Decls
        BY MsgMentions
      <4>2. t.name \in TypeNames(Decls)
        <5>1. t.name \notin TypeNames(Decls) => t.resolved = NilType
          BY <1>0, <3>1, <4>1 DEF ForwardResolved
        <5>2. NilType.k # "struct"
          BY DEF NilType
        <5> QED
          BY <3>3, <5>1, <5>2
      <4>3. PICK j \in DOMAIN Decls : DeclaresType(Decls[j]) /\ Decls[j].name = t.name
        BY <4>2 DEF TypeNames
      <4>4. Decls[j].kind = "typedef" /\ t.resolved = Shallow(Decls[j].impl)
        BY <1>0, <3>1, <4>1, <4>3 DEF ForwardResolved
      <4>5. Decls[j].impl.k = "struct"
        BY <3>3, <4>4 DEF Shallow, ArrayOf
      <4> QED
        BY <1>c, <3>1, <4>3, <4>4, <4>5 DEF Coded, IsRename
    <3> QED
      BY <3>2, <3>3
  <2> QED
    BY <2>1, <2>2
<1>2. PICK fs : fs = Decls[m].fields
  OBVIOUS
<1>3. Callees(fs) = [f \in FieldNames(fs) |-> GoTypeName(FieldType(fs, f))]
  BY DEF Callees, FieldTypes, FieldNames, FieldType
<1>4. \A f \in FieldNames(fs) : GoTypeName(FieldType(fs, f)) \in CodecNames \cup Uncoded
  BY <1>1, <1>2, NamedField
<1> QED
  BY <1>2, <1>3, <1>4 DEF Range

(* A rename changes the calls of those only that nest the message.         *)
LEMMA CalleesStay ==
  ASSUME prog' = prog, NEW m \in Msgs, NEW fs, fs = Decls[m].fields,
         \A n \in Nested(m) : goName'[n] = goName[n]
  PROVE  Callees(fs)' = Callees(fs)
<1>1. \A f \in FieldNames(fs) : FieldType(fs, f) \in Mentioned(Decls[m])
  BY NamedField
<1>2. ASSUME NEW t \in Mentioned(Decls[m]) PROVE GoTypeName(t)' = GoTypeName(t)
  <2>1. t.k = "struct" => t.name \in Nested(m)
    BY DEF Nested
  <2> QED
    BY <2>1 DEF GoTypeName
<1>3. Callees(fs) = [f \in FieldNames(fs) |-> GoTypeName(FieldType(fs, f))]
  BY DEF Callees, FieldTypes, FieldNames, FieldType
<1>4. Callees(fs)' = [f \in FieldNames(fs) |-> GoTypeName(FieldType(fs, f))']
  BY DEF Callees, FieldTypes, FieldNames, FieldType
<1>5. \A f \in FieldNames(fs) : GoTypeName(FieldType(fs, f))' = GoTypeName(FieldType(fs, f))
  BY <1>1, <1>2
<1> QED
  BY <1>3, <1>4, <1>5

(* The program grows: ds is what a step writes.                            *)
Grows(ds) ==
  /\ \A i \in DOMAIN out : i \in DOMAIN out' /\ out'[i] = out[i]
  /\ \A k \in DOMAIN ds : \E i \in DOMAIN out' \ DOMAIN out : out'[i] = ds[k]
  /\ \A i \in DOMAIN out' \ DOMAIN out : \E k \in DOMAIN ds : out'[i] = ds[k]

LEMMA Emits == ASSUME SomeSeq(out), NEW ds, SomeSeq(ds), Emit(ds) PROVE Grows(ds)
<1>1. PICK S : out \in Seq(S)
  BY DEF SomeSeq
<1>2. PICK T : ds \in Seq(T)
  BY DEF SomeSeq
<1>3. /\ out \in Seq(S \cup T) /\ ds \in Seq(S \cup T)
      /\ Len(out) \in Nat /\ Len(ds) \in Nat /\ DOMAIN out = 1..Len(out) /\ DOMAIN ds = 1..Len(ds)
  BY <1>1, <1>2
<1>4. /\ DOMAIN out' = 1..Len(out) + Len(ds)
      /\ \A i \in 1..Len(out) + Len(ds) : out'[i] = IF i <= Len(out) THEN out[i] ELSE ds[i - Len(out)]
  BY <1>3 DEF Emit
<1>5. \A k \in DOMAIN ds : \E i \in DOMAIN out' \ DOMAIN out : out'[i] = ds[k]
  <2>1. SUFFICES ASSUME NEW k \in DOMAIN ds
                 PROVE  Len(out) + k \in DOMAIN out' \ DOMAIN out /\ out'[Len(out) + k] = ds[k]
    OBVIOUS
  <2>2. Len(out) + k \in 1..Len(out) + Len(ds) /\ ~(Len(out) + k <= Len(out)) /\ (Len(out) + k) - Len(out) = k
    BY <1>3
  <2> QED
    BY <1>3, <1>4, <2>2
<1>6. \A i \in DOMAIN out' \ DOMAIN out : \E k \in DOMAIN ds : out'[i] = ds[k]
  <2>1. SUFFICES ASSUME NEW i \in DOMAIN out' \ DOMAIN out
                 PROVE  i - Len(out) \in DOMAIN ds /\ out'[i] = ds[i - Len(out)]
    OBVIOUS
  <2> QED
    BY <1>3, <1>4
<1>7. \A i \in DOMAIN out : i \in DOMAIN out' /\ out'[i] = out[i]
  BY <1>3, <1>4
<1> QED
  BY <1>5, <1>6, <1>7 DEF Grows

LEMMA EmitsOne ==
  ASSUME SomeSeq(out), NEW x, Emit(<<x>>)
  PROVE  /\ Grows(<<x>>) /\ DOMAIN <<x>> = {1} /\ <<x>>[1] = x
         /\ \E i : i \notin DOMAIN out /\ DOMAIN out' = DOMAIN out \cup {i} /\ out'[i] = x
<1>1. Grows(<<x>>)
  BY Emits, Single
<1>2. PICK S : out \in Seq(S)
  BY DEF SomeSeq
<1>3. PICK ds : ds = <<x>>
  OBVIOUS
<1>4. ds \in Seq({x}) /\ Len(ds) = 1 /\ ds[1] = x /\ DOMAIN ds = {1}
  BY <1>3
<1>5. out \in Seq(S \cup {x}) /\ ds \in Seq(S \cup {x}) /\ Len(out) \in Nat /\ DOMAIN out = 1..Len(out)
  BY <1>2, <1>4
<1>6. out' = out \o ds
  BY <1>3 DEF Emit
<1>7. DOMAIN out' = 1..Len(out) + 1 /\ out'[Len(out) + 1] = x
  <2>1. /\ DOMAIN (out \o ds) = 1..Len(out) + Len(ds)
        /\ \A i \in 1..Len(out) + Len(ds) :
             (out \o ds)[i] = IF i <= Len(out) THEN out[i] ELSE ds[i - Len(out)]
    BY <1>5
  <2>2. Len(out) + 1 \in 1..Len(out) + Len(ds) /\ ~(Len(out) + 1 <= Len(out)) /\ (Len(out) + 1) - Len(out) = 1
    BY <1>4, <1>5
  <2> QED
    BY <1>4, <1>6, <2>1, <2>2
<1>8. Len(out) + 1 \notin DOMAIN out /\ DOMAIN out' = DOMAIN out \cup {Len(out) + 1}
  BY <1>5, <1>7
<1>9. DOMAIN <<x>> = {1} /\ <<x>>[1] = x
  BY <1>3, <1>4
<1>10. \E i : i \notin DOMAIN out /\ DOMAIN out' = DOMAIN out \cup {i} /\ out'[i] = x
  BY <1>7, <1>8
<1> QED
  BY <1>1, <1>9, <1>10

(* A step that writes no codec and passes no declaration that has one.     *)
LEMMA CodecsStay ==
  ASSUME CodecsInv, prog' = prog, NEW ds, Grows(ds), \A k \in DOMAIN ds : ds[k].k # "codec",
         \A d \in DOMAIN Decls : Coded(d) => (d < gi' <=> d < gi)
  PROVE  CodecsInv'
<1>p. /\ Decls' = Decls /\ CodecNames' = CodecNames /\ Uncoded' = Uncoded
      /\ \A d : Coded(d)' <=> Coded(d)
  BY SameProgram
<1>1. ASSUME NEW i \in DOMAIN out', out'[i].k = "codec"
      PROVE  i \in DOMAIN out /\ out'[i] = out[i]
  BY <1>1 DEF Grows
<1>2. ASSUME NEW i \in DOMAIN out', out'[i].k = "codec"
      PROVE  \E c : c = out'[i] /\ \E d \in DOMAIN Decls : d < gi' /\ CodecOf(c, d)'
  <2>1. PICK d \in DOMAIN Decls : d < gi /\ CodecOf(out[i], d)
    BY <1>1, <1>2 DEF CodecsInv
  <2>2. d < gi'
    BY <2>1 DEF CodecOf
  <2>3. PICK c : c = out[i]
    OBVIOUS
  <2>4. CodecOf(c, d)' /\ out'[i] = c
    BY <1>p, <1>1, <1>2, <2>1, <2>3 DEF CodecOf
  <2> QED
    BY <2>2, <2>4
<1>3. ASSUME NEW n, DefinedOnce(n) PROVE DefinedOnce(n)'
  <2>1. PICK i \in DOMAIN out : {j \in DOMAIN out : out[j].k = "codec" /\ out[j].name = n} = {i}
    BY <1>3 DEF DefinedOnce
  <2>2. {j \in DOMAIN out' : out'[j].k = "codec" /\ out'[j].name = n}
          = {j \in DOMAIN out : out[j].k = "codec" /\ out[j].name = n}
    BY <1>1 DEF Grows
  <2>3. i \in DOMAIN out'
    BY DEF Grows
  <2> QED
    BY <2>1, <2>2, <2>3 DEF DefinedOnce
<1>4. ASSUME NEW d \in DOMAIN Decls, d < gi', Coded(d) PROVE DefinedOnce(Decls[d].name)'
  <2>1. DefinedOnce(Decls[d].name)
    BY <1>4 DEF CodecsInv
  <2>2. PICK n : n = Decls[d].name
    OBVIOUS
  <2>3. DefinedOnce(n)'
    BY <1>3, <2>1, <2>2
  <2> QED
    BY <1>p, <2>2, <2>3
<1> QED
  BY <1>p, <1>2, <1>4 DEF CodecsInv

LEMMA Earlier ==
  ASSUME NEW m, NEW k \in Int, NEW n \in Int, k <= n, Undisturbed(m, n), DOMAIN Decls \subseteq Int
  PROVE  Undisturbed(m, k)
  BY DEF Undisturbed

(* A step that renames nothing nested in a message whose type still counts.*)
LEMMA TypesStay ==
  ASSUME TypesInv, prog' = prog, prog \in Programs, NEW ds, Grows(ds),
         Passed \in Int, Passed' \in Int, Passed <= Passed',
         \A e \in DOMAIN Decls : e < Passed /\ Coded(e) /\ Undisturbed(MsgAt(e), Passed') =>
           Callees(Decls[MsgAt(e)].fields)' = Callees(Decls[MsgAt(e)].fields),
         \A k \in DOMAIN ds : ds[k].k = "type" => \E d \in DOMAIN Decls : d < Passed' /\ TypeOf(ds[k], d)',
         \A d \in DOMAIN Decls : Coded(d) /\ d < Passed' =>
           d < Passed \/ \E k \in DOMAIN ds : ds[k].k = "type" /\ ds[k].name = Decls[d].name
  PROVE  TypesInv'
<1>p. /\ Decls' = Decls
      /\ \A d : Coded(d)' <=> Coded(d)
      /\ \A d : MsgAt(d)' = MsgAt(d)
      /\ \A m, n : Undisturbed(m, n)' <=> Undisturbed(m, n)
  BY SameProgram
<1>n. DOMAIN Decls \subseteq Int
  BY ProgramShape
<1>1. ASSUME NEW i \in DOMAIN out', out'[i].k = "type"
      PROVE  \E t : t = out'[i] /\ \E d \in DOMAIN Decls : d < Passed' /\ TypeOf(t, d)'
  <2>1. CASE i \in DOMAIN out
    <3>1. out'[i] = out[i]
      BY <2>1 DEF Grows
    <3>2. PICK d \in DOMAIN Decls : d < Passed /\ TypeOf(out[i], d)
      BY <1>1, <2>1, <3>1 DEF TypesInv
    <3>3. PICK t : t = out[i]
      OBVIOUS
    <3>4. PICK n : n = Passed'
      OBVIOUS
    <3>5. ASSUME Coded(d), Undisturbed(MsgAt(d), n)
          PROVE  t.fields = Callees(Decls[MsgAt(d)].fields)'
      <4>1. Undisturbed(MsgAt(d), Passed)
        BY <1>n, <3>4, <3>5, Earlier
      <4>2. t.fields = Callees(Decls[MsgAt(d)].fields)
        BY <3>2, <3>3, <3>5, <4>1 DEF TypeOf
      <4> QED
        BY <3>2, <3>4, <3>5, <4>2
    <3>6. TypeOf(t, d)'
      <4>1. DeclaresType(Decls[d]) /\ t.name = Decls[d].name
        BY <3>2, <3>3 DEF TypeOf
      <4> QED
        BY <1>p, <3>4, <3>5, <4>1 DEF TypeOf
    <3> QED
      BY <1>n, <3>1, <3>2, <3>3, <3>6
  <2>2. CASE i \notin DOMAIN out
    <3>1. PICK k \in DOMAIN ds : out'[i] = ds[k]
      BY <2>2 DEF Grows
    <3>2. PICK t : t = ds[k]
      OBVIOUS
    <3>3. t.k = "type"
      BY <1>1, <3>1, <3>2
    <3>4. PICK d \in DOMAIN Decls : d < Passed' /\ TypeOf(ds[k], d)'
      BY <3>2, <3>3
    <3>5. TypeOf(t, d)'
      BY <3>2, <3>4
    <3> QED
      BY <3>1, <3>2, <3>4, <3>5
  <2> QED
    BY <2>1, <2>2
<1>2. ASSUME NEW d \in DOMAIN Decls, d < Passed', Coded(d)
      PROVE  \E i \in DOMAIN out' : out'[i].k = "type" /\ out'[i].name = Decls[d].name
  <2>1. CASE d < Passed
    <3>1. PICK i \in DOMAIN out : out[i].k = "type" /\ out[i].name = Decls[d].name
      BY <1>2, <2>1 DEF TypesInv
    <3> QED
      BY <3>1 DEF Grows
  <2>2. CASE ~(d < Passed)
    <3>1. PICK k \in DOMAIN ds : ds[k].k = "type" /\ ds[k].name = Decls[d].name
      BY <1>2, <2>2
    <3>2. PICK i \in DOMAIN out' : out'[i] = ds[k]
      BY DEF Grows
    <3> QED
      BY <3>1, <3>2
  <2> QED
    BY <2>1, <2>2
<1> QED
  BY <1>p, <1>1, <1>2 DEF TypesInv

(* A codec and a type that go together.                                    *)
Matches(c, t) ==
  c.k = "codec" /\ t.k = "type" /\ c.name = t.name /\ ~Stale(c.name) => c.calls = t.fields

LEMMA Matched == NestedTyped <=> \A i, j \in DOMAIN out : Matches(out[i], out[j])
  BY DEF NestedTyped, Codecs, Types, OutSet, Range, Matches

LEMMA NestedStays ==
  ASSUME NestedTyped, prog' = prog, NEW ds, Grows(ds),
         \A k \in DOMAIN ds, i \in DOMAIN out : Matches(ds[k], out[i]) /\ Matches(out[i], ds[k]),
         \A k, l \in DOMAIN ds : Matches(ds[k], ds[l])
  PROVE  NestedTyped'
<1>1. \A n : Stale(n)' <=> Stale(n)
  BY SameProgram
<1>2. ASSUME NEW i \in DOMAIN out', NEW j \in DOMAIN out', NEW c, NEW t, c = out'[i], t = out'[j]
      PROVE  Matches(c, t)'
  <2>1. Matches(c, t)
    <3>1. i \in DOMAIN out => c = out[i]
      BY <1>2 DEF Grows
    <3>2. i \notin DOMAIN out => \E k \in DOMAIN ds : c = ds[k]
      BY <1>2 DEF Grows
    <3>3. j \in DOMAIN out => t = out[j]
      BY <1>2 DEF Grows
    <3>4. j \notin DOMAIN out => \E k \in DOMAIN ds : t = ds[k]
      BY <1>2 DEF Grows
    <3> QED
      BY <3>1, <3>2, <3>3, <3>4, Matched
  <2> QED
    BY <1>1, <2>1 DEF Matches
<1>3. NestedTyped' <=> \A i, j \in DOMAIN out' : \E c, t : c = out'[i] /\ t = out'[j] /\ Matches(c, t)'
  BY DEF NestedTyped, Codecs, Types, OutSet, Range, Matches
<1> QED
  BY <1>2, <1>3

(* The kinds of steps, as far as the types and the codecs can tell.        *)
Quiet == /\ walk' = "idle" <=> walk = "idle"
         /\ UNCHANGED <<prog, gi, fields, goName, out>>

(* A declaration without a codec is passed, or the file's header or end.   *)
Plain(ds) ==
  /\ walk = "idle" /\ walk' = "idle" /\ gi' = gi + 1 /\ UNCHANGED <<prog, goName>>
  /\ gi \in DOMAIN Decls => ~Coded(gi)
  /\ Grows(ds)
  /\ \A k \in DOMAIN ds : /\ ds[k].k # "codec"
                          /\ ds[k].k = "type" =>
                               /\ gi \in DOMAIN Decls /\ DeclaresType(Decls[gi])
                               /\ ds[k].name = Decls[gi].name

LEMMA Untouched == ASSUME out' = out PROVE Grows(<<>>)
  BY DEF Grows

LEMMA WrotePlain ==
  ASSUME CInv, NEW ds, SomeSeq(ds), Wrote(ds), walk = "idle", gi \in DOMAIN Decls => ~Coded(gi),
         \A k \in DOMAIN ds : ds[k].k \notin {"codec", "type"}
  PROVE  Plain(ds)
<1>1. Grows(ds)
  BY Emits DEF Wrote, CInv
<1> QED
  BY <1>1 DEF Wrote, NextDecl, analyser, generator, Plain

LEMMA GroupPlain ==
  ASSUME NEW g, IsSequence(g.items)
  PROVE  /\ SomeSeq(GroupDecls(g))
         /\ \A k \in DOMAIN GroupDecls(g) : GroupDecls(g)[k].k \notin {"codec", "type"}
<1> DEFINE n == Len(g.items)
           f == [i \in DOMAIN g.items |-> IdDecl(g.items[i].name, midMap[g.items[i].name].idVal)]
           x == NamesFunc(g.name, [i \in DOMAIN g.items |-> g.items[i].name])
           S == {d \in {f[i] : i \in 1..n} \cup {x} : d.k \notin {"codec", "type"}}
<1>1. n \in Nat /\ DOMAIN g.items = 1..n
  BY DEF IsSequence
<1>2. x.k = "names"
  BY DEF NamesFunc
<1>3. \A i \in 1..n : f[i].k = "id"
  BY <1>1 DEF IdDecl
<1>4. f = [i \in 1..n |-> f[i]]
  BY <1>1
<1>5. GroupDecls(g) = f \o <<x>>
  BY DEF GroupDecls
<1> HIDE DEF n, f, x
<1>6. x \in S /\ \A i \in 1..n : f[i] \in S
  BY <1>2, <1>3
<1> HIDE DEF S
<1>7. f \in Seq(S) /\ <<x>> \in Seq(S)
  BY <1>1, <1>4, <1>6
<1>8. f \o <<x>> \in Seq(S)
  BY <1>7
<1>9. \A k \in DOMAIN (f \o <<x>>) : (f \o <<x>>)[k] \in S
  BY <1>8
<1> QED
  BY <1>5, <1>8, <1>9 DEF SomeSeq, S

LEMMA GeneratorKeeps ==
  ASSUME Generator!Next
  PROVE  fields' = fields /\ walk' # "idle"
<1>1. ASSUME NEW w, Generator!At(w), w \in {"struct", "encode", "decode"} PROVE walk # "idle"
  BY <1>1 DEF Generator!At
<1>2. ASSUME NEW w, Generator!StartWalk(w), w # "idle" PROVE fields' = fields /\ walk' # "idle"
  BY <1>2 DEF Generator!StartWalk
<1>3. Generator!Panic => fields' = fields /\ walk' # "idle"
  BY DEF Generator!Panic
<1>4. CASE Generator!DeclareField
  BY <1>1, <1>3, <1>4 DEF Generator!DeclareField, Generator!Require
<1>5. CASE Generator!Encode
  BY <1>1, <1>3, <1>5 DEF Generator!Encode, Generator!EncodeBits, Generator!OpenEncodeGroup,
       Generator!EncodeInt, Generator!EncodeMsg, Generator!EncodeArray, Generator!Require
<1>6. CASE Generator!Decode
  BY <1>1, <1>3, <1>6 DEF Generator!Decode, Generator!DecodeBits, Generator!OpenDecodeGroup,
       Generator!DecodeInt, Generator!DecodeMsg, Generator!DecodeArray, Generator!Require
<1>7. CASE Generator!EndStruct \/ Generator!EndEncode \/ Generator!EndDecode
  BY <1>2, <1>7 DEF Generator!EndStruct, Generator!EndEncode, Generator!EndDecode
<1> QED
  BY <1>4, <1>5, <1>6, <1>7 DEF Generator!Next

LEMMA TypeKinds ==
  ASSUME CInv, [Next]_vars
  PROVE  Quiet \/ (\E ds : Plain(ds)) \/ StartMsg \/ StartTypeDef \/ FinishCodec
<1>n. Len(Decls) \in Nat /\ DOMAIN Decls = 1..Len(Decls) /\ prog' = prog
  BY ProgramShape, ProgramKept DEF CInv
<1>a. ASSUME NEW k, At(k)
      PROVE  /\ gi \in DOMAIN Decls /\ Decls[gi].kind = k /\ walk = "idle"
             /\ k \notin {"msg", "typedef"} => ~Coded(gi)
  BY <1>a, <1>n DEF At, Decl, Coded, IsRename
<1>1. \/ NoFile \/ ParseFails \/ Refused \/ UnknownMode \/ Parse \/ Analyse \/ StartInterpreter
      \/ ConstPanics \/ TypeDefPanics \/ CodecPanics \/ Finish \/ UNCHANGED vars
      => Quiet
  BY <1>n DEF NoFile, ParseFails, Refused, UnknownMode, Parse, Analyse, StartInterpreter, Stop,
              ConstPanics, TypeDefPanics, CodecPanics, Finish, vars, generator, Quiet
<1>2. CASE WriteHeader
  <2>1. gi \notin DOMAIN Decls /\ walk = "idle" /\ Header.k = "header"
    BY <1>2, <1>n DEF WriteHeader, CInv, Header
  <2>2. DOMAIN <<Header>> = {1} /\ <<Header>>[1] = Header
    OBVIOUS
  <2> QED
    BY <1>2, <2>1, <2>2, WrotePlain, Single DEF WriteHeader
<1>3. CASE SkipDecl
  <2>1. Wrote(<<>>) /\ walk = "idle" /\ (gi \in DOMAIN Decls => ~Coded(gi))
    BY <1>3, <1>a DEF SkipDecl
  <2> QED
    BY <2>1, WrotePlain, Nothing
<1>4. CASE WriteConst
  <2>1. Wrote(<<ConstDecl(Decl.name)>>) /\ walk = "idle" /\ (gi \in DOMAIN Decls => ~Coded(gi))
    BY <1>4, <1>a DEF WriteConst
  <2>2. PICK x : x = ConstDecl(Decl.name)
    OBVIOUS
  <2>3. DOMAIN <<x>> = {1} /\ <<x>>[1] = x /\ x.k = "const"
    BY <2>2 DEF ConstDecl
  <2> QED
    BY <2>1, <2>2, <2>3, WrotePlain, Single
<1>5. CASE WriteGroup
  <2>1. Wrote(GroupDecls(Decls[gi])) /\ walk = "idle" /\ ~Coded(gi) /\ IsSequence(Decls[gi].items)
    BY <1>5, <1>a, ProgramShape DEF WriteGroup, Decl, CInv
  <2>2. PICK ds : ds = GroupDecls(Decls[gi])
    OBVIOUS
  <2> QED
    BY <2>1, <2>2, GroupPlain, WrotePlain
<1>6. CASE CollectBind
  <2>1. Grows(<<>>)
    BY <1>6, Untouched DEF CollectBind
  <2> QED
    BY <1>6, <1>a, <1>n, <2>1 DEF CollectBind, Plain, NextDecl, generator
<1>7. CASE WriteTypeDef
  <2>1. PICK x : x = TypeDecl(Decl.name, NoFields)
    OBVIOUS
  <2>2. /\ Wrote(<<x>>) /\ walk = "idle" /\ gi \in DOMAIN Decls /\ DeclaresType(Decls[gi])
        /\ ~Coded(gi)
    BY <1>7, <1>a, <2>1 DEF WriteTypeDef, DeclaresType, Coded, IsRename, Decl
  <2>3. DOMAIN <<x>> = {1} /\ <<x>>[1] = x /\ x.k = "type" /\ x.name = Decls[gi].name
    BY <2>1 DEF TypeDecl, Decl
  <2>4. Grows(<<x>>)
    BY <2>2, Emits, Single DEF Wrote, CInv
  <2>5. Plain(<<x>>)
    BY <2>2, <2>3, <2>4, <1>n DEF Wrote, NextDecl, generator, Plain
  <2> QED
    BY <2>5
<1>8. Generate => Quiet
  BY <1>n, GeneratorKeeps DEF Generate, Quiet
<1>9. CASE WriteBinds
  <2>1. PICK e, d : e = EncodeById /\ d = DecodeById
    OBVIOUS
  <2>2. e.k = "encodeById" /\ d.k = "decodeById"
    BY <2>1 DEF EncodeById, DecodeById, DispatchFunc
  <2>3. PICK ds : ds = IF binds = <<>> THEN <<>> ELSE <<e, d>>
    OBVIOUS
  <2>4. Wrote(ds) /\ gi \notin DOMAIN Decls /\ walk = "idle"
    BY <1>9, <1>n, <2>1, <2>3 DEF WriteBinds, CInv
  <2>5. SomeSeq(ds) /\ \A k \in DOMAIN ds : ds[k].k \notin {"codec", "type"}
    <3>1. CASE binds = <<>>
      BY <2>3, <3>1, Nothing
    <3>2. CASE binds # <<>>
      <4>1. <<e, d>> \in Seq({e, d}) /\ DOMAIN <<e, d>> = {1, 2} /\ <<e, d>>[1] = e /\ <<e, d>>[2] = d
        OBVIOUS
      <4> QED
        BY <2>2, <2>3, <3>2, <4>1 DEF SomeSeq
    <3> QED
      BY <3>1, <3>2
  <2> QED
    BY <2>4, <2>5, WrotePlain
<1> QED
  BY <1>1, <1>2, <1>3, <1>4, <1>5, <1>6, <1>7, <1>8, <1>9 DEF Next, Interpret

LEMMA SameNames ==
  ASSUME NamesInv, UNCHANGED <<prog, goName>>, prog \in Programs,
         Passed \in Int, Passed' \in Int, Passed <= Passed'
  PROVE  /\ NamesInv'
         /\ \A e : Callees(Decls[MsgAt(e)].fields)' = Callees(Decls[MsgAt(e)].fields)
<1>p. /\ Decls' = Decls /\ Msgs' = Msgs /\ DOMAIN Decls \subseteq Int
      /\ \A d : IsRename(d)' <=> IsRename(d)
      /\ \A d : MsgAt(d)' = MsgAt(d)
  BY SameProgram, ProgramShape
<1>1. DOMAIN goName' = {Decls[m].name : m \in Msgs}
  BY DEF NamesInv
<1>2. ASSUME NEW n \in DOMAIN goName, goName[n] # n
      PROVE  \E j \in DOMAIN Decls : /\ j < Passed' /\ IsRename(j) /\ Decls[j].impl.name = n
                                     /\ goName'[n] = Decls[j].name
  <2>1. PICK j \in DOMAIN Decls : /\ j < Passed /\ IsRename(j) /\ Decls[j].impl.name = n
                                  /\ goName[n] = Decls[j].name
    BY <1>2 DEF NamesInv
  <2>2. j < Passed'
    BY <1>p, <2>1
  <2> QED
    BY <2>1, <2>2
<1>3. NamesInv'
  BY <1>p, <1>1, <1>2 DEF NamesInv
<1>4. \A fs : Callees(fs)' = Callees(fs)
  BY DEF Callees, FieldTypes, GoTypeName
<1>5. \A e : Callees(Decls[MsgAt(e)].fields)' = Callees(Decls[MsgAt(e)].fields)
  BY <1>p, <1>4
<1> QED
  BY <1>3, <1>5

(* The invariant of the types and the codecs.                              *)
CodeInv == UnderWay /\ NamesInv /\ TypesInv /\ CodecsInv /\ NestedTyped

LEMMA PassedInt == ASSUME CInv PROVE Passed \in Int /\ gi \in Int
  BY ProgramShape DEF CInv, Passed

LEMMA QuietKeeps == ASSUME CInv, CodeInv, Quiet PROVE CodeInv'
<1>p. /\ prog' = prog /\ goName' = goName /\ gi' = gi /\ prog \in Programs /\ Passed' = Passed
      /\ Passed \in Int
  BY PassedInt DEF Quiet, CInv, Passed
<1>g. Grows(<<>>)
  BY Untouched DEF Quiet
<1>1. UnderWay'
  <2>1. /\ Decls' = Decls /\ Coded(gi)' = Coded(gi) /\ MsgAt(gi)' = MsgAt(gi)
        /\ StructAt(gi)' = StructAt(gi)
    BY <1>p DEF Coded, IsRename, MsgAt, MsgOf, StructAt, Decls
  <2> QED
    BY <2>1 DEF CodeInv, UnderWay, Quiet
<1>2. NamesInv' /\ \A e : Callees(Decls[MsgAt(e)].fields)' = Callees(Decls[MsgAt(e)].fields)
  BY <1>p, SameNames DEF CodeInv
<1>3. TypesInv'
  BY <1>p, <1>g, <1>2, TypesStay DEF CodeInv
<1>4. CodecsInv'
  BY <1>p, <1>g, CodecsStay DEF CodeInv
<1>5. NestedTyped'
  BY <1>p, <1>g, NestedStays DEF CodeInv
<1> QED
  BY <1>1, <1>2, <1>3, <1>4, <1>5 DEF CodeInv

LEMMA PlainKeeps == ASSUME CInv, CodeInv, NEW ds, Plain(ds) PROVE CodeInv'
<1>p. /\ prog' = prog /\ goName' = goName /\ prog \in Programs /\ Grows(ds)
      /\ Passed = gi /\ Passed' = gi + 1 /\ gi' = gi + 1 /\ gi \in Int /\ walk' = "idle"
  BY PassedInt DEF Plain, CInv, Passed
<1>d. /\ DOMAIN Decls \subseteq Int /\ Decls' = Decls
      /\ \A d : Coded(d)' <=> Coded(d)
  BY <1>p, ProgramShape, SameProgram
<1>1. UnderWay'
  BY <1>p DEF UnderWay
<1>2. NamesInv' /\ \A e : Callees(Decls[MsgAt(e)].fields)' = Callees(Decls[MsgAt(e)].fields)
  BY <1>p, SameNames DEF CodeInv
<1>c. \A d \in DOMAIN Decls : Coded(d) => (d < gi' <=> d < gi)
  BY <1>p, <1>d DEF Plain
<1>3. TypesInv'
  <2>1. ASSUME NEW k \in DOMAIN ds, ds[k].k = "type"
        PROVE  \E d \in DOMAIN Decls : d < Passed' /\ TypeOf(ds[k], d)'
    <3>1. gi \in DOMAIN Decls /\ DeclaresType(Decls[gi]) /\ ds[k].name = Decls[gi].name /\ ~Coded(gi)
      BY <2>1 DEF Plain
    <3>2. PICK d : d = gi
      OBVIOUS
    <3>3. TypeOf(ds[k], d)'
      BY <1>d, <3>1, <3>2 DEF TypeOf
    <3> QED
      BY <1>p, <3>1, <3>2, <3>3
  <2> QED
    BY <1>p, <1>2, <1>c, <2>1, TypesStay DEF CodeInv
<1>4. CodecsInv'
  BY <1>p, <1>c, CodecsStay DEF CodeInv, Plain
<1>5. NestedTyped'
  <2>1. ASSUME NEW k \in DOMAIN ds, NEW i \in DOMAIN out, out[i].k = "codec", ds[k].k = "type"
        PROVE  out[i].name # ds[k].name
    <3>1. PICK d \in DOMAIN Decls : d < gi /\ CodecOf(out[i], d)
      BY <2>1 DEF CodeInv, CodecsInv
    <3>2. gi \in DOMAIN Decls /\ DeclaresType(Decls[gi]) /\ ds[k].name = Decls[gi].name
      BY <2>1 DEF Plain
    <3>3. Coded(d) /\ out[i].name = Decls[d].name
      BY <3>1 DEF CodecOf
    <3> QED
      BY <1>p, <1>d, <3>1, <3>2, <3>3, CodedNames
  <2>2. \A k \in DOMAIN ds : ds[k].k # "codec"
    BY DEF Plain
  <2> QED
    BY <1>p, <2>1, <2>2, NestedStays DEF CodeInv, Matches
<1> QED
  BY <1>1, <1>2, <1>3, <1>4, <1>5 DEF CodeInv

LEMMA NotStale ==
  ASSUME prog \in Programs, NEW d \in DOMAIN Decls, Coded(d), ~Stale(Decls[d].name)
  PROVE  Undisturbed(MsgAt(d), d + 1)
<1>0. DOMAIN Decls \subseteq Int
  BY ProgramShape
<1>1. CASE Decls[d].kind = "msg"
  <2>1. MsgAt(d) = d /\ ~IsRename(d)
    BY <1>1, CodedMsg DEF IsRename
  <2> QED
    BY <1>0, <2>1 DEF Undisturbed
<1>2. CASE Decls[d].kind # "msg"
  <2>1. IsRename(d) /\ MsgAt(d) = MsgOf(Decls[d].impl.name) /\ MsgAt(d) \in Int
    BY <1>0, <1>2, CodedMsg DEF Coded, MsgAt, StructAt
  <2>2. \A j \in MsgAt(d)..d : IsRename(j) => Decls[j].impl.name \notin Nested(MsgAt(d))
    BY <2>1 DEF Stale
  <2> QED
    BY <1>0, <2>1, <2>2 DEF Undisturbed
<1> QED
  BY <1>1, <1>2

(* The codec under way is written under the name of its declaration, and   *)
(* calls what the struct has as types.                                     *)
LEMMA FinishKeeps == ASSUME CInv, CodeInv, FinishCodec PROVE CodeInv'
<1>p. /\ prog' = prog /\ goName' = goName /\ prog \in Programs /\ gi \in DOMAIN Decls
      /\ Passed = gi + 1 /\ Passed' = gi + 1 /\ gi' = gi + 1 /\ gi \in Int /\ walk' = "idle"
      /\ Coded(gi) /\ fields = Decls[MsgAt(gi)].fields
  BY PassedInt DEF FinishCodec, CInv, Passed, NextDecl, StartGenerator, analyser, CodeInv, UnderWay
<1>d. /\ DOMAIN Decls \subseteq Int /\ Decls' = Decls
      /\ \A d : Coded(d)' <=> Coded(d)
      /\ CodecNames' = CodecNames /\ Uncoded' = Uncoded
  BY <1>p, ProgramShape, SameProgram
<1>n. CodecName = Decls[gi].name
  BY <1>p DEF CodecName, Decl, StructAt, CodeInv, UnderWay, FinishCodec
<1>x. PICK x : x = CodecDecl(CodecName, Callees(fields))
  OBVIOUS
<1>f. /\ x.k = "codec" /\ x.name = Decls[gi].name
      /\ x.calls = Callees(Decls[MsgAt(gi)].fields)
  BY <1>p, <1>n, <1>x DEF CodecDecl
<1>e. /\ Grows(<<x>>) /\ DOMAIN <<x>> = {1} /\ <<x>>[1] = x
      /\ \E i : i \notin DOMAIN out /\ DOMAIN out' = DOMAIN out \cup {i} /\ out'[i] = x
  BY <1>x, EmitsOne DEF FinishCodec, CInv
<1>i. PICK i0 : i0 \notin DOMAIN out /\ DOMAIN out' = DOMAIN out \cup {i0} /\ out'[i0] = x
  BY <1>e
<1>o. \A i \in DOMAIN out : out'[i] = out[i]
  BY <1>e DEF Grows
<1>1. UnderWay'
  BY <1>p DEF UnderWay
<1>2. NamesInv' /\ \A e : Callees(Decls[MsgAt(e)].fields)' = Callees(Decls[MsgAt(e)].fields)
  BY <1>p, SameNames DEF CodeInv
<1>3. TypesInv'
  <2>1. \A k \in DOMAIN <<x>> : <<x>>[k].k # "type"
    BY <1>e, <1>f
  <2> QED
    BY <1>p, <1>2, <1>e, <2>1, TypesStay DEF CodeInv
<1>a. ASSUME NEW i \in DOMAIN out, out[i].k = "codec"
      PROVE  out[i].name # Decls[gi].name
  <2>1. PICK d \in DOMAIN Decls : d < gi /\ CodecOf(out[i], d)
    BY <1>a DEF CodeInv, CodecsInv
  <2>2. DeclaresType(Decls[gi]) /\ Coded(d) /\ out[i].name = Decls[d].name
    BY <1>p, <2>1 DEF CodecOf, Coded, IsRename, DeclaresType
  <2> QED
    BY <1>d, <1>p, <2>1, <2>2, CodedNames
<1>4. CodecsInv'
  <2>1. ASSUME NEW i \in DOMAIN out', out'[i].k = "codec"
        PROVE  \E c : c = out'[i] /\ \E d \in DOMAIN Decls : d < gi' /\ CodecOf(c, d)'
    <3>1. CASE i \in DOMAIN out
      <4>1. out'[i] = out[i]
        BY <1>o, <3>1
      <4>2. PICK d \in DOMAIN Decls : d < gi /\ CodecOf(out[i], d)
        BY <2>1, <3>1, <4>1 DEF CodeInv, CodecsInv
      <4>3. PICK c : c = out[i]
        OBVIOUS
      <4>4. CodecOf(c, d)'
        BY <1>d, <4>2, <4>3 DEF CodecOf
      <4> QED
        BY <1>d, <1>p, <4>1, <4>2, <4>3, <4>4
    <3>2. CASE i \notin DOMAIN out
      <4>1. out'[i] = x
        BY <1>i, <3>2
      <4>2. Range(x.calls) \subseteq CodecNames \cup Uncoded
        BY <1>f, <1>p, CalleesIn, CodedMsg DEF CodeInv
      <4>3. PICK d \in DOMAIN Decls : d = gi
        BY <1>p
      <4>4. CodecOf(x, d)'
        BY <1>d, <1>f, <1>p, <4>2, <4>3 DEF CodecOf
      <4> QED
        BY <1>d, <1>p, <4>1, <4>3, <4>4
    <3> QED
      BY <3>1, <3>2
  <2>2. ASSUME NEW n, DefinedOnce(n), n # Decls[gi].name PROVE DefinedOnce(n)'
    <3>1. PICK i \in DOMAIN out : {j \in DOMAIN out : out[j].k = "codec" /\ out[j].name = n} = {i}
      BY <2>2 DEF DefinedOnce
    <3>2. {j \in DOMAIN out' : out'[j].k = "codec" /\ out'[j].name = n}
            = {j \in DOMAIN out : out[j].k = "codec" /\ out[j].name = n}
      BY <1>f, <1>i, <1>o, <2>2
    <3> QED
      BY <1>i, <3>1, <3>2 DEF DefinedOnce
  <2>3. ASSUME NEW n, n = Decls[gi].name PROVE DefinedOnce(n)'
    <3>1. {j \in DOMAIN out' : out'[j].k = "codec" /\ out'[j].name = n} = {i0}
      BY <1>a, <1>f, <1>i, <1>o, <2>3
    <3> QED
      BY <1>i, <3>1 DEF DefinedOnce
  <2>4. ASSUME NEW d \in DOMAIN Decls, d < gi', Coded(d) PROVE DefinedOnce(Decls[d].name)'
    <3>1. PICK n : n = Decls[d].name
      OBVIOUS
    <3>2. CASE d = gi
      BY <1>d, <2>3, <3>1, <3>2
    <3>3. CASE d # gi
      <4>1. d < gi
        BY <1>d, <1>p, <2>4, <3>3
      <4>2. DefinedOnce(n)
        BY <2>4, <3>1, <4>1 DEF CodeInv, CodecsInv
      <4>3. n # Decls[gi].name
        BY <1>p, <2>4, <3>1, <3>3, CodedNames DEF Coded, IsRename, DeclaresType
      <4>4. DefinedOnce(n)'
        BY <2>2, <4>2, <4>3
      <4> QED
        BY <1>d, <3>1, <4>4
    <3> QED
      BY <3>2, <3>3
  <2> QED
    BY <1>d, <2>1, <2>4 DEF CodecsInv
<1>5. NestedTyped'
  <2>1. ASSUME NEW i \in DOMAIN out PROVE Matches(x, out[i])
    <3> SUFFICES ASSUME out[i].k = "type", x.name = out[i].name, ~Stale(x.name)
                 PROVE  x.calls = out[i].fields
      BY DEF Matches
    <3>1. PICK d \in DOMAIN Decls : d < Passed /\ TypeOf(out[i], d)
      BY DEF CodeInv, TypesInv
    <3>2. DeclaresType(Decls[d]) /\ Decls[d].name = Decls[gi].name
      BY <1>f, <3>1 DEF TypeOf
    <3>3. d = gi
      BY <1>p, <3>2, CodedNames
    <3>4. Undisturbed(MsgAt(gi), gi + 1)
      BY <1>f, <1>p, NotStale
    <3> QED
      BY <1>f, <1>p, <3>1, <3>3, <3>4 DEF TypeOf
  <2>2. \A i \in DOMAIN out : Matches(out[i], x)
    BY <1>f DEF Matches
  <2>3. Matches(x, x)
    BY <1>f DEF Matches
  <2> QED
    BY <1>e, <1>p, <2>1, <2>2, <2>3, NestedStays DEF CodeInv
<1> QED
  BY <1>1, <1>2, <1>3, <1>4, <1>5 DEF CodeInv

(* A declaration with a codec is met: its type is written, its struct goes *)
(* by its name from now on, its fields are walked.                         *)
Opens(x) ==
  /\ walk = "idle" /\ walk' # "idle" /\ UNCHANGED <<prog, gi>>
  /\ gi \in DOMAIN Decls /\ Coded(gi)
  /\ fields' = Decls[MsgAt(gi)].fields
  /\ DOMAIN goName' = DOMAIN goName
  /\ \A n \in DOMAIN goName : goName'[n] = IF n = StructAt(gi) THEN Decls[gi].name ELSE goName[n]
  /\ Decls[gi].kind = "msg" => goName[StructAt(gi)] = Decls[gi].name
  /\ Grows(<<x>>) /\ DOMAIN <<x>> = {1} /\ <<x>>[1] = x
  /\ x.k = "type" /\ x.name = Decls[gi].name
  /\ Undisturbed(MsgAt(gi), gi + 1) => x.fields = Callees(Decls[MsgAt(gi)].fields)

(* A struct is known by the walk.                                          *)
LEMMA Known ==
  ASSUME prog \in Programs, NamesInv
  PROVE  /\ \A m \in Msgs : Nested(m) \subseteq DOMAIN goName
         /\ \A d \in DOMAIN Decls : Coded(d) => StructAt(d) \in DOMAIN goName
<1>0. StructsBefore(Decls) /\ DOMAIN Decls = 1..Len(Decls) /\ Len(Decls) \in Nat
  BY ProgramShape DEF TypesResolved
<1>1. ASSUME NEW m \in Msgs, NEW n \in Nested(m) PROVE n \in DOMAIN goName
  <2>1. PICK t \in Mentioned(Decls[m]) : t.k = "struct" /\ t.name = n
    BY <1>1 DEF Nested
  <2>2. PICK j \in 1..m - 1 : Decls[j].kind = "msg" /\ Decls[j].name = n
    BY <1>0, <2>1, MsgMentions DEF StructsBefore
  <2>3. j \in Msgs
    BY <1>0, <2>2, MsgMentions DEF Msgs
  <2> QED
    BY <2>2, <2>3 DEF NamesInv
<1>2. ASSUME NEW d \in DOMAIN Decls, Coded(d) PROVE StructAt(d) \in DOMAIN goName
  BY <1>2, CodedMsg DEF NamesInv
<1> QED
  BY <1>1, <1>2

LEMMA MsgOpens == ASSUME CInv, CodeInv, StartMsg PROVE \E x : Opens(x)
<1>p. /\ prog' = prog /\ goName' = goName /\ prog \in Programs /\ gi' = gi /\ walk = "idle"
      /\ gi \in DOMAIN Decls /\ Decls[gi].kind = "msg" /\ Passed = gi /\ gi \in Int
      /\ walk' = "struct" /\ fields' = Decls[gi].fields
  BY PassedInt DEF StartMsg, StartGenerator, At, Decl, CInv, analyser, Passed
<1>m. Coded(gi) /\ MsgAt(gi) = gi /\ StructAt(gi) = Decls[gi].name
  BY <1>p, CodedMsg DEF Coded, StructAt
<1>x. PICK x : x = TypeDecl(Decl.name, StructTypes(Decl.fields))
  OBVIOUS
<1>e. Grows(<<x>>) /\ DOMAIN <<x>> = {1} /\ <<x>>[1] = x
  BY <1>x, EmitsOne DEF StartMsg, CInv
<1>f. x.k = "type" /\ x.name = Decls[gi].name /\ x.fields = Callees(Decls[gi].fields)
  BY <1>x DEF TypeDecl, StructTypes, Callees, Decl
<1>1. goName[StructAt(gi)] = Decls[gi].name
  <2>1. StructAt(gi) \in DOMAIN goName
    BY <1>m, <1>p, Known DEF CodeInv
  <2> SUFFICES ASSUME goName[StructAt(gi)] # StructAt(gi) PROVE FALSE
    BY <1>m
  <2>2. PICK j \in DOMAIN Decls : /\ j < Passed /\ IsRename(j) /\ Decls[j].impl.name = StructAt(gi)
    BY <2>1 DEF CodeInv, NamesInv
  <2>3. Coded(j) /\ StructAt(j) = StructAt(gi)
    BY <2>2 DEF Coded, StructAt, IsRename
  <2>4. MsgAt(j) < j /\ MsgAt(j) = gi
    BY <1>m, <1>p, <2>2, <2>3, CodedMsg DEF MsgAt
  <2> QED
    BY <1>p, <2>2, <2>4, ProgramShape
<1> QED
  BY <1>1, <1>e, <1>f, <1>m, <1>p DEF Opens

LEMMA TypeDefOpens == ASSUME CInv, CodeInv, StartTypeDef PROVE \E x : Opens(x)
<1>p. /\ prog' = prog /\ prog \in Programs /\ gi' = gi /\ walk = "idle"
      /\ gi \in DOMAIN Decls /\ Decls[gi].kind = "typedef" /\ IsRename(gi) /\ Coded(gi)
      /\ StructAt(gi) = Decls[gi].impl.name
      /\ Passed = gi /\ gi \in Int /\ walk' = "encode" /\ fields' = Decls[MsgAt(gi)].fields
  BY PassedInt DEF StartTypeDef, StartGenerator, At, Decl, CInv, analyser, Passed, IsRename, Coded,
                   StructAt, MsgAt
<1>d. DOMAIN Decls \subseteq Int /\ DOMAIN Decls = 1..Len(Decls) /\ Len(Decls) \in Nat
  BY <1>p, ProgramShape
<1>g. goName' = [goName EXCEPT ![StructAt(gi)] = Decls[gi].name]
  BY <1>p DEF StartTypeDef, Renamed, Decl
<1>h. /\ DOMAIN goName' = DOMAIN goName
      /\ \A n \in DOMAIN goName : goName'[n] = IF n = StructAt(gi) THEN Decls[gi].name ELSE goName[n]
  BY <1>g
<1>x. PICK x : x = TypeDecl(Decl.name, FieldsOfType(goName[Decl.impl.name]))
  OBVIOUS
<1>e. Grows(<<x>>) /\ DOMAIN <<x>> = {1} /\ <<x>>[1] = x
  BY <1>x, EmitsOne DEF StartTypeDef, CInv
<1>f. x.k = "type" /\ x.name = Decls[gi].name /\ x.fields = FieldsOfType(goName[StructAt(gi)])
  BY <1>p, <1>x DEF TypeDecl, Decl
<1>1. ASSUME Undisturbed(MsgAt(gi), gi + 1)
      PROVE  FieldsOfType(goName[StructAt(gi)]) = Callees(Decls[MsgAt(gi)].fields)
  <2> DEFINE n == goName[StructAt(gi)]
  <2>1. PICK d \in DOMAIN Decls : d < gi /\ Coded(d) /\ Decls[d].name = n /\ StructAt(d) = StructAt(gi)
    <3>1. StructAt(gi) \in DOMAIN goName
      BY <1>p, Known DEF CodeInv
    <3>2. CASE n = StructAt(gi)
      <4>1. MsgAt(gi) \in DOMAIN Decls /\ MsgAt(gi) < gi /\ Decls[MsgAt(gi)].kind = "msg"
            /\ Decls[MsgAt(gi)].name = StructAt(gi)
        BY <1>p, CodedMsg
      <4> QED
        BY <3>2, <4>1 DEF Coded, StructAt
    <3>3. CASE n # StructAt(gi)
      <4>1. PICK j \in DOMAIN Decls : /\ j < Passed /\ IsRename(j) /\ Decls[j].impl.name = StructAt(gi)
                                      /\ n = Decls[j].name
        BY <3>1, <3>3 DEF CodeInv, NamesInv
      <4> QED
        BY <1>p, <4>1 DEF Coded, StructAt, IsRename
    <3> QED
      BY <3>2, <3>3
  <2>2. MsgAt(d) = MsgAt(gi) /\ Undisturbed(MsgAt(d), gi)
    <3>1. MsgAt(d) = MsgAt(gi)
      BY <2>1 DEF MsgAt
    <3> QED
      BY <1>1, <1>d, <1>p, <3>1, Earlier
  <2> DEFINE ts == {i \in DOMAIN out : out[i].k = "type" /\ out[i].name = n}
             c == CHOOSE i \in ts : TRUE
  <2>3. ts # {}
    BY <1>p, <2>1 DEF CodeInv, TypesInv
  <2>4. c \in DOMAIN out /\ out[c].k = "type" /\ out[c].name = n
    BY <2>3
  <2>5. FieldsOfType(n) = out[c].fields
    BY <2>3 DEF FieldsOfType
  <2> HIDE DEF ts, c
  <2>6. PICK e \in DOMAIN Decls : e < Passed /\ TypeOf(out[c], e)
    BY <2>4 DEF CodeInv, TypesInv
  <2>7. d = e
    BY <1>p, <2>1, <2>4, <2>6, CodedNames DEF TypeOf
  <2> QED
    BY <1>p, <2>1, <2>2, <2>5, <2>6, <2>7 DEF TypeOf
<1> QED
  BY <1>1, <1>e, <1>f, <1>h, <1>p DEF Opens

LEMMA OpensKeeps == ASSUME CInv, CodeInv, NEW x, Opens(x) PROVE CodeInv'
<1>p. /\ prog' = prog /\ prog \in Programs /\ gi' = gi /\ walk = "idle" /\ walk' # "idle"
      /\ gi \in DOMAIN Decls /\ Coded(gi) /\ gi \in Int
      /\ Passed = gi /\ Passed' = gi + 1 /\ DeclaresType(Decls[gi])
  BY PassedInt DEF Opens, CInv, Passed, Coded, IsRename, DeclaresType
<1>d. /\ DOMAIN Decls \subseteq Int /\ Decls' = Decls /\ Msgs' = Msgs
      /\ \A d : Coded(d)' <=> Coded(d)
      /\ \A d : IsRename(d)' <=> IsRename(d)
      /\ \A d : MsgAt(d)' = MsgAt(d)
      /\ \A d : StructAt(d)' = StructAt(d)
      /\ \A m, n : Undisturbed(m, n)' <=> Undisturbed(m, n)
  BY <1>p, ProgramShape, SameProgram
<1>s. StructAt(gi) \in DOMAIN goName /\ goName'[StructAt(gi)] = Decls[gi].name
  BY <1>p, Known DEF CodeInv, Opens
<1>1. UnderWay'
  <2>1. PICK d : d = gi
    OBVIOUS
  <2>2. Coded(d)' /\ fields' = (Decls[MsgAt(d)].fields)' /\ goName'[StructAt(d)'] = (Decls[d].name)'
    BY <1>d, <1>p, <1>s, <2>1 DEF Opens
  <2>3. gi' = d
    BY <1>p, <2>1
  <2> QED
    BY <2>2, <2>3 DEF UnderWay
<1>2. NamesInv'
  <2>1. DOMAIN goName' = {Decls[m].name : m \in Msgs}
    BY DEF Opens, CodeInv, NamesInv
  <2>2. ASSUME NEW n \in DOMAIN goName, goName'[n] # n
        PROVE  \E j \in DOMAIN Decls : /\ j < Passed' /\ IsRename(j) /\ Decls[j].impl.name = n
                                       /\ goName'[n] = Decls[j].name
    <3>1. CASE n = StructAt(gi)
      <4>1. IsRename(gi)
        BY <1>p, <1>s, <2>2, <3>1 DEF Coded, StructAt
      <4> QED
        BY <1>p, <1>s, <3>1, <4>1 DEF StructAt, IsRename
    <3>2. CASE n # StructAt(gi)
      <4>1. goName'[n] = goName[n]
        BY <3>2 DEF Opens
      <4>2. PICK j \in DOMAIN Decls : /\ j < Passed /\ IsRename(j) /\ Decls[j].impl.name = n
                                      /\ goName[n] = Decls[j].name
        BY <2>2, <4>1 DEF CodeInv, NamesInv
      <4> QED
        BY <1>d, <1>p, <4>1, <4>2
    <3> QED
      BY <3>1, <3>2
  <2> QED
    BY <1>d, <2>1, <2>2 DEF Opens, NamesInv
<1>3. ASSUME NEW m \in Msgs, m <= gi, Undisturbed(m, gi + 1)
      PROVE  Callees(Decls[m].fields)' = Callees(Decls[m].fields)
  <2>1. ASSUME NEW n \in Nested(m) PROVE goName'[n] = goName[n]
    <3>1. n \in DOMAIN goName
      BY <1>p, Known DEF CodeInv
    <3>2. n = StructAt(gi) => Decls[gi].kind = "msg"
      BY <1>3, <1>p DEF Undisturbed, Coded, StructAt, IsRename
    <3> QED
      BY <3>1, <3>2 DEF Opens
  <2>2. PICK fs : fs = Decls[m].fields
    OBVIOUS
  <2>3. Callees(fs)' = Callees(fs)
    BY <1>p, <2>1, <2>2, CalleesStay
  <2>4. (Decls[m].fields)' = fs
    BY <1>d, <2>2
  <2> QED
    BY <2>2, <2>3, <2>4
<1>4. \A e \in DOMAIN Decls : e <= gi /\ Coded(e) /\ Undisturbed(MsgAt(e), gi + 1) =>
        Callees(Decls[MsgAt(e)].fields)' = Callees(Decls[MsgAt(e)].fields)
  <2> SUFFICES ASSUME NEW e \in DOMAIN Decls, e <= gi, Coded(e), Undisturbed(MsgAt(e), gi + 1)
               PROVE  Callees(Decls[MsgAt(e)].fields)' = Callees(Decls[MsgAt(e)].fields)
    OBVIOUS
  <2>1. PICK m : m = MsgAt(e)
    OBVIOUS
  <2>2. m \in Msgs /\ m \in DOMAIN Decls /\ m <= e
    BY <1>d, <1>p, <2>1, CodedMsg DEF Coded
  <2>3. Callees(Decls[m].fields)' = Callees(Decls[m].fields)
    BY <1>3, <1>d, <1>p, <2>1, <2>2
  <2>4. MsgAt(e)' = m
    BY <1>d, <2>1
  <2> QED
    BY <1>d, <2>1, <2>3, <2>4
<1>5. TypesInv'
  <2>1. PICK d : d = gi
    OBVIOUS
  <2>2. TypeOf(x, d)'
    <3>1. ASSUME Undisturbed(MsgAt(d), gi + 1) PROVE x.fields = Callees(Decls[MsgAt(d)].fields)'
      BY <1>4, <1>d, <1>p, <2>1, <3>1 DEF Opens
    <3> QED
      BY <1>d, <1>p, <2>1, <3>1 DEF Opens, TypeOf
  <2>3. \A k \in DOMAIN <<x>> : <<x>>[k].k = "type" => \E e \in DOMAIN Decls : e < Passed' /\ TypeOf(<<x>>[k], e)'
    BY <1>p, <2>1, <2>2 DEF Opens
  <2>4. \A e \in DOMAIN Decls : Coded(e) /\ e < Passed' =>
          e < Passed \/ \E k \in DOMAIN <<x>> : <<x>>[k].k = "type" /\ <<x>>[k].name = Decls[e].name
    BY <1>d, <1>p DEF Opens
  <2>5. \A e \in DOMAIN Decls : e < Passed /\ Coded(e) /\ Undisturbed(MsgAt(e), Passed') =>
          Callees(Decls[MsgAt(e)].fields)' = Callees(Decls[MsgAt(e)].fields)
    BY <1>4, <1>d, <1>p
  <2> QED
    BY <1>p, <2>3, <2>4, <2>5, TypesStay DEF Opens, CodeInv
<1>6. CodecsInv'
  <2>1. \A k \in DOMAIN <<x>> : <<x>>[k].k # "codec"
    BY DEF Opens
  <2> QED
    BY <1>p, <2>1, CodecsStay DEF Opens, CodeInv
<1>7. NestedTyped'
  <2>1. ASSUME NEW i \in DOMAIN out, out[i].k = "codec" PROVE out[i].name # x.name
    <3>1. PICK d \in DOMAIN Decls : d < gi /\ CodecOf(out[i], d)
      BY <2>1 DEF CodeInv, CodecsInv
    <3>2. Coded(d) /\ out[i].name = Decls[d].name
      BY <3>1 DEF CodecOf
    <3> QED
      BY <1>d, <1>p, <3>1, <3>2, CodedNames DEF Opens
  <2>2. x.k = "type" /\ x.k # "codec"
    BY DEF Opens
  <2>3. \A i \in DOMAIN out : Matches(x, out[i]) /\ Matches(out[i], x)
    BY <2>1, <2>2 DEF Matches
  <2>4. Matches(x, x)
    BY <2>2 DEF Matches
  <2> QED
    BY <1>p, <2>3, <2>4, NestedStays DEF Opens, CodeInv
<1> QED
  BY <1>1, <1>2, <1>5, <1>6, <1>7 DEF CodeInv

LEMMA CodeInvNext == CInv /\ CodeInv /\ [Next]_vars => CodeInv'
  BY TypeKinds, QuietKeeps, PlainKeeps, MsgOpens, TypeDefOpens, OpensKeeps, FinishKeeps

LEMMA CodeInvInit == Init => CodeInv
<1> SUFFICES ASSUME Init PROVE CodeInv
  OBVIOUS
<1>1. /\ walk = "idle" /\ gi = 0 /\ out = <<>> /\ prog \in Programs
      /\ goName = [n \in {Decls[i].name : i \in {j \in DOMAIN Decls : Decls[j].kind = "msg"}} |-> n]
  BY DEF Init, Analyser!Init
<1>2. DOMAIN Decls = 1..Len(Decls) /\ Len(Decls) \in Nat
  BY <1>1, ProgramShape
<1>3. NamesInv
  <2>1. {Decls[i].name : i \in {j \in DOMAIN Decls : Decls[j].kind = "msg"}} = {Decls[m].name : m \in Msgs}
    BY DEF Msgs
  <2> QED
    BY <1>1, <2>1 DEF NamesInv
<1>4. DOMAIN out = {} /\ \A d \in DOMAIN Decls : ~(d < gi)
  BY <1>1, <1>2
<1>5. Passed = gi
  BY <1>1 DEF Passed
<1> QED
  BY <1>1, <1>3, <1>4, <1>5
  DEF CodeInv, UnderWay, TypesInv, CodecsInv, NestedTyped, Codecs, Types, OutSet, Range

(* A nested codec is called on a field of the type it is written for: what *)
(* visitMsgDefine_Go writes as the type of a field, which goes by the name *)
(* the struct had then, and the codec that visitMsgEncode_Go and           *)
(* visitMsgDecode_Go call on it, which goes by the name it has now, are of *)
(* one message - although visitTypeDef_Go renames structs for good -       *)
(* except in a codec that Stale tells.                                     *)
THEOREM NestedAreTyped == Spec => []NestedTyped
<1>1. CodeInv => NestedTyped
  BY DEF CodeInv
<1> QED
  BY <1>1, CodeInvInit, CodeInvNext, CInvInit, CInvNext, PTL DEF Spec

(* Every codec the finished program calls is in it, and once: those of the *)
(* nested messages, under whatever name the walk knew them by when it      *)
(* wrote the call, and those of the dispatch.                              *)
THEOREM CallsAreResolved == Spec => []CallsResolved
<1>1. CInv /\ DInv /\ CodeInv => CallsResolved
  <2> SUFFICES ASSUME CInv, DInv, CodeInv, Complete, NEW n \in Called \ Uncoded
               PROVE  DefinedOnce(n)
    BY DEF CallsResolved
  <2>1. gi = Len(Decls) + 2 /\ DOMAIN Decls = 1..Len(Decls) /\ Len(Decls) \in Nat
    BY ProgramShape DEF DInv, CInv
  <2>2. n \in CodecNames
    <3>1. CASE n \in UNION {Range(c.calls) : c \in Codecs}
      <4>1. PICK i \in DOMAIN out : out[i].k = "codec" /\ n \in Range(out[i].calls)
        BY <3>1 DEF Codecs, OutSet, Range
      <4>2. PICK d \in DOMAIN Decls : CodecOf(out[i], d)
        BY <4>1 DEF CodeInv, CodecsInv
      <4> QED
        BY <4>1, <4>2 DEF CodecOf
    <3>2. CASE n \in DOMAIN goName
      <4>1. PICK m \in Msgs : n = Decls[m].name
        BY <3>2 DEF CodeInv, NamesInv
      <4> QED
        BY <4>1 DEF Msgs, CodecNames, Coded
    <3>3. {b.msgName : b \in {x \in Range(binds) : x.msgName \in DOMAIN goName}} \subseteq DOMAIN goName
      OBVIOUS
    <3>4. n \in UNION {Range(c.calls) : c \in Codecs} \/ n \in DOMAIN goName
      BY <3>3 DEF Called
    <3> QED
      BY <3>1, <3>2, <3>4
  <2>3. PICK d \in DOMAIN Decls : Coded(d) /\ n = Decls[d].name
    BY <2>2 DEF CodecNames
  <2>4. d < gi
    BY <2>1
  <2> QED
    BY <2>3, <2>4 DEF CodeInv, CodecsInv
<1> QED
  BY <1>1, CodeInvInit, CodeInvNext, CInvInit, CInvNext, DInvInit, DInvNext, BindsAccepted, PTL DEF Spec
=============================================================================
