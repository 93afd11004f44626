-------------------------- MODULE Semantic_proofs --------------------------
(***************************************************************************)
(* Theorems about the semantic analyser, for every set of well-formed      *)
(* programs and every machine-integer range.                               *)
(***************************************************************************)
EXTENDS Semantic, LweTypes_proofs

(* The program is the parser's and is never assigned.                      *)
ProgOK == prog \in Programs

TInv == ProgOK /\ TypeOK

-----------------------------------------------------------------------------
(* What Put does to a table.                                               *)
LEMMA PutFacts ==
  ASSUME NEW tab, NEW n, NEW v
  PROVE  /\ DOMAIN Put(tab, n, v) = DOMAIN tab \cup {n}
         /\ Put(tab, n, v)[n] = v
         /\ \A x \in DOMAIN tab : x # n => Put(tab, n, v)[x] = tab[x]
  BY DEF Put

LEMMA SuccType == ASSUME NEW v \in MachineInt PROVE Succ(v) \in MachineInt
  BY IntMaxAssumption DEF MachineInt, Succ

LEMMA ProgShape ==
  ASSUME ProgOK
  PROVE  /\ Len(Decls) \in Nat
         /\ DOMAIN Decls = 1..Len(Decls)
         /\ \A d \in DOMAIN Decls :
              /\ Decls[d].kind = "group" =>
                   /\ Len(Decls[d].items) \in Nat
                   /\ DOMAIN Decls[d].items = 1..Len(Decls[d].items)
                   /\ \A i \in DOMAIN Decls[d].items : Decls[d].items[i].idVal \in MachineInt
              /\ Decls[d].kind = "msg" =>
                   /\ Len(Decls[d].fields) \in Nat
                   /\ DOMAIN Decls[d].fields = 1..Len(Decls[d].fields)
  BY ProgramsAssumption DEF ProgOK, WellFormed, IsSequence, Decls

-----------------------------------------------------------------------------
(* Type correctness.                                                       *)

LEMMA PutSymbols ==
  ASSUME NEW tab, SymbolsOf(tab), NEW n, NEW t
  PROVE  SymbolsOf(Put(tab, n, VarSym(t)))
<1> DEFINE v == VarSym(t)
<1>1. v.k = "var"
  BY DEF VarSym
<1> HIDE DEF v
<1>2. SymbolsOf(Put(tab, n, v))
  BY <1>1 DEF SymbolsOf, Put
<1> QED
  BY <1>2 DEF v

LEMMA InitTInv == Init => TInv
<1> SUFFICES ASSUME Init PROVE TInv
  OBVIOUS
<1>1. ProgOK
  BY DEF Init, ProgOK
<1>2. PositionOK
  BY <1>1, ProgShape DEF Init, PositionOK
<1>3. 0 \in MachineInt
  BY IntMaxAssumption DEF MachineInt
<1>4. SymbolsOf(globals) /\ SymbolsOf(locals)
  BY DEF Init, SymbolsOf, NewSymTable, EmptyTable, BuiltinSym
<1>5. IdsOK
  BY DEF Init, IdsOK
<1>6. bits \in 0..7 /\ val \in MachineInt /\ status \in {"start", "run", "ok", "reject"}
  BY <1>3 DEF Init
<1>7. inAggr \in BOOLEAN
  BY DEF Init
<1> QED
  BY <1>1, <1>2, <1>4, <1>5, <1>6, <1>7 DEF TInv, TypeOK

(* Leaving a declaration keeps the position in range.                      *)
LEMMA NextDeclPosition ==
  ASSUME TInv, di \in DOMAIN Decls, NextDecl, UNCHANGED <<prog, pass>>
  PROVE  PositionOK'
  BY ProgShape DEF TInv, NextDecl, TypeOK, PositionOK, Decls

(* A step inside a group or a message leaves the program where it was.     *)
LEMMA StepPosition ==
  ASSUME TInv, di \in DOMAIN Decls, pass = 1, UNCHANGED <<prog, pass, di>>,
         fi' \in Nat,
         \/ Decl.kind = "group" /\ fi' <= Len(Decl.items) + 1
         \/ Decl.kind = "msg" /\ fi' <= Len(Decl.fields) + 1
  PROVE  PositionOK'
  BY DEF TInv, TypeOK, PositionOK, Decls, Decl

(* The analysed program is never assigned.                                 *)
LEMMA ProgUnchanged == [Next]_vars => UNCHANGED prog
  BY DEF Next, vars, CheckSpace, SkipDecl, EndPass, VisitConst, VisitExtern,
         EnterGroup, VisitItem, LeaveGroup, EnterMsg, VisitField, LeaveMsg, VisitBind,
         Check, Reject

(* A step that changes at most the verdict, a rejection among them.        *)
LEMMA SameTypes ==
  ASSUME TInv, UNCHANGED <<prog, pass, di, fi, tables, group>>,
         status' \in {"start", "run", "ok", "reject"}
  PROVE  TInv'
  BY DEF TInv, ProgOK, TypeOK, PositionOK, SymbolsOf, IdsOK, tables, group, Decls, Decl

LEMMA RejectTypes == ASSUME TInv, Reject PROVE TInv'
  BY SameTypes DEF Reject

(* A field the group check lets pass leaves fewer than 8 bits open.        *)
LEMMA AggrType ==
  ASSUME NEW t, AggrOk(t), AggrStep(t), bits \in 0..7, inAggr \in BOOLEAN
  PROVE  bits' \in 0..7 /\ inAggr' \in BOOLEAN
<1>1. CASE inAggr
  <2>1. bits + Bits(t) \in 0..8
    BY <1>1, BitsRange DEF AggrOk
  <2>2. /\ bits' = IF bits + Bits(t) = 8 THEN 0 ELSE bits + Bits(t)
        /\ inAggr' = (bits + Bits(t) < 8)
    BY <1>1 DEF AggrStep
  <2>3. bits' \in 0..7
    BY <2>1, <2>2
  <2> QED
    BY <2>2, <2>3
<1>2. CASE ~inAggr /\ IsBitType(t)
  <2>1. bits' = Bits(t) /\ inAggr' = TRUE
    BY <1>2 DEF AggrStep
  <2>2. bits' \in 0..7
    BY <2>1, <1>2, BitsRange
  <2> QED
    BY <2>1, <2>2
<1>3. CASE ~inAggr /\ IsIntType(t) /\ ~IsBitType(t)
  <2>1. UNCHANGED <<bits, inAggr>>
    BY <1>3 DEF AggrStep
  <2> QED
    BY <2>1
<1>4. CASE ~inAggr /\ ~IsIntType(t)
  <2>1. bits' = 0 /\ inAggr' = FALSE
    BY <1>4 DEF AggrStep, IsBitType
  <2>2. bits' \in 0..7
    BY <2>1
  <2> QED
    BY <2>1, <2>2
<1> QED
  BY <1>1, <1>2, <1>3, <1>4

LEMMA NextTInv == TInv /\ [Next]_vars => TInv'
<1> SUFFICES ASSUME TInv, [Next]_vars PROVE TInv'
  OBVIOUS
<1>a. ProgOK' /\ UNCHANGED prog
  BY ProgUnchanged DEF ProgOK, TInv
<1>t. /\ PositionOK /\ SymbolsOf(globals) /\ SymbolsOf(locals) /\ IdsOK
      /\ val \in MachineInt /\ inAggr \in BOOLEAN /\ bits \in 0..7
      /\ status \in {"start", "run", "ok", "reject"}
      /\ ProgOK
  BY DEF TInv, TypeOK
<1>l. UNCHANGED globals => SymbolsOf(globals)'
  BY <1>t DEF SymbolsOf
<1>m. UNCHANGED locals => SymbolsOf(locals)'
  BY <1>t DEF SymbolsOf
<1>n. UNCHANGED midMap => IdsOK'
  BY <1>t DEF IdsOK
<1>g. UNCHANGED group =>
        val' \in MachineInt /\ inAggr' \in BOOLEAN /\ bits' \in 0..7
  BY <1>t DEF group
<1>b. ASSUME PositionOK', SymbolsOf(globals)', SymbolsOf(locals)', IdsOK',
             val' \in MachineInt, inAggr' \in BOOLEAN, bits' \in 0..7,
             status' \in {"start", "run", "ok", "reject"}
      PROVE  TInv'
  BY <1>a, <1>b DEF TInv, TypeOK
<1>1. CASE CheckSpace
  BY <1>1, SameTypes DEF CheckSpace
<1>2. CASE SkipDecl
  <2>1. PositionOK'
    BY <1>2, NextDeclPosition DEF SkipDecl
  <2> QED
    BY <2>1, <1>2, <1>b, <1>g, <1>l, <1>m, <1>n, <1>t DEF SkipDecl, tables
<1>3. CASE EndPass
  <2>1. PositionOK'
    BY <1>a, <1>t, <1>3, ProgShape DEF EndPass, PositionOK, Decls, Decl
  <2> QED
    BY <2>1, <1>3, <1>b, <1>g, <1>l, <1>m, <1>n, <1>t DEF EndPass, tables
<1>4. CASE VisitConst
  <2>1. CASE Reject
    BY <2>1, RejectTypes
  <2>2. CASE ~Reject
    <3>1. /\ globals' = Put(globals, Decl.name, VarSym(LeafType(Decl.leaves[1])))
          /\ NextDecl /\ di \in DOMAIN Decls
          /\ UNCHANGED <<locals, midMap, group, prog, pass, status>>
      BY <2>2, <1>4 DEF VisitConst, At, Check
    <3>2. PositionOK'
      BY <3>1, NextDeclPosition
    <3>3. SymbolsOf(globals)'
      BY <3>1, <1>t, PutSymbols DEF SymbolsOf
    <3> QED
      BY <3>1, <3>2, <3>3, <1>b, <1>g, <1>m, <1>n, <1>t
  <2> QED BY <2>1, <2>2
<1>5. CASE VisitExtern
  <2>1. CASE Reject
    BY <2>1, RejectTypes
  <2>2. CASE ~Reject
    <3>1. /\ globals' = Put(globals, Decl.name, VarSym(Decl.type))
          /\ NextDecl /\ di \in DOMAIN Decls
          /\ UNCHANGED <<locals, midMap, group, prog, pass, status>>
      BY <2>2, <1>5 DEF VisitExtern, At, Check
    <3>2. PositionOK'
      BY <3>1, NextDeclPosition
    <3>3. SymbolsOf(globals)'
      BY <3>1, <1>t, PutSymbols DEF SymbolsOf
    <3> QED
      BY <3>1, <3>2, <3>3, <1>b, <1>g, <1>m, <1>n, <1>t
  <2> QED BY <2>1, <2>2
<1>6. CASE EnterGroup
  <2>1. CASE Reject
    BY <2>1, RejectTypes
  <2>2. CASE Decl.items = <<>>
    <3>1. NextDecl /\ di \in DOMAIN Decls /\ UNCHANGED <<prog, pass, status, tables, group>>
      BY <2>2, <1>6 DEF EnterGroup, At
    <3>2. PositionOK'
      BY <3>1, NextDeclPosition
    <3> QED
      BY <3>1, <3>2, <1>b, <1>g, <1>l, <1>m, <1>n, <1>t DEF tables
  <2>3. CASE ~Reject /\ Decl.items # <<>>
    <3>1. /\ globals' = Put(globals, Decl.name, VarSym(Prim("int")))
          /\ val' = 0 /\ fi' = 1
          /\ Decl.kind = "group" /\ pass = 1 /\ di \in DOMAIN Decls
          /\ UNCHANGED <<di, locals, midMap, inAggr, bits, prog, pass, status>>
      BY <2>3, <1>6 DEF EnterGroup, At, Check
    <3>2. PositionOK'
      BY <3>1, <1>t, ProgShape, StepPosition DEF Decl
    <3>3. SymbolsOf(globals)'
      BY <3>1, <1>t, PutSymbols DEF SymbolsOf
    <3>4. 0 \in MachineInt
      BY IntMaxAssumption DEF MachineInt
    <3> QED
      BY <3>1, <3>2, <3>3, <3>4, <1>b, <1>m, <1>n, <1>t
  <2> QED BY <2>1, <2>2, <2>3
<1>7. CASE VisitItem
  <2>1. CASE Reject
    BY <2>1, RejectTypes
  <2>2. CASE ~Reject
    <3> DEFINE id == Decl.items[fi]
               v  == IF id.base THEN id.idVal ELSE Succ(val)
    <3>1. /\ Decl.kind = "group" /\ di \in DOMAIN Decls /\ fi \in DOMAIN Decl.items
          /\ midMap' = Put(midMap, id.name,
                           [isMsgId |-> Decl.isMsgId, idVal |-> v, bindMsg |-> NoName])
          /\ val' = v /\ fi' = fi + 1
          /\ UNCHANGED <<di, globals, locals, inAggr, bits, prog, pass, status>>
      BY <2>2, <1>7 DEF VisitItem, ItemOk, At, Check
    <3>2. v \in MachineInt /\ fi \in 1..Len(Decl.items) /\ Len(Decl.items) \in Nat
      BY <3>1, <1>t, ProgShape, SuccType DEF Decl
    <3> HIDE DEF v, id
    <3>3. PositionOK'
      <4>1. pass = 1 /\ fi' \in Nat
        BY <3>1, <3>2, <1>t DEF PositionOK
      <4> QED
        BY <4>1, <3>1, <3>2, StepPosition
    <3>4. IdsOK'
      BY <3>1, <3>2, <1>t DEF IdsOK, Put
    <3> QED
      BY <3>1, <3>2, <3>3, <3>4, <1>b, <1>l, <1>m, <1>t
  <2> QED BY <2>1, <2>2
<1>8. CASE LeaveGroup
  <2>1. PositionOK'
    BY <1>8, NextDeclPosition DEF LeaveGroup, At
  <2> QED
    BY <2>1, <1>8, <1>b, <1>g, <1>l, <1>m, <1>n, <1>t DEF LeaveGroup, tables
<1>9. CASE EnterMsg
  <2>1. CASE Reject
    BY <2>1, RejectTypes
  <2>2. CASE ~Reject
    <3>1. /\ globals' = Put(globals, Decl.name, VarSym(StructOf(Decl.name)))
          /\ locals' = NewSymTable
          /\ inAggr' = FALSE /\ bits' = 0 /\ fi' = 1
          /\ Decl.kind = "msg" /\ pass = 1 /\ di \in DOMAIN Decls
          /\ UNCHANGED <<di, midMap, val, prog, pass, status>>
      BY <2>2, <1>9 DEF EnterMsg, At, Check
    <3>2. PositionOK'
      BY <3>1, <1>t, ProgShape, StepPosition DEF Decl
    <3>3. SymbolsOf(globals)' /\ SymbolsOf(locals)'
      BY <3>1, <1>t, PutSymbols DEF SymbolsOf, NewSymTable, BuiltinSym
    <3>4. inAggr' \in BOOLEAN
      BY <3>1
    <3>5. bits' \in 0..7
      BY <3>1
    <3> QED
      BY <3>1, <3>2, <3>3, <3>4, <3>5, <1>b, <1>n, <1>t
  <2> QED BY <2>1, <2>2
<1>10. CASE VisitField
  <2>1. CASE Reject
    BY <2>1, RejectTypes
  <2>2. CASE ~Reject
    <3> DEFINE f == Decl.fields[fi]
    <3>1. /\ Decl.kind = "msg" /\ di \in DOMAIN Decls /\ fi \in DOMAIN Decl.fields
          /\ AggrOk(f.type) /\ AggrStep(f.type)
          /\ locals' = Put(locals, f.name, VarSym(f.type))
          /\ fi' = fi + 1
          /\ UNCHANGED <<di, globals, midMap, val, prog, pass, status>>
      BY <2>2, <1>10 DEF VisitField, At, Check, FieldOk
    <3>2. fi \in 1..Len(Decl.fields) /\ Len(Decl.fields) \in Nat
      BY <3>1, <1>t, ProgShape DEF Decl
    <3>3. PositionOK'
      <4>1. pass = 1 /\ fi' \in Nat
        BY <3>1, <3>2, <1>t DEF PositionOK
      <4> QED
        BY <4>1, <3>1, <3>2, StepPosition
    <3>4. bits' \in 0..7 /\ inAggr' \in BOOLEAN
      BY <3>1, <1>t, AggrType
    <3>5. SymbolsOf(locals)'
      BY <3>1, <1>t, PutSymbols DEF SymbolsOf
    <3> QED
      BY <3>1, <3>3, <3>4, <3>5, <1>b, <1>l, <1>n, <1>t
  <2> QED BY <2>1, <2>2
<1>11. CASE LeaveMsg
  <2>1. PositionOK'
    BY <1>11, NextDeclPosition DEF LeaveMsg, At
  <2>2. SymbolsOf(locals)'
    BY <1>11 DEF LeaveMsg, SymbolsOf, EmptyTable
  <2> QED
    BY <2>1, <2>2, <1>11, <1>b, <1>g, <1>l, <1>n, <1>t DEF LeaveMsg
<1>12. CASE VisitBind
  <2>1. CASE Reject
    BY <2>1, RejectTypes
  <2>2. CASE Decl.msgName = NoName
    <3>1. NextDecl /\ di \in DOMAIN Decls /\ UNCHANGED <<prog, pass, status, tables, group>>
      BY <2>2, <1>12 DEF VisitBind, At
    <3>2. PositionOK'
      BY <3>1, NextDeclPosition
    <3> QED
      BY <3>1, <3>2, <1>b, <1>g, <1>l, <1>m, <1>n, <1>t DEF tables
  <2>3. CASE ~Reject /\ Decl.msgName # NoName
    <3>1. /\ midMap' = [midMap EXCEPT ![Decl.msgId].bindMsg = Decl.msgName]
          /\ NextDecl /\ di \in DOMAIN Decls
          /\ UNCHANGED <<globals, locals, group, prog, pass, status>>
      BY <2>3, <1>12 DEF VisitBind, At, Check
    <3>2. PositionOK'
      BY <3>1, NextDeclPosition
    <3>3. IdsOK'
      BY <3>1, <1>t DEF IdsOK
    <3> QED
      BY <3>1, <3>2, <3>3, <1>b, <1>g, <1>l, <1>m, <1>t
  <2> QED BY <2>1, <2>2, <2>3
<1>13. CASE UNCHANGED vars
  BY <1>13, <1>t, SameTypes DEF vars, tables, group
<1> QED
  BY <1>1, <1>2, <1>3, <1>4, <1>5, <1>6, <1>7, <1>8, <1>9, <1>10, <1>11, <1>12, <1>13 DEF Next

(* The analyser's variables keep their types whatever program it is given. *)
THEOREM TypeCorrect == Spec => []TypeOK
<1>1. Init => TInv
  BY InitTInv
<1>2. TInv /\ [Next]_vars => TInv'
  BY NextTInv
<1>3. TInv => TypeOK
  BY DEF TInv
<1> QED
  BY <1>1, <1>2, <1>3, PTL DEF Spec

-----------------------------------------------------------------------------
(***************************************************************************)
(* The twelve actions seen through what they do to the position and to the *)
(* tables: a step is one of nine kinds.                                    *)
(***************************************************************************)
Quiet == UNCHANGED <<prog, pass, di, fi, globals, locals, midMap, val, inAggr, bits>>

(* A declaration that leaves no symbol behind, or none in this pass.       *)
Skips == /\ di \in DOMAIN Decls /\ fi = 0 /\ NextDecl
         /\ pass = 2 \/ ~Declares(di)
         /\ Decl.kind = "bind" => pass = 1 \/ Decl.msgName = NoName
         /\ UNCHANGED <<prog, pass, globals, locals, midMap, val, inAggr, bits>>

Turns == /\ pass = 1 /\ di = Len(Decls) + 1
         /\ pass' = 2 /\ di' = 1 /\ fi' = 0
         /\ UNCHANGED <<prog, globals, locals, midMap, val, inAggr, bits>>

Fresh == /\ Decl.name \notin DOMAIN globals
         /\ \E t : globals' = Put(globals, Decl.name, VarSym(t))

Defines == /\ di \in DOMAIN Decls /\ pass = 1 /\ fi = 0 /\ Declares(di)
           /\ Decl.kind \in {"const", "extern"}
           /\ Fresh /\ NextDecl
           /\ UNCHANGED <<prog, pass, locals, midMap, val, inAggr, bits>>

Enters == /\ di \in DOMAIN Decls /\ pass = 1 /\ fi = 0 /\ Declares(di)
          /\ Decl.kind \in {"group", "msg"}
          /\ Fresh /\ fi' = 1
          /\ Decl.kind = "msg" => locals' = NewSymTable /\ bits' = 0 /\ inAggr' = FALSE
          /\ Decl.kind = "group" => UNCHANGED <<locals, bits, inAggr>>
          /\ UNCHANGED <<prog, pass, di, midMap>>

Item == Decl.items[fi]
ItemVal == IF Item.base THEN Item.idVal ELSE Succ(val)

Numbers ==
  /\ di \in DOMAIN Decls /\ pass = 1 /\ Decl.kind = "group" /\ fi \in DOMAIN Decl.items
  /\ Item.name \notin DOMAIN midMap
  /\ Item.base /\ fi > 1 => Item.idVal > val
  /\ midMap' = Put(midMap, Item.name,
                   [isMsgId |-> Decl.isMsgId, idVal |-> ItemVal, bindMsg |-> NoName])
  /\ val' = ItemVal /\ fi' = fi + 1
  /\ UNCHANGED <<prog, pass, di, globals, locals, inAggr, bits>>

FieldVar == Decl.fields[fi]

Reads ==
  /\ di \in DOMAIN Decls /\ pass = 1 /\ Decl.kind = "msg" /\ fi \in DOMAIN Decl.fields
  /\ FieldOk(FieldVar) /\ RefsOk(FieldVar)
  /\ locals' = Put(locals, FieldVar.name, VarSym(FieldVar.type))
  /\ AggrStep(FieldVar.type) /\ fi' = fi + 1
  /\ UNCHANGED <<prog, pass, di, globals, midMap, val>>

Leaves ==
  /\ di \in DOMAIN Decls /\ pass = 1 /\ fi > 0 /\ NextDecl
  /\ \/ Decl.kind = "group" /\ fi = Len(Decl.items) + 1 /\ UNCHANGED locals
     \/ Decl.kind = "msg" /\ fi = Len(Decl.fields) + 1 /\ locals' = EmptyTable
  /\ UNCHANGED <<prog, pass, globals, midMap, val, inAggr, bits>>

Binds ==
  /\ di \in DOMAIN Decls /\ pass = 2 /\ fi = 0 /\ Decl.kind = "bind" /\ Decl.msgName # NoName
  /\ BindOk(Decl) /\ NextDecl
  /\ midMap' = [midMap EXCEPT ![Decl.msgId].bindMsg = Decl.msgName]
  /\ UNCHANGED <<prog, pass, globals, locals, val, inAggr, bits>>

LEMMA StepKinds ==
  ASSUME TInv, [Next]_vars
  PROVE  Quiet \/ Skips \/ Turns \/ Defines \/ Enters \/ Numbers \/ Reads \/ Leaves \/ Binds
<1> USE DEF TInv, TypeOK, PositionOK, tables, group
<1>a. ASSUME Reject PROVE Quiet
  BY <1>a DEF Reject, Quiet
<1>1. CheckSpace => Quiet
  BY DEF CheckSpace, Quiet
<1>2. SkipDecl => Skips
  BY DEF SkipDecl, Skips, Declares, Decl
<1>3. EndPass => Turns \/ Quiet
  BY DEF EndPass, Turns, Quiet
<1>4. VisitConst => Defines \/ Quiet
  BY <1>a DEF VisitConst, Check, At, Defines, Fresh, Declares, Decl
<1>5. VisitExtern => Defines \/ Quiet
  BY <1>a DEF VisitExtern, Check, At, Defines, Fresh, Declares, Decl
<1>6. EnterGroup => Skips \/ Enters \/ Quiet
  <2>1. ASSUME EnterGroup, Decl.items = <<>> PROVE Skips
    BY <2>1 DEF EnterGroup, Skips, At, Declares, Decl
  <2>2. ASSUME EnterGroup, Decl.items # <<>> PROVE Enters \/ Quiet
    BY <2>2, <1>a DEF EnterGroup, Check, Enters, Fresh, At, Declares, Decl
  <2> QED BY <2>1, <2>2
<1>7. VisitItem => Numbers \/ Quiet
  <2>1. VisitItem => pass = 1
    BY ProgShape DEF VisitItem, At, Decl
  <2> QED
    BY <1>a, <2>1 DEF VisitItem, Check, Numbers, At, Item, ItemOk, ItemVal
<1>8. LeaveGroup => Leaves
  BY DEF LeaveGroup, Leaves, At
<1>9. EnterMsg => Enters \/ Quiet
  BY <1>a DEF EnterMsg, Check, Enters, Fresh, At, Declares, Decl
<1>10. VisitField => Reads \/ Quiet
  <2>1. VisitField => pass = 1
    BY ProgShape DEF VisitField, At, Decl
  <2> QED
    BY <1>a, <2>1 DEF VisitField, Check, Reads, At, FieldVar
<1>11. LeaveMsg => Leaves
  <2>1. LeaveMsg => fi > 0 /\ pass = 1
    BY ProgShape DEF LeaveMsg, At, Decl
  <2> QED
    BY <2>1 DEF LeaveMsg, Leaves, At
<1>12. VisitBind => Skips \/ Binds \/ Quiet
  <2>1. VisitBind => fi = 0
    BY DEF VisitBind, At
  <2>2. ASSUME VisitBind, Decl.msgName = NoName PROVE Skips
    BY <2>1, <2>2 DEF VisitBind, Skips, At
  <2>3. ASSUME VisitBind, Decl.msgName # NoName PROVE Binds \/ Quiet
    BY <2>1, <2>3, <1>a DEF VisitBind, Check, Binds, At
  <2> QED BY <2>1, <2>2, <2>3
<1>13. UNCHANGED vars => Quiet
  BY DEF vars, Quiet
<1> QED
  BY <1>1, <1>2, <1>3, <1>4, <1>5, <1>6, <1>7, <1>8, <1>9, <1>10, <1>11, <1>12, <1>13 DEF Next

-----------------------------------------------------------------------------
(* What counts as passed after a step, and was not before it.              *)

LEMMA PassedField ==
  ASSUME TInv, [Next]_vars,
         NEW d \in DOMAIN Decls, Decls[d].kind = "msg", NEW i \in DOMAIN Decls[d].fields,
         PassedAt(d, i)'
  PROVE  PassedAt(d, i) \/ (Reads /\ d = di /\ i = fi)
<1> USE DEF PassedAt, Passed, TInv, TypeOK, PositionOK, NextDecl, Decl
<1>1. d \in 1..Len(Decls) /\ i \in 1..Len(Decls[d].fields) /\ Len(Decls[d].fields) \in Nat /\ Len(Decls) \in Nat
  BY ProgShape
<1>2. CASE Quiet
  BY <1>2 DEF Quiet
<1>3. CASE Skips
  BY <1>1, <1>3 DEF Skips, Declares
<1>4. CASE Turns
  BY <1>1, <1>4 DEF Turns
<1>5. CASE Defines
  BY <1>1, <1>5 DEF Defines
<1>6. CASE Enters
  BY <1>1, <1>6 DEF Enters
<1>7. CASE Numbers
  BY <1>1, <1>7 DEF Numbers
<1>8. CASE Reads
  BY <1>1, <1>8 DEF Reads
<1>9. CASE Leaves
  BY <1>1, <1>9 DEF Leaves
<1>10. CASE Binds
  BY <1>1, <1>10 DEF Binds
<1> QED
  BY <1>2, <1>3, <1>4, <1>5, <1>6, <1>7, <1>8, <1>9, <1>10, StepKinds

LEMMA PassedItem ==
  ASSUME TInv, [Next]_vars,
         NEW d \in DOMAIN Decls, Decls[d].kind = "group", NEW i \in DOMAIN Decls[d].items,
         PassedAt(d, i)'
  PROVE  PassedAt(d, i) \/ (Numbers /\ d = di /\ i = fi)
<1> USE DEF PassedAt, Passed, TInv, TypeOK, PositionOK, NextDecl, Decl
<1>1. /\ d \in 1..Len(Decls) /\ i \in 1..Len(Decls[d].items)
      /\ Len(Decls[d].items) \in Nat /\ Len(Decls) \in Nat
  BY ProgShape
<1>2. CASE Quiet
  BY <1>2 DEF Quiet
<1>3. CASE Skips
  <2>1. Decls[d].items # <<>>
    BY <1>1
  <2> QED
    BY <2>1, <1>1, <1>3 DEF Skips, Declares
<1>4. CASE Turns
  BY <1>1, <1>4 DEF Turns
<1>5. CASE Defines
  BY <1>1, <1>5 DEF Defines
<1>6. CASE Enters
  BY <1>1, <1>6 DEF Enters
<1>7. CASE Numbers
  BY <1>1, <1>7 DEF Numbers
<1>8. CASE Reads
  BY <1>1, <1>8 DEF Reads
<1>9. CASE Leaves
  BY <1>1, <1>9 DEF Leaves
<1>10. CASE Binds
  BY <1>1, <1>10 DEF Binds
<1> QED
  BY <1>2, <1>3, <1>4, <1>5, <1>6, <1>7, <1>8, <1>9, <1>10, StepKinds

LEMMA PassedDecl ==
  ASSUME TInv, [Next]_vars, NEW d \in DOMAIN Decls, Declares(d), PassedAt(d, 0)'
  PROVE  PassedAt(d, 0) \/ ((Defines \/ Enters) /\ d = di)
<1> USE DEF PassedAt, Passed, TInv, TypeOK, PositionOK, NextDecl, Decl
<1>1. d \in 1..Len(Decls) /\ Len(Decls) \in Nat
  BY ProgShape
<1>2. CASE Quiet
  BY <1>2 DEF Quiet
<1>3. CASE Skips
  BY <1>1, <1>3 DEF Skips
<1>4. CASE Turns
  BY <1>1, <1>4 DEF Turns
<1>5. CASE Defines
  BY <1>1, <1>5 DEF Defines
<1>6. CASE Enters
  BY <1>1, <1>6 DEF Enters
<1>7. CASE Numbers
  BY <1>1, <1>7, ProgShape DEF Numbers
<1>8. CASE Reads
  BY <1>1, <1>8, ProgShape DEF Reads
<1>9. CASE Leaves
  BY <1>1, <1>9 DEF Leaves
<1>10. CASE Binds
  BY <1>1, <1>10 DEF Binds
<1> QED
  BY <1>2, <1>3, <1>4, <1>5, <1>6, <1>7, <1>8, <1>9, <1>10, StepKinds

(* What has passed stays passed.                                           *)
LEMMA PassedStable ==
  ASSUME TInv, [Next]_vars, NEW d \in DOMAIN Decls, NEW i \in Nat, PassedAt(d, i)
  PROVE  PassedAt(d, i)'
<1> USE DEF PassedAt, Passed, TInv, TypeOK, PositionOK, NextDecl, Decl
<1>1. d \in 1..Len(Decls) /\ Len(Decls) \in Nat
  BY ProgShape
<1>2. CASE Quiet \/ Skips \/ Turns \/ Defines \/ Enters
  BY <1>1, <1>2 DEF Quiet, Skips, Turns, Defines, Enters
<1>3. CASE Numbers \/ Reads \/ Leaves \/ Binds
  BY <1>1, <1>3 DEF Numbers, Reads, Leaves, Binds
<1> QED
  BY <1>2, <1>3, StepKinds

-----------------------------------------------------------------------------
(***************************************************************************)
(* The symbol tables hold exactly the names that have passed.              *)
(***************************************************************************)
GlobalsFrom ==
  \A n \in DOMAIN globals : globals[n].k = "var" =>
    \E e \in DOMAIN Decls : Declares(e) /\ Decls[e].name = n /\ PassedAt(e, 0)

GlobalsHave ==
  \A e \in DOMAIN Decls : Declares(e) /\ PassedAt(e, 0) => Decls[e].name \in DOMAIN globals

LocalsFrom ==
  \A n \in DOMAIN locals : locals[n].k = "var" =>
    InMsg /\ \E j \in 1..fi - 1 : Decl.fields[j].name = n

LocalsHave == InMsg => \A j \in 1..fi - 1 : Decl.fields[j].name \in DOMAIN locals

IdsHave ==
  \A d \in DOMAIN Decls : Decls[d].kind = "group" =>
    \A i \in DOMAIN Decls[d].items : PassedAt(d, i) => Decls[d].items[i].name \in DOMAIN midMap

SymInv == GlobalsFrom /\ GlobalsHave /\ LocalsFrom /\ LocalsHave /\ IdsHave

LEMMA InitSymInv == Init => SymInv
<1> SUFFICES ASSUME Init PROVE SymInv
  OBVIOUS
<1>1. ProgOK
  BY DEF Init, ProgOK
<1>2. /\ \A d \in DOMAIN Decls : ~PassedAt(d, 0)
      /\ \A d \in DOMAIN Decls : Decls[d].kind = "group" =>
           \A i \in DOMAIN Decls[d].items : ~PassedAt(d, i)
  BY <1>1, ProgShape DEF Init, PassedAt, Passed
<1> QED
  BY <1>2 DEF Init, SymInv, GlobalsFrom, GlobalsHave, LocalsFrom, LocalsHave, IdsHave,
              InMsg, NewSymTable, EmptyTable, BuiltinSym

LEMMA NextGlobalsFrom ==
  ASSUME TInv, GlobalsFrom, [Next]_vars PROVE GlobalsFrom'
<1>p. UNCHANGED prog
  BY ProgUnchanged
<1>1. ASSUME UNCHANGED globals PROVE GlobalsFrom'
  BY <1>1, <1>p, PassedStable DEF GlobalsFrom, Declares, Decls
<1>2. ASSUME Defines \/ Enters PROVE GlobalsFrom'
  <2>1. PICK t : globals' = Put(globals, Decl.name, VarSym(t))
    BY <1>2 DEF Defines, Enters, Fresh
  <2>2. PICK d \in DOMAIN Decls : d = di /\ Declares(d) /\ PassedAt(d, 0)'
    BY <1>2, ProgShape DEF Defines, Enters, PassedAt, Passed, NextDecl, TInv, TypeOK, PositionOK
  <2>3. SUFFICES ASSUME NEW n \in DOMAIN globals', globals'[n].k = "var"
                 PROVE  \E e \in DOMAIN Decls : Declares(e) /\ Decls[e].name = n /\ PassedAt(e, 0)'
    BY <1>p DEF GlobalsFrom, Declares, Decls
  <2>4. CASE n = Decl.name
    BY <2>2, <2>4 DEF Decl
  <2>5. CASE n # Decl.name
    <3>1. n \in DOMAIN globals /\ globals'[n] = globals[n]
      BY <2>1, <2>3, <2>5 DEF Put
    <3>2. PICK e \in DOMAIN Decls : Declares(e) /\ Decls[e].name = n /\ PassedAt(e, 0)
      BY <3>1, <2>3 DEF GlobalsFrom
    <3> QED
      BY <3>2, PassedStable
  <2> QED BY <2>4, <2>5
<1>3. (Defines \/ Enters) \/ UNCHANGED globals
  BY StepKinds DEF Quiet, Skips, Turns, Numbers, Reads, Leaves, Binds
<1> QED BY <1>1, <1>2, <1>3

LEMMA NextGlobalsHave ==
  ASSUME TInv, GlobalsHave, [Next]_vars PROVE GlobalsHave'
<1>p. UNCHANGED prog
  BY ProgUnchanged
<1>1. DOMAIN globals \subseteq DOMAIN globals'
  BY StepKinds DEF Quiet, Skips, Turns, Defines, Enters, Fresh, Numbers, Reads, Leaves, Binds, Put
<1>2. SUFFICES ASSUME NEW e \in DOMAIN Decls, Declares(e), PassedAt(e, 0)'
               PROVE  Decls[e].name \in DOMAIN globals'
  BY <1>p DEF GlobalsHave, Declares, Decls
<1>3. CASE PassedAt(e, 0)
  BY <1>1, <1>2, <1>3 DEF GlobalsHave
<1>4. CASE (Defines \/ Enters) /\ e = di
  <2>1. PICK t : globals' = Put(globals, Decl.name, VarSym(t))
    BY <1>4 DEF Defines, Enters, Fresh
  <2> QED
    BY <2>1, <1>4 DEF Put, Decl
<1> QED
  BY <1>2, <1>3, <1>4, PassedDecl

LEMMA NextLocals ==
  ASSUME TInv, LocalsFrom, LocalsHave, [Next]_vars PROVE LocalsFrom' /\ LocalsHave'
<1> USE DEF TInv, TypeOK, PositionOK, InMsg, Decl, NextDecl
<1>1. CASE Quiet
  BY <1>1 DEF Quiet, LocalsFrom, LocalsHave, Decls
<1>2. CASE Skips \/ Turns \/ Defines \/ Binds
  <2>1. ~InMsg /\ ~InMsg' /\ UNCHANGED locals
    BY <1>2, ProgShape DEF Skips, Turns, Defines, Binds
  <2> QED
    BY <2>1 DEF LocalsFrom, LocalsHave
<1>3. CASE Enters
  <2>1. CASE Decl.kind = "msg"
    <3>1. locals' = NewSymTable /\ fi' = 1
      BY <1>3, <2>1 DEF Enters
    <3>2. \A n \in DOMAIN locals' : locals'[n].k # "var"
      BY <3>1 DEF NewSymTable, BuiltinSym
    <3> QED
      BY <3>1, <3>2 DEF LocalsFrom, LocalsHave
  <2>2. CASE Decl.kind = "group"
    <3>1. ~InMsg /\ ~InMsg' /\ UNCHANGED locals
      BY <1>3, <2>2 DEF Enters, Decls
    <3> QED
      BY <3>1 DEF LocalsFrom, LocalsHave
  <2> QED
    BY <1>3, <2>1, <2>2 DEF Enters
<1>4. CASE Numbers
  <2>1. ~InMsg /\ ~InMsg' /\ UNCHANGED locals
    BY <1>4 DEF Numbers, Decls
  <2> QED
    BY <2>1 DEF LocalsFrom, LocalsHave
<1>5. CASE Reads
  <2>1. /\ InMsg /\ InMsg' /\ fi' = fi + 1 /\ fi \in Nat \ {0}
        /\ UNCHANGED <<prog, di>>
        /\ locals' = Put(locals, FieldVar.name, VarSym(FieldVar.type))
    BY <1>5, ProgShape DEF Reads, Decls
  <2>2. \A j \in 1..fi' - 1 : j = fi \/ j \in 1..fi - 1
    BY <2>1
  <2>3. LocalsHave'
    BY <2>1, <2>2 DEF LocalsHave, Put, FieldVar, Decls
  <2>4. LocalsFrom'
    <3>1. SUFFICES ASSUME NEW n \in DOMAIN locals', locals'[n].k = "var"
                   PROVE  \E j \in 1..fi' - 1 : Decl'.fields[j].name = n
      BY <2>1 DEF LocalsFrom
    <3>2. CASE n = FieldVar.name
      <4>1. Decl' = Decl /\ fi \in 1..fi' - 1
        BY <2>1 DEF Decls
      <4> QED
        BY <3>2, <4>1 DEF FieldVar
    <3>3. CASE n # FieldVar.name
      <4>1. n \in DOMAIN locals /\ locals'[n] = locals[n]
        <5> DEFINE v == FieldVar.name
                   s == VarSym(FieldVar.type)
        <5>1. locals' = Put(locals, v, s) /\ n \in DOMAIN locals' /\ n # v
          BY <2>1, <3>1, <3>3
        <5> HIDE DEF v, s
        <5> QED
          BY <5>1 DEF Put
      <4>2. PICK j \in 1..fi - 1 : Decl.fields[j].name = n
        BY <4>1, <3>1 DEF LocalsFrom
      <4>3. j \in 1..fi' - 1
        BY <2>1
      <4> QED
        BY <4>2, <4>3, <2>1 DEF Decls
    <3> QED BY <3>2, <3>3
  <2> QED BY <2>3, <2>4
<1>6. CASE Leaves
  <2>1. CASE Decl.kind = "msg"
    <3>1. locals' = EmptyTable /\ fi' = 0
      BY <1>6, <2>1 DEF Leaves
    <3>2. DOMAIN locals' = {}
      BY <3>1 DEF EmptyTable
    <3> QED
      BY <3>1, <3>2 DEF LocalsFrom, LocalsHave
  <2>2. CASE Decl.kind = "group"
    <3>1. ~InMsg /\ ~InMsg' /\ UNCHANGED locals
      BY <1>6, <2>2 DEF Leaves
    <3> QED
      BY <3>1 DEF LocalsFrom, LocalsHave
  <2> QED
    BY <1>6, <2>1, <2>2 DEF Leaves
<1> QED
  BY <1>1, <1>2, <1>3, <1>4, <1>5, <1>6, StepKinds

(* Ids are added one by one and never removed.                             *)
LEMMA IdsGrow ==
  ASSUME TInv, [Next]_vars PROVE DOMAIN midMap \subseteq DOMAIN midMap'
  BY StepKinds DEF Quiet, Skips, Turns, Defines, Enters, Numbers, Reads, Leaves, Binds, Put

LEMMA NextIdsHave ==
  ASSUME TInv, IdsHave, [Next]_vars PROVE IdsHave'
<1>p. UNCHANGED prog
  BY ProgUnchanged
<1>1. DOMAIN midMap \subseteq DOMAIN midMap'
  BY IdsGrow
<1>2. SUFFICES ASSUME NEW d \in DOMAIN Decls, Decls[d].kind = "group",
                      NEW i \in DOMAIN Decls[d].items, PassedAt(d, i)'
               PROVE  Decls[d].items[i].name \in DOMAIN midMap'
  BY <1>p DEF IdsHave, Decls
<1>3. CASE PassedAt(d, i)
  BY <1>1, <1>2, <1>3 DEF IdsHave
<1>4. CASE Numbers /\ d = di /\ i = fi
  BY <1>4 DEF Numbers, Put, Item, Decl
<1> QED
  BY <1>2, <1>3, <1>4, PassedItem

LEMMA NextSymInv == ASSUME TInv, SymInv, [Next]_vars PROVE SymInv'
  BY NextGlobalsFrom, NextGlobalsHave, NextLocals, NextIdsHave DEF SymInv

-----------------------------------------------------------------------------
(* No field refers to a name that is not declared before it.               *)

LEMMA NextDeclaredBeforeUse ==
  ASSUME TInv, SymInv, DeclaredBeforeUse, [Next]_vars PROVE DeclaredBeforeUse'
<1>p. UNCHANGED prog
  BY ProgUnchanged
<1>1. SUFFICES ASSUME NEW d \in DOMAIN Decls, Decls[d].kind = "msg",
                      NEW i \in DOMAIN Decls[d].fields, PassedAt(d, i)',
                      NEW n \in FieldRefs(Decls[d].fields[i])
               PROVE  RefersBack(d, i, n)
  <2>1. \A d, i, n : RefersBack(d, i, n)' <=> RefersBack(d, i, n)
    BY <1>p DEF RefersBack, Declares, Decls
  <2> QED
    BY <2>1, <1>p DEF DeclaredBeforeUse, Decls
<1>2. CASE PassedAt(d, i)
  BY <1>1, <1>2 DEF DeclaredBeforeUse
<1>3. CASE Reads /\ d = di /\ i = fi
  <2>1. FieldVar = Decls[d].fields[i] /\ RefsOk(FieldVar) /\ pass = 1
    BY <1>3 DEF Reads, FieldVar, Decl
  <2>2. i \in Nat \ {0} /\ DOMAIN Decls = 1..Len(Decls) /\ Len(Decls) \in Nat
    BY <1>1, ProgShape DEF TInv
  <2>3. CASE n = FieldVar.name
    BY <2>1, <2>2, <2>3 DEF RefersBack
  <2>4. CASE n # FieldVar.name
    <3>1. IsVar(n)
      BY <2>1, <2>4, <1>1 DEF RefsOk, RefOk, FieldRefs
    <3>2. CASE n \in DOMAIN locals
      <4>1. PICK j \in 1..fi - 1 : Decl.fields[j].name = n
        BY <3>1, <3>2 DEF IsVar, Lookup, SymInv, LocalsFrom
      <4>2. j \in 1..i
        BY <1>3, <2>2
      <4> QED
        BY <4>1, <4>2, <1>3 DEF Decl, RefersBack
    <3>3. CASE n \notin DOMAIN locals
      <4>1. n \in DOMAIN globals /\ globals[n].k = "var"
        BY <3>1, <3>3 DEF IsVar, Visible, Lookup
      <4>2. PICK e \in DOMAIN Decls : Declares(e) /\ Decls[e].name = n /\ PassedAt(e, 0)
        BY <4>1 DEF SymInv, GlobalsFrom
      <4>3. e \in 1..d
        BY <4>2, <2>1, <2>2, <1>3 DEF PassedAt, Passed
      <4> QED
        BY <4>2, <4>3 DEF RefersBack
    <3> QED BY <3>2, <3>3
  <2> QED BY <2>3, <2>4
<1> QED
  BY <1>1, <1>2, <1>3, PassedField

(* Every limit, maximum, comparison and xor names something already read or*)
(* already defined, in every program the analyser lets pass.               *)
THEOREM RefersBackwards == Spec => []DeclaredBeforeUse
<1>1. Init => TInv /\ SymInv /\ DeclaredBeforeUse
  <2>1. ASSUME Init PROVE DeclaredBeforeUse
    <3>1. ProgOK
      BY <2>1 DEF Init, ProgOK
    <3>2. \A d \in DOMAIN Decls : Decls[d].kind = "msg" =>
            \A i \in DOMAIN Decls[d].fields : ~PassedAt(d, i)
      BY <2>1, <3>1, ProgShape DEF Init, PassedAt, Passed
    <3> QED BY <3>2 DEF DeclaredBeforeUse
  <2> QED BY <2>1, InitTInv, InitSymInv
<1>2. TInv /\ SymInv /\ DeclaredBeforeUse /\ [Next]_vars => (TInv /\ SymInv /\ DeclaredBeforeUse)'
  BY NextTInv, NextSymInv, NextDeclaredBeforeUse
<1> QED
  BY <1>1, <1>2, PTL DEF Spec

-----------------------------------------------------------------------------
(* Names are declared once.                                                *)

NoTwinDecls ==
  \A d, e \in DOMAIN Decls :
    d < e /\ PassedAt(e, 0) /\ Declares(d) /\ Declares(e) => Decls[d].name # Decls[e].name

NoTwinFields ==
  \A d \in DOMAIN Decls : Decls[d].kind = "msg" =>
    \A i, j \in DOMAIN Decls[d].fields :
      i < j /\ PassedAt(d, j) => Decls[d].fields[i].name # Decls[d].fields[j].name

NoTwinIds ==
  \A d, e \in DOMAIN Decls : Decls[d].kind = "group" /\ Decls[e].kind = "group" =>
    \A i \in DOMAIN Decls[d].items, j \in DOMAIN Decls[e].items :
      /\ PassedAt(d, i) /\ PassedAt(e, j)
      /\ Decls[d].items[i].name = Decls[e].items[j].name
      => d = e /\ i = j

LEMMA NextNoTwinDecls ==
  ASSUME TInv, SymInv, NoTwinDecls, [Next]_vars PROVE NoTwinDecls'
<1>p. UNCHANGED prog
  BY ProgUnchanged
<1>1. SUFFICES ASSUME NEW d \in DOMAIN Decls, NEW e \in DOMAIN Decls, d < e,
                      PassedAt(e, 0)', Declares(d), Declares(e)
               PROVE  Decls[d].name # Decls[e].name
  BY <1>p DEF NoTwinDecls, Declares, Decls
<1>2. CASE PassedAt(e, 0)
  BY <1>1, <1>2 DEF NoTwinDecls
<1>3. CASE (Defines \/ Enters) /\ e = di
  <2>1. Decls[e].name \notin DOMAIN globals /\ PassedAt(d, 0)
    BY <1>1, <1>3, ProgShape DEF TInv, Defines, Enters, Fresh, Decl, PassedAt, Passed
  <2> QED
    BY <2>1, <1>1 DEF SymInv, GlobalsHave
<1> QED
  BY <1>1, <1>2, <1>3, PassedDecl

LEMMA NextNoTwinFields ==
  ASSUME TInv, SymInv, NoTwinFields, [Next]_vars PROVE NoTwinFields'
<1>p. UNCHANGED prog
  BY ProgUnchanged
<1>1. SUFFICES ASSUME NEW d \in DOMAIN Decls, Decls[d].kind = "msg",
                      NEW i \in DOMAIN Decls[d].fields, NEW j \in DOMAIN Decls[d].fields,
                      i < j, PassedAt(d, j)'
               PROVE  Decls[d].fields[i].name # Decls[d].fields[j].name
  BY <1>p DEF NoTwinFields, Decls
<1>2. CASE PassedAt(d, j)
  BY <1>1, <1>2 DEF NoTwinFields
<1>3. CASE Reads /\ d = di /\ j = fi
  <2>1. /\ Decls[d].fields[j].name \notin DOMAIN locals
        /\ InMsg /\ i \in 1..fi - 1 /\ Decl = Decls[d]
    BY <1>1, <1>3, ProgShape DEF TInv, Reads, FieldOk, FieldVar, Decl, InMsg
  <2> QED
    BY <2>1 DEF SymInv, LocalsHave
<1> QED
  BY <1>1, <1>2, <1>3, PassedField

LEMMA NextNoTwinIds ==
  ASSUME TInv, SymInv, NoTwinIds, [Next]_vars PROVE NoTwinIds'
<1>p. UNCHANGED prog
  BY ProgUnchanged
<1>1. SUFFICES ASSUME NEW d \in DOMAIN Decls, NEW e \in DOMAIN Decls,
                      Decls[d].kind = "group", Decls[e].kind = "group",
                      NEW i \in DOMAIN Decls[d].items, NEW j \in DOMAIN Decls[e].items,
                      PassedAt(d, i)', PassedAt(e, j)',
                      Decls[d].items[i].name = Decls[e].items[j].name
               PROVE  d = e /\ i = j
  BY <1>p DEF NoTwinIds, Decls
<1>2. PassedAt(d, i) \/ (Numbers /\ d = di /\ i = fi)
  BY <1>1, PassedItem
<1>6. PassedAt(e, j) \/ (Numbers /\ e = di /\ j = fi)
  BY <1>1, PassedItem
<1>3. ASSUME Numbers PROVE Item.name \notin DOMAIN midMap
  BY <1>3 DEF Numbers
<1>4. /\ PassedAt(d, i) => Decls[d].items[i].name \in DOMAIN midMap
      /\ PassedAt(e, j) => Decls[e].items[j].name \in DOMAIN midMap
  BY <1>1 DEF SymInv, IdsHave
<1>5. CASE PassedAt(d, i) /\ PassedAt(e, j)
  BY <1>1, <1>5 DEF NoTwinIds
<1> QED
  BY <1>1, <1>2, <1>3, <1>4, <1>5, <1>6 DEF Item, Decl

(* Two declarations, two fields of a message or two ids of the same name   *)
(* are never both accepted.                                                *)
THEOREM NamesUnique == Spec => []NoRedeclaration
<1> DEFINE Inv == TInv /\ SymInv /\ NoTwinDecls /\ NoTwinFields /\ NoTwinIds
<1>1. Init => Inv
  <2> SUFFICES ASSUME Init PROVE Inv
    OBVIOUS
  <2>1. ProgOK
    BY DEF Init, ProgOK
  <2>2. /\ \A d \in DOMAIN Decls : ~PassedAt(d, 0)
        /\ \A d \in DOMAIN Decls : Decls[d].kind = "msg" =>
             \A i \in DOMAIN Decls[d].fields : ~PassedAt(d, i)
        /\ \A d \in DOMAIN Decls : Decls[d].kind = "group" =>
             \A i \in DOMAIN Decls[d].items : ~PassedAt(d, i)
    BY <2>1, ProgShape DEF Init, PassedAt, Passed
  <2> QED
    BY <2>2, InitTInv, InitSymInv DEF NoTwinDecls, NoTwinFields, NoTwinIds
<1>2. Inv /\ [Next]_vars => Inv'
  BY NextTInv, NextSymInv, NextNoTwinDecls, NextNoTwinFields, NextNoTwinIds
<1>3. Inv => NoRedeclaration
  BY DEF NoRedeclaration, NoTwinDecls, NoTwinFields, NoTwinIds
<1> QED
  BY <1>1, <1>2, <1>3, PTL DEF Spec

-----------------------------------------------------------------------------
(* Tables are only ever extended.                                          *)

StepKeeps ==
  /\ \A n \in DOMAIN globals : n \in DOMAIN globals' /\ globals'[n] = globals[n]
  /\ \A n \in DOMAIN midMap :
       /\ n \in DOMAIN midMap'
       /\ midMap'[n].idVal = midMap[n].idVal
       /\ midMap'[n].isMsgId = midMap[n].isMsgId
       /\ midMap[n].bindMsg # NoName => midMap'[n].bindMsg = midMap[n].bindMsg

LEMMA TablesKept == ASSUME TInv, [Next]_vars PROVE StepKeeps
<1>1. CASE Quiet \/ Skips \/ Turns \/ Reads \/ Leaves
  BY <1>1 DEF Quiet, Skips, Turns, Reads, Leaves, StepKeeps
<1>2. CASE Defines \/ Enters
  <2>1. PICK t : globals' = Put(globals, Decl.name, VarSym(t))
    BY <1>2 DEF Defines, Enters, Fresh
  <2>2. Decl.name \notin DOMAIN globals /\ UNCHANGED midMap
    BY <1>2 DEF Defines, Enters, Fresh
  <2> QED
    BY <2>1, <2>2 DEF Put, StepKeeps
<1>3. CASE Numbers
  BY <1>3 DEF Numbers, Put, StepKeeps
<1>4. CASE Binds
  <2>1. /\ midMap' = [midMap EXCEPT ![Decl.msgId].bindMsg = Decl.msgName]
        /\ midMap[Decl.msgId].bindMsg = NoName /\ UNCHANGED globals
    BY <1>4 DEF Binds, BindOk
  <2>2. \A n \in DOMAIN midMap : DOMAIN midMap[n] = {"isMsgId", "idVal", "bindMsg"}
    BY DEF TInv, TypeOK, IdsOK
  <2> QED
    BY <2>1, <2>2 DEF StepKeeps
<1> QED
  BY <1>1, <1>2, <1>3, <1>4, StepKinds

(* No step of the analysis takes back a symbol, an id or a bind.           *)
THEOREM TablesWrittenOnce == Spec => WriteOnce
<1>1. TInv /\ [Next]_vars => [StepKeeps]_vars
  BY TablesKept
<1>2. Init => TInv
  BY InitTInv
<1>3. TInv /\ [Next]_vars => TInv'
  BY NextTInv
<1>4. WriteOnce <=> [][StepKeeps]_vars
  BY PTL DEF WriteOnce, StepKeeps
<1> QED
  BY <1>1, <1>2, <1>3, <1>4, PTL DEF Spec

-----------------------------------------------------------------------------
(* Binds.                                                                  *)

LEMMA NextBinds ==
  ASSUME TInv, BindsSound, [Next]_vars PROVE BindsSound'
<1> DEFINE Good(d) == /\ Decls[d].msgId \in DOMAIN midMap
                      /\ midMap[Decls[d].msgId].isMsgId
                      /\ midMap[Decls[d].msgId].bindMsg = Decls[d].msgName
<1>p. UNCHANGED prog
  BY ProgUnchanged
<1>1. \A d \in DOMAIN Decls : Bound(d)' => Bound(d) \/ (Binds /\ d = di)
  <2> SUFFICES ASSUME NEW d \in DOMAIN Decls, Bound(d)' PROVE Bound(d) \/ (Binds /\ d = di)
    OBVIOUS
  <2>1. d \in 1..Len(Decls) /\ Len(Decls) \in Nat /\ di \in Nat
    BY ProgShape DEF TInv, TypeOK, PositionOK
  <2>2. Decls[d].kind = "bind" /\ Decls[d].msgName # NoName /\ pass' = 2 /\ d < di'
    BY <1>p DEF Bound, Decls
  <2>3. CASE Quiet \/ Skips \/ Turns
    BY <2>1, <2>2, <2>3 DEF Quiet, Skips, Turns, Bound, NextDecl, Decl
  <2>4. CASE Defines \/ Enters \/ Numbers \/ Reads \/ Leaves
    BY <2>2, <2>4 DEF Defines, Enters, Numbers, Reads, Leaves
  <2>5. CASE Binds
    BY <2>1, <2>2, <2>5 DEF Binds, NextDecl, Bound
  <2> QED BY <2>3, <2>4, <2>5, StepKinds
<1>2. \A d \in DOMAIN Decls : Bound(d) => Good(d)
  BY DEF BindsSound
<1>3. \A d \in DOMAIN Decls : Bound(d) /\ Good(d) => Good(d)'
  <2>1. \A d \in DOMAIN Decls : Bound(d) => Decls[d].msgName # NoName
    BY DEF Bound
  <2> QED
    BY <1>p, <2>1, TablesKept DEF StepKeeps, Decls
<1>5. ASSUME Binds, NEW d \in DOMAIN Decls, d = di PROVE Good(d)'
  <2>1. /\ midMap' = [midMap EXCEPT ![Decls[d].msgId].bindMsg = Decls[d].msgName]
        /\ Decls[d].msgId \in DOMAIN midMap /\ midMap[Decls[d].msgId].isMsgId
    BY <1>5 DEF Binds, BindOk, Decl
  <2>2. DOMAIN midMap[Decls[d].msgId] = {"isMsgId", "idVal", "bindMsg"}
    BY <2>1 DEF TInv, TypeOK, IdsOK
  <2> QED
    BY <2>1, <2>2, <1>p DEF Decls
<1>6. \A d \in DOMAIN Decls : Bound(d)' => Good(d)'
  BY <1>1, <1>2, <1>3, <1>5
<1>7. ASSUME NEW d \in DOMAIN Decls, NEW e \in DOMAIN Decls,
             Bound(d)', Bound(e)', Decls[d].msgId = Decls[e].msgId
      PROVE  d = e
  <2>1. CASE Bound(d) /\ Bound(e)
    BY <1>7, <2>1 DEF BindsSound
  <2>2. ASSUME NEW x \in DOMAIN Decls, NEW y \in DOMAIN Decls,
               Bound(x), Binds, y = di, Decls[x].msgId = Decls[y].msgId
        PROVE  FALSE
    <3>1. midMap[Decls[x].msgId].bindMsg = Decls[x].msgName /\ Decls[x].msgName # NoName
      BY <1>2, <2>2 DEF Bound
    <3>2. midMap[Decls[y].msgId].bindMsg = NoName
      BY <2>2 DEF Binds, BindOk, Decl
    <3> QED BY <2>2, <3>1, <3>2
  <2> QED BY <1>1, <1>7, <2>1, <2>2
<1> QED
  BY <1>6, <1>7, <1>p DEF BindsSound, Decls

(* An accepted bind is a message id bound to that message and to no other. *)
THEOREM BindsAreSound == Spec => []BindsSound
<1>1. Init => TInv /\ BindsSound
  BY InitTInv DEF Init, BindsSound, Bound
<1>2. TInv /\ BindsSound /\ [Next]_vars => (TInv /\ BindsSound)'
  BY NextTInv, NextBinds
<1> QED
  BY <1>1, <1>2, PTL DEF Spec

-----------------------------------------------------------------------------
(* Ids ascend.  IdAt(d, i) is the number of item i of group d.             *)

IdAt(d, i) == midMap[Decls[d].items[i].name].idVal

(* visitIdGroupDefine's running id is the number of the item just passed.  *)
ValIsLast ==
  \A d \in DOMAIN Decls : Decls[d].kind = "group" =>
    \A i \in DOMAIN Decls[d].items : d = di /\ i = fi - 1 => val = IdAt(d, i)

Ascend ==
  \A d \in DOMAIN Decls : Decls[d].kind = "group" =>
    \A i, j \in DOMAIN Decls[d].items :
      i < j /\ PassedAt(d, j) /\ (\A k \in i..j - 1 : IdAt(d, k) # IntMax)
      => IdAt(d, i) < IdAt(d, j)

LEMMA IdAtKept ==
  ASSUME TInv, SymInv, [Next]_vars,
         NEW d \in DOMAIN Decls, Decls[d].kind = "group",
         NEW i \in DOMAIN Decls[d].items, PassedAt(d, i)
  PROVE  IdAt(d, i)' = IdAt(d, i) /\ IdAt(d, i) \in MachineInt
<1>1. Decls[d].items[i].name \in DOMAIN midMap
  BY DEF SymInv, IdsHave
<1> QED
  BY <1>1, ProgUnchanged, TablesKept DEF StepKeeps, IdAt, Decls, TInv, TypeOK, IdsOK

(* The step that numbers item fi.                                          *)
LEMMA IdAtNew ==
  ASSUME TInv, Numbers, UNCHANGED prog,
         NEW d \in DOMAIN Decls, d = di, NEW i \in DOMAIN Decls[d].items, i = fi
  PROVE  IdAt(d, i)' = ItemVal /\ val' = ItemVal
<1>1. /\ midMap' = Put(midMap, Item.name,
                       [isMsgId |-> Decl.isMsgId, idVal |-> ItemVal, bindMsg |-> NoName])
      /\ val' = ItemVal
  BY DEF Numbers
<1>2. Decls'[d].items[i].name = Item.name
  BY DEF Item, Decl, Decls
<1> QED
  BY <1>1, <1>2 DEF IdAt, Put

LEMMA NextValIsLast ==
  ASSUME TInv, SymInv, ValIsLast, [Next]_vars PROVE ValIsLast'
<1>p. UNCHANGED prog
  BY ProgUnchanged
<1>1. SUFFICES ASSUME NEW d \in DOMAIN Decls, Decls[d].kind = "group",
                      NEW i \in DOMAIN Decls[d].items, d = di', i = fi' - 1
               PROVE  val' = IdAt(d, i)'
  BY <1>p DEF ValIsLast, Decls
<1>2. fi \in Nat /\ di \in Nat /\ i \in Nat \ {0} /\ fi' \in Nat
  BY <1>1, ProgShape, NextTInv DEF TInv, TypeOK, PositionOK
<1>3. CASE Quiet
  <2>1. d = di /\ i = fi - 1 /\ UNCHANGED <<val, midMap>>
    BY <1>1, <1>3 DEF Quiet
  <2> QED
    BY <2>1, <1>1, <1>p DEF ValIsLast, IdAt, Decls
<1>4. CASE Skips \/ Turns \/ Defines \/ Enters \/ Leaves \/ Binds
  BY <1>1, <1>2, <1>4 DEF Skips, Turns, Defines, Enters, Leaves, Binds, NextDecl
<1>5. CASE Reads
  BY <1>1, <1>5 DEF Reads, Decl
<1>6. CASE Numbers
  BY <1>1, <1>2, <1>6, <1>p, IdAtNew DEF Numbers
<1> QED
  BY <1>3, <1>4, <1>5, <1>6, StepKinds

LEMMA NextAscend ==
  ASSUME TInv, SymInv, ValIsLast, Ascend, [Next]_vars PROVE Ascend'
<1>p. UNCHANGED prog
  BY ProgUnchanged
<1>1. SUFFICES ASSUME NEW d \in DOMAIN Decls, Decls[d].kind = "group",
                      NEW i \in DOMAIN Decls[d].items, NEW j \in DOMAIN Decls[d].items,
                      i < j, PassedAt(d, j)',
                      \A k \in i..j - 1 : IdAt(d, k)' # IntMax
               PROVE  IdAt(d, i)' < IdAt(d, j)'
  BY <1>p DEF Ascend, Decls
<1>2. /\ DOMAIN Decls[d].items = 1..Len(Decls[d].items) /\ Len(Decls[d].items) \in Nat
      /\ fi \in Nat /\ val \in MachineInt /\ IntMax \in Nat
  BY <1>1, ProgShape, IntMaxAssumption DEF TInv, TypeOK, PositionOK
<1>3. ASSUME NEW k \in i..j - 1 PROVE k \in DOMAIN Decls[d].items
  BY <1>2
<1>4. CASE PassedAt(d, j)
  <2>1. \A k \in i..j : PassedAt(d, k) /\ k \in DOMAIN Decls[d].items
    BY <1>2, <1>4 DEF PassedAt
  <2>2. \A k \in i..j : IdAt(d, k)' = IdAt(d, k)
    BY <1>1, <2>1, IdAtKept
  <2>3. \A k \in i..j - 1 : IdAt(d, k) # IntMax
    BY <1>1, <1>2, <2>2
  <2>4. IdAt(d, i) < IdAt(d, j)
    BY <1>1, <1>4, <2>3 DEF Ascend
  <2> QED
    BY <1>1, <1>2, <2>2, <2>4
<1>5. CASE Numbers /\ d = di /\ j = fi
  <2>1. /\ \A k \in i..j - 1 : PassedAt(d, k) /\ k \in DOMAIN Decls[d].items
        /\ fi > 1 /\ PassedAt(d, fi - 1) /\ fi - 1 \in i..j - 1
    BY <1>1, <1>2, <1>5 DEF PassedAt
  <2>2. \A k \in i..j - 1 : IdAt(d, k)' = IdAt(d, k) /\ IdAt(d, k) \in MachineInt
    BY <1>1, <2>1, IdAtKept
  <2>3. val = IdAt(d, fi - 1) /\ val # IntMax
    BY <1>1, <1>5, <2>1, <2>2 DEF ValIsLast
  <2>4. IdAt(d, i) <= val
    <3>1. CASE i = fi - 1
      BY <3>1, <2>2, <2>3, <1>1, <1>2 DEF MachineInt
    <3>2. CASE i # fi - 1
      <4>1. i < fi - 1 /\ fi - 1 \in DOMAIN Decls[d].items
        BY <3>2, <1>1, <1>2, <1>5, <2>1
      <4>2. \A k \in i..(fi - 1) - 1 : IdAt(d, k) # IntMax
        BY <1>1, <1>2, <1>5, <2>2
      <4>3. IdAt(d, i) < IdAt(d, fi - 1)
        BY <4>1, <4>2, <2>1, <1>1 DEF Ascend
      <4> QED
        BY <4>3, <2>2, <2>3, <1>1, <1>2, <2>1 DEF MachineInt
    <3> QED BY <3>1, <3>2
  <2>5. ItemVal > val /\ ItemVal \in Int
    <3>1. CASE Item.base
      <4>1. Item.idVal > val /\ Item.idVal \in MachineInt
        BY <3>1, <1>5, <2>1, ProgShape DEF Numbers, Item, Decl, TInv
      <4> QED
        BY <4>1, <3>1, <1>2 DEF ItemVal, MachineInt
    <3>2. CASE ~Item.base
      BY <3>2, <2>3, <1>2 DEF ItemVal, Succ, MachineInt
    <3> QED BY <3>1, <3>2
  <2>6. IdAt(d, j)' = ItemVal
    BY <1>1, <1>5, <1>p, IdAtNew
  <2>7. IdAt(d, i)' = IdAt(d, i) /\ IdAt(d, i) \in Int /\ val \in Int
    BY <1>1, <1>2, <2>2 DEF MachineInt
  <2> QED
    BY <2>4, <2>5, <2>6, <2>7
<1> QED
  BY <1>1, <1>4, <1>5, PassedItem

(* The ids of a group ascend up to the first that is the largest integer.  *)
THEOREM IdsAreAscending == Spec => []IdsAscend
<1> DEFINE Inv == TInv /\ SymInv /\ ValIsLast /\ Ascend
<1>1. Init => Inv
  <2> SUFFICES ASSUME Init PROVE Inv
    OBVIOUS
  <2>1. ProgOK
    BY DEF Init, ProgOK
  <2>2. \A d \in DOMAIN Decls : Decls[d].kind = "group" =>
          \A i \in DOMAIN Decls[d].items : ~PassedAt(d, i)
    BY <2>1, ProgShape DEF Init, PassedAt, Passed
  <2>3. ValIsLast
    BY <2>1, ProgShape DEF Init, ValIsLast
  <2>4. Ascend
    BY <2>2 DEF Ascend
  <2> QED
    BY <2>3, <2>4, InitTInv, InitSymInv
<1>2. Inv /\ [Next]_vars => Inv'
  BY NextTInv, NextSymInv, NextValIsLast, NextAscend
<1>3. Inv => IdsAscend
  BY DEF IdsAscend, Ascend, IdAt
<1> QED
  BY <1>1, <1>2, <1>3, PTL DEF Spec

-----------------------------------------------------------------------------
(***************************************************************************)
(* The walk over the fields implements ByteLayout.                         *)
(***************************************************************************)
GroupState == inAggr <=> bits # 0

LEMMA NextGroupState ==
  ASSUME TInv, GroupState, [Next]_vars PROVE GroupState'
<1>1. CASE Quiet \/ Skips \/ Turns \/ Defines \/ Numbers \/ Leaves \/ Binds
  BY <1>1 DEF Quiet, Skips, Turns, Defines, Numbers, Leaves, Binds, GroupState
<1>2. CASE Enters
  <2>1. CASE Decl.kind = "msg"
    <3>1. bits' = 0 /\ inAggr' = FALSE
      BY <1>2, <2>1 DEF Enters
    <3> QED BY <3>1 DEF GroupState
  <2>2. CASE Decl.kind = "group"
    BY <1>2, <2>2 DEF Enters, GroupState
  <2> QED BY <1>2, <2>1, <2>2 DEF Enters
<1>3. CASE Reads
  <2> DEFINE t == FieldVar.type
  <2>1. AggrOk(t) /\ AggrStep(t) /\ bits \in 0..7
    BY <1>3 DEF Reads, FieldOk, TInv, TypeOK
  <2>2. CASE inAggr
    <3>1. /\ bits' = IF bits + Bits(t) = 8 THEN 0 ELSE bits + Bits(t)
          /\ inAggr' = (bits + Bits(t) < 8)
          /\ bits + Bits(t) \in 1..8
      BY <2>1, <2>2, BitsRange DEF AggrStep, AggrOk
    <3>2. bits' # 0 <=> bits + Bits(t) < 8
      BY <3>1
    <3>3. inAggr' <=> bits + Bits(t) < 8
      BY <3>1
    <3> QED BY <3>2, <3>3 DEF GroupState
  <2>3. CASE ~inAggr /\ IsBitType(t)
    <3>1. bits' = Bits(t) /\ inAggr' = TRUE /\ Bits(t) \in 1..7
      BY <2>1, <2>3, BitsRange DEF AggrStep
    <3> QED BY <3>1 DEF GroupState
  <2>4. CASE ~inAggr /\ IsIntType(t) /\ ~IsBitType(t)
    BY <2>1, <2>4 DEF AggrStep, GroupState
  <2>5. CASE ~inAggr /\ ~IsIntType(t)
    <3>1. bits' = 0 /\ inAggr' = FALSE
      BY <2>1, <2>5 DEF AggrStep, IsBitType
    <3> QED BY <3>1 DEF GroupState
  <2> QED BY <2>2, <2>3, <2>4, <2>5
<1> QED
  BY <1>1, <1>2, <1>3, StepKinds

off    == IF InMsg THEN bits ELSE 0
placed == IF InMsg THEN fi - 1 ELSE 0

LEMMA LayoutStep ==
  ASSUME TInv, GroupState, [Next]_vars
  PROVE  Layout!Next \/ UNCHANGED <<off, placed>>
<1> USE DEF off, placed, InMsg, Decl, Decls, NextDecl
<1>1. CASE Quiet \/ Skips \/ Turns \/ Defines \/ Binds
  <2>1. CASE Quiet
    BY <2>1 DEF Quiet
  <2>2. CASE Skips
    BY <2>2, ProgShape DEF Skips, TInv, TypeOK, PositionOK
  <2>3. CASE Turns
    BY <2>3, ProgShape DEF Turns, TInv, TypeOK, PositionOK
  <2>4. CASE Defines
    BY <2>4, ProgShape DEF Defines, TInv, TypeOK, PositionOK
  <2>5. CASE Binds
    BY <2>5, ProgShape DEF Binds, TInv, TypeOK, PositionOK
  <2> QED
    BY <1>1, <2>1, <2>2, <2>3, <2>4, <2>5
<1>2. CASE Enters
  BY <1>2 DEF Enters
<1>3. CASE Numbers
  BY <1>3 DEF Numbers
<1>4. CASE Leaves
  BY <1>4 DEF Leaves, Layout!Next, Layout!NewMessage
<1>5. CASE Reads
  <2> DEFINE t == FieldVar.type
  <2>1. AggrOk(t) /\ AggrStep(t) /\ bits \in 0..7 /\ fi \in Nat \ {0}
    BY <1>5, ProgShape DEF Reads, FieldOk, TInv, TypeOK, PositionOK
  <2>2. off = bits /\ off' = bits' /\ placed = fi - 1 /\ placed' = fi
    BY <1>5, <2>1 DEF Reads
  <2>3. CASE inAggr
    <3>1. /\ Bits(t) \in 1..7 /\ bits + Bits(t) <= 8
          /\ bits' = IF bits + Bits(t) = 8 THEN 0 ELSE bits + Bits(t)
      BY <2>1, <2>3, BitsRange DEF AggrStep, AggrOk, GroupState
    <3>2. off + Bits(t) <= 8 /\ off' = (off + Bits(t)) % 8 /\ placed' = placed + 1
      BY <2>1, <2>2, <3>1
    <3> QED
      BY <3>1, <3>2 DEF Layout!Next, Layout!PutBits
  <2>4. CASE ~inAggr /\ IsBitType(t)
    <3>1. Bits(t) \in 1..7 /\ bits' = Bits(t) /\ bits = 0
      BY <2>1, <2>4, BitsRange DEF AggrStep, GroupState
    <3>2. off + Bits(t) <= 8 /\ off' = (off + Bits(t)) % 8 /\ placed' = placed + 1
      BY <2>1, <2>2, <3>1
    <3> QED
      BY <3>1, <3>2 DEF Layout!Next, Layout!PutBits
  <2>5. CASE ~inAggr /\ ~IsBitType(t)
    <3>1. bits' = 0 /\ bits = 0
      BY <2>1, <2>5 DEF AggrStep, GroupState
    <3>2. off = 0 /\ off' = 0 /\ placed' = placed + 1
      BY <2>1, <2>2, <3>1
    <3> QED
      BY <3>2 DEF Layout!Next, Layout!PutBytes
  <2> QED BY <2>3, <2>4, <2>5
<1> QED
  BY <1>1, <1>2, <1>3, <1>4, <1>5, StepKinds

(* Every message the analyser accepts is laid out the way ByteLayout says: *)
(* the spans of bits it computes never straddle a byte, and whole-byte     *)
(* fields start at a byte boundary.                                        *)
THEOREM LayoutRefined == Spec => LayoutSpec
<1>1. Init => TInv /\ GroupState /\ Layout!Init
  BY InitTInv DEF Init, GroupState, Layout!Init, InMsg
<1>2. TInv /\ GroupState /\ [Next]_vars => (TInv /\ GroupState)'
  BY NextTInv, NextGroupState
<1>3. TInv /\ GroupState /\ [Next]_vars => [Layout!Next]_(Layout!vars)
  BY LayoutStep DEF Layout!vars, off, placed
<1> QED
  BY <1>1, <1>2, <1>3, PTL DEF Spec, LayoutSpec, Layout!Spec

-----------------------------------------------------------------------------
(***************************************************************************)
(* An accepted message is laid out: the offsets the walk went through are  *)
(* the witness.                                                            *)
(***************************************************************************)
OffsetsOf(d, o) ==
  /\ \A i \in DOMAIN Decls[d].fields : PassedAt(d, i) => FitsAt(Decls[d].fields, o, i)
  /\ InMsg /\ d = di => bits = Before(o, fi)

LaidTo ==
  \A d \in DOMAIN Decls : Decls[d].kind = "msg" =>
    \E o \in [1..Len(Decls[d].fields) -> 0..7] : OffsetsOf(d, o)

(* A bit field that fits leaves the bits it fills, none in a full byte.    *)
LEMMA FilledByte ==
  ASSUME NEW b \in 0..7, NEW w \in 1..7, b + w <= 8
  PROVE  (IF b + w = 8 THEN 0 ELSE b + w) = (b + w) % 8
<1>1. CASE b + w = 8
  BY <1>1
<1>2. CASE b + w # 8
  <2>1. b + w \in 1..7
    BY <1>2
  <2>2. \A s \in 1..7 : s % 8 = s
    OBVIOUS
  <2> QED
    BY <1>2, <2>1, <2>2
<1> QED
  BY <1>1, <1>2

(* Reading field fi extends the witness by the bits it leaves used.        *)
LEMMA ReadsFits ==
  ASSUME TInv, GroupState, Reads, NEW o \in [1..Len(Decl.fields) -> 0..7], bits = Before(o, fi)
  PROVE  FitsAt(Decl.fields, [o EXCEPT ![fi] = bits'], fi) /\ bits' \in 0..7
<1> DEFINE t == FieldVar.type
           p == [o EXCEPT ![fi] = bits']
<1>1. AggrOk(t) /\ AggrStep(t) /\ bits \in 0..7 /\ inAggr \in BOOLEAN
  BY DEF Reads, FieldOk, TInv, TypeOK
<1>2. bits' \in 0..7
  BY <1>1, AggrType
<1>3. fi \in 1..Len(Decl.fields) /\ Len(Decl.fields) \in Nat
  BY ProgShape DEF Reads, Decl, TInv
<1>4. Before(p, fi) = bits /\ p[fi] = bits'
  BY <1>3 DEF Before
<1>5. CASE inAggr
  <2>1. /\ IsIntType(t) /\ Bits(t) \in 1..7 /\ bits + Bits(t) <= 8 /\ bits # 0
        /\ bits' = IF bits + Bits(t) = 8 THEN 0 ELSE bits + Bits(t)
    BY <1>1, <1>5, BitsRange DEF AggrStep, AggrOk, GroupState
  <2>2. bits' = (bits + Bits(t)) % 8
    <3> HIDE DEF t
    <3> QED
      BY <1>1, <2>1, FilledByte
  <2>3. /\ IsIntType(t) /\ Before(p, fi) # 0
        /\ Before(p, fi) + Bits(t) <= 8
        /\ p[fi] = (Before(p, fi) + Bits(t)) % 8
    BY <1>4, <2>1, <2>2
  <2> QED
    BY <1>2, <2>3 DEF FitsAt, FieldVar
<1>6. CASE ~inAggr /\ IsBitType(t)
  <2>1. IsIntType(t) /\ Bits(t) \in 1..7 /\ bits' = Bits(t) /\ bits = 0
    BY <1>1, <1>6, BitsRange DEF AggrStep, GroupState, IsBitType
  <2>2. bits' = (bits + Bits(t)) % 8 /\ bits + Bits(t) <= 8
    BY <2>1
  <2>3. /\ IsIntType(t) /\ IsBitType(t)
        /\ Before(p, fi) + Bits(t) <= 8
        /\ p[fi] = (Before(p, fi) + Bits(t)) % 8
    BY <1>4, <1>6, <2>1, <2>2
  <2> QED
    BY <1>2, <2>3 DEF FitsAt, FieldVar
<1>7. CASE ~inAggr /\ ~IsBitType(t)
  <2>1. bits' = 0 /\ bits = 0
    BY <1>1, <1>7 DEF AggrStep, GroupState
  <2> QED
    BY <1>2, <1>4, <1>7, <2>1 DEF FitsAt, FieldVar
<1> QED BY <1>5, <1>6, <1>7

LEMMA NextLaidTo ==
  ASSUME TInv, GroupState, LaidTo, [Next]_vars PROVE LaidTo'
<1>1. prog' = prog /\ Decls' = Decls
  BY ProgUnchanged DEF Decls
<1>2. SUFFICES ASSUME NEW d \in DOMAIN Decls, Decls[d].kind = "msg"
               PROVE  \E o \in [1..Len(Decls[d].fields) -> 0..7] : OffsetsOf(d, o)'
  BY <1>1 DEF LaidTo
<1>3. PICK o \in [1..Len(Decls[d].fields) -> 0..7] : OffsetsOf(d, o)
  BY <1>2 DEF LaidTo
<1>4. DOMAIN Decls[d].fields = 1..Len(Decls[d].fields) /\ Len(Decls[d].fields) \in Nat
  BY ProgShape, <1>2 DEF TInv
<1>5. CASE Reads /\ d = di
  <2>1. /\ Decl = Decls[d] /\ Decl.kind = "msg" /\ fi \in 1..Len(Decl.fields)
        /\ pass = 1 /\ pass' = 1 /\ di' = di /\ fi' = fi + 1
    BY <1>4, <1>5 DEF Reads, Decl
  <2>2. InMsg /\ fi \in Nat
    BY <2>1, <1>4 DEF InMsg
  <2>3. bits = Before(o, fi)
    BY <1>3, <1>5, <2>2 DEF OffsetsOf
  <2>4. PICK p \in [1..Len(Decls[d].fields) -> 0..7] :
          /\ p = [o EXCEPT ![fi] = bits'] /\ FitsAt(Decls[d].fields, p, fi)
    <3>1. FitsAt(Decls[d].fields, [o EXCEPT ![fi] = bits'], fi) /\ bits' \in 0..7
      BY <1>5, <2>1, <2>3, ReadsFits
    <3> QED BY <3>1
  <2>5. PICK k \in 1..Len(Decls[d].fields) : k = fi
    BY <2>1
  <2>6. \A i \in DOMAIN Decls[d].fields : PassedAt(d, i)' => FitsAt(Decls[d].fields, p, i)
    <3> SUFFICES ASSUME NEW i \in DOMAIN Decls[d].fields, PassedAt(d, i)'
                 PROVE  FitsAt(Decls[d].fields, p, i)
      OBVIOUS
    <3>1. CASE i = fi
      BY <2>4, <3>1
    <3>2. CASE i # fi
      <4>1. d' = d /\ d \in 1..Len(Decls) /\ Len(Decls) \in Nat
        BY ProgShape DEF TInv
      <4>2. i \in 1..fi - 1
        BY <1>4, <1>5, <2>1, <3>2, <4>1 DEF PassedAt, Passed
      <4>3. FitsAt(Decls[d].fields, o, i)
        BY <1>3, <1>5, <2>1, <4>2 DEF OffsetsOf, PassedAt
      <4>4. p[i] = o[i] /\ Before(p, i) = Before(o, i)
        BY <1>4, <2>1, <2>4, <4>2 DEF Before
      <4> QED BY <4>3, <4>4 DEF FitsAt
    <3> QED BY <3>1, <3>2
  <2>7. bits' = p[k] /\ fi' = k + 1
    BY <2>1, <2>4, <2>5
  <2>8. bits' = Before(p, fi')
    BY <2>5, <2>7 DEF Before
  <2>9. OffsetsOf(d, p)'
    BY <1>1, <2>6, <2>8 DEF OffsetsOf
  <2> QED BY <2>9
<1>6. CASE ~(Reads /\ d = di)
  <2>1. \A i \in DOMAIN Decls[d].fields : PassedAt(d, i)' => PassedAt(d, i)
    BY <1>2, <1>6, PassedField
  <2>2. InMsg' /\ d = di' => bits' = Before(o, fi')
    <3> SUFFICES ASSUME InMsg', d = di' PROVE bits' = Before(o, fi')
      OBVIOUS
    <3>1. Decl' = Decls[d]
      BY <1>1 DEF Decl
    <3>2. CASE Quiet
      BY <1>3, <1>1, <3>2 DEF Quiet, OffsetsOf, InMsg, Decl
    <3>3. CASE Enters
      <4>1. Decl.kind = "msg" /\ fi' = 1 /\ bits' = 0
        BY <1>2, <3>3 DEF Enters, Decl
      <4> QED BY <4>1 DEF Before
    <3>4. CASE Skips \/ Turns \/ Defines \/ Leaves \/ Binds
      BY <3>4 DEF Skips, Turns, Defines, Leaves, Binds, NextDecl, InMsg
    <3>5. CASE Numbers
      BY <1>2, <3>5 DEF Numbers, Decl
    <3> QED
      BY <1>6, <3>2, <3>3, <3>4, <3>5, StepKinds DEF Reads
  <2>3. OffsetsOf(d, o)'
    BY <1>1, <1>3, <2>1, <2>2 DEF OffsetsOf
  <2> QED BY <1>3, <2>3
<1> QED BY <1>5, <1>6

OkInPass2 == status = "ok" => pass = 2

LEMMA NextOk == ASSUME TInv, OkInPass2, [Next]_vars PROVE OkInPass2'
<1> USE DEF OkInPass2, TInv, TypeOK, PositionOK
<1>1. CASE CheckSpace \/ SkipDecl \/ EndPass
  BY <1>1 DEF CheckSpace, SkipDecl, EndPass
<1>2. CASE VisitConst \/ VisitExtern \/ EnterGroup \/ VisitItem \/ LeaveGroup
  BY <1>2 DEF VisitConst, VisitExtern, EnterGroup, VisitItem, LeaveGroup, Check, Reject, At
<1>3. CASE EnterMsg \/ VisitField \/ LeaveMsg \/ VisitBind
  BY <1>3 DEF EnterMsg, VisitField, LeaveMsg, VisitBind, Check, Reject, At
<1> QED BY <1>1, <1>2, <1>3 DEF Next, vars

(* Every message of every accepted file is laid out the way the generator  *)
(* assumes, whatever its fields.                                           *)
THEOREM AcceptedAreLaidOut == Spec => []AcceptedLaidOut
<1> DEFINE Inv == TInv /\ GroupState /\ LaidTo /\ OkInPass2
<1>1. Init => Inv
  <2> SUFFICES ASSUME Init PROVE LaidTo /\ OkInPass2
    BY InitTInv DEF Init, GroupState
  <2>1. ASSUME NEW d \in DOMAIN Decls, Decls[d].kind = "msg"
        PROVE  \E o \in [1..Len(Decls[d].fields) -> 0..7] : OffsetsOf(d, o)
    <3>1. \A i \in DOMAIN Decls[d].fields : ~PassedAt(d, i)
      BY InitTInv, ProgShape, <2>1 DEF Init, PassedAt, Passed, TInv
    <3>2. [i \in 1..Len(Decls[d].fields) |-> 0] \in [1..Len(Decls[d].fields) -> 0..7]
      OBVIOUS
    <3>3. \A o : OffsetsOf(d, o)
      BY <3>1 DEF OffsetsOf, Init, InMsg
    <3> QED BY <3>2, <3>3
  <2> QED BY <2>1 DEF LaidTo, OkInPass2, Init
<1>2. Inv /\ [Next]_vars => Inv'
  BY NextTInv, NextGroupState, NextLaidTo, NextOk
<1>3. Inv => AcceptedLaidOut
  <2> SUFFICES ASSUME Inv, status = "ok", NEW d \in DOMAIN Decls, Decls[d].kind = "msg"
               PROVE  LaidOut(Decls[d].fields)
    BY DEF AcceptedLaidOut
  <2>1. PICK o \in [1..Len(Decls[d].fields) -> 0..7] : OffsetsOf(d, o)
    BY DEF LaidTo
  <2>2. \A i \in DOMAIN Decls[d].fields : PassedAt(d, i)
    BY DEF PassedAt, Passed, OkInPass2
  <2> QED
    BY <2>1, <2>2 DEF OffsetsOf, LaidOut, LaidOutBy
<1> QED
  BY <1>1, <1>2, <1>3, PTL DEF Spec

(* An array of an accepted message has a limit: without one the decoder of *)
(* the message could not be written (visitMsgDefine, "array must define    *)
(* limit field").                                                          *)
HasLimit(f) == f.type.k = "array" => f.limit # NoName

LimitsPassed ==
  \A d \in DOMAIN Decls : Decls[d].kind = "msg" =>
    \A i \in DOMAIN Decls[d].fields : PassedAt(d, i) => HasLimit(Decls[d].fields[i])

LEMMA NextLimitsPassed == ASSUME TInv, LimitsPassed, [Next]_vars PROVE LimitsPassed'
<1>p. Decls' = Decls
  BY ProgUnchanged DEF Decls
<1>1. SUFFICES ASSUME NEW d \in DOMAIN Decls, Decls[d].kind = "msg",
                      NEW i \in DOMAIN Decls[d].fields, PassedAt(d, i)'
               PROVE  HasLimit(Decls[d].fields[i])
  BY <1>p DEF LimitsPassed
<1>2. CASE PassedAt(d, i)
  BY <1>1, <1>2 DEF LimitsPassed
<1>3. CASE Reads /\ d = di /\ i = fi
  BY <1>3 DEF Reads, FieldOk, FieldVar, Decl, HasLimit
<1> QED
  BY <1>1, <1>2, <1>3, PassedField

AcceptedHaveLimits ==
  status = "ok" =>
    \A d \in DOMAIN Decls : Decls[d].kind = "msg" =>
      \A i \in DOMAIN Decls[d].fields : HasLimit(Decls[d].fields[i])

LEMMA ArraysLimited == Spec => []AcceptedHaveLimits
<1> DEFINE Inv == TInv /\ LimitsPassed /\ OkInPass2
<1>1. Init => Inv
  <2> SUFFICES ASSUME Init PROVE LimitsPassed /\ OkInPass2
    BY InitTInv
  <2>1. ASSUME NEW d \in DOMAIN Decls, Decls[d].kind = "msg"
        PROVE  \A i \in DOMAIN Decls[d].fields : ~PassedAt(d, i)
    BY InitTInv, ProgShape, <2>1 DEF Init, PassedAt, Passed, TInv
  <2> QED BY <2>1 DEF LimitsPassed, OkInPass2, Init
<1>2. Inv /\ [Next]_vars => Inv'
  BY NextTInv, NextLimitsPassed, NextOk
<1>3. Inv => AcceptedHaveLimits
  BY DEF LimitsPassed, OkInPass2, AcceptedHaveLimits, PassedAt, Passed
<1> QED
  BY <1>1, <1>2, <1>3, PTL DEF Spec

(* The fields of an accepted message have names of their own.              *)
OwnNames(fs) == \A i, j \in DOMAIN fs : fs[i].name = fs[j].name => i = j

AcceptedOwnNames ==
  status = "ok" => \A d \in DOMAIN Decls : Decls[d].kind = "msg" => OwnNames(Decls[d].fields)

LEMMA FieldsDistinct == Spec => []AcceptedOwnNames
<1> DEFINE Inv == TInv /\ OkInPass2
<1>1. Init => Inv
  BY InitTInv DEF Init, OkInPass2
<1>2. Inv /\ [Next]_vars => Inv'
  BY NextTInv, NextOk
<1>3. Inv /\ NoRedeclaration => AcceptedOwnNames
  <2> SUFFICES ASSUME Inv, NoRedeclaration, status = "ok",
                      NEW d \in DOMAIN Decls, Decls[d].kind = "msg",
                      NEW i \in DOMAIN Decls[d].fields, NEW j \in DOMAIN Decls[d].fields,
                      Decls[d].fields[i].name = Decls[d].fields[j].name
               PROVE  i = j
    BY DEF AcceptedOwnNames, OwnNames
  <2>1. i \in Int /\ j \in Int
    BY ProgShape DEF TInv
  <2>2. PassedAt(d, i) /\ PassedAt(d, j)
    BY DEF PassedAt, Passed, OkInPass2
  <2>3. ~(i < j) /\ ~(j < i)
    BY <2>2 DEF NoRedeclaration
  <2> QED
    BY <2>1, <2>3
<1> QED
  BY <1>1, <1>2, <1>3, NamesUnique, PTL DEF Spec

-----------------------------------------------------------------------------
(***************************************************************************)
(* The check counts bits exactly: what it keeps of a message is the sum of *)
(* the widths of the fields read, modulo 8.                                *)
(***************************************************************************)
LEMMA BitsSum ==
  ASSUME NEW fields, Len(fields) \in Nat
  PROVE  /\ BitsOf(fields)[0] = 0
         /\ \A n \in 1..Len(fields) :
              /\ BitsOf(fields)[n - 1] \in Nat
              /\ BitsOf(fields)[n] = BitsOf(fields)[n - 1] + Bits(fields[n].type)
<1> DEFINE Step(g, k) == IF k = 0 THEN 0 ELSE g[k - 1] + Bits(fields[k].type)
           T == {n \in Nat : \E g : g = [k \in 0..n |-> Step(g, k)]}
<1>1. 0 \in T
  <2> DEFINE g == [k \in 0..0 |-> 0]
  <2>1. g = [k \in 0..0 |-> Step(g, k)]
    OBVIOUS
  <2> QED
    BY <2>1
<1>2. ASSUME NEW n \in Nat, n \in T PROVE n + 1 \in T
  <2>1. PICK g : g = [k \in 0..n |-> Step(g, k)]
    BY <1>2
  <2> DEFINE h == [k \in 0..n+1 |-> IF k = n + 1 THEN Step(g, k) ELSE g[k]]
  <2>2. ASSUME NEW k \in 0..n+1 PROVE h[k] = Step(h, k)
    <3>1. k # 0 => h[k - 1] = g[k - 1]
      OBVIOUS
    <3>2. Step(h, k) = Step(g, k)
      BY <3>1
    <3>3. k # n + 1 => g[k] = Step(g, k)
      <4> HIDE DEF Step, h
      <4> QED
        BY <2>1
    <3> QED
      BY <3>2, <3>3
  <2>3. h = [k \in 0..n+1 |-> Step(h, k)]
    <3>1. h = [k \in 0..n+1 |-> h[k]]
      OBVIOUS
    <3> HIDE DEF h, Step
    <3> QED
      BY <2>2, <3>1
  <2> HIDE DEF h, Step
  <2>4. \E f : f = [k \in 0..n+1 |-> Step(f, k)]
    BY <2>3
  <2> QED
    BY <2>4
<1>3. Len(fields) \in T
  <2> HIDE DEF T
  <2> QED
    BY <1>1, <1>2, SetInduction
<1> DEFINE sum == CHOOSE g : g = [k \in 0..Len(fields) |-> Step(g, k)]
<1>4. sum = [k \in 0..Len(fields) |-> Step(sum, k)]
  <2> HIDE DEF Step
  <2> QED
    BY <1>3
<1>5. BitsOf(fields) = sum
  BY DEF BitsOf
<1>6. \A k \in 0..Len(fields) : sum[k] = Step(sum, k)
  <2> HIDE DEF Step, sum
  <2> QED
    BY <1>4
<1> HIDE DEF sum
<1>7. sum[0] = 0 /\ \A k \in 1..Len(fields) : sum[k] = sum[k - 1] + Bits(fields[k].type)
  BY <1>6
<1> DEFINE N == {n \in Nat : n <= Len(fields) => sum[n] \in Nat}
<1>8. 0 \in N
  BY <1>7
<1>9. ASSUME NEW n \in Nat, n \in N PROVE n + 1 \in N
  <2>1. SUFFICES ASSUME n + 1 <= Len(fields) PROVE sum[n + 1] \in Nat
    OBVIOUS
  <2>2. n + 1 \in 1..Len(fields) /\ (n + 1) - 1 = n /\ sum[n] \in Nat
    BY <1>9, <2>1
  <2>3. Bits(fields[n + 1].type) \in Nat
    BY BitsRange
  <2> QED
    BY <1>7, <2>2, <2>3
<1>10. Nat \subseteq N
  <2> HIDE DEF N
  <2> QED
    BY <1>8, <1>9, SetInduction
<1> QED
  BY <1>5, <1>7, <1>10

(* Adding a width to a sum whose remainder is known.                       *)
LEMMA SumModulo ==
  ASSUME NEW s \in Nat, NEW w \in Nat
  PROVE  (s + w) % 8 = ((s % 8) + w) % 8
  OBVIOUS

BitsExact == InMsg => bits = BitsOf(Decl.fields)[fi - 1] % 8

LEMMA NextBitsExact ==
  ASSUME TInv, GroupState, BitsExact, [Next]_vars PROVE BitsExact'
<1>1. CASE Quiet
  BY <1>1 DEF Quiet, BitsExact, InMsg, Decl, Decls
<1>2. CASE Skips \/ Turns \/ Defines \/ Leaves \/ Binds
  BY <1>2 DEF Skips, Turns, Defines, Leaves, Binds, NextDecl, BitsExact, InMsg
<1>3. CASE Enters
  <2>1. Decl' = Decl /\ fi' = 1
    BY <1>3 DEF Enters, Decl, Decls
  <2>2. SUFFICES ASSUME Decl.kind = "msg" PROVE bits' = BitsOf(Decl.fields)[0] % 8
    BY <2>1 DEF BitsExact, InMsg
  <2>3. bits' = 0 /\ Len(Decl.fields) \in Nat
    BY <1>3, <2>2, ProgShape DEF Enters, Decl, TInv
  <2>4. BitsOf(Decl.fields)[0] = 0
    BY <2>3, BitsSum
  <2> QED
    BY <2>3, <2>4
<1>4. CASE Numbers
  BY <1>4 DEF Numbers, BitsExact, InMsg, Decl, Decls
<1>5. CASE Reads
  <2> DEFINE t == FieldVar.type
             s == BitsOf(Decl.fields)[fi - 1]
  <2>1. /\ AggrOk(t) /\ AggrStep(t) /\ bits \in 0..7 /\ inAggr \in BOOLEAN
        /\ fi \in 1..Len(Decl.fields) /\ Len(Decl.fields) \in Nat
    BY <1>5, ProgShape DEF Reads, FieldOk, TInv, TypeOK, Decl
  <2>2. Decl' = Decl /\ fi' = fi + 1 /\ InMsg
    BY <1>5, <2>1 DEF Reads, Decl, Decls, InMsg
  <2>3. s \in Nat /\ BitsOf(Decl.fields)[fi] = s + Bits(t) /\ bits = s % 8
    BY <2>1, <2>2, BitsSum DEF BitsExact, FieldVar
  <2>4. bits' = (bits + Bits(t)) % 8
    <3>1. CASE inAggr
      <4>1. /\ Bits(t) \in 1..7 /\ bits + Bits(t) <= 8
            /\ bits' = IF bits + Bits(t) = 8 THEN 0 ELSE bits + Bits(t)
        BY <2>1, <3>1, BitsRange DEF AggrStep, AggrOk, GroupState
      <4> HIDE DEF t
      <4> QED
        BY <2>1, <4>1, FilledByte
    <3>2. CASE ~inAggr /\ IsBitType(t)
      <4>1. Bits(t) \in 1..7 /\ bits' = Bits(t) /\ bits = 0
        BY <2>1, <3>2, BitsRange DEF AggrStep, GroupState
      <4> QED
        BY <4>1
    <3>3. CASE ~inAggr /\ ~IsBitType(t)
      <4>1. bits' = 0 /\ bits = 0
        BY <2>1, <3>3 DEF AggrStep, GroupState
      <4>2. Bits(t) \in Nat
        BY BitsRange
      <4>3. Bits(t) % 8 = 0
        <5>1. CASE IsIntType(t)
          BY <3>3, <5>1 DEF IsBitType
        <5>2. CASE ~IsIntType(t)
          <6>1. Bits(t) = 0
            BY <5>2 DEF Bits
          <6> QED BY <6>1
        <5> QED BY <5>1, <5>2
      <4> HIDE DEF t
      <4> QED
        BY <4>1, <4>2, <4>3
    <3> QED BY <2>1, <3>1, <3>2, <3>3
  <2>5. bits' = (s + Bits(t)) % 8
    <3>1. Bits(t) \in Nat
      BY BitsRange
    <3> HIDE DEF t, s
    <3> QED
      BY <2>3, <2>4, <3>1, SumModulo
  <2>6. fi' - 1 = fi
    BY <2>1, <2>2
  <2> QED
    BY <2>2, <2>3, <2>5, <2>6 DEF BitsExact
<1> QED
  BY <1>1, <1>2, <1>3, <1>4, <1>5, StepKinds

(* The open group of every message holds the bits of its fields since the  *)
(* last byte boundary, no more and no fewer, however the widths add up.    *)
THEOREM GroupsAreExact == Spec => []GroupExact
<1> DEFINE Inv == TInv /\ GroupState /\ BitsExact
<1>1. Init => Inv
  BY InitTInv DEF Init, GroupState, BitsExact, InMsg
<1>2. Inv /\ [Next]_vars => Inv'
  BY NextTInv, NextGroupState, NextBitsExact
<1>3. Inv => GroupExact
  BY DEF GroupState, BitsExact, GroupExact
<1> QED
  BY <1>1, <1>2, <1>3, PTL DEF Spec

-----------------------------------------------------------------------------
(***************************************************************************)
(* What the dispatch of an accepted file can count on: the binds and the   *)
(* records of the ids say the same.                                        *)
(***************************************************************************)

(* A message recorded with an id is there because of a bind.               *)
Recorded ==
  \A n \in DOMAIN midMap : midMap[n].bindMsg # NoName =>
    \E d \in DOMAIN Decls : /\ Bound(d) /\ Decls[d].msgId = n
                            /\ Decls[d].msgName = midMap[n].bindMsg

LEMMA NextRecorded == ASSUME TInv, Recorded, [Next]_vars PROVE Recorded'
<1>p. Decls' = Decls
  BY ProgUnchanged DEF Decls
<1>k. /\ DOMAIN Decls = 1..Len(Decls) /\ Len(Decls) \in Nat
      /\ di \in 1..Len(Decls) + 1
  BY ProgShape DEF TInv, TypeOK, PositionOK
<1>b. ASSUME NEW d \in DOMAIN Decls, Bound(d) PROVE Bound(d)'
  <2>1. Decls[d].kind = "bind" /\ Decls[d].msgName # NoName /\ pass = 2 /\ d < di
    BY <1>b DEF Bound
  <2>2. pass' = 2 /\ d < di'
    <3>1. CASE Quiet
      BY <2>1, <3>1 DEF Quiet
    <3>2. CASE Skips \/ Binds
      BY <1>k, <2>1, <3>2 DEF Skips, Binds, NextDecl
    <3>3. CASE Turns \/ Defines \/ Enters \/ Numbers \/ Reads \/ Leaves
      BY <2>1, <3>3 DEF Turns, Defines, Enters, Numbers, Reads, Leaves
    <3> QED
      BY <3>1, <3>2, <3>3, StepKinds
  <2> QED
    BY <1>p, <2>1, <2>2 DEF Bound
<1>1. CASE UNCHANGED midMap
  BY <1>1, <1>p, <1>b DEF Recorded
<1>2. CASE Numbers
  <2> DEFINE v == [isMsgId |-> Decl.isMsgId, idVal |-> ItemVal, bindMsg |-> NoName]
  <2>1. midMap' = Put(midMap, Item.name, v) /\ v.bindMsg = NoName
    BY <1>2 DEF Numbers
  <2> HIDE DEF v
  <2>2. /\ DOMAIN midMap' = DOMAIN midMap \cup {Item.name}
        /\ midMap'[Item.name].bindMsg = NoName
        /\ \A n \in DOMAIN midMap : n # Item.name => midMap'[n] = midMap[n]
    BY <2>1 DEF Put
  <2> QED
    BY <1>p, <1>b, <2>2 DEF Recorded
<1>3. CASE Binds
  <2>1. /\ midMap' = [midMap EXCEPT ![Decl.msgId].bindMsg = Decl.msgName]
        /\ Decl.msgId \in DOMAIN midMap
    BY <1>3 DEF Binds, BindOk
  <2>2. PICK d \in DOMAIN Decls : d = di /\ Bound(d)'
    BY <1>3, <1>p, <1>k DEF Binds, Bound, NextDecl, Decl
  <2>3. \A n \in DOMAIN midMap : n # Decl.msgId => midMap'[n] = midMap[n]
    BY <2>1
  <2>4. DOMAIN midMap[Decl.msgId] = {"isMsgId", "idVal", "bindMsg"}
    BY <2>1 DEF TInv, TypeOK, IdsOK
  <2>5. DOMAIN midMap' = DOMAIN midMap /\ midMap'[Decl.msgId].bindMsg = Decl.msgName
    BY <2>1, <2>4
  <2>6. Decls[d] = Decl
    BY <2>2 DEF Decl
  <2>7. SUFFICES ASSUME NEW n \in DOMAIN midMap, midMap'[n].bindMsg # NoName
                 PROVE  \E e \in DOMAIN Decls : /\ Bound(e)' /\ Decls[e].msgId = n
                                                /\ Decls[e].msgName = midMap'[n].bindMsg
    BY <1>p, <2>5 DEF Recorded
  <2>8. CASE n = Decl.msgId
    BY <2>2, <2>5, <2>6, <2>8
  <2>9. CASE n # Decl.msgId
    BY <1>b, <2>3, <2>7, <2>9 DEF Recorded
  <2> QED
    BY <2>8, <2>9
<1>4. CASE Quiet \/ Skips \/ Turns \/ Defines \/ Enters \/ Reads \/ Leaves
  BY <1>1, <1>4 DEF Quiet, Skips, Turns, Defines, Enters, Reads, Leaves
<1> QED
  BY <1>2, <1>3, <1>4, StepKinds

OkAtEnd == status = "ok" => pass = 2 /\ di = Len(Decls) + 1

LEMMA NextOkAtEnd == ASSUME TInv, OkAtEnd, [Next]_vars PROVE OkAtEnd'
<1>p. Decls' = Decls
  BY ProgUnchanged DEF Decls
<1> USE DEF OkAtEnd, TInv, TypeOK, PositionOK
<1>1. CASE CheckSpace \/ SkipDecl \/ EndPass
  BY <1>p, <1>1 DEF CheckSpace, SkipDecl, EndPass
<1>2. CASE VisitConst \/ VisitExtern \/ EnterGroup \/ VisitItem \/ LeaveGroup
  BY <1>2 DEF VisitConst, VisitExtern, EnterGroup, VisitItem, LeaveGroup, Check, Reject, At
<1>3. CASE EnterMsg \/ VisitField \/ LeaveMsg \/ VisitBind
  BY <1>3 DEF EnterMsg, VisitField, LeaveMsg, VisitBind, Check, Reject, At
<1> QED BY <1>p, <1>1, <1>2, <1>3 DEF Next, vars

(* A bind to a message, nil aside.                                         *)
BindsMsg(d) == Decls[d].kind = "bind" /\ Decls[d].msgName # NoName

AcceptedBinds ==
  status = "ok" =>
    /\ \A d \in DOMAIN Decls : BindsMsg(d) =>
         /\ Decls[d].msgId \in DOMAIN midMap
         /\ midMap[Decls[d].msgId].bindMsg = Decls[d].msgName
    /\ \A d, e \in DOMAIN Decls :
         BindsMsg(d) /\ BindsMsg(e) /\ Decls[d].msgId = Decls[e].msgId => d = e
    /\ \A n \in DOMAIN midMap : midMap[n].bindMsg # NoName =>
         \E d \in DOMAIN Decls : /\ BindsMsg(d) /\ Decls[d].msgId = n
                                 /\ Decls[d].msgName = midMap[n].bindMsg

LEMMA BindsRecorded == Spec => []AcceptedBinds
<1> DEFINE Inv == TInv /\ Recorded /\ OkAtEnd
<1>1. Init => Inv
  BY InitTInv DEF Init, Recorded, OkAtEnd
<1>2. Inv /\ [Next]_vars => Inv'
  BY NextTInv, NextRecorded, NextOkAtEnd
<1>3. Inv /\ BindsSound => AcceptedBinds
  <2> SUFFICES ASSUME Inv, BindsSound, status = "ok" PROVE AcceptedBinds
    BY DEF AcceptedBinds
  <2>1. \A d \in DOMAIN Decls : BindsMsg(d) <=> Bound(d)
    BY ProgShape DEF TInv, OkAtEnd, BindsMsg, Bound
  <2> QED
    BY <2>1 DEF BindsSound, Recorded, AcceptedBinds
<1> QED
  BY <1>1, <1>2, <1>3, BindsAreSound, PTL DEF Spec
=============================================================================
