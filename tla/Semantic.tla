------------------------------ MODULE Semantic ------------------------------
(***************************************************************************)
(* The semantic analyser (protoc/semantic.go).  DoAnalyze walks the        *)
(* declarations of a program twice: the first pass fills the symbol table, *)
(* numbers the ids and checks every message field by field, the second     *)
(* pass visits only the binds.  The first rejected node panics and ends    *)
(* the analysis.                                                           *)
(*                                                                         *)
(* One action per visited node: a declaration, an item of an id group, a   *)
(* field of a message.  A rejecting step leaves the tables as they were:   *)
(* the analyser is dropped after the panic and nobody reads them again.    *)
(*                                                                         *)
(* A definition Op_Slip just before Op is Op with one plausible mistake;   *)
(* nothing refers to it but the mutation runs, which put it in place of Op *)
(* to see that the properties notice.                                      *)
(***************************************************************************)
EXTENDS LweTypes

CONSTANTS Programs,  \* the syntax trees the parser may deliver
          IntMax     \* the largest machine integer (2^63 - 1 in Go)

ASSUME IntMaxAssumption == IntMax \in Nat \ {0}

MachineInt == -IntMax - 1 .. IntMax

(* What the parser guarantees of a program: sequences are sequences, and   *)
(* the value written in an id item is a machine integer (intConstVal).     *)
Kinds == {"const", "extern", "group", "msg", "bind", "typedef", "comment"}

WellFormed(p) ==
  /\ IsSequence(p.decls)
  /\ \A d \in DOMAIN p.decls :
       /\ p.decls[d].kind \in Kinds
       /\ p.decls[d].kind = "group" =>
            /\ IsSequence(p.decls[d].items)
            /\ \A i \in DOMAIN p.decls[d].items :
                 /\ p.decls[d].items[i].idVal \in MachineInt
                 /\ p.decls[d].items[i].base \in BOOLEAN
       /\ p.decls[d].kind = "msg" => IsSequence(p.decls[d].fields)

ASSUME ProgramsAssumption == \A p \in Programs : WellFormed(p)

VARIABLES
  prog,     \* the program under analysis (never assigned)
  pass,     \* 1 while se.firstPass, then 2
  di,       \* index of the declaration being visited
  fi,       \* 0 at a declaration, i at item or field i inside one
  globals,  \* the symbol table of level 0: name -> symbol
  locals,   \* the symbol table of level 1 inside a message, else empty
  midMap,   \* id name -> [isMsgId, idVal, bindMsg], se.midMap and its items
  val,      \* visitIdGroupDefine's running id
  inAggr, bits,  \* visitMsgDefine's open bit group
  status    \* "start" | "run" | "ok" | "reject"

vars == <<prog, pass, di, fi, globals, locals, midMap, val, inAggr, bits, status>>

tables == <<globals, locals, midMap>>
group  == <<val, inAggr, bits>>

Decls == prog.decls
Decl  == Decls[di]
-----------------------------------------------------------------------------
(* Symbol tables.                                                          *)

BuiltinSym == [k |-> "builtin"]
VarSym(t)  == [k |-> "var", type |-> RealType(t)]

EmptyTable == [n \in {} |-> BuiltinSym]
NewSymTable == [n \in Builtins |-> BuiltinSym]

Put(tab, n, v) == [x \in DOMAIN tab \cup {n} |-> IF x = n THEN v ELSE tab[x]]

(* Chained lookup from the current table.                                  *)
Visible(n) == n \in DOMAIN locals \cup DOMAIN globals
Lookup(n)  == IF n \in DOMAIN locals THEN locals[n] ELSE globals[n]

(* visitVarRef: the symbol exists and is a variable, else it panics.       *)
IsVar(n)   == Visible(n) /\ Lookup(n).k = "var"
VarType(n) == Lookup(n).type

(* The closure visit of visitMsgDefine: an absent reference passes, any    *)
(* other must have the signature of an integer (a nil type panics).        *)
RefOk_Unseen(n) == n = NoName \/ ~Visible(n) \/ Signature(VarType(n)) = "I"
RefOk(n) == n = NoName \/ (IsVar(n) /\ Signature(VarType(n)) = "I")
-----------------------------------------------------------------------------
(* Constant expressions.  An expression is the sequence of its leaves plus *)
(* the flag plus, "every operator is PLUS": a tree of binary operators is  *)
(* accepted iff all its leaves have one signature, I, or S under PLUS, and *)
(* its type is the type of its leftmost leaf.  A leaf under a unary        *)
(* operator has un = TRUE; arg is the field of a dot reference and the     *)
(* index variable of an indexed one (absent for a literal index).          *)

MsgFields(n) ==
  LET d == CHOOSE d \in DOMAIN Decls : Decls[d].kind = "msg" /\ Decls[d].name = n
  IN  Decls[d].fields

FieldTypes(n, f) ==
  {RealType(MsgFields(n)[i].type) : i \in {j \in DOMAIN MsgFields(n) : MsgFields(n)[j].name = f}}

LeafOk(l) ==
  CASE l.k = "int" -> TRUE
    [] l.k = "str" -> ~l.un
    [] l.k = "ref" -> IsVar(l.name) /\ VarType(l.name) # NilType
    [] l.k = "dot" -> /\ ~l.un
                      /\ IsVar(l.name) /\ VarType(l.name).k = "struct"
                      /\ FieldTypes(VarType(l.name).name, l.arg) \notin {{}, {NilType}}
    [] l.k = "idx" -> /\ ~l.un
                      /\ l.arg = NoName \/ (IsVar(l.arg) /\ VarType(l.arg) = Prim("int"))
                      /\ IsVar(l.name) /\ VarType(l.name).k = "array"

LeafType(l) ==
  CASE l.k = "int" -> Prim("int")
    [] l.k = "str" -> Prim("string")
    [] l.k = "ref" -> VarType(l.name)
    [] l.k = "dot" -> CHOOSE t \in FieldTypes(VarType(l.name).name, l.arg) : TRUE
    [] l.k = "idx" -> VarType(l.name).elem

ExprOk(d) ==
  /\ \A i \in DOMAIN d.leaves : LeafOk(d.leaves[i])
  /\ Len(d.leaves) > 1 =>
       LET sigs == {Signature(LeafType(d.leaves[i])) : i \in DOMAIN d.leaves}
       IN  sigs = {"I"} \/ (sigs = {"S"} /\ d.plus)
-----------------------------------------------------------------------------
(* The position in the walk.                                               *)

At(kind) == /\ status = "run"
            /\ di \in DOMAIN Decls
            /\ Decl.kind = kind

NextDecl == di' = di + 1 /\ fi' = 0

Reject == /\ status' = "reject"
          /\ UNCHANGED <<prog, pass, di, fi, tables, group>>

(* Guard a visit by what the code checks: the node passes or it panics.    *)
Check(ok, step) == IF ok THEN step /\ UNCHANGED <<prog, pass, status>> ELSE Reject

(* visitProgram opens every pass with the check of the message space.      *)
CheckSpace ==
  /\ status = "start"
  /\ status' = IF prog.mspace = NoName THEN "reject" ELSE "run"
  /\ UNCHANGED <<prog, pass, di, fi, tables, group>>

(* Comments and type declarations are walked over; so is a bind in the     *)
(* first pass and everything else in the second.                           *)
SkipDecl_NoSecondPass ==
  /\ status = "run" /\ di \in DOMAIN Decls /\ fi = 0
  /\ Decl.kind \in {"comment", "typedef"} \/ (pass = 1 /\ Decl.kind = "bind")
  /\ NextDecl
  /\ UNCHANGED <<prog, pass, status, tables, group>>

SkipDecl ==
  /\ status = "run" /\ di \in DOMAIN Decls /\ fi = 0
  /\ \/ Decl.kind \in {"comment", "typedef"}
     \/ pass = 1 /\ Decl.kind = "bind"
     \/ pass = 2 /\ Decl.kind # "bind"
  /\ NextDecl
  /\ UNCHANGED <<prog, pass, status, tables, group>>

EndPass ==
  /\ status = "run" /\ di = Len(Decls) + 1
  /\ IF pass = 1
     THEN pass' = 2 /\ di' = 1 /\ fi' = 0 /\ status' = "start"
     ELSE status' = "ok" /\ UNCHANGED <<pass, di, fi>>
  /\ UNCHANGED <<prog, tables, group>>
-----------------------------------------------------------------------------
(* First pass: constants, external variables.                              *)

VisitConst ==
  /\ At("const") /\ pass = 1
  /\ Check(Decl.name \notin DOMAIN globals /\ ExprOk(Decl),
           /\ globals' = Put(globals, Decl.name, VarSym(LeafType(Decl.leaves[1])))
           /\ NextDecl
           /\ UNCHANGED <<locals, midMap, group>>)

VisitExtern ==
  /\ At("extern") /\ pass = 1
  /\ Check(Decl.name \notin DOMAIN globals,
           /\ globals' = Put(globals, Decl.name, VarSym(Decl.type))
           /\ NextDecl
           /\ UNCHANGED <<locals, midMap, group>>)
-----------------------------------------------------------------------------
(* First pass: id groups.  An empty group returns before its name is even  *)
(* looked up.  Ids are numbered upwards: a written value must exceed the   *)
(* previous id, an unwritten one is the successor, in machine arithmetic.  *)

Succ(v) == IF v = IntMax THEN -IntMax - 1 ELSE v + 1

EnterGroup ==
  /\ At("group") /\ pass = 1 /\ fi = 0
  /\ IF Decl.items = <<>>
     THEN /\ NextDecl
          /\ UNCHANGED <<prog, pass, status, tables, group>>
     ELSE Check(Decl.name \notin DOMAIN globals,
                /\ globals' = Put(globals, Decl.name, VarSym(Prim("int")))
                /\ val' = 0
                /\ fi' = 1
                /\ UNCHANGED <<di, locals, midMap, inAggr, bits>>)

ItemOk_Equal(id) ==
  /\ id.name \notin DOMAIN midMap
  /\ id.base /\ fi > 1 => id.idVal >= val

ItemOk_Twin(id) == id.base /\ fi > 1 => id.idVal > val

ItemOk(id) ==
  /\ id.name \notin DOMAIN midMap
  /\ id.base /\ fi > 1 => id.idVal > val

VisitItem ==
  /\ At("group") /\ fi \in DOMAIN Decl.items
  /\ LET id == Decl.items[fi]
         v  == IF id.base THEN id.idVal ELSE Succ(val)
     IN  Check(ItemOk(id),
               /\ midMap' = Put(midMap, id.name,
                                [isMsgId |-> Decl.isMsgId, idVal |-> v, bindMsg |-> NoName])
               /\ val' = v
               /\ fi' = fi + 1
               /\ UNCHANGED <<di, globals, locals, inAggr, bits>>)

LeaveGroup ==
  /\ At("group") /\ fi = Len(Decl.items) + 1 /\ fi > 1
  /\ NextDecl
  /\ UNCHANGED <<prog, pass, status, tables, group>>
-----------------------------------------------------------------------------
(* First pass: messages.                                                   *)

EnterMsg ==
  /\ At("msg") /\ pass = 1 /\ fi = 0
  /\ Check(Decl.name \notin DOMAIN globals,
           /\ globals' = Put(globals, Decl.name, VarSym(StructOf(Decl.name)))
           /\ locals' = NewSymTable
           /\ inAggr' = FALSE /\ bits' = 0
           /\ fi' = 1
           /\ UNCHANGED <<di, midMap, val>>)

(* The bit group: inside one only integers are allowed and together they   *)
(* must not pass 8 bits; a bit type outside one opens a group; a type that *)
(* is no integer resets it.                                                *)
AggrOk_NoLimit(t) == inAggr => IsIntType(t)
AggrOk_NotInt(t) == inAggr => bits + Bits(t) <= 8
AggrOk(t) == inAggr => IsIntType(t) /\ bits + Bits(t) <= 8

AggrStep_NoReset(t) ==
  CASE inAggr -> bits' = bits + Bits(t) /\ inAggr' = (bits + Bits(t) < 8)
    [] ~inAggr /\ IsBitType(t) -> bits' = Bits(t) /\ inAggr' = TRUE
    [] OTHER -> UNCHANGED <<bits, inAggr>>

AggrStep(t) ==
  CASE inAggr -> /\ bits' = IF bits + Bits(t) = 8 THEN 0 ELSE bits + Bits(t)
                 /\ inAggr' = (bits + Bits(t) < 8)
    [] ~inAggr /\ IsBitType(t) -> bits' = Bits(t) /\ inAggr' = TRUE
    [] ~inAggr /\ IsIntType(t) /\ ~IsBitType(t) -> UNCHANGED <<bits, inAggr>>
    [] OTHER -> bits' = 0 /\ inAggr' = FALSE

(* xorOk is computed from the state before the field.                      *)
XorOk(t) == ~inAggr /\ IsIntType(t)

FieldOk_Twin(f) ==
  /\ AggrOk(f.type)
  /\ f.type.k = "array" => f.limit # NoName
  /\ f.existIf # NoName /\ IsIntType(f.type) => XorOk(f.type)
  /\ f.xor # NoName => ~IsVarInt(f.type) /\ XorOk(f.type)

FieldOk(f) ==
  /\ AggrOk(f.type)
  /\ f.name \notin DOMAIN locals
  /\ f.type.k = "array" => f.limit # NoName
  /\ f.existIf # NoName /\ IsIntType(f.type) => XorOk(f.type)
  /\ f.xor # NoName => ~IsVarInt(f.type) /\ XorOk(f.type)

(* The references are visited after the field has entered the table.       *)
RefsOk(f) == \A n \in {f.equ, f.limit, f.max, f.xor} :
               IF n = f.name /\ n # NoName
               THEN Signature(f.type) = "I"
               ELSE RefOk(n)

VisitField ==
  /\ At("msg") /\ fi \in DOMAIN Decl.fields
  /\ LET f == Decl.fields[fi]
     IN  Check(FieldOk(f) /\ RefsOk(f),
               /\ locals' = Put(locals, f.name, VarSym(f.type))
               /\ AggrStep(f.type)
               /\ fi' = fi + 1
               /\ UNCHANGED <<di, globals, midMap, val>>)

LeaveMsg ==
  /\ At("msg") /\ fi = Len(Decl.fields) + 1
  /\ locals' = EmptyTable
  /\ NextDecl
  /\ UNCHANGED <<prog, pass, status, globals, midMap, group>>
-----------------------------------------------------------------------------
(* Second pass: binds.  A bind to nil returns before anything is checked.  *)

BindOk_Rebind(b) ==
  b.msgName \in DOMAIN globals /\ b.msgId \in DOMAIN midMap /\ midMap[b.msgId].isMsgId

BindOk(b) ==
  /\ b.msgName \in DOMAIN globals
  /\ b.msgId \in DOMAIN midMap
  /\ midMap[b.msgId].isMsgId
  /\ midMap[b.msgId].bindMsg = NoName

VisitBind ==
  /\ At("bind") /\ pass = 2
  /\ IF Decl.msgName = NoName
     THEN /\ NextDecl
          /\ UNCHANGED <<prog, pass, status, tables, group>>
     ELSE Check(BindOk(Decl),
                /\ midMap' = [midMap EXCEPT ![Decl.msgId].bindMsg = Decl.msgName]
                /\ NextDecl
                /\ UNCHANGED <<globals, locals, group>>)
-----------------------------------------------------------------------------
Init ==
  /\ prog \in Programs
  /\ pass = 1 /\ di = 1 /\ fi = 0
  /\ globals = NewSymTable
  /\ locals = EmptyTable
  /\ midMap = [n \in {} |-> NoName]
  /\ val = 0 /\ inAggr = FALSE /\ bits = 0
  /\ status = "start"

Next ==
  \/ CheckSpace \/ SkipDecl \/ EndPass
  \/ VisitConst \/ VisitExtern
  \/ EnterGroup \/ VisitItem \/ LeaveGroup
  \/ EnterMsg \/ VisitField \/ LeaveMsg
  \/ VisitBind

Spec == Init /\ [][Next]_vars

(* DoAnalyze runs on the main goroutine until it returns.                  *)
FairSpec == Spec /\ WF_vars(Next)
-----------------------------------------------------------------------------
(***************************************************************************)
(* Properties.                                                             *)
(***************************************************************************)

(* Every message of an accepted file is laid out so that its bit groups    *)
(* fit their bytes: what the generator's bit assembly relies on (it panics *)
(* with "bit assemble mode error" otherwise).                              *)
AcceptedLaidOut ==
  status = "ok" =>
    \A d \in DOMAIN Decls : Decls[d].kind = "msg" => LaidOut(Decls[d].fields)

(* Types of the analyser's state: positions stay inside the program, the   *)
(* tables map names to symbols, ids are machine integers.                  *)
PositionOK ==
  /\ pass \in {1, 2}
  /\ di \in 1..Len(Decls) + 1
  /\ fi \in Nat
  /\ fi > 0 => /\ pass = 1
               /\ di \in DOMAIN Decls
               /\ \/ Decl.kind = "group" /\ fi <= Len(Decl.items) + 1
                  \/ Decl.kind = "msg" /\ fi <= Len(Decl.fields) + 1

SymbolsOf(tab) == \A n \in DOMAIN tab : tab[n].k \in {"builtin", "var"}

IdsOK == \A n \in DOMAIN midMap : /\ midMap[n].idVal \in MachineInt
                                  /\ DOMAIN midMap[n] = {"isMsgId", "idVal", "bindMsg"}

TypeOK ==
  /\ PositionOK
  /\ SymbolsOf(globals) /\ SymbolsOf(locals)
  /\ IdsOK
  /\ val \in MachineInt /\ inAggr \in BOOLEAN /\ bits \in 0..7
  /\ status \in {"start", "run", "ok", "reject"}

(* A declaration, or item or field i of it, that the first pass accepted.  *)
Passed(d) == pass = 2 \/ d < di
PassedAt(d, i) == Passed(d) \/ (d = di /\ i < fi)

InMsg == fi > 0 /\ Decl.kind = "msg"

Declares(d) == \/ Decls[d].kind \in {"const", "extern", "msg"}
               \/ Decls[d].kind = "group" /\ Decls[d].items # <<>>

(* Whatever a field is limited by, bounded by, compared or xored with is   *)
(* declared before it: an earlier field of the same message (or the field  *)
(* itself) or an earlier declaration of the file; no symbol of a message   *)
(* that has been left or of a later field is taken for it (visit closure   *)
(* and scoping of visitMsgDefine, pushSymbolTable / popSymbolTable).  Where*)
(* a constant has the name of a later field this is about the constant,    *)
(* for which the generator may still take the field: LimitsBounded, Codec. *)
FieldRefs(f) == {f.equ, f.limit, f.max, f.xor} \ {NoName}

RefersBack(d, i, n) ==
  \/ \E j \in 1..i : Decls[d].fields[j].name = n
  \/ \E e \in 1..d : Declares(e) /\ Decls[e].name = n

DeclaredBeforeUse ==
  \A d \in DOMAIN Decls : Decls[d].kind = "msg" =>
    \A i \in DOMAIN Decls[d].fields : PassedAt(d, i) =>
      \A n \in FieldRefs(Decls[d].fields[i]) : RefersBack(d, i, n)

(* No two accepted declarations of the file share a name, nor two fields   *)
(* of a message, nor two ids of the file.  The parser's own check for      *)
(* duplicate fields never fires (its map is never filled), so the symbol   *)
(* tables are the only defence against generated structs Go rejects.       *)
NoRedeclaration ==
  /\ \A d, e \in DOMAIN Decls :
       d < e /\ PassedAt(e, 0) /\ Declares(d) /\ Declares(e) => Decls[d].name # Decls[e].name
  /\ \A d \in DOMAIN Decls : Decls[d].kind = "msg" =>
       \A i, j \in DOMAIN Decls[d].fields :
         i < j /\ PassedAt(d, j) => Decls[d].fields[i].name # Decls[d].fields[j].name
  /\ \A d, e \in DOMAIN Decls : Decls[d].kind = "group" /\ Decls[e].kind = "group" =>
       \A i \in DOMAIN Decls[d].items, j \in DOMAIN Decls[e].items :
         /\ PassedAt(d, i) /\ PassedAt(e, j)
         /\ Decls[d].items[i].name = Decls[e].items[j].name
         => d = e /\ i = j

(* The open group holds exactly the bits of the fields since the last byte *)
(* boundary: bits agrees with the sum over the fields seen so far, and the *)
(* flag inAggr agrees with bits.                                           *)
BitsOf(fields) ==
  LET sum[n \in 0..Len(fields)] ==
        IF n = 0 THEN 0 ELSE sum[n - 1] + Bits(fields[n].type)
  IN  sum

GroupExact ==
  /\ inAggr <=> bits # 0
  /\ InMsg => bits = BitsOf(Decl.fields)[fi - 1] % 8

(* Every message is laid out the way ByteLayout allows.                    *)
Layout == INSTANCE ByteLayout WITH off    <- IF InMsg THEN bits ELSE 0,
                                   placed <- IF InMsg THEN fi - 1 ELSE 0
LayoutSpec == Layout!Spec

(* Inside a group ids ascend, as long as no id before is the largest       *)
(* machine integer: the successor of that one wraps around.                *)
IdsAscend ==
  \A d \in DOMAIN Decls : Decls[d].kind = "group" =>
    \A i, j \in DOMAIN Decls[d].items :
      LET id(k) == midMap[Decls[d].items[k].name].idVal
      IN  /\ i < j /\ PassedAt(d, j)
          /\ \A k \in i..j - 1 : id(k) # IntMax
          => id(i) < id(j)

(* An accepted bind to a message leaves the id bound to that message, the  *)
(* id is a message id, and no other accepted bind names the same id: the   *)
(* generated dispatch has one case per bound id.                           *)
Bound(d) == Decls[d].kind = "bind" /\ Decls[d].msgName # NoName /\ pass = 2 /\ d < di

BindsSound ==
  /\ \A d \in DOMAIN Decls : Bound(d) =>
       /\ Decls[d].msgId \in DOMAIN midMap
       /\ midMap[Decls[d].msgId].isMsgId
       /\ midMap[Decls[d].msgId].bindMsg = Decls[d].msgName
  /\ \A d, e \in DOMAIN Decls :
       Bound(d) /\ Bound(e) /\ Decls[d].msgId = Decls[e].msgId => d = e

(* What the walk has established it never takes back: a symbol of the file *)
(* keeps its meaning, an id keeps its number, a bound id keeps its message.*)
(* The second pass and the generator read tables written in the first.     *)
WriteOnce ==
  [][/\ \A n \in DOMAIN globals : n \in DOMAIN globals' /\ globals'[n] = globals[n]
     /\ \A n \in DOMAIN midMap :
          /\ n \in DOMAIN midMap'
          /\ midMap'[n].idVal = midMap[n].idVal
          /\ midMap'[n].isMsgId = midMap[n].isMsgId
          /\ midMap[n].bindMsg # NoName => midMap'[n].bindMsg = midMap[n].bindMsg]_vars

(* The analysis of every program ends with a verdict.                      *)
Terminates == <>(status \in {"ok", "reject"})
=============================================================================
