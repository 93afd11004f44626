------------------------------ MODULE Compiler ------------------------------
(***************************************************************************)
(* The compiler as a whole: main.go drives the parser, the semantic        *)
(* analyser and the interpreter, whose walk over the declarations writes   *)
(* the Go program.                                                         *)
(*                                                                         *)
(* Composes Semantic (the analysis) and MsgGen (the text of one message)   *)
(* with the walk of the interpreter: visitTraverse, the id groups, the     *)
(* type declarations and the two dispatch functions over the binds.        *)
(*                                                                         *)
(* The Go program is the sequence out of its top-level declarations:       *)
(*   header                        the comment that opens the file         *)
(*   const [name]                  a constant                              *)
(*   id    [name, val]             a constant of an id group               *)
(*   names [name, cases]           the function from ids to their names    *)
(*   type  [name, fields]          a type; fields gives the Go types of    *)
(*                                 the fields that are messages            *)
(*   codec [name, calls]           encode_name and decode_name, which call *)
(*                                 the codec calls[f] on the field f       *)
(*   encodeById, decodeById [cases]   the dispatch by message id           *)
(*                                                                         *)
(* A definition Op_Slip just before Op is Op with one plausible mistake,   *)
(* for the mutation runs only.                                             *)
(***************************************************************************)
EXTENDS SyntaxTree, SequencesExt

CONSTANTS Programs,  \* the syntax trees the parser may deliver
          IntMax,    \* the largest machine integer
          IdMax,     \* the largest uint16, the type of a message id
          Running    \* no exit code yet

VARIABLES
  (* the analyser *)
  prog, pass, di, fi, globals, locals, midMap, val, inAggr, bits, status,
  (* the generator of the codec under way; its walk is "idle" between two  *)
  fields, walk, gfi, hasTmp, bitAggr, gbits, xorVar, struct, encoder, decoder,
  (* the driver and the interpreter *)
  stage,   \* "start" | "analyse" | "interpret" | "end"
  gi,      \* the declaration the interpreter is at, 0 before the header
  binds,   \* interp.binds
  goName,  \* impl.name of every message: declared name -> present name
  out,     \* the Go program written so far
  exit     \* the exit code

analyser == <<prog, pass, di, fi, globals, locals, midMap, val, inAggr, bits, status>>
generator == <<fields, walk, gfi, hasTmp, bitAggr, gbits, xorVar, struct, encoder, decoder>>
vars == <<analyser, generator, stage, gi, binds, goName, out, exit>>

Analyser == INSTANCE Semantic
Generator == INSTANCE MsgGen WITH Messages <- {}, fi <- gfi, bits <- gbits

ASSUME CompilerIntMaxAssumption == IntMax \in Nat \ {0}

(* What the parser delivers (Declarations): well-formed declarations whose *)
(* types are resolved.                                                     *)
ASSUME ParserAssumption ==
  \A p \in Programs : Analyser!WellFormed(p) /\ TypesResolved(p.decls)

Decls == prog.decls
Decl  == Decls[gi]

MsgOf(n) == CHOOSE i \in DOMAIN Decls : Decls[i].kind = "msg" /\ Decls[i].name = n
-----------------------------------------------------------------------------
(* What is written for a declaration.                                      *)

(* typeName4Go, for the types that are not integers.                       *)
IsNamed(t) == t.k \in {"struct", "undef"}
GoTypeName(t) == IF t.k = "struct" THEN goName[t.name] ELSE t.name

(* The Go types of the fields of a message that are messages or arrays of  *)
(* messages.                                                               *)
NamedFields(fs) == {i \in DOMAIN fs : IsNamed(Elem(fs[i].type))}
FieldTypes(fs, type(_)) ==
  [f \in {fs[i].name : i \in NamedFields(fs)} |->
     type(Elem(fs[CHOOSE i \in NamedFields(fs) : fs[i].name = f].type))]

(* The struct declares them by typeName4Go, the codec calls encode_ and    *)
(* decode_ of their present names.                                         *)
StructTypes_Declared(fs) == FieldTypes(fs, LAMBDA t : t.name)
StructTypes(fs) == FieldTypes(fs, GoTypeName)
Callees(fs) == FieldTypes(fs, GoTypeName)

Header == [k |-> "header"]
ConstDecl(n) == [k |-> "const", name |-> n]
IdDecl(n, v) == [k |-> "id", name |-> n, val |-> v]
TypeDecl(n, fs) == [k |-> "type", name |-> n, fields |-> fs]
CodecDecl(n, cs) == [k |-> "codec", name |-> n, calls |-> cs]
NamesFunc(n, is) == [k |-> "names", name |-> n, cases |-> is]
DispatchFunc(k, bs) == [k |-> k, cases |-> bs]

NoFields == [f \in {} |-> NoName]

(* The fields of a Go type already written.                                *)
FieldsOfType(n) ==
  LET ts == {i \in DOMAIN out : out[i].k = "type" /\ out[i].name = n}
  IN  IF ts = {} THEN NoFields ELSE out[CHOOSE i \in ts : TRUE].fields

(* visitIdGroupDefine_Go with idGroupName_Go; the numbers are those the    *)
(* analyser has left in the items.                                         *)
GroupDecls(g) ==
  [i \in DOMAIN g.items |-> IdDecl(g.items[i].name, midMap[g.items[i].name].idVal)]
    \o <<NamesFunc(g.name, [i \in DOMAIN g.items |-> g.items[i].name])>>

(* visitBindEncode_Go and visitBindDecode_Go: one case per bind; a bind to *)
(* nil returns 0.                                                          *)
Cases_Skips(bs) == [i \in 1..Len(bs) - 1 |-> [id |-> bs[i].msgId, msg |-> bs[i].msgName]]
Cases(bs) == [i \in DOMAIN bs |-> [id |-> bs[i].msgId, msg |-> bs[i].msgName]]

EncodeById == DispatchFunc("encodeById", Cases(binds))
DecodeById == DispatchFunc("decodeById", Cases(binds))
-----------------------------------------------------------------------------
(* The driver.  What the command line names is whatever the step that      *)
(* looks at it finds: no file, an unreadable one, one that does not parse, *)
(* or the program; the mode go, or another.                                *)

Stop(code) == /\ stage' = "end" /\ exit' = code
              /\ UNCHANGED <<analyser, generator, gi, binds, goName, out>>

(* Without a readable file main returns, with a message.                   *)
NoFile == stage = "start" /\ Stop(0)

(* Nothing recovers from the panics of the parser.                         *)
ParseFails == stage = "start" /\ Stop(2)

Parse == /\ stage = "start"
         /\ stage' = "analyse"
         /\ UNCHANGED <<analyser, generator, gi, binds, goName, out, exit>>

Analyse == /\ stage = "analyse"
           /\ Analyser!Next
           /\ UNCHANGED <<generator, stage, gi, binds, goName, out, exit>>

Refused == stage = "analyse" /\ status = "reject" /\ Stop(255)

(* The mode is looked at only now.                                         *)
Accepted_Unchecked == stage = "analyse" /\ status \in {"ok", "reject"}

Accepted == stage = "analyse" /\ status = "ok"

UnknownMode == Accepted /\ Stop(255)

StartInterpreter ==
  /\ Accepted
  /\ stage' = "interpret"
  /\ UNCHANGED <<analyser, generator, gi, binds, goName, out, exit>>
-----------------------------------------------------------------------------
(* The interpreter.  DoInterpret recovers from a panic, main then exits    *)
(* with -1; what has been printed stays printed.                           *)

At(kind) == /\ stage = "interpret" /\ walk = "idle"
            /\ gi \in DOMAIN Decls /\ Decl.kind = kind

Emit(ds) == out' = out \o ds

NextDecl == gi' = gi + 1

Wrote(ds) == /\ Emit(ds) /\ NextDecl
             /\ UNCHANGED <<analyser, generator, stage, binds, goName, exit>>

WriteHeader == stage = "interpret" /\ gi = 0 /\ Wrote(<<Header>>)

SkipDecl_Waits == At("comment") /\ Wrote(<<>>)
SkipDecl == (At("comment") \/ At("extern")) /\ Wrote(<<>>)

(* visitConstDef_Go.  A name cannot be evaluated; a tree of operators has  *)
(* a value or panics (see ConstExpr).                                      *)
Literal(l) == l.k \in {"int", "str"}
Simple(d) == Len(d.leaves) = 1 /\ ~d.leaves[1].un

WriteConst == /\ At("const")
              /\ \A i \in DOMAIN Decl.leaves : Literal(Decl.leaves[i])
              /\ Wrote(<<ConstDecl(Decl.name)>>)

ConstPanics == /\ At("const")
               /\ ~Simple(Decl) \/ \E i \in DOMAIN Decl.leaves : ~Literal(Decl.leaves[i])
               /\ Stop(255)

WriteGroup == At("group") /\ Wrote(GroupDecls(Decl))

CollectBind == /\ At("bind")
               /\ binds' = Append(binds, Decl)
               /\ NextDecl
               /\ UNCHANGED <<analyser, generator, stage, goName, out, exit>>
-----------------------------------------------------------------------------
(* Messages and type declarations: the generator walks the fields.         *)

StartGenerator(w, fs) ==
  /\ fields' = fs /\ walk' = w /\ gfi' = 1
  /\ hasTmp' = FALSE /\ bitAggr' = FALSE /\ gbits' = 0 /\ xorVar' = NoName
  /\ struct' = <<>> /\ encoder' = <<>> /\ decoder' = <<>>

StartMsg ==
  /\ At("msg")
  /\ Emit(<<TypeDecl(Decl.name, StructTypes(Decl.fields))>>)
  /\ StartGenerator("struct", Decl.fields)
  /\ UNCHANGED <<analyser, stage, gi, binds, goName, exit>>

(* visitTypeDef_Go.  The struct is given the declared name for good: the   *)
(* old one is restored in the wrong node.                                  *)
Renamed_Forgets(m, n) == UNCHANGED goName
Renamed(m, n) == goName' = [goName EXCEPT ![m] = n]

StartTypeDef ==
  /\ At("typedef") /\ Decl.impl.k = "struct"
  /\ Emit(<<TypeDecl(Decl.name, FieldsOfType(goName[Decl.impl.name]))>>)
  /\ Renamed(Decl.impl.name, Decl.name)
  /\ StartGenerator("encode", Decls[MsgOf(Decl.impl.name)].fields)
  /\ UNCHANGED <<analyser, stage, gi, binds, exit>>

WriteTypeDef == /\ At("typedef")
                /\ Decl.impl.k # "struct" /\ Generator!HasGoName(Decl.impl)
                /\ Wrote(<<TypeDecl(Decl.name, NoFields)>>)

TypeDefPanics == At("typedef") /\ ~Generator!HasGoName(Decl.impl) /\ Stop(255)

Generate == /\ stage = "interpret" /\ walk # "idle"
            /\ Generator!Next
            /\ UNCHANGED <<analyser, stage, gi, binds, goName, out, exit>>

(* The codec goes by the present name of the struct.                       *)
CodecName == goName[IF Decl.kind = "msg" THEN Decl.name ELSE Decl.impl.name]

FinishCodec ==
  /\ stage = "interpret" /\ walk = "done"
  /\ Emit(<<CodecDecl(CodecName, Callees(fields))>>)
  /\ StartGenerator("idle", <<>>)
  /\ NextDecl
  /\ UNCHANGED <<analyser, stage, binds, goName, exit>>

CodecPanics == stage = "interpret" /\ walk = "panic" /\ Stop(255)
-----------------------------------------------------------------------------
(* visitBinds, after all declarations; then main returns.                  *)

WriteBinds == /\ stage = "interpret" /\ gi = Len(Decls) + 1
              /\ Wrote(IF binds = <<>> THEN <<>> ELSE <<EncodeById, DecodeById>>)

Finish == stage = "interpret" /\ gi = Len(Decls) + 2 /\ Stop(0)
-----------------------------------------------------------------------------
Init ==
  /\ Analyser!Init
  /\ fields = <<>> /\ walk = "idle" /\ gfi = 1
  /\ hasTmp = FALSE /\ bitAggr = FALSE /\ gbits = 0 /\ xorVar = NoName
  /\ struct = <<>> /\ encoder = <<>> /\ decoder = <<>>
  /\ stage = "start" /\ gi = 0 /\ binds = <<>> /\ out = <<>> /\ exit = Running
  /\ goName = [n \in {Decls[i].name : i \in {j \in DOMAIN Decls : Decls[j].kind = "msg"}} |-> n]

Interpret ==
  \/ WriteHeader \/ SkipDecl
  \/ WriteConst \/ ConstPanics
  \/ WriteGroup \/ CollectBind
  \/ StartMsg \/ StartTypeDef \/ WriteTypeDef \/ TypeDefPanics
  \/ Generate \/ FinishCodec \/ CodecPanics
  \/ WriteBinds \/ Finish

Next == \/ NoFile \/ ParseFails \/ Parse
        \/ Analyse \/ Refused
        \/ UnknownMode \/ StartInterpreter
        \/ Interpret

Spec == Init /\ [][Next]_vars

(* main runs to its end.                                                   *)
FairSpec == Spec /\ WF_vars(Next)
-----------------------------------------------------------------------------
(***************************************************************************)
(* Properties.                                                             *)
(***************************************************************************)
Complete == stage = "end" /\ exit = 0 /\ status = "ok"

OutSet == Range(out)
Codecs == {d \in OutSet : d.k = "codec"}
Types  == {d \in OutSet : d.k = "type"}

(* The compiler keeps the promises of a batch compiler: nothing is printed *)
(* before the whole file has been accepted, a panic in the middle of the   *)
(* output shows in the exit code, and 0 means that every declaration and   *)
(* the dispatch have been written.                                         *)
Phase == CASE stage \in {"start", "analyse"} -> "judge"
           [] stage = "interpret" -> "write"
           [] stage = "end" -> "end"

Promise == INSTANCE Batch WITH
             phase   <- Phase,
             verdict <- IF status \in {"ok", "reject"} THEN status ELSE "none",
             left    <- Len(Decls) + 2 - gi,
             written <- out # <<>>
PromiseSpec == Promise!Spec

(* Every codec that the finished program calls is in it, exactly once: the *)
(* codecs of nested messages under whatever name the walk knew them by     *)
(* when it wrote the call, and those of the dispatch.  A name that nobody  *)
(* has declared, or that is declared as something else, has none.          *)
Msgs == {i \in DOMAIN Decls : Decls[i].kind = "msg"}

Uncoded == {t.name : t \in {u \in UNION {Mentioned(Decls[i]) : i \in Msgs} :
                               u.k = "undef" /\ u.resolved.k # "struct"}}

Called == (UNION {Range(c.calls) : c \in Codecs})
            \cup {b.msgName : b \in {x \in Range(binds) : x.msgName \in DOMAIN goName}}

DefinedOnce(n) ==
  \E i \in DOMAIN out : {j \in DOMAIN out : out[j].k = "codec" /\ out[j].name = n} = {i}

CallsResolved == Complete => \A n \in Called \ Uncoded : DefinedOnce(n)

(* A nested codec is called on a field of the type it is written for,      *)
(* although type declarations rename structs under way - except in the     *)
(* codec of a type declaration of a message one of whose nested messages   *)
(* has been renamed since that message was declared.                       *)
IsRename(i) == Decls[i].kind = "typedef" /\ Decls[i].impl.k = "struct"

Nested(m) == {t.name : t \in {u \in Mentioned(Decls[m]) : u.k = "struct"}}

Stale(n) ==
  \E i \in DOMAIN Decls :
    /\ IsRename(i) /\ Decls[i].name = n
    /\ LET m == MsgOf(Decls[i].impl.name)
       IN  \E j \in m..i : IsRename(j) /\ Decls[j].impl.name \in Nested(m)

NestedTyped ==
  \A c \in Codecs, t \in Types : c.name = t.name /\ ~Stale(c.name) => c.calls = t.fields

(* A message of an accepted file stops the generator only at a type Go     *)
(* code cannot be written for, whole or under a declared name: the panics  *)
(* of its bit assembly are out of reach behind the analyser's own count of *)
(* the bits.                                                               *)
StopsAtTypes == walk # "idle" => Generator!PanicIsTyped

(* The two dispatch functions of the finished program are the binding the  *)
(* analyser has accepted: the same cases in both, and for every id one     *)
(* case per message bound to it, which is the message the analyser has     *)
(* recorded with the id.                                                   *)
BoundCases(n) == {i \in DOMAIN binds : binds[i].msgId = n /\ binds[i].msgName # NoName}

DispatchAgrees ==
  Complete /\ binds # <<>> =>
    LET enc == out[Len(out) - 1]
        dec == out[Len(out)]
    IN  /\ enc.k = "encodeById" /\ dec.k = "decodeById"
        /\ enc.cases = dec.cases
        /\ \A n \in DOMAIN midMap :
             {c.msg : c \in {x \in Range(enc.cases) : x.id = n}} \ {NoName}
               = {midMap[n].bindMsg} \ {NoName}
        /\ \A i, j \in DOMAIN enc.cases :
             i # j /\ NoName \notin {enc.cases[i].msg, enc.cases[j].msg}
               => enc.cases[i].id # enc.cases[j].id

(* The number of an id in the program that has been written.               *)
ValueOf(id) == {d.val : d \in {x \in OutSet : x.k = "id" /\ x.name = id}}

(* Claimed by the error text of visitBindDef, "mid: %s already bind to":   *)
(* no message id is dispatched twice, and it is a uint16, so that the      *)
(* switch over the ids is one Go accepts.                                  *)
CasesDistinct ==
  Complete /\ binds # <<>> =>
    LET cases == out[Len(out)].cases
    IN  \A i, j \in DOMAIN cases :
          i # j => /\ cases[i].id # cases[j].id
                   /\ ValueOf(cases[i].id) \cap ValueOf(cases[j].id) = {}
                   /\ ValueOf(cases[i].id) \subseteq 0..IdMax

(* Whatever it is given, the compiler ends.                                *)
Finishes == <>(stage = "end")
=============================================================================
