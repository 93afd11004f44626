---------------------------- MODULE Declarations ----------------------------
(***************************************************************************)
(* The declaration half of the parser (protoc/parser.go): the loop over    *)
(* the declarations of a file and, inside an id group or a message, the    *)
(* loops over the items, the fields and the descriptors of a field; the    *)
(* map of types that names go through; the separators.                     *)
(*                                                                         *)
(* A file is the sequence of tokens the lexer makes of it.  A token is     *)
(* [t, v, n, line]: its type, its text, its number, its line.  A built-in  *)
(* type is a PRIM token; an expression without == and equal is an EXPR     *)
(* token, or an ID (module ConstExpr parses it); an unknown character is a *)
(* BAD token, which no branch takes.                                       *)
(*                                                                         *)
(* One action per turn of a loop.  A turn whose tokens are not the ones    *)
(* the code eats ends in Panic, which nobody recovers from: how far the    *)
(* turn had come does not matter, the tree is dropped.                     *)
(*                                                                         *)
(* A definition Op_Slip just before Op is Op with one plausible mistake,   *)
(* for the mutation runs only.                                             *)
(***************************************************************************)
EXTENDS SyntaxTree, SequencesExt

CONSTANTS Files,   \* the files to parse: [text, tree], see the properties
          IntMax   \* the largest machine integer

ASSUME DeclIntMaxAssumption == IntMax \in Nat \ {0}
ASSUME FilesAssumption == \A f \in Files : IsSequence(f.text)

(* A token of the lexer is not the end of the file; a name, an expression, *)
(* a built-in type and a comment have a text, a number its value.          *)
Spelled == {"ID", "EXPR", "PRIM", "SCOMMENT"}
IsToken(w) == /\ w.t # "EOF"
              /\ w.v # NoName <=> w.t \in Spelled
              /\ IF w.t = "INT_CONST" THEN w.n \in Nat ELSE w.n = 0
ASSUME TokensAssumption == \A f \in Files : \A i \in DOMAIN f.text : IsToken(f.text[i])

VARIABLES
  file,
  pos,       \* the current token, p.curToken
  at,        \* "top" | "notes" | "items" | "fields" | "arrow" | "descs" | "tail"
  open,      \* the id group or message under construction
  tpMap,     \* p.tpMap: name -> type; a forward reference has no resolution
  resolved,  \* AstUndefType.resolved of the forward references that have one
  mspace,
  decls,     \* program.decl_list
  status     \* "run" | "done" | "panic"

vars == <<file, pos, at, open, tpMap, resolved, mspace, decls, status>>

text == file.text
EOF == [t |-> "EOF", v |-> NoName, n |-> 0, line |-> 0]

Tok(i) == IF i \in DOMAIN text THEN text[i] ELSE EOF
Is(i, type) == Tok(i).t = type
Seen(types) == \A k \in DOMAIN types : Is(pos + k - 1, types[k])

NoDecl == [kind |-> "none"]
Put(f, n, x) == [y \in DOMAIN f \cup {n} |-> IF y = n THEN x ELSE f[y]]
-----------------------------------------------------------------------------
(* eatSeperator at token i: a semicolon, the end of the file, or a line    *)
(* break before the token.                                                 *)
Separated(i) == Tok(i).t \in {"SEMI", "EOF"} \/ Tok(i).line # Tok(i - 1).line
Past_Stays(i) == i
Past(i) == IF Is(i, "SEMI") THEN i + 1 ELSE i

(* How many words of a kind stand at token i, i + 2, i + 4, ...            *)
Chain(words, i) ==
  CHOOSE k \in 0..Len(text) : i + 2 * k \notin words /\ \A j \in 0..k - 1 : i + 2 * j \in words

(* expr: an operand and, after each ==, one more.  The keyword equal has   *)
(* the token type of ==.  0 is a panic.                                    *)
Equals == {i \in DOMAIN text : Is(i, "EQ")}

ExprLen(i) ==
  LET k == Chain(Equals, i + 1)
  IN  IF \A j \in 0..k : Tok(i + 2 * j).t \in {"EXPR", "ID"} THEN 2 * k + 1 ELSE 0

Operands(i, n) == [k \in 1..(n + 1) \div 2 |-> Tok(i + 2 * (k - 1)).v]

(* type_spec at token i: any number of [], then a built-in type or a name. *)
Pairs == {i \in DOMAIN text : Is(i, "LBRACKET") /\ Is(i + 1, "RBRACKET")}
Brackets(i) == Chain(Pairs, i)
Base(i) == Tok(i + 2 * Brackets(i))

IsSpec(i) == Base(i).t \in {"PRIM", "ID"}
SpecEnd(i) == i + 2 * Brackets(i) + 1

NamedType(n) == IF n \in DOMAIN tpMap THEN tpMap[n] ELSE Undef(n, NilType)
BaseType(i) == IF Base(i).t = "PRIM" THEN Prim(Base(i).v) ELSE NamedType(Base(i).v)

TypeAt(i) ==
  LET elem[k \in 0..Brackets(i)] == IF k = 0 THEN BaseType(i) ELSE ArrayOf(elem[k - 1])
  IN  elem[Brackets(i)]

(* The map after type_spec at token i: an unknown name becomes a forward   *)
(* reference.                                                              *)
Mapped_Forgets(i) == tpMap
Mapped(i) ==
  IF Base(i).t = "ID" /\ Base(i).v \notin DOMAIN tpMap
  THEN Put(tpMap, Base(i).v, Undef(Base(i).v, NilType))
  ELSE tpMap
-----------------------------------------------------------------------------
(* Declarations.                                                           *)

AtTop == status = "run" /\ at = "top"

Declare(d, next) == /\ decls' = Append(decls, d)
                    /\ pos' = next
                    /\ UNCHANGED <<file, at, open, mspace, status>>

KeepTypes == UNCHANGED <<tpMap, resolved>>

Mspace ==
  /\ AtTop /\ Seen(<<"MSPACE", "ID">>) /\ Separated(pos + 2)
  /\ mspace' = Tok(pos + 1).v
  /\ pos' = Past(pos + 2)
  /\ UNCHANGED <<file, at, open, tpMap, resolved, decls, status>>

ConstDecl ==
  /\ AtTop /\ Seen(<<"CONST", "ID">>)
  /\ ExprLen(pos + 2) > 0
  /\ LET end == pos + 2 + ExprLen(pos + 2)
     IN  /\ Separated(end)
         /\ Declare([kind |-> "const", name |-> Tok(pos + 1).v,
                     val |-> Operands(pos + 2, ExprLen(pos + 2))], Past(end))
  /\ KeepTypes

Comment == /\ AtTop /\ Seen(<<"SCOMMENT">>)
           /\ Declare([kind |-> "comment", value |-> Tok(pos).v], pos + 1)
           /\ KeepTypes

Extern ==
  /\ AtTop /\ Seen(<<"EXTERN", "ID">>) /\ IsSpec(pos + 2) /\ Separated(SpecEnd(pos + 2))
  /\ Declare([kind |-> "extern", name |-> Tok(pos + 1).v, type |-> TypeAt(pos + 2)],
             Past(SpecEnd(pos + 2)))
  /\ tpMap' = Mapped(pos + 2)
  /\ UNCHANGED resolved

(* msg_bind.                                                               *)
Bind ==
  /\ AtTop /\ Seen(<<"DEFBIND", "ID">>) /\ Tok(pos + 2).t \in {"NIL", "ID"}
  /\ Separated(pos + 3)
  /\ Declare([kind |-> "bind", msgId |-> Tok(pos + 1).v,
              msgName |-> IF Is(pos + 2, "NIL") THEN NoName ELSE Tok(pos + 2).v],
             Past(pos + 3))
  /\ KeepTypes

(* type_def: a new name, or the resolution of a forward reference.  No     *)
(* separator is eaten.                                                     *)
AtTypeDef == AtTop /\ Seen(<<"TYPE", "ID">>) /\ IsSpec(pos + 2)

TypeDef == Declare([kind |-> "typedef", name |-> Tok(pos + 1).v, impl |-> TypeAt(pos + 2)],
                   SpecEnd(pos + 2))

DefineType ==
  /\ AtTypeDef
  /\ Tok(pos + 1).v \notin DOMAIN Mapped(pos + 2)
  /\ TypeDef
  /\ tpMap' = Put(Mapped(pos + 2), Tok(pos + 1).v, TypeAt(pos + 2))
  /\ UNCHANGED resolved

Unresolved_Twice(n, t) == t.k # "undef" /\ n \in DOMAIN tpMap /\ tpMap[n].k = "undef"
Unresolved(n, t) ==
  /\ t.k # "undef"
  /\ Mapped(pos + 2)[n] = Undef(n, NilType)
  /\ n \notin DOMAIN resolved

ResolveType ==
  /\ AtTypeDef
  /\ Tok(pos + 1).v \in DOMAIN Mapped(pos + 2)
  /\ Unresolved(Tok(pos + 1).v, TypeAt(pos + 2))
  /\ TypeDef
  /\ tpMap' = Mapped(pos + 2)
  /\ resolved' = Put(resolved, Tok(pos + 1).v, TypeAt(pos + 2))
-----------------------------------------------------------------------------
(* id_decl and msgid_decl.                                                 *)

Turn(where, what, next) ==
  /\ at' = where /\ open' = what /\ pos' = next
  /\ UNCHANGED <<file, tpMap, resolved, mspace, decls, status>>

EnterGroup ==
  /\ AtTop /\ \E k \in {"DEFID", "DEFMID"} : Seen(<<k, "ID", "LBRACE">>)
  /\ Turn("notes", [kind |-> "group", name |-> Tok(pos + 1).v,
                    isMsgId |-> Is(pos, "DEFMID"), items |-> <<>>, notes |-> <<>>], pos + 3)

(* A comment of its own in a group or a message.                           *)
Noted(d, n) == [d EXCEPT !.notes = Append(@, n)]

Note_Stays == /\ status = "run" /\ at \in {"notes", "items", "fields"} /\ Seen(<<"SCOMMENT">>)
              /\ Turn(at, open, pos)

Note == /\ status = "run" /\ at \in {"notes", "items", "fields"} /\ Seen(<<"SCOMMENT">>)
        /\ Turn(at, Noted(open, Tok(pos).v), pos + 1)

(* intConstVal: the bits of the number, all ones when it does not fit.     *)
UintMax == 2 * IntMax + 1
IntConstVal(n) == IF n > UintMax THEN -1 ELSE IF n > IntMax THEN n - UintMax - 1 ELSE n

(* msgidItem_decl at token i.                                              *)
ItemLen(i) == IF ~Is(i, "ID") THEN 0
              ELSE IF ~Is(i + 1, "ASSIGN") THEN 1
              ELSE IF Is(i + 2, "INT_CONST") THEN 3 ELSE 0

ItemAt(i) == [name |-> Tok(i).v, base |-> ItemLen(i) = 3,
              idVal |-> IF ItemLen(i) = 3 THEN IntConstVal(Tok(i + 2).n) ELSE 0]

WithItem(d, i) == [d EXCEPT !.items = Append(@, ItemAt(i))]

FirstItem == /\ status = "run" /\ at = "notes" /\ ItemLen(pos) > 0
             /\ Turn("items", WithItem(open, pos), pos + ItemLen(pos))

NextItem == /\ status = "run" /\ at = "items" /\ Seen(<<"COMMA">>) /\ ItemLen(pos + 1) > 0
            /\ Turn("items", WithItem(open, pos + 1), pos + 1 + ItemLen(pos + 1))

NotedItem ==
  /\ status = "run" /\ at = "items" /\ Seen(<<"COMMA", "SCOMMENT">>) /\ ItemLen(pos + 2) > 0
  /\ Turn("items", WithItem(Noted(open, Tok(pos + 1).v), pos + 2), pos + 2 + ItemLen(pos + 2))

TrailingComma == /\ status = "run" /\ at = "items" /\ Seen(<<"COMMA", "RBRACE">>)
                 /\ Turn("items", open, pos + 1)

Close == /\ decls' = Append(decls, open)
         /\ at' = "top" /\ open' = NoDecl /\ pos' = Past(pos + 1)
         /\ UNCHANGED <<file, resolved, mspace, status>>

LeaveGroup ==
  /\ status = "run" /\ at \in {"notes", "items"} /\ Seen(<<"RBRACE">>) /\ Separated(pos + 1)
  /\ Close
  /\ UNCHANGED tpMap
-----------------------------------------------------------------------------
(* msg_decl and field_decl.                                                *)

EnterMsg ==
  /\ AtTop /\ Seen(<<"DEFMSG", "ID", "LBRACE">>)
  /\ Turn("fields", [kind |-> "msg", name |-> Tok(pos + 1).v, fields |-> <<>>, notes |-> <<>>],
          pos + 3)

NewField(n, t) == [name |-> n, type |-> t, limit |-> NoName, max |-> NoName, equ |-> NoName,
                   xor |-> NoName, existIf |-> <<>>, comment |-> NoName]

Field ==
  /\ status = "run" /\ at = "fields" /\ Seen(<<"ID">>) /\ IsSpec(pos + 1)
  /\ open' = [open EXCEPT !.fields = Append(@, NewField(Tok(pos).v, TypeAt(pos + 1)))]
  /\ tpMap' = Mapped(pos + 1)
  /\ LET arrow == IF Is(SpecEnd(pos + 1), "DESC") THEN 1 ELSE 0
     IN  /\ at' = IF arrow = 1 THEN "arrow" ELSE "tail"
         /\ pos' = SpecEnd(pos + 1) + arrow
  /\ UNCHANGED <<file, resolved, mspace, decls, status>>

(* The descriptors; a second one of a kind replaces the first.  At least   *)
(* one follows an arrow.                                                   *)
InField == status = "run" /\ at \in {"arrow", "descs"}

Described(part, v, next) ==
  Turn("descs", [open EXCEPT !.fields[Len(open.fields)] = [@ EXCEPT ![part] = v]], next)

LimitBy == /\ InField /\ Seen(<<"LIMIT", "BY", "ID">>)
           /\ Described("limit", Tok(pos + 2).v, pos + 3)

AtMost == InField /\ Seen(<<"MAX", "ID">>) /\ Described("max", Tok(pos + 1).v, pos + 2)

EqualTo_Swaps == InField /\ Seen(<<"EQ", "ID">>) /\ Described("max", Tok(pos + 1).v, pos + 2)
EqualTo == InField /\ Seen(<<"EQ", "ID">>) /\ Described("equ", Tok(pos + 1).v, pos + 2)

XorWith == InField /\ Seen(<<"XOR", "ID">>) /\ Described("xor", Tok(pos + 1).v, pos + 2)

(* The lexer has no word for follow and above, so only the if is left.     *)
ExistIf ==
  /\ InField /\ Seen(<<"EXIST", "IF">>)
  /\ ExprLen(pos + 2) > 0
  /\ Described("existIf", Operands(pos + 2, ExprLen(pos + 2)), pos + 2 + ExprLen(pos + 2))

EndField ==
  /\ status = "run"
  /\ \/ at = "tail"
     \/ at = "descs" /\ Tok(pos).t \notin {"LIMIT", "MAX", "EQ", "XOR", "EXIST"}
  /\ IF Is(pos, "SCOMMENT")
     THEN Turn("fields", [open EXCEPT !.fields[Len(open.fields)] = [@ EXCEPT !.comment = Tok(pos).v]], pos + 1)
     ELSE Turn("fields", open, pos)

(* The new message must be the first type of its name.  (The check for     *)
(* duplicate fields looks into a map that is never filled.)                *)
Fresh_Any(n) == TRUE
Fresh(n) == n \notin DOMAIN tpMap

LeaveMsg ==
  /\ status = "run" /\ at = "fields" /\ Seen(<<"RBRACE">>) /\ Separated(pos + 1)
  /\ Fresh(open.name)
  /\ Close
  /\ tpMap' = Put(tpMap, open.name, StructOf(open.name))
-----------------------------------------------------------------------------
Stop(s) == /\ status' = s
           /\ UNCHANGED <<file, pos, at, open, tpMap, resolved, mspace, decls>>

Done == AtTop /\ Seen(<<"EOF">>) /\ Stop("done")

Turns == \/ Mspace \/ ConstDecl \/ Comment \/ Extern \/ Bind
         \/ DefineType \/ ResolveType
         \/ EnterGroup \/ FirstItem \/ NextItem \/ NotedItem \/ TrailingComma \/ LeaveGroup
         \/ EnterMsg \/ Note \/ Field \/ LeaveMsg
         \/ LimitBy \/ AtMost \/ EqualTo \/ XorWith \/ ExistIf \/ EndField
         \/ Done

(* eat finds another token than the code asks for, type_spec and factor    *)
(* find none of theirs, a separator is missing, or a type is a duplicate.  *)
Panic == status = "run" /\ ~ENABLED Turns /\ Stop("panic")

Init == /\ file \in Files
        /\ pos = 1 /\ at = "top" /\ open = NoDecl
        /\ tpMap = [n \in Builtins |-> Prim(n)]
        /\ resolved = [n \in {} |-> NilType]
        /\ mspace = NoName /\ decls = <<>>
        /\ status = "run"

Next == Turns \/ Panic

Spec == Init /\ [][Next]_vars

(* The parser runs until it returns or panics.                             *)
FairSpec == Spec /\ WF_vars(Next)
-----------------------------------------------------------------------------
(***************************************************************************)
(* The program that is delivered: a reference whose name has been resolved *)
(* holds the resolution wherever it stands, for it is one node.            *)
(***************************************************************************)
Resolution(n) == IF n \in DOMAIN resolved THEN resolved[n] ELSE NilType

Linked(t) ==
  CASE t.k = "undef" -> Undef(t.name, Resolution(t.name))
    [] t.k = "array" /\ t.elem.k = "undef" -> ArrayOf(Undef(t.elem.name, Resolution(t.elem.name)))
    [] OTHER -> t

Delivered ==
  [i \in DOMAIN decls |->
     LET d == decls[i]
     IN  CASE d.kind = "msg" ->
                [d EXCEPT !.fields = [k \in DOMAIN d.fields |->
                                        [d.fields[k] EXCEPT !.type = Linked(@)]]]
           [] d.kind = "extern"  -> [d EXCEPT !.type = Linked(@)]
           [] d.kind = "typedef" -> [d EXCEPT !.impl = Linked(@)]
           [] OTHER -> d]
-----------------------------------------------------------------------------
(***************************************************************************)
(* Properties.  A file of a tree # <<>> is the text of those declarations, *)
(* in which a type is written by name ([k |-> "undef"] for a name that is  *)
(* not built in); a file without a tree is any text.                       *)
(***************************************************************************)
IsProgram == file.tree # <<>>

(* What the analyser and the interpreter take for granted of a program     *)
(* that has been parsed: no type name is declared twice, a message is      *)
(* mentioned as such only after its declaration, and a forward reference   *)
(* holds what the declaration of its name says.                            *)
Contract == status = "done" => TypesResolved(Delivered)

(* A name of a type means the same wherever it is written: what its        *)
(* declaration says, before or after it, through any number of other       *)
(* names.                                                                  *)
NamesOf(ds) == UNION {{t.name : t \in {u \in Mentioned(ds[i]) : u.k = "undef"}} : i \in DOMAIN ds}

DeclOf(ds, n) == ds[CHOOSE i \in DOMAIN ds : DeclaresType(ds[i]) /\ ds[i].name = n]

(* A type as far as it is told apart here: the element of an array is      *)
(* compared where the array is written.                                    *)
Outer(t) == IF t.k = "array" THEN ArrayOf(NilType) ELSE t

Meaning(ds) ==
  LET mean[n \in NamesOf(ds), k \in 0..Len(ds)] ==
        IF n \in Builtins THEN Prim(n)
        ELSE IF n \notin TypeNames(ds) \/ k = 0 THEN NilType
        ELSE LET d == DeclOf(ds, n)
             IN  IF d.kind = "msg" THEN StructOf(n)
                 ELSE IF d.impl.k = "undef" THEN mean[d.impl.name, k - 1]
                 ELSE Outer(d.impl)
  IN  [n \in NamesOf(ds) |-> mean[n, Len(ds)]]

Means(ds, written, read) ==
  /\ written.k = "array" => read.k = "array"
  /\ LET w == Elem(written)
         r == IF written.k = "array" THEN read.elem ELSE read
     IN  Outer(RealType(r)) = IF w.k = "undef" THEN Meaning(ds)[w.name] ELSE Outer(w)

NamesMean ==
  IsProgram /\ status = "done" =>
    \A i \in DOMAIN file.tree :
      LET w == file.tree[i]
          r == Delivered[i]
      IN  CASE w.kind = "msg" -> \A k \in DOMAIN w.fields :
                                   Means(file.tree, w.fields[k].type, r.fields[k].type)
            [] w.kind = "extern"  -> Means(file.tree, w.type, r.type)
            [] w.kind = "typedef" -> Means(file.tree, w.impl, r.impl)
            [] OTHER -> TRUE

(* The text of a declaration: its words and, apart from them, its          *)
(* comments.                                                               *)
Word(type, v) == [t |-> type, v |-> v, n |-> 0]
Words(types) == [k \in DOMAIN types |-> Word(types[k], NoName)]
Name(v) == <<Word("ID", v)>>
Number(n) == <<[t |-> "INT_CONST", v |-> NoName, n |-> n]>>
Optional(v, words) == IF v = NoName THEN <<>> ELSE words \o Name(v)

Joined(parts, between) ==
  FlattenSeq([k \in DOMAIN parts |-> IF k = 1 THEN parts[k] ELSE between \o parts[k]])

ExprText(ops) == Joined([k \in DOMAIN ops |-> Name(ops[k])], Words(<<"EQ">>))

TypeText(t) ==
  LET nested == t.k = "array" /\ t.elem.k = "array"
      base == IF nested THEN t.elem.elem ELSE Elem(t)
      word == Word(IF base.k = "prim" THEN "PRIM" ELSE "ID", base.name)
      brackets == Words(<<"LBRACKET", "RBRACKET">>)
  IN  CASE nested -> brackets \o brackets \o <<word>>
        [] t.k = "array" /\ ~nested -> brackets \o <<word>>
        [] OTHER -> <<word>>

DescText(f) ==
  LET descs == Optional(f.limit, Words(<<"LIMIT", "BY">>)) \o Optional(f.max, Words(<<"MAX">>))
                 \o Optional(f.equ, Words(<<"EQ">>)) \o Optional(f.xor, Words(<<"XOR">>))
                 \o IF f.existIf = <<>> THEN <<>> ELSE Words(<<"EXIST", "IF">>) \o ExprText(f.existIf)
  IN  IF descs = <<>> THEN <<>> ELSE Words(<<"DESC">>) \o descs

FieldText(f) == Name(f.name) \o TypeText(f.type) \o DescText(f)
ItemText(i) == Name(i.name) \o IF i.base THEN Words(<<"ASSIGN">>) \o Number(i.idVal) ELSE <<>>

DeclText(d) ==
  CASE d.kind = "const"   -> Words(<<"CONST">>) \o Name(d.name) \o ExprText(d.val)
    [] d.kind = "extern"  -> Words(<<"EXTERN">>) \o Name(d.name) \o TypeText(d.type)
    [] d.kind = "typedef" -> Words(<<"TYPE">>) \o Name(d.name) \o TypeText(d.impl)
    [] d.kind = "bind"    -> Words(<<"DEFBIND">>) \o Name(d.msgId)
                               \o IF d.msgName = NoName THEN Words(<<"NIL">>) ELSE Name(d.msgName)
    [] d.kind = "group"   -> Words(<<IF d.isMsgId THEN "DEFMID" ELSE "DEFID">>) \o Name(d.name)
                               \o Words(<<"LBRACE">>)
                               \o Joined([k \in DOMAIN d.items |-> ItemText(d.items[k])], Words(<<"COMMA">>))
                               \o Words(<<"RBRACE">>)
    [] d.kind = "msg"     -> Words(<<"DEFMSG">>) \o Name(d.name) \o Words(<<"LBRACE">>)
                               \o FlattenSeq([k \in DOMAIN d.fields |-> FieldText(d.fields[k])])
                               \o Words(<<"RBRACE">>)
    [] d.kind = "comment" -> <<>>

Comments(d) ==
  CASE d.kind = "comment" -> <<d.value>>
    [] d.kind = "group"   -> d.notes
    [] d.kind = "msg"     -> d.notes \o FlattenSeq([k \in DOMAIN d.fields |->
                                          IF d.fields[k].comment = NoName THEN <<>> ELSE <<d.fields[k].comment>>])
    [] OTHER -> <<>>

(* What is read of a text: all its words but separators, comments and a    *)
(* comma before a closing brace.                                           *)
Punctuation(i) == \/ Tok(i).t \in {"SEMI", "SCOMMENT"}
                  \/ Is(i, "COMMA") /\ Is(i + 1, "RBRACE")

WordAt(i) == [t |-> IF Is(i, "EXPR") THEN "ID" ELSE Tok(i).t, v |-> Tok(i).v, n |-> Tok(i).n]

TextRead == FlattenSeq([i \in DOMAIN text |-> IF Punctuation(i) THEN <<>> ELSE <<WordAt(i)>>])

CommentsRead == FlattenSeq([i \in DOMAIN text |-> IF Is(i, "SCOMMENT") THEN <<Tok(i).v>> ELSE <<>>])

(* The program, written out again.                                         *)
SpaceText == IF mspace = NoName THEN <<>> ELSE Words(<<"MSPACE">>) \o Name(mspace)
Written == SpaceText \o FlattenSeq([i \in DOMAIN decls |-> DeclText(Delivered[i])])

(* The tree does not tell in which order the descriptors of a field stood, *)
(* nor which of two of one kind was there first.  They are the words       *)
(* behind its arrow, token d; an EQ behind EXIST is of the condition.      *)
DescRank == [LIMIT |-> 1, MAX |-> 2, EQ |-> 3, XOR |-> 4, EXIST |-> 5]

DescribedAt(d, i) ==
  /\ Is(d, "DESC") /\ d < i /\ Tok(i).t \in DOMAIN DescRank
  /\ \A j \in d+1..i : Tok(j).t \notin {"DESC", "RBRACE"}
  /\ Is(i, "EQ") => \A j \in d+1..i : ~Is(j, "EXIST")

InOrder == \A d, i, j \in DOMAIN text :
             DescribedAt(d, i) /\ DescribedAt(d, j) /\ i < j => DescRank[Tok(i).t] < DescRank[Tok(j).t]

(* Texts that can be told from their tree: numbers are machine integers,   *)
(* no name stands for another type, arrays are at most of arrays, the      *)
(* descriptors are in order, and mspace comes first.                       *)
Plain ==
  /\ \A i \in DOMAIN text : /\ text[i].n <= IntMax
                             /\ (Is(i, "ID") => text[i].v \notin Builtins)
                             /\ Brackets(i) <= 2
                             /\ (Is(i, "MSPACE") => \A j \in 1..i-1 : Is(j, "SCOMMENT"))
  /\ InOrder
  /\ \A i \in DOMAIN decls : decls[i].kind = "typedef" =>
       \A j, l \in DOMAIN text : text[j].v = decls[i].name /\ text[l].v = decls[i].name => j = l

(* Declarations on one line have a semicolon between them, unless the      *)
(* first is a type or a comment.                                           *)
Keywords == {"MSPACE", "CONST", "EXTERN", "DEFBIND", "DEFID", "DEFMID", "DEFMSG", "TYPE"}

Unrelated(i) == \/ i = 1 \/ Is(i - 1, "SCOMMENT")
                \/ \E j \in 1..i-1 : Is(j, "TYPE") /\ \A l \in j+1..i-1 : Tok(l).t \notin Keywords

Apart == \A i \in DOMAIN text : Tok(i).t \in Keywords => Separated(i) \/ Is(i - 1, "SEMI") \/ Unrelated(i)

(* An accepted text has been read word by word: written out again, the     *)
(* program is the text, no comment is lost, and declarations are apart.    *)
Faithful ==
  status = "done" /\ Plain => TextRead = Written
                              /\ Len(CommentsRead) = Len(FlattenSeq([i \in DOMAIN decls |-> Comments(decls[i])]))
                              /\ Apart

(* A text of a program whose types are declared in order is accepted: no   *)
(* name of a built-in type or of another declaration is declared, a        *)
(* message is declared before it is mentioned, and so is a name that       *)
(* stands for another name.                                                *)
Orderly(ds) ==
  /\ TypesUnique(ds) /\ TypeNames(ds) \cap Builtins = {}
  /\ \A i \in DOMAIN ds : DeclaresType(ds[i]) =>
       \/ ds[i].kind = "typedef" /\ ds[i].impl.k # "undef"
       \/ \A j \in 1..i : ds[i].name \notin NamesOf(<<ds[j]>>)

Accepts == IsProgram /\ Orderly(file.tree) => status # "panic"

(* A name that has a type keeps it, and a reference that has been resolved *)
(* keeps its resolution: nodes handed out earlier are shared.              *)
Kept(f, g) == \A n \in DOMAIN f : n \in DOMAIN g /\ g[n] = f[n]
TypesKept == [][Kept(tpMap, tpMap') /\ Kept(resolved, resolved')]_vars

(* Whatever the text, the parser ends.                                     *)
Ends == <>(status # "run")

(* Claimed by the error text of declarations and type_def, "duplicate type *)
(* define": a program is refused only for a type declared twice or a       *)
(* built-in one declared again.                                            *)
OnlyDuplicates ==
  IsProgram /\ status = "panic" =>
    ~TypesUnique(file.tree) \/ TypeNames(file.tree) \cap Builtins # {}
=============================================================================
