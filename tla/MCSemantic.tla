----------------------------- MODULE MCSemantic -----------------------------
(***************************************************************************)
(* Families of programs for model checking the semantic analyser, each     *)
(* built to reach one part of it in every combination.                     *)
(***************************************************************************)
EXTENDS Semantic, TLC

Tuples(S, n) == UNION {[1..k -> S] : k \in 0..n}

Const(n, leaves) == [kind |-> "const", name |-> n, leaves |-> leaves, plus |-> TRUE]
Leaf(k, n)       == [k |-> k, name |-> n, arg |-> NoName, un |-> FALSE]
IntLeaf          == Leaf("int", NoName)
Extern(n, t)     == [kind |-> "extern", name |-> n, type |-> t]
Group(n, m, is)  == [kind |-> "group", name |-> n, isMsgId |-> m, items |-> is]
Item(n)          == [name |-> n, base |-> FALSE, idVal |-> 0]
ItemAt(n, v)     == [name |-> n, base |-> TRUE, idVal |-> v]
Msg(n, fs)       == [kind |-> "msg", name |-> n, fields |-> fs]
Bind(i, m)       == [kind |-> "bind", msgId |-> i, msgName |-> m]
Comment          == [kind |-> "comment"]
TypeDecl         == [kind |-> "typedef"]

Field(n, t) == [name |-> n, type |-> t, limit |-> NoName, max |-> NoName,
                equ |-> NoName, xor |-> NoName, existIf |-> NoName]

Program(ds) == [mspace |-> "lwe", decls |-> ds]
-----------------------------------------------------------------------------
(* Layout: one message of up to three fields of every shape, or of up to   *)
(* five fields over the widths that open, fill, overfill and leave a group.*)

LayoutTypes == {Prim("u2"), Prim("u3"), Prim("u6"), Prim("u8"), Prim("u16"),
                Prim("int"), StructOf("Inner"), Undef("Later", NilType)}

LayoutShapes ==
  {Field("", t) : t \in LayoutTypes}
  \cup {[Field("", Prim("u2")) EXCEPT !.xor = "K"],
        [Field("", Prim("u8")) EXCEPT !.xor = "K"],
        [Field("", Prim("v32")) EXCEPT !.xor = "K"],
        [Field("", Prim("u6")) EXCEPT !.existIf = "K"],
        [Field("", ArrayOf(Prim("u8"))) EXCEPT !.limit = "K"],
        Field("", ArrayOf(Prim("u8")))}

GroupShapes == {Field("", t) : t \in {Prim("u2"), Prim("u3"), Prim("u6"), Prim("u8")}}

FieldName == <<"f1", "f2", "f3", "f4", "f5">>

(* Sequences of at most n members of S, the i-th one called names[i].      *)
NamedTuples(S, names, n) ==
  LET T[k \in 0..n] ==
        IF k = 0 THEN {<<>>}
        ELSE LET shorter == T[k-1]
             IN  shorter \cup {Append(t, [s EXCEPT !.name = names[k]]) :
                                  t \in {u \in shorter : Len(u) = k - 1}, s \in S}
  IN  T[n]

Messages(shapes, n) == NamedTuples(shapes, FieldName, n)

LayoutPrograms ==
  {Program(<<Const("K", <<IntLeaf>>), Msg("M", fs)>>) :
     fs \in Messages(LayoutShapes, 3) \cup Messages(GroupShapes, 5)}
-----------------------------------------------------------------------------
(* Names: files of up to three declarations that define, redefine and refer *)
(* to few names, before and after they exist, in and out of scope.         *)

NameDecls ==
  {Const("A", <<IntLeaf>>), Const("B", <<Leaf("ref", "A")>>),
   Const("A", <<Leaf("str", NoName)>>),
   Const("C", <<Leaf("ref", "A"), Leaf("ref", "B")>>),
   Const("B", <<[Leaf("dot", "M") EXCEPT !.arg = "len"]>>),
   Const("C", <<[Leaf("idx", "A") EXCEPT !.arg = "B"]>>),
   Extern("A", ArrayOf(Prim("u8"))), Extern("B", Undef("Later", NilType)),
   Group("A", FALSE, <<>>), Group("B", FALSE, <<Item("A"), ItemAt("B", 3)>>),
   Msg("M", <<[Field("len", Prim("u8")) EXCEPT !.max = "A"],
              [Field("A", ArrayOf(Prim("u8"))) EXCEPT !.limit = "len"]>>),
   Msg("A", <<[Field("len", Prim("u16")) EXCEPT !.max = "len"], Field("B", StructOf("M"))>>),
   Msg("B", <<[Field("x", Prim("u8")) EXCEPT !.equ = "len"]>>),
   Msg("C", <<Field("x", Prim("u8")), Field("x", Prim("u8"))>>),
   Msg("C", <<[Field("A", Prim("u6")) EXCEPT !.max = "A"], [Field("y", Prim("u2")) EXCEPT !.equ = "A"]>>),
   Comment, TypeDecl}

NamePrograms ==
  {Program(ds) : ds \in Tuples(NameDecls, 3)} \cup {[mspace |-> NoName, decls |-> <<>>]}
-----------------------------------------------------------------------------
(* Ids and binds: files of up to three declarations, and of four where the *)
(* first or the last is the group of message ids g, so that binds precede  *)
(* and follow the ids and messages they name, repeat, and go to nil.       *)

BindDecls ==
  {Group("g", TRUE, <<ItemAt("m1", 0), Item("m2")>>),
   Group("g", TRUE, <<Item("m1"), ItemAt("m2", 1)>>),
   Group("h", FALSE, <<ItemAt("m3", 2), ItemAt("m4", 2)>>),
   Group("k", FALSE, <<ItemAt("m3", 1), Item("m1")>>),
   Msg("M", <<>>), Msg("N", <<Field("x", Prim("u8"))>>),
   Bind("m1", "M"), Bind("m1", "N"), Bind("m2", "M"), Bind("m3", "M"),
   Bind("m1", NoName), Bind("m9", NoName)}

IsG(d) == d.kind = "group" /\ d.name = "g"

BindPrograms ==
  {Program(ds) : ds \in Tuples(BindDecls, 3) \cup {t \in [1..4 -> BindDecls] : IsG(t[1]) \/ IsG(t[4])}}
-----------------------------------------------------------------------------
(* Ids: one or two groups of up to four items whose values are written or  *)
(* left to the successor, up to the largest machine integer.               *)

IdItems(names) ==
  NamedTuples({Item("")} \cup {ItemAt("", v) : v \in {-1, 0, 2, IntMax - 1, IntMax}}, names, 4)

IdPrograms ==
  {Program(<<Group("g", TRUE, is)>>) : is \in IdItems(<<"m1", "m2", "m3", "m4">>)}
  \cup {Program(<<Group("g", TRUE, <<ItemAt("m1", 1), Item("m2")>>), Group("h", FALSE, is)>>) :
          is \in IdItems(<<"m3", "m1", "m4", "m5">>)}

AllPrograms == LayoutPrograms \cup NamePrograms \cup BindPrograms \cup IdPrograms
=============================================================================
