----------------------------- MODULE MCCompiler -----------------------------
(***************************************************************************)
(* Families of files for model checking the compiler: declarations that    *)
(* nest, rename, forward-refer and fail to generate, in every order the    *)
(* parser can deliver, and ids and binds in every order.                   *)
(***************************************************************************)
EXTENDS Compiler, TLC

FieldOf(n, t) == [name |-> n, type |-> t, limit |-> NoName, max |-> NoName,
                  equ |-> NoName, xor |-> NoName, existIf |-> NoName]
Leaf(k, n) == [k |-> k, name |-> n, arg |-> NoName, un |-> FALSE]

Const(n, ls)     == [kind |-> "const", name |-> n, leaves |-> ls, plus |-> TRUE]
Group(n, m, is)  == [kind |-> "group", name |-> n, isMsgId |-> m, items |-> is]
Item(n)          == [name |-> n, base |-> FALSE, idVal |-> 0]
ItemAt(n, v)     == [name |-> n, base |-> TRUE, idVal |-> v]
Msg(n, fs)       == [kind |-> "msg", name |-> n, fields |-> fs]
Bind(i, m)       == [kind |-> "bind", msgId |-> i, msgName |-> m]
Type(n, t)       == [kind |-> "typedef", name |-> n, impl |-> t]
Extern(n, t)     == [kind |-> "extern", name |-> n, type |-> t]
Comment          == [kind |-> "comment"]

Program(ds) == [mspace |-> "lwe", decls |-> ds]

Upto(S, n) == UNION {[1..k -> S] : k \in 0..n}
Parsed(dss) == {Program(ds) : ds \in {x \in dss : TypesResolved(x)}}
-----------------------------------------------------------------------------
(* Types: A is nested in M, M in N; Late is a forward reference that is    *)
(* resolved to a message or to an integer, or never.                       *)
A == StructOf("A")
M == StructOf("M")
u8 == Prim("u8")

TypeDecls ==
  {Msg("A", <<FieldOf("x", u8)>>),
   Msg("M", <<FieldOf("x", u8), FieldOf("a", A)>>),
   Msg("N", <<FieldOf("m", M), FieldOf("a", A)>>),
   Type("B", A), Type("C", A), Type("O", M),
   Msg("F", <<FieldOf("l", Undef("Late", NilType))>>),
   Msg("F", <<FieldOf("l", Undef("Late", A))>>), Type("Late", A),
   Msg("F", <<FieldOf("l", Undef("Late", u8))>>), Type("Late", u8)}

TypeOrders == Parsed(Upto(TypeDecls, 4))
             \cup Parsed({<<Msg("A", <<FieldOf("x", u8)>>)>> \o ds : ds \in [1..4 -> TypeDecls]})

(* Everything that makes a stage give up, beside what does not.            *)
BadDecls ==
  {Msg("S", <<FieldOf("x", u8), FieldOf("s", Prim("string"))>>),
   Msg("D", <<FieldOf("x", u8), FieldOf("x", u8)>>),
   Msg("V", <<FieldOf("x", Prim("u3")), FieldOf("y", Prim("u5")), FieldOf("z", u8)>>),
   Msg("W", <<FieldOf("x", Prim("u3")), FieldOf("y", Prim("u6"))>>), Type("X", StructOf("V")),
   Type("T", Prim("string")), Type("T", u8), Type("L", ArrayOf(u8)),
   Const("K", <<Leaf("int", NoName)>>),
   Const("J", <<Leaf("ref", "K")>>),
   Const("H", <<Leaf("int", NoName), Leaf("int", NoName)>>),
   Extern("E", u8), Comment,
   Group("g", TRUE, <<>>), Bind("m1", NoName)}

FailPrograms == Parsed(Upto(BadDecls, 3)) \cup {[mspace |-> NoName, decls |-> <<Comment>>]}
-----------------------------------------------------------------------------
(* Ids and binds.                                                          *)
IdDecls ==
  {Group("g", TRUE, <<ItemAt("m1", 1), Item("m2")>>),
   Group("h", TRUE, <<Item("m3"), ItemAt("m4", 4)>>),
   Group("d", TRUE, <<ItemAt("m8", 1), ItemAt("m9", 1)>>),
   Group("k", TRUE, <<ItemAt("m5", IntMax), Item("m6"), ItemAt("m7", IntMax)>>),
   Msg("A", <<FieldOf("x", u8)>>), Msg("M", <<>>), Const("K", <<Leaf("int", NoName)>>),
   Bind("m1", "A"), Bind("m2", "M"), Bind("m3", "A"), Bind("m2", "A"), Bind("m1", NoName), Bind("m4", "K")}

IdPrograms == Parsed(Upto(IdDecls, 4))

(* Two groups and a message, bound twice.                                  *)
CasePrograms ==
  Parsed({<<Group("g", TRUE, <<ItemAt("m1", 1), Item("m2")>>),
            Group("h", TRUE, <<Item("m3"), ItemAt("m4", 4)>>),
            Msg("A", <<FieldOf("x", u8)>>), b, c>> :
              b, c \in {Bind(i, m) : i \in {"m1", "m2", "m3"}, m \in {"A", NoName}}})

AllPrograms == TypeOrders \cup FailPrograms \cup IdPrograms
=============================================================================
