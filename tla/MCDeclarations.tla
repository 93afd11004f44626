--------------------------- MODULE MCDeclarations ---------------------------
(***************************************************************************)
(* Families of files for model checking the parser's declarations: the     *)
(* text of types that nest, stand for and refer to one another in every    *)
(* order, and the texts that one slip of the pen makes of legal ones.      *)
(***************************************************************************)
EXTENDS Declarations

Const(n, ops)     == [kind |-> "const", name |-> n, val |-> ops]
Group(n, m, is)   == [kind |-> "group", name |-> n, isMsgId |-> m, items |-> is, notes |-> <<>>]
Item(n)           == [name |-> n, base |-> FALSE, idVal |-> 0]
ItemOf(n, v)      == [name |-> n, base |-> TRUE, idVal |-> v]
Msg(n, fs)        == [kind |-> "msg", name |-> n, fields |-> fs, notes |-> <<>>]
BindOf(i, m)      == [kind |-> "bind", msgId |-> i, msgName |-> m]
Type(n, t)        == [kind |-> "typedef", name |-> n, impl |-> t]
ExternOf(n, t)    == [kind |-> "extern", name |-> n, type |-> t]

u8 == Prim("u8")
A == Undef("A", NilType)
B == Undef("B", NilType)
C == Undef("C", NilType)
-----------------------------------------------------------------------------
(* The text of a program: a declaration a line, or all on one line with    *)
(* semicolons, except after a type, where the parser takes none.           *)
Line(words, l) == [k \in DOMAIN words |-> [t |-> words[k].t, v |-> words[k].v, n |-> words[k].n, line |-> l]]

Lines(ds) == FlattenSeq([i \in DOMAIN ds |-> Line(DeclText(ds[i]), i)])

OneLine(ds) ==
  FlattenSeq([i \in DOMAIN ds |->
    Line(DeclText(ds[i]) \o IF ds[i].kind = "typedef" THEN <<>> ELSE Words(<<"SEMI">>), 1)])

Programs(dss) == {[text |-> Lines(ds), tree |-> ds] : ds \in dss}
                   \cup {[text |-> OneLine(ds), tree |-> ds] : ds \in dss}
-----------------------------------------------------------------------------
(* Types: A is a message, an integer, another name, an array of itself or  *)
(* of arrays of itself.                                                    *)
TypeDecls ==
  {Msg("A", <<NewField("x", u8)>>), Type("A", u8), Type("A", B), Type("A", ArrayOf(A)),
   Type("A", ArrayOf(ArrayOf(A))), Msg("B", <<NewField("a", A), NewField("l", ArrayOf(A))>>), Type("B", A),
   Type("B", ArrayOf(u8)), Type("C", B), ExternOf("E", ArrayOf(C)), Msg("M", <<NewField("b", B)>>)}

TypeOrders == UNION {[1..k -> TypeDecls] : k \in 1..3}
                \cup [1..4 -> {Type("A", u8), Msg("A", <<>>), Type("B", A), Msg("B", <<NewField("a", A)>>), Type("C", B),
                               ExternOf("E", ArrayOf(C))}]

(* A name of a built-in type that is no keyword.                           *)
VoidOrders == {<<Msg("void", <<>>)>>, <<Type("void", u8)>>, <<ExternOf("E", Undef("void", NilType))>>}
-----------------------------------------------------------------------------
(* Words: every kind of declaration, every descriptor, lists of every      *)
(* length.                                                                 *)
WordDecls ==
  {Const("K", <<"one">>), Const("K", <<"one", "K">>),
   Group("g", TRUE, <<>>), Group("g", FALSE, <<Item("i"), ItemOf("j", 3), Item("k")>>),
   BindOf("i", "M"), BindOf("i", NoName),
   Msg("M", <<>>),
   Msg("M", <<[NewField("n", u8) EXCEPT !.max = "K", !.equ = "K"],
              [NewField("l", ArrayOf(u8)) EXCEPT !.limit = "n", !.existIf = <<"n", "K">>]>>),
   Msg("M", <<[NewField("n", u8) EXCEPT !.xor = "K", !.existIf = <<"n">>], NewField("a", ArrayOf(ArrayOf(A)))>>),
   ExternOf("E", ArrayOf(u8)), Type("T", u8)}

WordOrders == UNION {[1..k -> WordDecls] : k \in 0..2}

Space == Words(<<"MSPACE">>) \o Name("lwe")

(* Legal texts that DeclText does not write.                               *)
Cmt == <<Word("SCOMMENT", "c")>>
Braced(d, inner) == SubSeq(DeclText(d), 1, 3) \o inner \o Words(<<"RBRACE">>)
NotedGroup == Group("g", TRUE, <<Item("i"), Item("j")>>)
NotedMsg   == Msg("M", <<NewField("n", u8)>>)

CommentTexts ==
  {Braced(NotedGroup, Cmt \o Cmt \o Name("i") \o Cmt \o Words(<<"COMMA">>) \o Cmt \o Name("j") \o c) :
     c \in {Cmt, Words(<<"COMMA">>), <<>>}}

Commented ==
  {[text |-> Line(t, 1), tree |-> <<NotedGroup>>] : t \in CommentTexts}
  \cup {[text |-> Line(Braced(NotedMsg, Cmt \o FieldText(NewField("n", u8)) \o Cmt \o Cmt), 1), tree |-> <<NotedMsg>>]}

(* Two descriptors, in any order and of one kind; a late or a second       *)
(* mspace; arrays three deep.                                              *)
DescParts == {Words(<<"LIMIT", "BY">>) \o Name("n"), Words(<<"MAX">>) \o Name("K"), Words(<<"EQ">>) \o Name("K"),
              Words(<<"XOR">>) \o Name("K"), Words(<<"EXIST", "IF">>) \o ExprText(<<"n", "K">>)}

Loose ==
  {Line(Braced(NotedMsg, Name("n") \o <<Word("PRIM", "u8")>> \o Words(<<"DESC">>) \o a \o b), 1) :
     a \in DescParts, b \in DescParts}
  \cup {Line(Space, 1) \o Line(Space, 2), Line(DeclText(NotedGroup), 1) \o Line(Space, 2),
        Line(Words(<<"EXTERN">>) \o Name("E") \o Words(<<"LBRACKET", "RBRACKET">>) \o TypeText(ArrayOf(ArrayOf(u8))), 1)}
-----------------------------------------------------------------------------
(* One slip: a word left out, doubled or exchanged with the next, a        *)
(* comment or a comma too many, a line too long, a number too large.       *)
Slips(s) ==
  {RemoveAt(s, i) : i \in DOMAIN s}
  \cup {InsertAt(s, i, s[i]) : i \in DOMAIN s}
  \cup {[s EXCEPT ![i] = s[i+1], ![i+1] = s[i]] : i \in 1..Len(s) - 1}
  \cup {InsertAt(s, i, [w EXCEPT !.line = s[i].line]) :
          i \in DOMAIN s, w \in {Line(Cmt, 1)[1], Line(Words(<<"COMMA">>), 1)[1], Line(Words(<<"BAD">>), 1)[1]}}
  \cup {[k \in DOMAIN s |-> [s[k] EXCEPT !.line = 1]]}
  \cup {[k \in DOMAIN s |-> IF s[k].t = "INT_CONST" THEN [s[k] EXCEPT !.n = m] ELSE s[k]] :
          m \in {IntMax + 1, UintMax, UintMax + 1}}

Bases == {Lines(<<d>>) : d \in WordDecls}
           \cup {Lines(<<d, Group("h", FALSE, <<Item("p"), Item("q")>>)>>) : d \in WordDecls}
           \cup {OneLine(<<d, Const("K", <<"one">>)>>) : d \in WordDecls}
           \cup {Line(Space, 1) \o Line(DeclText(d), 2) : d \in WordDecls}

Slipped == {[text |-> t, tree |-> <<>>] : t \in UNION {Slips(s) : s \in Bases} \cup Loose}

AllFiles == Programs(TypeOrders \cup VoidOrders \cup WordOrders) \cup Commented \cup Slipped

(* Two messages, one nested in the other, and an external variable.        *)
MsgDecls == {Msg("A", <<NewField("x", u8)>>), Msg("B", <<NewField("a", A)>>), ExternOf("E", B)}
MsgFiles == Programs(UNION {[1..k -> MsgDecls] : k \in 1..3})
=============================================================================
