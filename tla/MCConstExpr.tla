---------------------------- MODULE MCConstExpr ----------------------------
(***************************************************************************)
(* Families of texts: every operator between every two operands, every two *)
(* operators with and without parentheses, one operator of each level in   *)
(* chains of three, unary operators and postfixes in every position, and   *)
(* every short sequence of symbols, most of which are no expression.       *)
(***************************************************************************)
EXTENDS ConstExpr

BinarySyms == {"||", "&&", "|", "&", "==", "equal", "!=", "<", "<=", ">", ">=",
               "<<", "+", "-", "*", "/"}
LevelSyms == {"||", "&&", "|", "&", "==", "<", "<<", "+", "*"}
UnarySyms == {"!", "+"}

MCLiterals == ("2" :> 2) @@ ("3" :> 3) @@ ("7" :> 7) @@ ("0" :> 0) @@ ("14" :> 14) @@ ("99" :> 99)
MCStrings == {"'s'", "'t'"}
MCNames == ("C" :> "int") @@ ("S" :> "string") @@ ("A" :> "array") @@ ("M" :> "struct")

Values == DOMAIN MCLiterals \cup MCStrings
Operand == {<<"2">>, <<"C">>, <<"this", ".", "f">>}

Pairs  == {<<x, o, y>> : x \in Values, o \in BinarySyms, y \in Values \cup {"C"}}
Groups == UNION {{<<x, o, "3", p, y>>, <<"(", x, o, "3", ")", p, y>>, <<x, o, "(", "3", p, y, ")">>} :
                   x \in {"2", "'s'"}, o \in BinarySyms, p \in BinarySyms, y \in {"2", "14", "'t'"}}
Chains == {<<"2", o, "3", p, "2", q, "7">> : o \in LevelSyms, p \in LevelSyms, q \in LevelSyms}
Unary  == UNION {{<<u, "2", o, "3">>, <<"2", o, u, "3">>, <<u, "(", "2", o, "3", ")">>,
                  <<u, "(", "'s'", o, "'t'", ")">>, <<u, v, "2">>} :
                   u \in UnarySyms, v \in UnarySyms, o \in BinarySyms}
Post   == UNION {{a \o <<o>> \o b, <<"A", "[">> \o a \o <<"]", o>> \o b,
                  a \o <<o, "M", ".", "f">>, <<"A", "[">> \o a \o <<o>> \o b \o <<"]", ".", "g">>,
                  <<"(">> \o a \o <<o>> \o b \o <<")", "&", "2">>} :
                   a \in Operand, b \in Operand, o \in BinarySyms}

Symbols == {"2", "'s'", "C", "this", ".", "(", ")", "[", "]", "!", "*", ">>"}
Short   == UNION {[1..n -> Symbols] : n \in 0..3}
AsTuple(f) == SubSeq(f, 1, Len(f))

MCTexts == [kind : {"const", "cond"},
            syms : Pairs \cup Groups \cup Chains \cup Unary \cup Post \cup {AsTuple(f) : f \in Short}]

ArithmeticOperands == DOMAIN MCLiterals \cup {"C"}

ArithmeticTexts ==
  [kind : {"const"}, syms : {<<x, o, y>> : x \in ArithmeticOperands, y \in ArithmeticOperands,
                                         o \in {"<<", ">>", "+", "-", "*", "/"}}]
=============================================================================
