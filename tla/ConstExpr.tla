------------------------------ MODULE ConstExpr ------------------------------
(***************************************************************************)
(* Expressions: the value of a constant ("const X expr") and the condition *)
(* of a field ("exist if expr").  Both are read by the lexer and by the    *)
(* recursive descent of parser.go.  A constant is then typed by the        *)
(* analyser and evaluated by the interpreter; a condition is looked at by  *)
(* neither: the generator writes it out as Go text.                        *)
(*                                                                         *)
(* A text is a sequence of symbols, each an operator, a literal, a string  *)
(* or a name; what the lexer makes of characters inside literals, strings  *)
(* and names is left out.  Machine integers are -IntMax-1 .. IntMax.       *)
(*                                                                         *)
(* A definition Op_Slip just before Op is Op with one plausible mistake,   *)
(* for the mutation runs only.                                             *)
(***************************************************************************)
EXTENDS Integers, SequencesExt, FiniteSetsExt

CONSTANTS Texts,     \* [kind : {"const", "cond"}, syms : Seq(symbols)]
          Literals,  \* symbol -> the natural number it denotes
          Strings,   \* the symbols that are string literals
          Names,     \* symbol -> signature, the names known to the analyser
          IntMax     \* the largest machine integer (2^63 - 1 in Go)

ASSUME ExprAssumption ==
  /\ IntMax \in Nat
  /\ \A s \in DOMAIN Literals : Literals[s] \in Nat

VARIABLES text, phase, tree, used, type, out

vars == <<text, phase, tree, used, type, out>>
-----------------------------------------------------------------------------
(* getNextToken: the token types a symbol becomes.  '-' is given the type  *)
(* DIV; nothing looks for a second '>' after the first; the keyword equal  *)
(* has the type of ==.                                                     *)

OperatorTokens ==
  ("||" :> <<"OR">>) @@ ("&&" :> <<"AND">>) @@ ("|" :> <<"BIT_OR">>) @@ ("&" :> <<"BIT_AND">>)
  @@ ("==" :> <<"EQ">>) @@ ("equal" :> <<"EQ">>) @@ ("!=" :> <<"NEQ">>)
  @@ ("<" :> <<"LT">>) @@ ("<=" :> <<"LTE">>) @@ (">" :> <<"GT">>) @@ (">=" :> <<"GTE">>)
  @@ ("<<" :> <<"LSHIFT">>) @@ (">>" :> <<"GT", "GT">>)
  @@ ("+" :> <<"PLUS">>) @@ ("-" :> <<"DIV">>) @@ ("*" :> <<"MUL">>) @@ ("/" :> <<"DIV">>)
  @@ ("!" :> <<"NOT">>) @@ ("(" :> <<"LPAREN">>) @@ (")" :> <<"RPAREN">>)
  @@ ("[" :> <<"LBRACKET">>) @@ ("]" :> <<"RBRACKET">>) @@ ("." :> <<"DOT">>) @@ ("this" :> <<"THIS">>)

TokenTypes(s) == CASE s \in DOMAIN OperatorTokens -> OperatorTokens[s]
                   [] s \in DOMAIN Literals       -> <<"INT_CONST">>
                   [] s \in Strings               -> <<"STRING_CONST">>
                   [] OTHER                       -> <<"ID">>

EOF == [type |-> "EOF", sym |-> "EOF"]

Tokens(syms) ==
  FoldLeft(LAMBDA ts, s : ts \o [k \in DOMAIN TokenTypes(s) |-> [type |-> TokenTypes(s)[k], sym |-> s]],
           <<>>, syms)
-----------------------------------------------------------------------------
(* The tree.                                                               *)

Bin(op, l, r)   == [k |-> "bin", op |-> op, left |-> l, right |-> r]
Un(op, d)       == [k |-> "un", op |-> op, dst |-> d]
IntConst(s)     == [k |-> "int", sym |-> s]
StringConst(s)  == [k |-> "str", sym |-> s]
Ref(this, name) == [k |-> "ref", this |-> this, name |-> name]
Indexed(h, i)   == [k |-> "idx", host |-> h, index |-> i]
Dotted(h, n)    == [k |-> "dot", host |-> h, name |-> n]
NoTree          == [k |-> "none"]

(* expr, expr_and, ..., expr_mul: nine functions of one form, from the     *)
(* weakest binding operators to the strongest.  An attempt is the tree     *)
(* read and the position after it; p.panic makes it Failed.                *)
Operators ==
  << {"OR"}, {"AND"}, {"BIT_OR"}, {"BIT_AND"}, {"EQ", "NEQ"}, {"LT", "LTE", "GT", "GTE"},
     {"LSHIFT", "RSHIFT"}, {"PLUS", "MINUS"}, {"MUL", "DIV"} >>

Attempt(node, next) == [node |-> node, next |-> next]
Failed == Attempt(NoTree, 0)

TypeAt(ts, i) == IF i \in DOMAIN ts THEN ts[i].type ELSE EOF.type

RECURSIVE Expr(_, _, _), Operands(_, _, _), Factor(_, _), Postfix(_, _)

(* a and then what after makes of it, unless a failed.                     *)
Then(a, after(_)) == IF a = Failed THEN Failed ELSE after(a)

(* eat(t)                                                                  *)
Eat(ts, t, i, after(_)) == IF TypeAt(ts, i) = t THEN after(i + 1) ELSE Failed

Expr(ts, level, i) ==
  IF level > Len(Operators) THEN Factor(ts, i)
  ELSE Then(Expr(ts, level + 1, i), LAMBDA a : Operands(ts, level, a))

(* The loop of a level: operators of one level group to the left.          *)
Operands_Right(ts, level, a) ==
  IF TypeAt(ts, a.next) \notin Operators[level] THEN a
  ELSE Then(Expr(ts, level, a.next + 1),
            LAMBDA b : Attempt(Bin(ts[a.next].type, a.node, b.node), b.next))

Operands(ts, level, a) ==
  IF TypeAt(ts, a.next) \notin Operators[level] THEN a
  ELSE Then(Expr(ts, level + 1, a.next + 1),
            LAMBDA b : Operands(ts, level, Attempt(Bin(ts[a.next].type, a.node, b.node), b.next)))

Factor(ts, i) ==
  LET t == TypeAt(ts, i)
  IN  CASE t \in {"PLUS", "MINUS", "NOT"} ->
             Then(Factor(ts, i + 1), LAMBDA a : Attempt(Un(t, a.node), a.next))
        [] t = "INT_CONST"    -> Attempt(IntConst(ts[i].sym), i + 1)
        [] t = "STRING_CONST" -> Attempt(StringConst(ts[i].sym), i + 1)
        [] t = "ID"           -> Postfix(ts, Attempt(Ref(FALSE, ts[i].sym), i + 1))
        [] t = "THIS"         -> Eat(ts, "DOT", i + 1, LAMBDA j :
                                 Eat(ts, "ID", j, LAMBDA n :
                                 Postfix(ts, Attempt(Ref(TRUE, ts[j].sym), n))))
        [] t = "LPAREN"       -> Then(Expr(ts, 1, i + 1), LAMBDA a :
                                 Eat(ts, "RPAREN", a.next, LAMBDA n : Attempt(a.node, n)))
        [] OTHER              -> Failed

(* The loop of var_ref.                                                    *)
Postfix(ts, a) ==
  CASE TypeAt(ts, a.next) = "LBRACKET" ->
         Then(Expr(ts, 1, a.next + 1), LAMBDA b :
         Eat(ts, "RBRACKET", b.next, LAMBDA n : Postfix(ts, Attempt(Indexed(a.node, b.node), n))))
    [] TypeAt(ts, a.next) = "DOT" ->
         Eat(ts, "ID", a.next + 1, LAMBDA n : Postfix(ts, Attempt(Dotted(a.node, ts[a.next + 1].sym), n)))
    [] OTHER -> a

-----------------------------------------------------------------------------
(* The analyser: the class of the type of a tree, NoType if it panics.     *)
(* Elements of arrays and fields of structs are integers here; Semantic    *)
(* looks them up.                                                          *)

NoType == "none"

RECURSIVE TypeOf(_)

(* What two operands of one type allow.                                    *)
BinType_Mixed(op, l, r) ==
  CASE l = "int" /\ r # NoType                     -> "int"
    [] l = "string" /\ r # NoType /\ op = "PLUS"   -> "string"
    [] OTHER -> NoType

BinType(op, l, r) ==
  CASE l = "int" /\ r = "int"                        -> "int"
    [] l = "string" /\ r = "string" /\ op = "PLUS"   -> "string"
    [] OTHER -> NoType

TypeOf(n) ==
  CASE n.k = "int" -> "int"
    [] n.k = "str" -> "string"
    [] n.k = "ref" -> IF n.name \in DOMAIN Names THEN Names[n.name] ELSE NoType
    [] n.k = "idx" -> IF TypeOf(n.index) = "int" /\ TypeOf(n.host) = "array" THEN "int" ELSE NoType
    [] n.k = "dot" -> IF TypeOf(n.host) = "struct" THEN "int" ELSE NoType
    [] n.k = "un"  -> IF n.dst.k \in {"bin", "un", "int", "ref"} THEN TypeOf(n.dst) ELSE NoType
    [] n.k = "bin" -> BinType(n.op, TypeOf(n.left), TypeOf(n.right))
-----------------------------------------------------------------------------
(* The interpreter: the value of a tree.  Both operands are evaluated      *)
(* before the operator is looked at; a string on the left makes any        *)
(* operator a concatenation.  No constant is ever entered in the frame     *)
(* that visitVarRef looks into, so that every name panics, and visitBinOP  *)
(* and visitUnaryOP have no case for an index or a field.                  *)

IntVal(v) == [k |-> "int", v |-> v]
StrVal(v) == [k |-> "str", v |-> v]
PanicVal  == [k |-> "panic"]

Wrap(v)  == ((v + IntMax + 1) % (2 * IntMax + 2)) - IntMax - 1
Truth(b) == IntVal(IF b THEN 1 ELSE 0)

(* intConstVal: ParseUint saturates, the conversion to int wraps.          *)
IntConstVal(n) == Wrap(IF n > 2 * IntMax + 1 THEN 2 * IntMax + 1 ELSE n)

(* Go's division truncates.                                                *)
Abs(v) == IF v < 0 THEN -v ELSE v
Quot(l, r) == IF (l < 0) = (r < 0) THEN Abs(l) \div Abs(r) ELSE -(Abs(l) \div Abs(r))

Apply(op, l, r) ==
  CASE op = "PLUS"   -> IntVal(Wrap(l + r))
    [] op = "MINUS"  -> IntVal(Wrap(l - r))
    [] op = "MUL"    -> IntVal(Wrap(l * r))
    [] op = "DIV"    -> IF r = 0 THEN PanicVal ELSE IntVal(Wrap(Quot(l, r)))
    [] op = "LSHIFT" -> IF r < 0 THEN PanicVal ELSE IntVal(Wrap(l * 2^r))
    [] op = "AND"    -> IntVal(IF l = 0 THEN l ELSE r)
    [] op = "OR"     -> IntVal(IF l # 0 THEN l ELSE r)
    [] op = "EQ"     -> Truth(l = r)
    [] op = "NEQ"    -> Truth(l # r)
    [] op = "LT"     -> Truth(l < r)
    [] op = "LTE"    -> Truth(l <= r)
    [] op = "GT"     -> Truth(l > r)
    [] op = "GTE"    -> Truth(l >= r)
    [] OTHER         -> IntVal(0)

RECURSIVE Eval(_)

Negated(n, d) ==
  CASE n.dst.k = "str" \/ d.k # "int" -> PanicVal
    [] n.op = "PLUS"  -> d
    [] n.op = "MINUS" -> IntVal(Wrap(-d.v))
    [] n.op = "NOT"   -> Truth(d.v = 0)

Combined(op, l, r) ==
  CASE l.k = "str" /\ r.k = "str" -> StrVal(l.v \o r.v)
    [] l.k = "int" /\ r.k = "int" -> Apply(op, l.v, r.v)
    [] OTHER -> PanicVal

Eval(n) ==
  CASE n.k = "int" -> IntVal(IntConstVal(Literals[n.sym]))
    [] n.k = "str" -> StrVal(<<n.sym>>)
    [] n.k = "un"  -> Negated(n, Eval(n.dst))
    [] n.k = "bin" -> Combined(n.op, Eval(n.left), Eval(n.right))
    [] OTHER       -> PanicVal
-----------------------------------------------------------------------------
(* traveseCond: the Go text of a condition, as the tokens Go sees in it.   *)
(* Every operator below the top is put in parentheses; an operator without *)
(* a Go name, and a node that is none of the first three, becomes "??".    *)

Tok(t, s) == [type |-> t, sym |-> s]
Unknown == Tok("??", "??")

GoOperator(op) ==
  IF op \in {"BIT_AND", "BIT_OR", "AND", "OR", "EQ", "NEQ", "LT", "LTE", "GT", "GTE"}
  THEN Tok(op, op) ELSE Unknown

(* A literal beyond IntMax has become a negative number.                   *)
Fits(s) == Literals[s] <= IntMax
LiteralText(s) == IF Fits(s) THEN <<Tok("INT_CONST", s)>>
                  ELSE <<Tok("MINUS", "-"), Tok("INT_CONST", "wrapped")>>

Parens_Never(top, ts) == ts
Parens(top, ts) == IF top THEN ts ELSE <<Tok("LPAREN", "(")>> \o ts \o <<Tok("RPAREN", ")")>>

RECURSIVE Render(_, _)
Render(top, n) ==
  CASE n.k = "ref" -> (IF n.this THEN <<Tok("THIS", "this"), Tok("DOT", ".")>> ELSE <<>>) \o <<Tok("ID", n.name)>>
    [] n.k = "bin" -> Parens(top, Render(FALSE, n.left) \o <<GoOperator(n.op)>> \o Render(FALSE, n.right))
    [] n.k = "int" -> LiteralText(n.sym)
    [] OTHER -> <<Unknown>>
-----------------------------------------------------------------------------
Init == /\ text \in Texts
        /\ phase = "text"
        /\ tree = NoTree /\ used = 0 /\ type = NoType /\ out = <<>>

(* The tokens consumed: up to prevToken, one before the current token.     *)
Consumed(a) == a.next - 1

(* const_decl with eatSeperator, which allows nothing more on the line;    *)
(* the description of a field goes on after its condition.                 *)
Parse ==
  /\ phase = "text"
  /\ LET ts == Tokens(text.syms)
         a  == Expr(ts, 1, 1)
     IN  IF a = Failed \/ (text.kind = "const" /\ a.next <= Len(ts))
         THEN phase' = "panic" /\ UNCHANGED <<tree, used>>
         ELSE phase' = "parsed" /\ tree' = a.node /\ used' = Consumed(a)
  /\ UNCHANGED <<text, type, out>>

(* visitConstDef of the analyser.                                          *)
Analyse ==
  /\ phase = "parsed" /\ text.kind = "const"
  /\ type' = TypeOf(tree)
  /\ phase' = IF type' = NoType THEN "rejected" ELSE "accepted"
  /\ UNCHANGED <<text, tree, used, out>>

(* visitConstDef_Go                                                        *)
Interpret ==
  /\ phase = "accepted"
  /\ LET v == Eval(tree)
     IN  IF v = PanicVal THEN phase' = "panic" /\ UNCHANGED out
                         ELSE phase' = "emitted" /\ out' = <<v>>
  /\ UNCHANGED <<text, tree, used, type>>

(* wrapExist_Go                                                            *)
WriteCondition ==
  /\ phase = "parsed" /\ text.kind = "cond"
  /\ out' = Render(TRUE, tree)
  /\ phase' = "emitted"
  /\ UNCHANGED <<text, tree, used, type>>

Next == Parse \/ Analyse \/ Interpret \/ WriteCondition

Spec == Init /\ [][Next]_vars
-----------------------------------------------------------------------------
(***************************************************************************)
(* Properties.                                                             *)
(***************************************************************************)

(* The tree of a text by the usual definition of precedence: its root is   *)
(* the last of the weakest binary operators outside parentheses.           *)
Open  == {"LPAREN", "LBRACKET"}
Close == {"RPAREN", "RBRACKET"}
Depth(ts, i) == Cardinality({j \in 1..i-1 : ts[j].type \in Open})
                  - Cardinality({j \in 1..i-1 : ts[j].type \in Close})

BinaryAt(levels, ts) ==
  {i \in 2..Len(ts) : /\ ts[i].type \in UNION Range(levels)
                     /\ ts[i-1].type \in Close \cup {"INT_CONST", "STRING_CONST", "ID", "??"}
                     /\ Depth(ts, i) = 0}

Level(levels, t) == CHOOSE l \in DOMAIN levels : t \in levels[l]

Root(levels, ts) ==
  LET is == BinaryAt(levels, ts)
      weakest == CHOOSE l \in {Level(levels, ts[i].type) : i \in is} :
                   \A i \in is : l <= Level(levels, ts[i].type)
  IN  CHOOSE i \in is : /\ ts[i].type \in levels[weakest]
                        /\ \A j \in is : ts[j].type \in levels[weakest] => j <= i

RECURSIVE TreeOf(_, _)
TreeOf(levels, ts) ==
  LET n == Len(ts)
      Part(i, j) == TreeOf(levels, SubSeq(ts, i, j))
      (* the bracket that the last token closes *)
      opens == CHOOSE i \in 1..n : Depth(ts, i) = 0 /\ \A j \in i+1..n : Depth(ts, j) > 0
  IN  CASE BinaryAt(levels, ts) # {} ->
             LET i == Root(levels, ts) IN Bin(ts[i].type, Part(1, i - 1), Part(i + 1, n))
        [] ts[1].type \in {"PLUS", "MINUS", "NOT"} -> Un(ts[1].type, Part(2, n))
        [] ts[1].type = "LPAREN"       -> Part(2, n - 1)
        [] ts[1].type = "INT_CONST"    -> IntConst(ts[1].sym)
        [] ts[1].type = "STRING_CONST" -> StringConst(ts[1].sym)
        [] ts[n].type = "RBRACKET"     -> Indexed(Part(1, opens - 1), Part(opens + 1, n - 1))
        [] n = 1                       -> Ref(FALSE, ts[1].sym)
        [] ts[1].type = "THIS" /\ n = 3 -> Ref(TRUE, ts[3].sym)
        [] OTHER                       -> Dotted(Part(1, n - 2), ts[n].sym)

(* What the nine functions of the parser read is what the precedence and   *)
(* the left associativity of the grammar's operators say.                  *)
ParsesByPrecedence ==
  phase # "text" /\ tree # NoTree =>
    tree = TreeOf(Operators, SubSeq(Tokens(text.syms), 1, used))

(* A condition means in the generated Go program, with Go's precedences,   *)
(* what it means in the source, as long as its literals are machine        *)
(* integers and the generator has a name for its operators.                *)
GoOperators ==
  << {"OR"}, {"AND"}, {"EQ", "NEQ", "LT", "LTE", "GT", "GTE"}, {"PLUS", "MINUS", "BIT_OR"},
     {"MUL", "DIV", "LSHIFT", "RSHIFT", "BIT_AND"} >>

ConditionKeepsMeaning ==
  /\ phase = "emitted" /\ text.kind = "cond" /\ Unknown \notin Range(out)
  /\ \A i \in DOMAIN text.syms : text.syms[i] \in DOMAIN Literals => Fits(text.syms[i])
  => TreeOf(GoOperators, out) = tree

(* A constant that the analyser accepts has a value of the type that the   *)
(* analyser gave it, unless it names something, negates a string, divides  *)
(* by zero or shifts by a negative amount.                                 *)
RECURSIVE SubTrees(_)
SubTrees(n) ==
  {n} \cup CASE n.k = "bin" -> SubTrees(n.left) \cup SubTrees(n.right)
             [] n.k = "un"  -> SubTrees(n.dst)
             [] n.k = "idx" -> SubTrees(n.host) \cup SubTrees(n.index)
             [] n.k = "dot" -> SubTrees(n.host)
             [] OTHER -> {}

Excused(n) ==
  \/ n.k = "ref"
  \/ n.k = "un" /\ TypeOf(n.dst) # "int"
  \/ n.k = "bin" /\ LET r == Eval(n.right)
                    IN  r.k = "int" /\ ((n.op = "DIV" /\ r.v = 0) \/ (n.op = "LSHIFT" /\ r.v < 0))

TypedValue ==
  type # NoType =>
    /\ phase = "panic" => \E n \in SubTrees(tree) : Excused(n)
    /\ phase = "emitted" => out[1].k = (IF type = "int" THEN "int" ELSE "str")

(* Claimed by the grammar in parser.go, expr_shift : expr_add ((LSHIFT |   *)
(* RSHIFT) expr_add)*, and so on down to factor : ... | var_ref: a         *)
(* constant of two operands, literals or names of integer constants, is    *)
(* the operation that is written between them, and has a value but for a   *)
(* zero divisor or a negative shift.                                       *)
Written == ("<<" :> "LSHIFT") @@ (">>" :> "RSHIFT") @@ ("+" :> "PLUS") @@ ("-" :> "MINUS")
             @@ ("*" :> "MUL") @@ ("/" :> "DIV")

OperandTree(s) == IF s \in DOMAIN Literals THEN IntConst(s) ELSE Ref(FALSE, s)

ConstantsMean ==
  \A o \in DOMAIN Written, x, y \in DOMAIN Literals \cup {n \in DOMAIN Names : Names[n] = "int"} :
    text = [kind |-> "const", syms |-> <<x, o, y>>] =>
      /\ phase # "text" => tree = Bin(Written[o], OperandTree(x), OperandTree(y))
      /\ phase = "panic" => o \in {"/", "<<", ">>"}
=============================================================================
