------------------------------ MODULE MCMsgGen ------------------------------
(***************************************************************************)
(* Families of messages for model checking the generator: every sequence   *)
(* of up to three fields of every shape the analyser accepts, and of up to *)
(* four fields over the widths that open, fill and leave groups.            *)
(***************************************************************************)
EXTENDS MsgGen

FieldOf(n, t) == [name |-> n, type |-> t, limit |-> NoName, max |-> NoName,
                equ |-> NoName, xor |-> NoName, existIf |-> NoName]

FieldName == <<"f1", "f2", "f3", "f4">>

(* An array is limited by a field only if that field is an integer before. *)
Referable(m) == \A i \in DOMAIN m : m[i].limit = "f1" => i > 1 /\ Signature(m[1].type) = "I"

(* Laid-out sequences of at most n members of S, the i-th called names[i]. *)
NamedMessages(S, n) ==
  LET Upto[k \in 0..n] ==
        IF k = 0 THEN {<<>>}
        ELSE LET shorter == Upto[k-1]
             IN  shorter \cup {m \in {Append(t, [s EXCEPT !.name = FieldName[k]]) :
                                      t \in {u \in shorter : Len(u) = k - 1}, s \in S} :
                                Referable(m) /\ LaidOut(m)}
  IN  Upto[n]

u2 == FieldOf("", Prim("u2"))
u3 == FieldOf("", Prim("u3"))
u6 == FieldOf("", Prim("u6"))
u8 == FieldOf("", Prim("u8"))
u16 == FieldOf("", Prim("u16"))
Array(t, lim) == [FieldOf("", ArrayOf(t)) EXCEPT !.limit = lim]

GoodShapes ==
  {u2, u6, [u2 EXCEPT !.xor = "K"], u8, u16, FieldOf("", StructOf("Inner")),
   [u8 EXCEPT !.max = "K"], [u8 EXCEPT !.max = "K", !.existIf = "f1"],
   [u16 EXCEPT !.xor = "K", !.existIf = "f1"],
   [FieldOf("", StructOf("Inner")) EXCEPT !.existIf = "f1"],
   FieldOf("", Undef("Later", NilType)),
   Array(Prim("u8"), "K"), Array(Prim("u8"), "f1"), Array(Prim("u16"), "f1"),
   [Array(StructOf("Inner"), "K") EXCEPT !.existIf = "f1"]}

BadShapes == {FieldOf("", Prim("v32")), FieldOf("", Prim("string")), FieldOf("", NilType),
              Array(Prim("u4"), "K"), Array(Undef("Later", NilType), "K"), Array(Prim("v64"), "K"),
              Array(ArrayOf(Prim("u8")), "K"), FieldOf("", ArrayOf(Prim("u8")))}

WidthShapes == {u2, u3, [u3 EXCEPT !.xor = "K"], u6, u8}

GenMessages ==
  NamedMessages(GoodShapes, 3) \cup NamedMessages(GoodShapes \cup BadShapes, 2)
    \cup NamedMessages(WidthShapes, 4)

CheckShapes == {u2, [u2 EXCEPT !.equ = "K"], [u6 EXCEPT !.equ = "K"], u8,
                [u8 EXCEPT !.equ = "K"], [u16 EXCEPT !.equ = "K", !.existIf = "f1"]}
BothShapes == {u8, [u8 EXCEPT !.equ = "K"], [u8 EXCEPT !.max = "K"],
               [u8 EXCEPT !.equ = "K", !.max = "K"]}
CheckMessages == NamedMessages(CheckShapes, 3) \cup NamedMessages(BothShapes, 3)
=============================================================================
