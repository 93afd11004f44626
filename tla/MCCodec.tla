------------------------------ MODULE MCCodec ------------------------------
(***************************************************************************)
(* Messages and values for running the generated code: every sequence of   *)
(* up to three fields of CodecShapes whose references the analyser         *)
(* resolves.  The field f1 is the one that conditions and limits refer to. *)
(***************************************************************************)
EXTENDS Codec, MCMsgGen, Bitwise

CodecShapes ==
  {u2, u6, [u2 EXCEPT !.xor = "K"], [u2 EXCEPT !.equ = "K"], [u2 EXCEPT !.max = "K"],
   [u2 EXCEPT !.existIf = "f1"],
   [u8 EXCEPT !.max = "K"], [u8 EXCEPT !.equ = "K", !.existIf = "f1"],
   [u16 EXCEPT !.xor = "W"], [u16 EXCEPT !.max = "W", !.existIf = "f1"],
   Array(Prim("u8"), "f1"), Array(Prim("u16"), "f1"),
   Array(StructOf("Inner"), "K")}

(* An array whose limit is, to the analyser, the constant f2.              *)
LateLimit == <<[Array(Prim("u8"), "f2") EXCEPT !.name = "f1"], [u8 EXCEPT !.name = "f2", !.max = "K"]>>

(* A condition on a field that may not be there.                           *)
Nested == <<[u8 EXCEPT !.name = "f1"], [u8 EXCEPT !.name = "f2", !.existIf = "f1"],
            [u8 EXCEPT !.name = "f3", !.existIf = "f2"]>>

(* Sequences that may compile: a limit f1 has a max, a condition on f1 is  *)
(* on an integer.                                                          *)
CodecMessages ==
  {m \in NamedMessages(CodecShapes, 3) :
     \A i \in DOMAIN m : /\ m[i].limit = "f1" => m[1].max # NoName
                         /\ m[i].existIf = "f1" => i > 1 /\ IsIntType(m[1].type)}
    \cup {LateLimit, Nested}

(* 6 is two bits wider than u2; 3 is above K, 258 is above W, which is a    *)
(* byte wider than K.                                                      *)
CodecConsts == [n \in {"K", "W", "f2"} |-> IF n = "W" THEN 257 ELSE 2]
CodecValues == [n \in BitNames \cup ByteNames |->
                  CASE n = "u2" -> {2, 6} [] n = "u6" -> {5, 63} [] n = "u8" -> {0, 2, 3}
                    [] n = "u16" -> {0, 258} [] OTHER -> {}]
CodecLeftovers == [n \in BitNames \cup ByteNames |->
                     CASE n \in {"u2", "u6"} -> {255} [] n = "u8" -> {255} [] n = "u16" -> {258} [] OTHER -> {}]
CodecNoise == {0, 255}
CodecArrivals == {<<>>, <<1, 0, 2, 2>>}

(* OrByte and XorByte are those of the community modules, on bytes; on      *)
(* the bytes of an integer they are those of the integer.                  *)
ASSUME \A x, y \in {0, 1, 2, 3, 5, 6, 63, 85, 128, 170, 255} :
         OrByte(x, y) = (x | y) /\ XorByte(x, y) = (x ^^ y)
ASSUME \A x, y \in {0, 1, 255, 257, 258, 1023, 65535} :
         Number(Masked(BigEndian(x, 16), y)) = (x ^^ y)
=============================================================================
