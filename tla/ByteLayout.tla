----------------------------- MODULE ByteLayout -----------------------------
(***************************************************************************)
(* What the three walks over the fields of a message promise about the     *)
(* wire: the fields are laid out one after the other; bit fields share a   *)
(* byte and never straddle two; a field made of whole bytes (an integer of *)
(* 8 bits or more, a message, an array) starts at a byte boundary.         *)
(*                                                                         *)
(* The semantic check (visitMsgDefine), the encoder's generator            *)
(* (visitMsgEncode_Go) and the decoder's generator (visitMsgDecode_Go)     *)
(* each keep their own copy of this state machine.                         *)
(***************************************************************************)
EXTENDS Naturals

VARIABLES off,     \* bits already used in the byte under construction
          placed   \* fields laid out so far in the current message

vars == <<off, placed>>

Init == off = 0 /\ placed = 0

PutBits(w) == /\ off + w <= 8
              /\ off' = (off + w) % 8
              /\ placed' = placed + 1

PutBytes == /\ off = 0
            /\ off' = 0
            /\ placed' = placed + 1

(* The next message starts in a fresh byte.                                *)
NewMessage == off' = 0 /\ placed' = 0

Next == (\E w \in 1..7 : PutBits(w)) \/ PutBytes \/ NewMessage

Spec == Init /\ [][Next]_vars
=============================================================================
