------------------------------- MODULE Batch -------------------------------
(***************************************************************************)
(* What a batch compiler promises to the script that calls it: nothing is  *)
(* written before the input has been judged as a whole, a refused input    *)
(* leaves nothing behind, and the exit code of a run that began to write   *)
(* is 0 exactly when everything has been written.                          *)
(***************************************************************************)
EXTENDS Integers

CONSTANT Running    \* the exit code of a compiler that has not ended

VARIABLES phase,    \* "judge" | "write" | "end"
          verdict,  \* "none" | "ok" | "reject"
          left,     \* units of the translation still to be written
          written,  \* has anything been written
          exit

vars == <<phase, verdict, left, written, exit>>

Init == /\ phase = "judge" /\ verdict = "none"
        /\ left \in Nat
        /\ written = FALSE
        /\ exit = Running

Judge == /\ phase = "judge" /\ verdict = "none"
         /\ verdict' \in {"ok", "reject"}
         /\ UNCHANGED <<phase, left, written, exit>>

Begin == /\ phase = "judge" /\ verdict = "ok"
         /\ phase' = "write"
         /\ UNCHANGED <<verdict, left, written, exit>>

Refuse == /\ phase = "judge" /\ phase' = "end"
          /\ exit' \in Nat
          /\ UNCHANGED <<verdict, left, written>>

Write == /\ phase = "write" /\ left > 0
         /\ left' \in {left, left - 1}
         /\ written' \in {written, TRUE}
         /\ UNCHANGED <<phase, verdict, exit>>

GiveUp == /\ phase = "write" /\ left > 0 /\ phase' = "end"
          /\ exit' \in Nat \ {0}
          /\ UNCHANGED <<verdict, left, written>>

Finish == /\ phase = "write" /\ left = 0 /\ phase' = "end"
          /\ exit' = 0
          /\ UNCHANGED <<verdict, left, written>>

Next == Judge \/ Begin \/ Refuse \/ Write \/ GiveUp \/ Finish

Spec == Init /\ [][Next]_vars
=============================================================================
