----------------------------- MODULE MCScanner -----------------------------
(***************************************************************************)
(* Texts for model checking the scanner: every short one over a character  *)
(* of each class, and longer ones over those that one loop tells apart.    *)
(***************************************************************************)
EXTENDS Scanner

Upto(S, n) == UNION {[1..k -> S] : k \in 0..n}

Any == {"a", "x", "0", "_", Quote, Backslash, "/", "*", NL, "<", "non-ascii digit", "#", NUL}

Numbers   == {"0", "7", "x", "a", "g", "non-ascii digit"}
Strings   == {Quote, Backslash, "a", NL}
Slashes   == {"/", "*", NL, "a"}
Operators == {"-", ">", "=", "<", "!", "/"}

ShortTexts ==
  Upto(Any, 3) \cup Upto(Numbers, 5) \cup Upto(Strings, 7)
    \cup Upto(Slashes, 7) \cup Upto(Operators, 4)
=============================================================================
