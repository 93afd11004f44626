------------------------------ MODULE Scanner ------------------------------
(***************************************************************************)
(* The scanning half of the lexer (protoc/lexer.go): getNextToken called   *)
(* until the end of the text, with the loops of skipSpaces, skipComment,   *)
(* getInteger, getString and getId.  One action per turn of a loop.        *)
(*                                                                         *)
(* A character is the member of its class that the code could tell apart:  *)
(* a hexadecimal letter, the letter x, any other letter, ...  Which token  *)
(* an operator or a keyword becomes is in module ConstExpr.                *)
(*                                                                         *)
(* The pieces of the text read so far are kept with where they stand:      *)
(* "int", "id", "string", "op", "note" (a //* comment) are tokens,         *)
(* "comment" is skipped.                                                   *)
(*                                                                         *)
(* A definition Op_Slip just before Op is Op with one plausible mistake,   *)
(* for the mutation runs only.                                             *)
(***************************************************************************)
EXTENDS Integers, Sequences, FiniteSets

CONSTANT Texts   \* sequences of characters

ASSUME TextsAssumption == \A t \in Texts : Len(t) \in Nat /\ DOMAIN t = 1..Len(t)

NL   == "newline"
NUL  == "0x00"
Quote == "\""
Backslash == "\\"
Gaps == {" ", NL}                 \* unicode.IsSpace
Letters == {"a", "g", "x"}        \* unicode.IsLetter
Digits  == {"0", "7"}
ForeignDigits == {"non-ascii digit"}
HexDigits == Digits \cup {"a"}
IdChars == Letters \cup Digits \cup ForeignDigits \cup {"_"}
Pairs == {<<"-", ">">>, <<":", "=">>, <<"=", "=">>, <<"!", "=">>, <<"&", "&">>,
          <<"|", "|">>, <<"<", "=">>, <<"<", "<">>, <<">", "=">>}
Singles == {p[1] : p \in Pairs} \cup {"+", "*", "/", "(", ")", "{", "}", ",", ";", "[", "]", "."}

VARIABLES
  text,
  pos,      \* the current character; past the end it counts no further
  lineNo,
  mode,     \* "gap" | "int" | "hex" | "string" | "id" | "line" | "block"
  from,     \* where the piece under way began, and its line
  line,
  pieces,
  status    \* "scan" | "eof" | "unknown"

vars == <<text, pos, lineNo, mode, from, line, pieces, status>>

End == Len(text) + 1

Peek(k) == IF pos + k \in DOMAIN text THEN text[pos + k] ELSE NUL
Cur == Peek(0)

(* advanceBy: a line break counts once a character follows it.             *)
Counts(i) == i \in DOMAIN text /\ text[i] = NL /\ i + 1 \in DOMAIN text

AdvanceBy_First(n) ==
  /\ pos' = IF pos + n > End THEN End ELSE pos + n
  /\ lineNo' = lineNo + IF n > 0 /\ Counts(pos) THEN 1 ELSE 0

AdvanceBy(n) ==
  /\ pos' = IF pos + n > End THEN End ELSE pos + n
  /\ lineNo' = lineNo + Cardinality({i \in pos..pos + n - 1 : Counts(i)})

Stay == UNCHANGED <<pos, lineNo>>

Piece(kind, first, last, l) == [kind |-> kind, from |-> first, to |-> last, line |-> l]

Take(kind, last, l) == /\ pieces' = Append(pieces, Piece(kind, from, last, l))
                       /\ mode' = "gap"
                       /\ UNCHANGED <<text, from, line, status>>

(* One more turn of the loop that reads the piece.                         *)
More(n) == AdvanceBy(n) /\ UNCHANGED <<text, mode, from, line, pieces, status>>

Scanning(m) == status = "scan" /\ mode = m
-----------------------------------------------------------------------------
(* Between two pieces.                                                     *)

SkipSpace == Scanning("gap") /\ Cur \in Gaps /\ More(1)

Stop(s) == status' = s /\ UNCHANGED <<text, pos, lineNo, mode, from, line, pieces>>

(* The end of the text, or a character 0.                                  *)
Eof == Scanning("gap") /\ Cur = NUL /\ Stop("eof")

Start(m, n) == /\ mode' = m /\ from' = pos /\ line' = lineNo
               /\ AdvanceBy(n)
               /\ UNCHANGED <<text, pieces, status>>

StartHex == Scanning("gap") /\ Cur = "0" /\ Peek(1) = "x" /\ Start("hex", 2)

StartInt == /\ Scanning("gap") /\ Cur \in Digits \cup ForeignDigits
            /\ ~(Cur = "0" /\ Peek(1) = "x")
            /\ Start("int", 0)

StartId == Scanning("gap") /\ Cur \in Letters /\ Start("id", 0)

StartString == Scanning("gap") /\ Cur = Quote /\ Start("string", 1)

StartBlock == Scanning("gap") /\ Cur = "/" /\ Peek(1) = "*" /\ Start("block", 0)

StartLine == Scanning("gap") /\ Cur = "/" /\ Peek(1) = "/" /\ Start("line", 0)

IsComment == Cur = "/" /\ Peek(1) \in {"*", "/"}

Operator(n) == /\ pieces' = Append(pieces, Piece("op", pos, pos + n - 1, lineNo))
               /\ AdvanceBy(n)
               /\ UNCHANGED <<text, mode, from, line, status>>

Op2_TakesOne == Scanning("gap") /\ <<Cur, Peek(1)>> \in Pairs /\ Operator(1)
Op2 == Scanning("gap") /\ <<Cur, Peek(1)>> \in Pairs /\ Operator(2)

Op1 == /\ Scanning("gap") /\ Cur \in Singles /\ ~IsComment
       /\ <<Cur, Peek(1)>> \notin Pairs
       /\ Operator(1)

(* getNextToken returns nil, for instance for a name that begins with _.   *)
Unknown == /\ Scanning("gap")
           /\ Cur \notin Gaps \cup Digits \cup ForeignDigits \cup Letters \cup Singles \cup {Quote, NUL}
           /\ Stop("unknown")
-----------------------------------------------------------------------------
(* getInteger: a digit outside ASCII ends it, even as the first one.       *)

MoreInt == Scanning("int") /\ Cur \in Digits /\ More(1)
EndInt  == /\ Scanning("int") /\ Cur \notin Digits /\ pos > from
           /\ Take("int", pos - 1, line) /\ Stay
MoreHex == Scanning("hex") /\ Cur \in HexDigits /\ More(1)
EndHex  == Scanning("hex") /\ Cur \notin HexDigits /\ Take("int", pos - 1, line) /\ Stay

(* Nothing has been read, so the next call is at the same digit: the same  *)
(* empty number is recorded once.                                          *)
EmptyInt ==
  /\ Scanning("int") /\ Cur \notin Digits /\ pos = from
  /\ LET empty == Piece("int", from, pos - 1, line)
     IN  pieces' = IF \E p \in DOMAIN pieces : pieces[p] = empty THEN pieces ELSE Append(pieces, empty)
  /\ mode' = "gap"
  /\ UNCHANGED <<text, pos, lineNo, from, line, status>>

(* getId; the line is that of the character after it.                      *)
MoreId == Scanning("id") /\ Cur \in IdChars /\ More(1)
EndId  == Scanning("id") /\ Cur \notin IdChars /\ Take("id", pos - 1, lineNo) /\ Stay

(* getString: no end is looked for but the quote.                          *)
Escape == Scanning("string") /\ Cur = Backslash /\ More(2)
MoreString_Stays == Scanning("string") /\ Cur \notin {Quote, Backslash} /\ More(0)
MoreString == Scanning("string") /\ Cur \notin {Quote, Backslash} /\ More(1)
EndString == Scanning("string") /\ Cur = Quote /\ Take("string", pos, line) /\ AdvanceBy(1)

(* skipComment(true), from the slash on.                                   *)
AtClose == Cur = "*" /\ Peek(1) = "/"
MoreBlock  == Scanning("block") /\ pos < End /\ ~AtClose /\ More(1)
CloseBlock_HalfWay == Scanning("block") /\ AtClose /\ Take("comment", pos + 1, line) /\ AdvanceBy(1)
CloseBlock == Scanning("block") /\ AtClose /\ Take("comment", pos + 1, line) /\ AdvanceBy(2)
OpenBlock  == Scanning("block") /\ pos = End /\ Take("comment", pos - 1, line) /\ Stay

(* skipComment(false), and the note it may be.                             *)
LineKind == IF from + 2 \in DOMAIN text /\ text[from + 2] = "*" THEN "note" ELSE "comment"
MoreLine == Scanning("line") /\ pos < End /\ Cur # NL /\ More(1)
EndLine_Skips == /\ Scanning("line")
                 /\ pos = End \/ Cur = NL
                 /\ Take(LineKind, pos - 1, line)
                 /\ AdvanceBy(2)
EndLine == /\ Scanning("line")
           /\ pos = End \/ Cur = NL
           /\ Take(LineKind, pos - 1, line)
           /\ AdvanceBy(1)
-----------------------------------------------------------------------------
Init == /\ text \in Texts
        /\ pos = 1 /\ lineNo = (IF text = <<>> THEN 0 ELSE 1)
        /\ mode = "gap" /\ from = 1 /\ line = 0
        /\ pieces = <<>>
        /\ status = "scan"

Next == \/ SkipSpace \/ Eof \/ Unknown
        \/ StartHex \/ StartInt \/ StartId \/ StartString \/ StartBlock \/ StartLine
        \/ Op2 \/ Op1
        \/ MoreInt \/ EndInt \/ EmptyInt \/ MoreHex \/ EndHex \/ MoreId \/ EndId
        \/ Escape \/ MoreString \/ EndString
        \/ MoreBlock \/ CloseBlock \/ OpenBlock
        \/ MoreLine \/ EndLine

Spec == Init /\ [][Next]_vars

(* The scanner runs until it returns the end or gives up.                  *)
FairSpec == Spec /\ WF_vars(Next)

-----------------------------------------------------------------------------
(***************************************************************************)
(* Properties.                                                             *)
(***************************************************************************)
(* The types of the state.                                                 *)
TypeOK ==
  /\ pos \in 1..End /\ from \in 1..pos
  /\ lineNo \in 0..End /\ line \in 0..lineNo
  /\ mode \in {"gap", "int", "hex", "string", "id", "line", "block"}
  /\ status \in {"scan", "eof", "unknown"}
  /\ \A p \in DOMAIN pieces : pieces[p].to < pos

(* Every character belongs to at most one piece, to one at least unless it *)
(* is a space, and the end is reached only after all of them (a character  *)
(* 0 counts as the end).                                                   *)
Read == 1..(IF mode = "gap" THEN pos ELSE from) - 1

Tiled ==
  /\ \A p \in 1..Len(pieces) - 1 : pieces[p].to < pieces[p + 1].from
  /\ \A i \in Read : \/ text[i] \in Gaps
                     \/ \E p \in DOMAIN pieces : i \in pieces[p].from..pieces[p].to
  /\ status = "eof" => pos = End \/ text[pos] = NUL

(* A piece is what its kind says, and as long as it can be: a number or a  *)
(* name ends before a character that cannot continue it, an operator of    *)
(* one character is not the start of one of two, a string ends at its      *)
(* first quote that is not escaped, a comment at its first end - where the *)
(* star that opens it may also close it.                                   *)
At(i) == IF i \in DOMAIN text THEN text[i] ELSE NUL
Every(i, j, S) == \A k \in i..j : text[k] \in S

Escaped(first, i) ==
  LET run == {k \in first..i - 1 : Every(k, i - 1, {Backslash})}
  IN  Cardinality(run) % 2 = 1

Closes(i) == At(i) = "*" /\ At(i + 1) = "/"

IntRead(i, j) ==
  IF At(i) = "0" /\ At(i + 1) = "x"
  THEN j > i /\ Every(i + 2, j, HexDigits) /\ At(j + 1) \notin HexDigits
  ELSE /\ Every(i, j, Digits) /\ At(j + 1) \notin Digits
       /\ i <= j \/ At(i) \in ForeignDigits

StringRead(i, j) ==
  /\ i < j /\ At(i) = Quote /\ At(j) = Quote
  /\ \A k \in i + 1..j : At(k) = Quote => (Escaped(i + 1, k) <=> k # j)

LineRead(kind, i, j) ==
  /\ At(i) = "/" /\ At(i + 1) = "/"
  /\ At(i + 2) = "*" <=> kind = "note"
  /\ \A k \in i..j : At(k) # NL
  /\ j = Len(text) \/ At(j + 1) = NL

BlockRead(i, j) ==
  /\ At(i) = "/" /\ At(i + 1) = "*"
  /\ \A k \in i + 1..j - 2 : ~Closes(k)
  /\ Closes(j - 1) \/ j = Len(text)

OpRead(i, j) ==
  \/ j = i + 1 /\ <<At(i), At(j)>> \in Pairs
  \/ j = i /\ At(i) \in Singles /\ <<At(i), At(i + 1)>> \notin Pairs

PieceRead(kind, i, j) ==
  /\ kind = "int" => IntRead(i, j)
  /\ kind = "id" => At(i) \in Letters /\ Every(i, j, IdChars) /\ At(j + 1) \notin IdChars
  /\ kind = "string" => StringRead(i, j)
  /\ kind = "op" => OpRead(i, j)
  /\ kind = "note" => LineRead("note", i, j)
  /\ kind = "comment" => LineRead("comment", i, j) \/ BlockRead(i, j)

WellRead ==
  \A p \in DOMAIN pieces : PieceRead(pieces[p].kind, pieces[p].from, pieces[p].to)

(* A token carries the number of the line it begins on, across strings and *)
(* comments of several lines: the parser tells declarations apart by it.   *)
LineExact ==
  \A p \in DOMAIN pieces :
    pieces[p].line = 1 + Cardinality({i \in 1..pieces[p].from - 1 : text[i] = NL})

(* The scanner ends, unless it is past the end of the text in a string, or *)
(* at a digit outside ASCII, which it returns as an empty number for ever. *)
Trapped == \/ mode = "string" /\ pos = End
           \/ mode = "int" /\ pos = from /\ Cur \in ForeignDigits

Ends == <>(status # "scan" \/ Trapped)
=============================================================================
