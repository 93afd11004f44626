# Verification of lwe_proto

lwe_proto is a compiler: it reads a description of a binary protocol (constants,
ids, messages, binds) and writes Go code that encodes and decodes the messages.
This directory holds TLA+ models of its parts and of the whole, the TLC
configurations that check them on small instances, and proofs, checked by TLAPS,
that the main properties hold for every input.

Everything is sequential; what is hard here is not concurrency but agreement.
The same facts are established again and again by parts that share no code: the
layout of a message is computed by the analyser, by the encoder's generator and
by the decoder's generator; a name is looked up by the parser, by the analyser, by
the interpreter and by the Go compiler; an operator is read with one precedence
and written for another; and the two halves of the generated program must agree
on every bit without ever meeting, while writes fail and bytes change between
them.

## 1. The system

| part | source (`src/`) | state | operations | what makes it correct |
|---|---|---|---|---|
| driver | `main.go` | options, exit code | read the file, parse, analyse, interpret | stages in order; nothing is written for a refused file; the exit code tells a whole output from half of one |
| lexer | `protoc/lexer.go` | position and line in the text | `getNextToken` | every text ends; nothing is lost or read twice; a token has the type of its symbol and its line |
| token buffer | `protoc/parser.go` 58-137 | current token (look-ahead and marks are never used) | `eat` | is the cursor of the declarations |
| declarations | `protoc/parser.go` 139-578 | syntax tree, type map, forward references | `declarations`, `msg_decl`, `field_decl`, `type_def`, ... | a name of a type means one thing everywhere; what is read is what is written |
| expressions | `protoc/parser.go` 580-858 | none (recursive descent) | `expr` ... `expr_mul`, `factor`, `var_ref` | precedence and associativity |
| semantic analyser | `protoc/semantic.go` | two scopes of symbols, id table, bit group | one visit per declaration, two passes | names, references, ids, binds, layout |
| types | `protoc/signature.go`, `protoc/ast.go` | none | `isIntType`, `signature`, `realType` | one width and one signature per type |
| interpreter | `protoc/interpreter.go` | position in the declarations, collected binds | `visitTraverse`, `visitBinds`, evaluation of constants | accepted constants have values; every declaration is written |
| dispatch | `protoc/interp_go.go` 23-73, 537-609 | none | ids, their names, encode and decode by id | both dispatch functions are the binding the analyser accepted |
| Go generator | `protoc/interp_go.go` 75-535 | bit group of each walk, names of structs | struct, encoder, decoder, type declarations | never stops inside a layout; both walks mirror each other; every call has its function |
| generated codec | text written by the generator | the message, a byte under assembly, the stream | the encoder and the decoder of a message | round trip, bounds, checks |

The parts talk through data: the lexer hands tokens to the parser one at a time;
the parser hands a syntax tree to the analyser; the analyser writes the numbers of
ids and the binds into it and otherwise only says yes or no; the interpreter walks
the same tree and trusts that answer. The encoder and the decoder share nothing
but the stream. There are no threads, callbacks or timeouts; errors are panics
that the stage's entry point turns into an error - except in the parser, where
nobody does.

## 2. The modules

    Scanner             characters to tokens
    Declarations        tokens to a syntax tree: declarations, types, names
    ConstExpr           expressions, from symbols to values or Go text

    LweTypes            types and fields; LaidOut, what a legal layout is
      SyntaxTree        what the parser promises of the types of a program
      Semantic          the analyser              -- implements --> ByteLayout
      MsgGen            the Go generator          -- implements --> ByteLayout (twice)
        Codec           the program MsgGen writes, at run time
      Compiler          Semantic + MsgGen + walk + driver  -- implements --> Batch
    ByteLayout          abstract: fields laid out in bytes
    Batch               abstract: a compiler that is called by a script
    MC*                 instances for TLC
    *_proofs            theorems of each (of Codec in two: CodecText_proofs has what
                        its texts, bits and bytes are, Codec_proofs the runs)

Three predicates are the contracts between stages. `TypesResolved` (SyntaxTree):
`Declarations` guarantees it of every program it delivers, `Compiler` assumes it of
its `Programs`. `LaidOut` (LweTypes): `Semantic` guarantees it of every message of
an accepted file, `MsgGen` assumes it of its messages; `Compiler` puts the two
together. Type names are the source's; a name is a string, `""` is a nil.

**Scanner** is `getNextToken` called until the end, one action per turn of a loop
of `skipSpaces`, `skipComment`, `getInteger`, `getString`, `getId`. Characters are
classes, named after a member. `pos` and `lineNo` are the lexer's, `pieces` the
spans of what has been read, comments included.

**Declarations** is the loop of `declarations()` and, inside a group or a message,
the loops over items, fields and descriptors: one action per turn (`ConstDecl`,
`Field`, `LimitBy`, ...). `tpMap` is the map of types; a forward reference is a node
shared by all who mention it, so its resolution stands in one variable,
`resolved`, and `Delivered` reads the tree through it. A turn that finds other
tokens than the code eats is `Panic`. Expressions are operands joined by `==`, the
one operator whose token a declaration also uses.

**ConstExpr** takes a text as a sequence of symbols. `Parse` makes the tokens, with
the types `getNextToken` gives them, and runs the nine levels of the descent
(`Expr`, `Operands`, `Factor`, `Postfix`); `Analyse` types a constant,
`Interpret` evaluates it, `WriteCondition` renders a condition as the tokens Go
sees. Machine integers are cut to a small width.

**LweTypes** gives the types their widths and signatures (`isIntType`,
`signature()`), the shape of the fields, and `LaidOut`: a message whose bit groups
fit their bytes. **SyntaxTree** adds the type declarations.

**ByteLayout** is an abstract specification: bit fields share a byte and never
straddle two, everything else starts on a byte boundary. Three machines of the
code implement it, each with its own variables (`inAggr`/`bits` in
`visitMsgDefine`, `bitAggr`/`bits` in each codec walk).

**Semantic** has one action per visited node: `CheckSpace`, `VisitConst`,
`VisitExtern`, `EnterGroup`/`VisitItem`/`LeaveGroup` (`visitIdGroupDefine`),
`EnterMsg`/`VisitField`/`LeaveMsg` (`visitMsgDefine`), `VisitBind`, `SkipDecl`,
`EndPass`. `globals` and `locals` are the two levels of the symbol stack, `midMap`
the id table, `val` the running id, `inAggr` and `bits` the open group. A panic is
`status = "reject"`. Expressions of constants are reduced to the sequence of their
leaves, which is all the type rules look at; ConstExpr has the trees.

**MsgGen** walks the fields of one message three times: `DeclareField` (struct),
`EncodeBits`, `OpenEncodeGroup`, `EncodeInt`, `EncodeMsg`, `EncodeArray`, and the
same five for the decoder. Its variables are the locals of
`visitMsgEncode_Go` and `visitMsgDecode_Go`; the text they print is a sequence of
statement records (the module's header lists them). A condition is abstracted to
"one field is not zero".

**Codec** runs that text. `Generate` is MsgGen; `CallEncoder` picks a value of the
message, then every step executes one statement: `ClearByte`, `AddBits`, `Put`,
`ClampField`, `If`, `Loop` in the encoder, `Get`, `TakeBits`, `CheckField` in the
decoder. `PutFails` is a writer that reports an error after none, some or all of the
bytes of the statement - also of a statement that has none, an empty slice; `Deliver`
hands the stream over as it is, with one byte changed, or hands over other bytes
altogether (`Arrivals`); `GetFails` is the end of the stream; `Overrun` is an index out
of range. The struct the decoder gets holds data of its own (`Leftovers`). A nested
message is one byte. `binary.Write` and `binary.Read` are external (big-endian bytes,
all or an error). `OrByte` and `XorByte` are Go's `|` and `^` on bytes, `Masked` is `^` on
the bytes of wider integers. `Unsigned` says that a value has the width of its type.
The text is run if the Go compiler takes it (`Compiles`): constants it compares, assigns
or converts fit the type, sizes of arrays are not negative, other names are fields.

**Compiler** is `main`: `Parse` (or `NoFile`, `ParseFails`), then `Analyse`, which is
a step of the instance `Analyser` of Semantic, then the walk of `visitTraverse`
with one action per kind of declaration, which runs the instance `Generator` of
MsgGen for a message (`StartMsg`, `Generate`, `FinishCodec`) or for a type
declaration of one (`StartTypeDef`), and writes the dispatch last (`WriteBinds`).
`out` is the sequence of top-level Go declarations printed so far; it survives a
panic, as the standard output does. `goName` is the name a struct is written by at
the moment, which `visitTypeDef_Go` changes for good.

**Batch** is the abstract specification of the compiler: it judges the whole
input before it writes, leaves nothing behind for a refused one, and ends a run
that began to write with 0 exactly when all of it is written.

Definitions named `Op_Slip` are single plausible mistakes; the mutation runs put
them in place of `Op`, each to show that one property notices.

## 3. The runs

| run | instance | question |
|---|---|---|
| `scan` | every text of up to 3 characters of 13 classes; up to 5 of those that numbers tell apart, 7 of strings, 7 of comments, 4 of operators | is nothing dropped or read twice (`Tiled`), is every piece what its kind says and as long as it can be (`WellRead`), do tokens know their line (`LineExact`), does it end (`Ends`)? |
| `declarations` | programs of up to 3 of 10 declarations of types, 4 of 6, pairs of 11 declarations of every kind, on lines of their own and on one; every text that one slip makes of a legal one; two descriptors in any order, a late or second `mspace`, arrays three deep | does what is delivered keep the contract (`Contract`), does a name mean what its declaration says wherever it stands (`NamesMean`), has an accepted text been read word by word (`Faithful`), is an orderly one accepted (`Accepts`), does no type change (`TypesKept`), does it end (`Ends`)? |
| `expressions` | all pairs of operators with and without parentheses, chains of three over all levels, unary and postfix operators, every sequence of up to 3 symbols | is precedence right (`ParsesByPrecedence`), does Go read a condition the same way (`ConditionKeepsMeaning`), has an accepted constant a value of its type (`TypedValue`)? |
| `analyse` | messages of up to 3 fields of 14 shapes, up to 5 of 4 widths; files of up to 3 of 17 declarations over few names; of up to 4 of 12 ids, messages and binds; groups of up to 4 ids with values up to the largest integer | does the field-by-field check count the bits exactly (`GroupExact`), implement ByteLayout (`LayoutSpec`), accept only what can be assembled (`AcceptedLaidOut`); do references only go back (`DeclaredBeforeUse`), is nothing declared twice (`NoRedeclaration`), is a bound id a message id bound once (`BindsSound`), do ids ascend (`IdsAscend`), is no table entry rewritten (`WriteOnce`), does it end (`Terminates`)? |
| `generate` | messages of up to 3 fields of 16 shapes, 2 of any, 4 of 5 widths | does only a type stop the generator (`PanicIsTyped`), are the bytes of bit groups whole, cleared, read and written where they must be (`GroupsWhole`), does the decoder mirror the encoder (`Symmetric`), do both walks implement ByteLayout? |
| `codec` | messages of up to 3 fields of 13 shapes, 2 to 3 values per field and per element of an array, constants of one and of two bytes, 2 noise bytes, 2 other byte sequences that arrive | does a sound message go through (`RoundTrip`), is one whose write failed refused unless it is whole (`CutShort`), are arrays kept (`NoOverrun`), is what is accepted valid (`ValidDecoded`)? |
| `compile` | programs of up to 4 of 11 declarations of types that nest, rename and refer forward (5 after a first message); up to 3 of 15 that fail in one stage or another; up to 4 of 13 ids, messages, constants and binds; no file, an unreadable one, another mode | is it a batch compiler (`PromiseSpec`), is every codec that is called there once (`CallsResolved`) and for the type it is called on (`NestedTyped`), do only types stop the generator behind the analyser (`StopsAtTypes`), is the dispatch the accepted binding (`DispatchAgrees`), does `main` end (`Finishes`)? |

The bounds. A bit group interacts with at most what opened it and what follows it:
three fields open, fill or overfill one, and leave it; with widths 2, 3 and 6 and
five fields a group closes at its second or third field and the next one opens.
An analyser's table conflict takes two declarations and a use, hence three; a
double bind takes ids, a message and two binds, hence four. A rename is visible in
the codec of a later type declaration of the message around the renamed one: four
declarations, five with a second rename. Two operators decide one comparison of
precedence, three decide associativity across a third level. A loop of the scanner
looks at most one character ahead and at one parity (escapes), which strings of
seven show. `IntMax` is 7 in the analyser, the declarations and the expressions,
so that the largest integer and its successor occur (and, in a literal, the
largest unsigned one); `IdMax` is 5 in place of 65535. `CHECK_DEADLOCK FALSE`
everywhere: a compiler stops.

Fairness is weak fairness of the whole next step, in `analyse` (`Terminates`),
`compile` (`Finishes`), `declarations` and `scan` (`Ends`): each stage runs on the
main goroutine until it returns. What the properties then say is that no loop can
go round without getting on. `Ends` of the scanner excepts two places where one
does (`Trapped`): a string that is never closed is scanned for ever, past the end
of the text, and a digit outside ASCII is returned as an empty number again and
again, on which the parser panics.

Runs that end in a violation show disagreements between the code and what its own
comments, grammar or error texts say (PROJECT.json, "findings", quotes the lines):

| run | property | what the code does |
|---|---|---|
| `open_group` | `SameBytes` | a message may end inside a bit group; its last byte is read but never written |
| `equal_unchecked` | `EqualChecked` | a field with max and equal is not compared; the comparison of a later field of a bit group is not Go |
| `operators` | `ConstantsMean` | a minus sign divides, `>>` is never one token, a constant that names a constant panics in the interpreter |
| `double_case` | `CasesDistinct` | an id bound to nil may be bound again, groups may share a number: two cases of one switch |
| `forward_reference` | `OnlyDuplicates` | a message that is mentioned before its declaration is refused as a duplicate of itself |

Places where the code promises less than one might expect are stated as the
exceptions of properties that hold; each is named in the comment of its property:

- `RoundTrip`, `CutShort`, `NoOverrun` (Codec): the message ends on a byte boundary
  (`Closed`); a condition is on an earlier field (`Conditions`) that is itself always
  there (`ConditionsCarried`: the encoder tests what the caller left in a field it does
  not send, the decoder what its own struct was left with); the field that limits an
  array comes before it, is made of whole bytes and unconditional (`LimitsBounded`: where
  a constant has the name of a later field, the analyser resolves a limit to the
  constant and `getLimitFieldMax` takes the field, ast.go:587); the caller's bit fields
  are within their widths and compared fields have the value compared with
  (`Fitting`). The analyser checks none of these. What is received is the message that was
  meant (`Meant`): an integer above its `max` has been cut to it.
- `CutShort` does not say that a message whose encoder returned -1 is refused: an error
  may come after the last byte, with that of a full write or with the empty write of an
  array of length 0, and then the decoder receives the whole message.
- The codec is run for messages whose text compiles. A limit by a field without
  `max` does not: `getLimitFieldMax` answers as for a constant, and the array gets
  the length of a name that is not there.
- A condition on the first field of a bit group passes the analyser (`XorOk` looks
  at the group before the field) and is ignored by both codecs; a condition with
  arithmetic, a shift or a unary operator is written as `??` (`Unknown`).
- `Faithful` and `ParsesByPrecedence` take `==` and the keyword `equal` for the same
  token, as the lexer does: an `equal` after a condition belongs to the condition.
- `Faithful` speaks of texts that can be told from their tree (`Plain`): the tree does not
  say in which order the descriptors of a field stood nor that one was given twice (the
  second replaces the first), where `mspace` stood or that there were two; an integer
  too large is read as another one; where one name stands for another type, the tree
  holds the type; and a text is written out again with arrays of arrays at most.
- `Accepts` (Declarations): a program in which a message is declared before it is
  mentioned and no name stands for an unresolved name.
- `IdsAscend`: as long as no id is the largest integer, whose
  successor wraps.
- `CallsResolved` excepts names that no message and no type of one declares
  (`Uncoded`); `NestedTyped` excepts the codec of a type declaration of a message
  whose nested message has been renamed in between (`Stale`), which calls a codec
  of another type than the field's.

## 4. The proofs

`TypeCorrect` (the type invariant) is proved of the scanner, the analyser and the
generator. The other theorems, each for every value of the constants:

*Scanner* (every set of texts). `TextTiled` and `LinesExact` follow from `SInv`: the
front - `pos`, or the start of the piece under way - is preceded by pieces and
spaces only, and `lineNo` is one more than the line breaks before `pos`, except that
one at the very end of the text does not count. The step that needs care is the
skip over two characters (`Escape`, `CloseBlock`), whose breaks are counted as one
set. `PiecesWellRead` (`WellRead`) rests on `GoingInv`, which says of the characters
between `from` and `pos` what the loop under way has made sure of: digits only, no
end of a comment, every quote of a string escaped and the current character not.
A backslash makes the next character escaped exactly if it is not escaped itself
(`EscapedNext`), so that the parity in the property is the flag the loop implies.

*Declarations* (every set of files). `MapOnlyGrows`: `tpMap` and `resolved` only gain
entries. `DeclaredOnce`: no text makes the parser deliver two types of one name. It
rests on `DInv`: every type declared so far is in the map, as itself or as the
resolution of its forward reference, so that both guards - the name is new, the
reference is unresolved - exclude all of them. `ProgramsAreLinked` is `Contract`, all
that `Compiler` and the two stages behind the parser take for granted of a program:
a struct is that of a message declared before, and a forward reference holds what
the type declaration of its name says, or nothing. `LInv` says the same of every
type the parser holds, wherever it stands - in the map, in the resolutions, in the
declarations, in the message under construction - with the declarations made so far
in place of the program; `Met` says where a name that is still open may stand, so
that the declaration that settles it is seen by everyone who mentions it. The
resolution is shared, and an array may hold an array that holds the reference.
`TextsAreKept` is `Faithful`: every word of an accepted text is in the program, at its
place, every comment is in it, and two declarations do not run into one another. The
invariant (`FaithInv`) says at every token that the words read so far are what is written
of the declarations made so far, followed by what is written of the group or message
under construction (`Told`). It needs four companions: a keyword met so far stands apart
from what is before it (`ApartInv`); a descriptor that the field has was met since the
arrow, so that one in order is behind all others (`DescInv`); no type stands for
another (`Lonely`); and a name in the map that is neither built in nor of a message has been
met in the text, so that no later type declaration can be for it (`Named`) - this is what
keeps forward references from being resolved in a text that is `Plain`, where a type's
name stands once. Each turn of a loop is one lemma (`ConstHeard`, `FieldHeard`, ...), which reads the
words of the turn (`Reads`) and adds them to the text of what it builds.

*Analyser* (every set of well-formed trees). `RefersBackwards` and `NamesUnique` rest on
`SymInv`: the symbols of the two scopes are exactly the builtins and what the
declarations passed so far declare. Without it a successful lookup says nothing
about the program. `TablesWrittenOnce`, `BindsAreSound`, and `IdsAreAscending`,
whose invariant says in addition that `val` is the id of the last item.
`GroupsAreExact` (`GroupExact`): the bit count is the sum of the widths of the fields
passed, modulo a byte (`BitsExact`). The analyser counts up and starts again where a
group is full; it refuses what would go beyond, and that is what keeps the two equal.
`LayoutRefined` (the analyser implements ByteLayout) and `AcceptedAreLaidOut`: the
invariant carries a witness, the offsets reached by the fields of the message
under way, and keeps the witness of every message already passed.

*Generator* (every set of laid-out messages). `IInv` relates the walk's open group to
the offsets of a legal layout (`GroupOK`); it gives `PanicsAreTyped`,
`EncoderLaysOut` and `DecoderLaysOut`. `GroupsAreWhole` (`GroupsWhole`) is about the text:
`TextInv` says of each codec that the spans written so far lie side by side, that a byte
is read behind each statement that clears `tmp` or written behind each span that fills
it and nowhere else, how far the last span reaches (`bits`), and that `tmp` has been
declared if and only if `hasTmp`. A group the codec ends inside is open: its byte has
not been written, which `SameBytes` is about. `CodecsAreSymmetric` (`Symmetric`) cannot compare the codecs under way, for
one is complete before the other begins. `WireInv` compares both with the message: for
a layout `o` of its fields, the unit a codec has written for a field is the one `o`
puts it in, and the bytes of bit fields are the heads of `o`'s groups. Both proofs need
that the fields of a message have names of their own, which MsgGen assumes of its
messages and Semantic guarantees (`AcceptedOwnNames`).

*Codec* (every set of laid-out messages, any integers as constants for which the text
compiles, any values of the types of the fields, any bytes that arrive).
`CodecsStayInBounds` (`NoOverrun`), `AcceptedIsValid` (`ValidDecoded`), `MessagesGoThrough`
(`RoundTrip`) and `CutMessagesAreNotMistaken` (`CutShort`) all follow from one invariant,
`CodecInv`. It starts from the text: `BuiltInv` says that the
text of a codec is the texts of its fields in their order (`TextOfField`), so what
the machine has before it is always a rest of the text of some field i and the texts
of the fields behind it. `Stands` names the place by i and a stage - before the field
(`all`), inside its condition (`body`), before the byte of a group is read (`load`),
before and behind what moves the field itself (`unit`, `after`), in the k-th turn of a
loop (`elems`), behind the field (`end`) - and says what holds there:

- `Weak`, of any message and any bytes: the clamps and checks of the fields passed
  hold (`Capped`, `Valid`), and a loop under way stays in its array. The first two
  theorems need no more. The clamp of a limit must still hold when its array comes:
  no statement of another field writes it, since fields have names of their own.
- `Strong`, of a sound message: what the encoder has written and what it will still
  write are together the message in bytes (`Onward[0]`), which is defined from the
  fields alone (`Chunk`, `Payload`); what the decoder has before it is a beginning of what is
  to be read from this place on, all of it if the encoder succeeded (`Missing`);
  the fields passed have the values the encoder leaves in them (`Kept`, `Agreed`). Inside
  a group, `tmp` has the bits of the fields passed and zeros below, or still has those
  of the fields to come (`Low`). So a decoder that finds too little faces an encoder
  that failed, and one whose bytes suffice for every field has had them all, whether
  the encoder failed or not.

The two halves meet only in the bytes. Behind them are lemmas of arithmetic: a byte is
the sum of its bits and `OrByte` of two bytes without a common bit is their sum;
`XorByte` undoes itself; `Number` of the big-endian bytes of a value is the value, if
it is not wider than they are; what is cut from a sequence and what is left make
the sequence.

*Compiler* (every set of programs that are well-formed and `TypesResolved`).
`KeepsPromise`: the compiler implements Batch. Its invariant `CInv` ties the stage to
the verdict, to the exit code and to what is left, and the walk of the generator to
the declaration at hand. `GeneratorStopsAtTypes` composes the two theorems about
layouts: a run of the compiler is a run of the analyser (`AnalyserRuns`), so at the
moment the interpreter starts every message is laid out, and each start of the
generator satisfies the initial invariant of MsgGen (`GInv`). So for every file, of
any size, the bit assembly cannot panic half-way through the output.
`DispatchIsAccepted` (`DispatchAgrees`) relates what two parts find out independently:
the analyser records a bind with its id, the interpreter collects the binds it
passes. `Collected` says that `binds` are the binds passed, all and once;
`BindsRecorded` (Semantic) says that an accepted file's ids hold exactly its binds.
`CallsAreResolved` (`CallsResolved`) and `NestedAreTyped` (`NestedTyped`) are about names
that change while the program is written. `CodeInv` follows them: a struct goes by its
own name or by that of a type declaration already passed (`NamesInv`); what is
written for a declaration goes by the name of that declaration and of no other, since
names of types are unique; each one passed has its type and, once its fields have been
walked, one codec (`TypesInv`, `CodecsInv`); and the fields of a type written earlier are
those a codec of the same message would have now, as long as no message nested in it
has been renamed since (`Undisturbed`). The last is what a type declaration needs, whose
struct copies a type written long before while its codec is written anew, and it is
where the exception in `NestedTyped` comes from.

The assumptions are those of the modules: `IntMax` is positive, a text is a
sequence, of tokens as the lexer makes them (`TokensAssumption`: a name has a text, a number
its value) in the declarations, a program is what the parser builds (sequences, known kinds of
declarations, machine integers as id values, types resolved), a message is laid
out and its fields have names of their own; of a codec, a constant is an integer
(`ConstsAssumption`; `Compiles`, a guard of `CallEncoder`, asks more of those the text
uses), what a field may hold fits its Go type (`ValuesAssumption`), and what a fault puts
in the stream or delivers in its place are bytes (`NoiseAssumption`,
`ArrivalsAssumption`). TLC evaluates them in every run. That types are resolved and that
messages are laid out with names of their own are guarantees of the stage before, and
proved of it: `ProgramsAreLinked` of the parser, `AcceptedAreLaidOut` and
`AcceptedOwnNames` of the analyser.

Sums over fields and selections from sequences are recursive functions here, and no
induction theorem can be cited for them. Where a proof needs one it is done by
hand: `SetInduction` (LweTypes_proofs) is induction over a set of naturals that
contains 0 and successors, and `OfSelects`, `BitsSum` and `ChainEnds`, like the lemmas about
`High`, `Number` and the bytes to come in Codec, apply it to the set of the numbers for
which the definition is known.

Some properties had to be corrected on the way. `Contract` was false of an array of
arrays of a forward reference, which no run had; the runs now have such programs.
`WellRead` bound its equivalence for `//*` more loosely than its comment said, and
accepted any comment of one line. And `Called` (Compiler) leaned on how tightly `UNION`
binds, which TLC and TLAPS read differently; it has parentheses now. `RoundTrip` and
`NoOverrun` were false of messages no run had: a condition on a field that is itself
conditional, and a limit that a later field has the name of; they have their
exceptions now (`ConditionsCarried`, `LimitsBounded`) and `codec` has the messages.
`CutShort` said that the bytes of a failed encoder are refused, which held only because
no write failed after its last byte.
`Faithful` was false of descriptors out of order or doubled, of a second or late `mspace`
and of arrays three deep; `Plain` names them now and `declarations` has such texts.

Only model-checked: the liveness properties; `NamesMean` and `Accepts` (Declarations),
which compare the run with the tree a text was made from and hold of the trees
MCDeclarations makes, not of any; all of ConstExpr, whose operators are recursive.

## 5. What is left

Worth proving next: `NamesMean`. It needs an assumption that relates the tree of a file to
its text, which `TextsAreKept` would then carry over to the program delivered, and an
induction over chains of names that stand for names. ConstExpr would have to
be written with functions on the text instead of recursive operators on trees before
anything of it can be proved.

Not modelled:

- The token buffer. `peekToken`, `mark_push` and `mark_pop` are called by no
  function of the grammar, so the buffer always holds the current token, which is
  `pos` in Declarations.
- Types that contain themselves. `type A []A` after a mention of `A` makes a node
  that reaches itself, on which `signature()` and `desc()` recurse without end
  (ast.go:549). The types of the models are trees; a resolution inside a
  resolution is cut off (`Shallow` in SyntaxTree).
- What an escape in a string stands for, formatting, the text of comments and the
  indentation of the output, `String` methods and debugging.
- Nodes of the syntax tree that no parser function builds (statements, loops,
  functions, calls), the code that would visit them, and `resolveTypes`, which
  nothing calls.
- C output, of which only the mode name exists; `intConstComment_go`, which only
  writes a comment.
