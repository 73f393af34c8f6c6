------------------------------- MODULE Syntax --------------------------------
(***************************************************************************)
(* What the parser reads and what it makes of it.  A node is a kind, a     *)
(* text and the nodes below it; a token is a node without any below it     *)
(* (a pragma with a condition holds the tokens of the condition).          *)
(*                                                                         *)
(* A parser state is the tokens, the place reached, the nodes made so far  *)
(* that no larger node has taken yet, and whether every token expected so  *)
(* far was there.  A failed state stays as it is: it stands for the Err    *)
(* that every function of the parser hands up at once.                     *)
(***************************************************************************)
EXTENDS Sequences, SequencesExt, Integers

Node(kind, text, below) == [kind |-> kind, text |-> text, below |-> below]
Leaf(kind, text) == Node(kind, text, <<>>)
Nothing == Leaf("none", "")

\* Words and marks of the language, names, and the end of the text.
Word(w) == Leaf(w, "")
Name(n) == Leaf("name", n)
EndOfText == Word("eof")

Reserved == {"ABSTRACT", "AND", "ARRAY", "ASM", "BAND", "BEGIN", "BNOT", "BOR", "BXOR", "BY", "CASE",
    "CONST", "DEFINITION", "DIV", "DO", "ELSE", "ELSIF", "END", "EXCEPT", "EXIT", "EXPORT",
    "FINALLY", "FOR", "FORWARD", "FROM", "GENERIC", "IF", "IMPLEMENTATION", "IMPORT", "IN", "LOOP", "MOD",
    "MODULE", "NOT", "OF", "OR", "PACKEDSET", "POINTER", "PROCEDURE", "QUALIFIED", "RECORD", "REM",
    "REPEAT", "RETRY", "RETURN", "SET", "SHL", "SHR", "THEN", "TO", "TYPE", "UNTIL", "VAR", "WHILE",
    "WITH"}

-----------------------------------------------------------------------------

OnTokens(tokens) == [toks |-> Append(tokens, EndOfText), pos |-> 1, nodes |-> <<>>, ok |-> TRUE]

Peek(s) == s.toks[s.pos]

PeekAt(s, n) == IF s.pos + n \in DOMAIN s.toks THEN s.toks[s.pos + n] ELSE EndOfText

At(s, kind) == s.ok /\ Peek(s).kind = kind
AtOneOf(s, kinds) == s.ok /\ Peek(s).kind \in kinds
AtSoft(s, w) == At(s, "name") /\ Peek(s).text = w
FollowedBy(s, kind) == PeekAt(s, 1).kind = kind

Bump(s) == IF Peek(s).kind = "eof" THEN s ELSE [s EXCEPT !.pos = @ + 1]

Failed(s) == [s EXCEPT !.ok = FALSE]

Eat(s, kind) == IF At(s, kind) THEN Bump(s) ELSE s
EatSoft(s, w) == IF AtSoft(s, w) THEN Bump(s) ELSE s
Expect(s, kind) == IF At(s, kind) THEN Bump(s) ELSE Failed(s)

\* The state with one more node, and with the token read as a node.
Made(s, node) == [s EXCEPT !.nodes = Append(@, node)]
Keep(s) == Made(Bump(s), Peek(s))
ExpectKept(s, kind) == IF At(s, kind) THEN Keep(s) ELSE Failed(s)
ExpectName(s) == ExpectKept(s, "name")

\* One node takes the last n.
Wrap(s, n, kind, text) ==
    LET rest == Len(s.nodes) - n
    IN  IF s.ok
        THEN [s EXCEPT !.nodes =
                 Append(SubSeq(@, 1, rest), Node(kind, text, SubSeq(@, rest + 1, Len(@))))]
        ELSE s

\* One node takes all those made since the state before.
Group(before, s, kind, text) == Wrap(s, Len(s.nodes) - Len(before.nodes), kind, text)

\* What was read since the state before is left out of the tree.
Dropped(before, s) == [s EXCEPT !.nodes = before.nodes]

\* item {separator item}
OneOrMore(s, Item(_), separators) ==
    LET RECURSIVE From(_)
        From(x) == LET one == Item(x)
                   IN  IF AtOneOf(one, separators) THEN From(Bump(one)) ELSE one
    IN  From(s)

\* operand {operator operand}, from the left.
LeftToRight(s, Operand(_), operators, Meaning(_)) ==
    LET RECURSIVE From(_)
        From(x) == IF AtOneOf(x, operators)
                   THEN From(Wrap(Operand(Bump(x)), 2, "binary", Meaning(Peek(x).kind)))
                   ELSE x
    IN  From(s)
=============================================================================
