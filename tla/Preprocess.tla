----------------------------- MODULE Preprocess ------------------------------
(***************************************************************************)
(* Conditional compilation (newm2-lexer/src/preprocess.rs): a text with    *)
(* %IF, %ELSIF, %ELSE and %END becomes the text the environment selects.   *)
(* A text is a sequence of pieces: directives, which hold the tokens of    *)
(* their condition, pragmas, comments, which hold pieces, and anything     *)
(* else.  What the code blanks is left out here.                           *)
(***************************************************************************)
EXTENDS Syntax, TLC

Conditional(word, condition) == Node(word, "", condition)

\* A pragma with names that count as defined from there on.
Version(names) == Node("pragma", "VERSION", [i \in DOMAIN names |-> Name(names[i])])

-----------------------------------------------------------------------------
(* Conditions: from their tokens to a tree, and its value.                 *)

RECURSIVE Condition(_), CondUnary(_)

AsWritten(operator) == operator

CondValue(s) == IF AtOneOf(s, {"name", "integer", "string"}) THEN Keep(s) ELSE Failed(s)

Comparison(s) ==
    LET left == CondValue(s)
    IN  IF AtOneOf(left, {"=", "#"})
        THEN Wrap(CondValue(Bump(left)), 2, "binary", Peek(left).kind)
        ELSE left

CondPrimary(s) == IF At(s, "(") THEN Expect(Condition(Bump(s)), ")") ELSE Comparison(s)

CondUnary(s) == IF At(s, "%NOT") THEN Wrap(CondUnary(Bump(s)), 1, "unary", "%NOT") ELSE CondPrimary(s)

CondAnd(s) == LeftToRight(CondUnary(s), CondUnary, {"%AND"}, AsWritten)

Condition(s) == LeftToRight(CondAnd(s), CondAnd, {"%OR"}, AsWritten)

ReadCondition(tokens) ==
    LET end == Condition(OnTokens(tokens)) IN IF At(end, "eof") THEN end ELSE Failed(end)

Truthy(value) == value \notin {"", "0", "false"}

\* A name nobody defines is false, and stands for itself in a comparison.
Defined(env, name) == name \in DOMAIN env /\ Truthy(env[name])

CompareText(env, value) ==
    IF value.kind = "name" /\ value.text \in DOMAIN env THEN env[value.text] ELSE value.text

RECURSIVE Holds(_, _)
Holds(env, c) ==
    CASE c.kind = "name"  -> Defined(env, c.text)
      [] c.kind = "unary" -> ~Holds(env, c.below[1])
      [] c.text = "%AND"  -> Holds(env, c.below[1]) /\ Holds(env, c.below[2])
      [] c.text = "%OR"   -> Holds(env, c.below[1]) \/ Holds(env, c.below[2])
      [] c.text = "="     -> CompareText(env, c.below[1]) = CompareText(env, c.below[2])
      [] c.text = "#"     -> CompareText(env, c.below[1]) # CompareText(env, c.below[2])
      [] OTHER            -> Truthy(c.text)

-----------------------------------------------------------------------------
(* The pass over the text.                                                 *)

Readable(condition) == ReadCondition(condition).ok

HoldsIn(env, versions, condition) ==
    Holds([n \in versions |-> "true"] @@ env, ReadCondition(condition).nodes[1])

\* Directives in a comment are text, pragmas in it are not.
RECURSIVE Defines(_)
Defines(piece) ==
    CASE piece.kind = "pragma" /\ piece.text = "VERSION" -> {name.text : name \in ToSet(piece.below)}
      [] piece.kind = "comment" -> UNION {Defines(part) : part \in ToSet(piece.below)}
      [] OTHER -> {}

INSTANCE Levels WITH Legible <- Readable, Satisfied <- HoldsIn, Introduces <- Defines

\* The pieces of the text one after the other, up to an error; in halves, for
\* TLC's stack.
RECURSIVE Over(_, _, _, _)
Over(p, text, first, last) ==
    IF ~p.ok \/ first > last THEN p
    ELSE IF first = last THEN PieceStep(p, first, text[first])
    ELSE LET half == (first + last) \div 2
         IN  Over(Over(p, text, first, half), text, half + 1, last)

Through(text, env) == Over(Preproc(env), text, 1, Len(text))

Passed(text, p) ==
    LET places == SelectSeq([i \in DOMAIN text |-> i], LAMBDA i : i \in p.kept)
    IN  [n \in DOMAIN places |-> text[places[n]]]

\* An %IF without its %END is an error at the end.
Preprocessed(text, env) ==
    LET p == Through(text, env)
    IN  [ok |-> p.ok /\ p.stack = <<>>, out |-> Passed(text, p)]
=============================================================================
