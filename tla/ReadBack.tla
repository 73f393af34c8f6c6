------------------------------ MODULE ReadBack -------------------------------
(***************************************************************************)
(* What reading and writing of modules is for, to compare the code with:   *)
(* how the trees of the parser are written by the rules of the language,   *)
(* and what a text with conditions means as a whole.                       *)
(***************************************************************************)
EXTENDS TypesOut, FiniteSets

RECURSIVE Written(_, _)

\* As it is written where any operation may stand.
Whole(node) == Written(node, 1)

(* Expressions, with no more parentheses than their operators need: the     *)
(* level of an operation against the level its place asks for.  An operator *)
(* takes one of its own level on its left, but relations do not associate   *)
(* (m2-guide/expressions-and-operators.md:11 and 96).                       *)

Level(e) ==
    CASE e.kind = "binary" /\ e.text \in Relational       -> 1
      [] e.kind = "binary" /\ e.text \in Additive         -> 2
      [] e.kind = "unary" /\ e.text \in {"+", "-"}        -> 2
      [] e.kind = "binary" /\ e.text \in Multiplicative   -> 3
      [] OTHER                                            -> 4

LeftLevel(e) == IF e.text \in Relational THEN 2 ELSE Level(e)

List(nodes) == Joined(Each(nodes, Whole), ",")

InParentheses(tokens) == <<Word("(")>> \o tokens \o <<Word(")")>>

WrittenSelector(s) ==
    CASE s.kind = "field" -> <<Word("."), Name(s.text)>>
      [] s.kind = "deref" -> <<Word("^")>>
      [] s.kind = "index" -> <<Word("[")>> \o List(s.below) \o <<Word("]")>>

WrittenSelectors(nodes) == FlattenSeq(Each(nodes, WrittenSelector))

WrittenKeyword(p) == IF p.kind = "keyword" THEN <<Name(p.text), Word(":")>> \o Whole(p.below[1]) ELSE <<p>>

Expression(e) ==
    LET first == e.below[1]
        rest == Tail(e.below)
    IN  CASE e.kind \in {"integer", "real", "string", "char"} -> <<e>>
          [] e.kind = "designator" -> <<first>> \o WrittenSelectors(rest)
          [] e.kind = "binary"     -> Written(first, LeftLevel(e)) \o <<Word(e.text)>>
                                        \o Written(rest[1], Level(e) + 1)
          [] e.kind = "unary"      -> <<Word(e.text)>> \o Written(first, IF e.text = "NOT" THEN 4 ELSE 3)
          [] e.kind = "call"       -> Whole(first) \o InParentheses(List(rest))
          [] e.kind = "set"        -> (IF first = Nothing THEN <<>> ELSE Dotted(first))
                                        \o <<Word("{")>> \o List(rest) \o <<Word("}")>>
          [] e.kind = "range"      -> Whole(first) \o <<Word("..")>> \o Whole(rest[1])
          [] e.kind = "send"       -> <<Word("[")>> \o Whole(first)
                                        \o FlattenSeq(Each(rest, WrittenKeyword)) \o <<Word("]")>>
          [] e.kind = "postfix"    -> (IF first.kind \in {"call", "send"} THEN Whole(first)
                                       ELSE InParentheses(Whole(first))) \o WrittenSelectors(rest)

-----------------------------------------------------------------------------
(* Statements and blocks.                                                   *)

OrElse(node) == IF node = Nothing THEN <<>> ELSE <<Word("ELSE")>> \o Whole(node)

End == <<Word("END")>>

ArmOfIf(a) == Whole(a.below[1]) \o <<Word("THEN")>> \o Whole(a.below[2])
ArmOfCase(a) == List(a.below[1].below) \o <<Word(":")>> \o Whole(a.below[2])
ArmOfGuard(a) ==
    (IF a.text = "" THEN <<>> ELSE <<Name(a.text), Word(":")>>)
        \o Dotted(a.below[1]) \o <<Word("DO")>> \o Whole(a.below[2])

WrittenFor(t) ==
    <<Word("FOR"), t.below[1], Word(":=")>> \o Whole(t.below[2]) \o <<Word("TO")>> \o Whole(t.below[3])
        \o (IF t.below[4] = Nothing THEN <<>> ELSE <<Word("BY")>> \o Whole(t.below[4]))
        \o <<Word("DO")>> \o Whole(t.below[5]) \o End

WrittenStmt(t) ==
    LET first == t.below[1]
        arms == SubSeq(t.below, 2, Len(t.below) - 1)
    IN  CASE t.kind = "assign" -> Whole(first) \o <<Word(":=")>> \o Whole(t.below[2])
          [] t.kind = "call statement" -> Whole(first)
          [] t.kind = "if"     -> <<Word("IF")>> \o Joined(Each(Front(t.below), ArmOfIf), "ELSIF")
                                    \o OrElse(Last(t.below)) \o End
          [] t.kind = "case"   -> <<Word("CASE")>> \o Whole(first) \o <<Word("OF")>>
                                    \o Joined(Each(arms, ArmOfCase), "|") \o OrElse(Last(t.below)) \o End
          [] t.kind = "guard"  -> <<Name("GUARD")>> \o Whole(first) \o <<Name("AS")>>
                                    \o Joined(Each(arms, ArmOfGuard), "|") \o OrElse(Last(t.below)) \o End
          [] t.kind = "while"  -> <<Word("WHILE")>> \o Whole(first) \o <<Word("DO")>> \o Whole(t.below[2]) \o End
          [] t.kind = "with"   -> <<Word("WITH")>> \o Whole(first) \o <<Word("DO")>> \o Whole(t.below[2]) \o End
          [] t.kind = "repeat" -> <<Word("REPEAT")>> \o Whole(first) \o <<Word("UNTIL")>> \o Whole(t.below[2])
          [] t.kind = "loop"   -> <<Word("LOOP")>> \o Whole(first) \o End
          [] t.kind = "for"    -> WrittenFor(t)
          [] t.kind = "return" -> <<Word("RETURN")>> \o FlattenSeq(Each(t.below, Whole))
          [] t.kind = "exit"   -> <<Word("EXIT")>>
          [] t.kind = "retry"  -> <<Word("RETRY")>>

WrittenHandler(h) ==
    LET names == OfKind(h.below, "qual")
    IN  (IF names = <<>> THEN <<>> ELSE Joined(Each(names, Dotted), ",") \o <<Word(":")>>)
            \o Whole(Last(h.below))

WrittenBlock(b) ==
    <<Word("BEGIN")>> \o Whole(b.below[1])
        \o (IF b.below[2].below = <<>> THEN <<>>
            ELSE <<Word("EXCEPT")>> \o Joined(Each(b.below[2].below, WrittenHandler), "|"))
        \o (IF b.below[3] = Nothing THEN <<>> ELSE <<Word("FINALLY")>> \o Whole(b.below[3]))

-----------------------------------------------------------------------------
(* Declarations and modules.                                                *)

WrittenDecls(nodes) == FlattenSeq(Each(nodes, Whole))

WrittenVar(d) ==
    LET address == d.below[Len(d.below) - 1]
    IN  NameList(d.below) \o Star(d.text)
            \o (IF address = Nothing THEN <<>> ELSE <<Word("[")>> \o Whole(address) \o <<Word("]")>>)
            \o <<Word(":")>> \o FormatType(Last(d.below)) \o <<Word(";")>>

WrittenRest(rest, name) ==
    CASE rest.kind = "none"     -> <<>>
      [] rest.kind = "forward"  -> <<Word("FORWARD"), Word(";")>>
      [] rest.kind = "assembly" -> <<Word("ASM")>> \o rest.below \o <<Word("END"), name, Word(";")>>
      [] rest.kind = "body"     -> WrittenDecls(rest.below[1].below) \o Whole(rest.below[2])
                                    \o <<Word("END"), name, Word(";")>>

Role(m) ==
    CASE m.text = "abstract"       -> <<Word("ABSTRACT")>>
      [] m.text = "abstract class" -> <<Word("ABSTRACT"), Name("CLASS")>>
      [] m.text = "override"       -> <<Name("OVERRIDE")>>
      [] m.text = "class"          -> <<Name("CLASS")>>
      [] OTHER                     -> <<>>

WrittenMember(m) ==
    IF m.kind = "method" THEN Role(m) \o FormatMethod(m) \o WrittenRest(m.below[6], m.below[1])
    ELSE Whole(m)

WrittenClause(c, word, Item(_)) ==
    IF c.below = <<>> THEN <<>> ELSE <<Name(word)>> \o Joined(Each(c.below, Item), ",") \o <<Word(";")>>

WrittenClass(d) ==
    <<>> \o (IF d.below[1].text = "ABSTRACT" THEN <<Word("ABSTRACT")>> ELSE <<>>)
        \o <<Name("CLASS"), d.below[2]>> \o Star(d.text) \o <<Word(";")>>
        \o WrittenClause(d.below[4], "INHERIT", Dotted) \o WrittenClause(d.below[5], "IMPLEMENTS", Dotted)
        \o WrittenClause(d.below[6], "REVEAL", Itself)
        \o FlattenSeq(Each(SubSeq(d.below, 7, Len(d.below)), WrittenMember))
        \o <<Word("END"), d.below[2], Word(";")>>

\* From the name to the END.
WrittenInside(m) ==
    <<m.below[1]>> \o (IF m.below[2] = Nothing THEN <<>> ELSE <<Word("[")>> \o Whole(m.below[2]) \o <<Word("]")>>)
        \o <<Word(";")>> \o FlattenSeq(Each(m.below[4].below, FormatImport))
        \o WrittenDecls(m.below[5].below) \o Whole(m.below[6]) \o <<Word("END"), m.below[1]>>

WrittenDecl(d) ==
    CASE d.kind = "const"     -> <<Word("CONST"), d.below[1]>> \o Star(d.text) \o <<Word("=")>>
                                    \o Whole(d.below[2]) \o <<Word(";")>>
      [] d.kind = "type"      -> <<Word("TYPE")>> \o FormatTypeDecl(d)
      [] d.kind = "var"       -> <<Word("VAR")>> \o WrittenVar(d)
      [] d.kind = "procedure" -> FormatProc(d) \o WrittenRest(Last(d.below), d.below[1])
      [] d.kind = "class"     -> IF IsInterface(d) THEN FormatInterface(d) ELSE WrittenClass(d)
      [] d.kind = "export"    -> <<Word("EXPORT")>> \o Mode(d.text) \o NameList(d.below) \o <<Word(";")>>
      [] d.kind = "module"    -> <<Word("MODULE")>> \o WrittenInside(d) \o <<Word(";")>>
      [] d.kind = "pragma"    -> <<d>>

DeclKinds == {"const", "type", "var", "procedure", "class", "export", "module", "pragma"}

StmtKinds == {"assign", "call statement", "if", "case", "guard", "while", "with", "repeat", "loop", "for",
    "return", "exit", "retry"}

WithoutParentheses(node) ==
    CASE node.kind \in DeclKinds -> WrittenDecl(node)
      [] node.kind \in StmtKinds -> WrittenStmt(node)
      [] node.kind = "statements" -> Joined(Each(node.below, Whole), ";")
      [] node.kind = "block"     -> WrittenBlock(node)
      [] node.kind = "none"      -> <<>>
      [] OTHER                   -> Expression(node)

Grouped(tokens, needed) == IF needed THEN InParentheses(tokens) ELSE tokens

Written(node, level) == Grouped(WithoutParentheses(node), Level(node) < level)

WrittenModule(m) ==
    m.below[3].below \o (IF m.text = "MODULE" THEN <<>> ELSE <<Word(m.text)>>)
        \o <<Word("MODULE")>> \o WrittenInside(m) \o <<Word(".")>>

-----------------------------------------------------------------------------
(* Conditions and texts with conditions, looked at as a whole.              *)

Opening(c, i) == Cardinality({k \in 1..(i - 1) : c[k].kind = "("}) - Cardinality({k \in 1..i : c[k].kind = ")"})

\* The places of an operator outside of parentheses.
Outside(c, operator) == {i \in DOMAIN c : c[i].kind = operator /\ Opening(c, i) = 0}

RECURSIVE Meant(_, _)
Meant(env, c) ==
    LET Sides(i) == {SubSeq(c, 1, i - 1), SubSeq(c, i + 1, Len(c))}
        Split(operator) == Sides(CHOOSE i \in Outside(c, operator) : TRUE)
    IN  IF Outside(c, "%OR") # {} THEN \E side \in Split("%OR") : Meant(env, side)
        ELSE IF Outside(c, "%AND") # {} THEN \A side \in Split("%AND") : Meant(env, side)
        ELSE IF c[1].kind = "%NOT" THEN ~Meant(env, Tail(c))
        ELSE IF c[1].kind = "(" THEN Meant(env, Tail(Front(c)))
        ELSE IF Len(c) = 1 THEN c[1].text \in DOMAIN env /\ env[c[1].text] # "false"
        ELSE (c[1].text \in DOMAIN env /\ env[c[1].text] = c[3].text) = (c[2].kind = "=")

Count(text, kind, i) == Cardinality({k \in 1..(i - 1) : text[k].kind = kind})

Depth(text, i) == Count(text, "%IF", i) - Count(text, "%END", i)

\* The place i is between the %IF at o and its %END.
Encloses(text, o, i) == text[o].kind = "%IF" /\ \A k \in (o + 1)..i : Depth(text, k) > Depth(text, o)

\* The heads of the arms of that %IF up to i.
Heads(text, o, i) ==
    {o} \cup {j \in (o + 1)..(i - 1) : /\ text[j].kind \in {"%ELSIF", "%ELSE"}
                                       /\ Encloses(text, o, j)
                                       /\ Depth(text, j) = Depth(text, o) + 1}

RECURSIVE Chosen(_, _, _)

\* What is defined at i: the environment, and the versions named before.
DefinedAt(text, env, i) ==
    LET before == {k \in 1..(i - 1) : text[k].kind = "pragma" /\ text[k].text = "VERSION" /\ Chosen(text, env, k)}
        names == UNION {{n.text : n \in ToSet(text[k].below)} : k \in before}
    IN  [n \in names |-> "true"] @@ env

IsTrue(text, env, j) == text[j].kind = "%ELSE" \/ Meant(DefinedAt(text, env, j), text[j].below)

\* Each arm i is in is the first with a condition that is true.
Chosen(text, env, i) ==
    \A o \in {k \in 1..(i - 1) : Encloses(text, k, i)} :
        LET heads == Heads(text, o, i)
        IN  \A j \in heads : IsTrue(text, env, j) <=> j = Max(heads)

Selected(text, env) ==
    LET kept == {i \in DOMAIN text : text[i].kind \notin Directives /\ Chosen(text, env, i)}
    IN  [n \in 1..Cardinality(kept) |->
            text[CHOOSE i \in kept : Cardinality({k \in kept : k <= i}) = n]]

Bracketed(text) ==
    /\ \A i \in DOMAIN text : text[i].kind \in {"%ELSIF", "%ELSE", "%END"} => Depth(text, i) > 0
    /\ Depth(text, Len(text) + 1) = 0

-----------------------------------------------------------------------------

AsText(decls) ==
    [i \in DOMAIN decls |-> IF decls[i].kind = "pragma" THEN AsDirective(OwnLine(decls[i])) ELSE decls[i]]

\* The declaration at a place or behind it.
Behind(decls, i) ==
    LET rest == {k \in i..Len(decls) : decls[k].kind # "pragma"}
    IN  IF rest = {} THEN "none" ELSE decls[Min(rest)].kind

\* In a conditional, up to the first declaration behind it, all are of one kind.
OneKind(decls) ==
    LET text == AsText(decls)
    IN  \A o, i, j \in DOMAIN text :
            /\ o <= i /\ Encloses(text, o, i)
            /\ o <= j /\ Encloses(text, o, j)
            => Behind(decls, j) \in {Behind(decls, i), "none"} \/ Behind(decls, i) = "none"

InSections(decls) ==
    OfKind(decls, "const") \o OfKind(decls, "type") \o SelectSeq(decls, IsInterface)
        \o OfKind(decls, "procedure")
=============================================================================
