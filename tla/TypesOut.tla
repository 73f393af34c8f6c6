------------------------------ MODULE TypesOut -------------------------------
(***************************************************************************)
(* The definition module the compiler writes from the tree of a module     *)
(* (newm2-parser/src/types_out.rs): its constants, types, interfaces and   *)
(* procedures, sorted into sections, with the conditional pragmas of the   *)
(* source evaluated.  The text is a sequence of tokens; layout, comments   *)
(* and the counts of the summary are left out, except for which pragmas    *)
(* have a line of their own.                                               *)
(***************************************************************************)
EXTENDS Parser, Preprocess

RECURSIVE FormatExpr(_), FormatType(_), FormatVariant(_)

Joined(parts, mark) ==
    FlattenSeq([i \in DOMAIN parts |-> IF i = 1 THEN parts[1] ELSE <<Word(mark)>> \o parts[i]])

Each(nodes, Format(_)) == [i \in DOMAIN nodes |-> Format(nodes[i])]

Itself(node) == <<node>>

NameList(nodes) == Joined(Each(OfKind(nodes, "name"), Itself), ",")

Dotted(qual) == Joined(Each(qual.below, Itself), ".")

\* A pragma on a line of its own, the only kind that is evaluated.
OwnLine(pragma) == [pragma EXCEPT !.kind = "pragma line"]

OwnLines(nodes) == Each(OfKind(nodes, "pragma"), OwnLine)

PragmasOf(nodes) == OfKind(nodes, "pragma")

-----------------------------------------------------------------------------
(* Expressions: every operation between parentheses.                       *)

FormatSelector(s) ==
    CASE s.kind = "field" -> <<Word("."), Name(s.text)>>
      [] s.kind = "deref" -> <<Word("^")>>
      [] s.kind = "index" -> <<Word("[")>> \o Joined(Each(s.below, FormatExpr), ",") \o <<Word("]")>>

FormatSelectors(selectors) == FlattenSeq(Each(selectors, FormatSelector))

FormatSet(e) ==
    (IF e.below[1] = Nothing THEN <<>> ELSE Dotted(e.below[1]))
        \o <<Word("{")>> \o Joined(Each(Tail(e.below), FormatExpr), ",") \o <<Word("}")>>

FormatKeyword(part) ==
    IF part.kind = "keyword" THEN <<Name(part.text), Word(":")>> \o FormatExpr(part.below[1]) ELSE <<part>>

\* A character loses its flavor, the node below its token.
FormatExpr(e) ==
    CASE e.kind \in {"integer", "real", "string"} -> <<e>>
      [] e.kind = "char"   -> <<Leaf("char", e.text)>>
      [] e.kind = "designator" -> <<e.below[1]>> \o FormatSelectors(Tail(e.below))
      [] e.kind = "call"   -> FormatExpr(e.below[1]) \o <<Word("(")>>
                                \o Joined(Each(Tail(e.below), FormatExpr), ",") \o <<Word(")")>>
      [] e.kind = "binary" -> <<Word("(")>> \o FormatExpr(e.below[1]) \o <<Word(e.text)>>
                                \o FormatExpr(e.below[2]) \o <<Word(")")>>
      [] e.kind = "unary"  -> <<Word("("), Word(e.text)>> \o FormatExpr(e.below[1]) \o <<Word(")")>>
      [] e.kind = "range"  -> FormatExpr(e.below[1]) \o <<Word("..")>> \o FormatExpr(e.below[2])
      [] e.kind = "set"    -> FormatSet(e)
      [] e.kind = "send"   -> <<Word("[")>> \o FormatExpr(e.below[1])
                                \o FlattenSeq(Each(Tail(e.below), FormatKeyword)) \o <<Word("]")>>
      [] e.kind = "postfix" -> FormatExpr(e.below[1]) \o FormatSelectors(Tail(e.below))

-----------------------------------------------------------------------------
(* Types.                                                                  *)

Mode(text) == IF text = "" THEN <<>> ELSE <<Word(text)>>

FormatProcTypeParam(p) == PragmasOf(p.below) \o Mode(p.text) \o FormatType(Last(p.below))

FormatParam(p) ==
    PragmasOf(p.below) \o Mode(p.text) \o NameList(p.below) \o <<Word(":")>> \o FormatType(Last(p.below))

FormatResult(type) == IF type = Nothing THEN <<>> ELSE <<Word(":")>> \o FormatType(type)

FormatArgument(argument) == argument.below

AttributeWord(name) == IF name \in Reserved THEN Word(name) ELSE Name(name)

FormatAttribute(a) ==
    <<AttributeWord(a.text)>>
        \o IF a.below = <<>> THEN <<>>
           ELSE <<Word("(")>> \o Joined(Each(a.below, FormatArgument), ",") \o <<Word(")")>>

FormatAttributes(attributes) ==
    IF attributes.below = <<>> THEN <<>>
    ELSE <<Word("[")>> \o Joined(Each(attributes.below, FormatAttribute), ",") \o <<Word("]")>>

FormatProcType(t) ==
    <<Word("PROCEDURE"), Word("(")>> \o Joined(Each(t.below[1].below, FormatProcTypeParam), ";")
        \o <<Word(")")>> \o FormatResult(t.below[2]) \o FormatAttributes(t.below[3])

FormatMember(m) ==
    <<Name(m.text)>> \o IF m.below = <<>> THEN <<>> ELSE <<Word("=")>> \o FormatExpr(m.below[1])

Star(exported) == Mode(exported)

FormatField(f) ==
    OwnLines(f.below) \o NameList(f.below) \o Star(f.text) \o <<Word(":")>> \o FormatType(Last(f.below))
        \o <<Word(";")>>

FormatFields(parts) == FlattenSeq(Each(OfKind(parts, "fields"), FormatField))

FormatVariants(parts) == FlattenSeq(Each(OfKind(parts, "variant"), FormatVariant))

FormatArm(arm) ==
    <<Word("|")>> \o Joined(Each(arm.below[1].below, FormatExpr), ",") \o <<Word(":")>>
        \o FormatFields(arm.below) \o FormatVariants(arm.below)

FormatElse(other) == <<Word("ELSE")>> \o FormatFields(other.below)

FormatVariant(v) ==
    <<Word("CASE")>>
        \o (IF v.text = "" THEN <<>> ELSE <<Name(v.text)>>)
        \o (IF v.below[1] = Nothing THEN <<>> ELSE <<Word(":")>> \o Dotted(v.below[1]))
        \o <<Word("OF")>>
        \o FlattenSeq(Each(OfKind(v.below, "arm"), FormatArm))
        \o FlattenSeq(Each(OfKind(v.below, "else"), FormatElse))
        \o <<Word("END")>>

FormatRecord(r) == <<Word("RECORD")>> \o FormatFields(r.below) \o FormatVariants(r.below) \o <<Word("END")>>

FormatType(t) ==
    CASE t.kind = "qual"       -> Dotted(t)
      [] t.kind = "subrange"   -> <<Word("[")>> \o FormatExpr(t.below[1]) \o <<Word("..")>>
                                    \o FormatExpr(t.below[2]) \o <<Word("]")>>
      [] t.kind = "enum"       -> <<Word("(")>> \o Joined(Each(t.below, FormatMember), ",") \o <<Word(")")>>
      [] t.kind = "array"      -> <<Word("ARRAY")>> \o Joined(Each(Front(t.below), FormatType), ",")
                                    \o <<Word("OF")>> \o FormatType(Last(t.below))
      [] t.kind = "open array" -> <<Word("ARRAY"), Word("OF")>> \o FormatType(t.below[1])
      [] t.kind = "record"     -> FormatRecord(t)
      [] t.kind = "pointer"    -> <<Word("POINTER"), Word("TO")>> \o FormatType(t.below[1])
      [] t.kind = "set type"   -> <<Word(t.text \o "SET"), Word("OF")>> \o FormatType(t.below[1])
      [] t.kind = "procedure type" -> FormatProcType(t)

-----------------------------------------------------------------------------
(* Declarations.                                                           *)

FormatConst(d) == <<d.below[1]>> \o Star(d.text) \o <<Word("=")>> \o FormatExpr(d.below[2]) \o <<Word(";")>>

FormatTypeDecl(d) ==
    <<d.below[1]>> \o Star(d.text)
        \o (IF Len(d.below) = 1 THEN <<>> ELSE <<Word("=")>> \o FormatType(d.below[2]))
        \o <<Word(";")>>

FormatExternal(part) == IF part.kind = "EXTERNAL" THEN <<Name("EXTERNAL")>> ELSE <<Word("FROM"), part>>

FormatLinkage(linkage) ==
    IF linkage = Nothing THEN <<>>
    ELSE <<Word("["), linkage.below[1]>> \o FlattenSeq(Each(Tail(linkage.below), FormatExternal))
            \o <<Word("]")>>

\* From the parameters to the end, alike for procedures and methods.
FormatHeading(parts) ==
    <<Word("(")>> \o Joined(Each(parts[1].below, FormatParam), ";") \o <<Word(")")>>
        \o FormatResult(parts[2]) \o FormatAttributes(parts[3]) \o parts[4].below \o <<Word(";")>>

FormatProc(d) ==
    <<Word("PROCEDURE"), d.below[1]>> \o Star(d.text) \o FormatLinkage(d.below[2])
        \o FormatHeading(SubSeq(d.below, 3, 6))

FormatMethod(m) == <<Word("PROCEDURE"), m.below[1]>> \o FormatHeading(SubSeq(m.below, 2, 5))

FormatInterface(d) ==
    LET iid == d.below[3]
        inherit == d.below[4].below
    IN  <<Name("INTERFACE"), d.below[2]>> \o Star(d.text)
            \o (IF iid = Nothing THEN <<>> ELSE <<Word("["), iid, Word("]")>>)
            \o <<Word(";")>>
            \o (IF inherit = <<>> THEN <<>> ELSE <<Name("INHERIT")>> \o Dotted(inherit[1]) \o <<Word(";")>>)
            \o FlattenSeq(Each(OfKind(d.below, "method"), FormatMethod))
            \o <<Word("END"), d.below[2], Word(";")>>

FormatAlias(n) == Joined(Each(n.below, Itself), ":=")

FormatImport(i) ==
    IF i.kind = "import"
    THEN <<Word("IMPORT")>> \o Joined(Each(i.below, FormatAlias), ",") \o <<Word(";")>>
    ELSE <<Word("FROM"), i.below[1], Word("IMPORT")>>
            \o (IF Len(i.below) = 1 THEN <<Word("*")>> ELSE NameList(Tail(i.below))) \o <<Word(";")>>

-----------------------------------------------------------------------------
(* Sorting into sections.  A pragma waits for the declaration behind it:   *)
(* which section it goes to depends on that declaration.  active are the   *)
(* sections with a condition that is open, skipped counts the warnings.    *)

Sections == <<"const", "type", "procedure">>

Sorting == [chunks |-> [k \in {"const", "type", "procedure", "interface"} |-> <<>>],
            pending |-> <<>>, active |-> {}, skipped |-> 0]

Chunk(o, section, tokens) == [o EXCEPT !.chunks[section] = @ \o tokens]

SkipPragma(o) == [o EXCEPT !.skipped = @ + 1]

Into(o, section, pragma) ==
    LET line == <<OwnLine(pragma)>>
    IN  CASE pragma.text \in {"IF", "ELSIF", "ELSE"} ->
                Chunk([o EXCEPT !.active = @ \cup {section}], section, line)
          [] pragma.text = "END" /\ section \in o.active ->
                Chunk([o EXCEPT !.active = @ \ {section}], section, line)
          [] pragma.text = "END" /\ section \notin o.active -> SkipPragma(o)
          [] OTHER -> Chunk(o, section, line)

\* A pragma with no declaration of a section behind it.
Leftover(o, pragma) ==
    LET open == SelectSeq(Sections, LAMBDA k : k \in o.active)
    IN  IF pragma.text = "END" /\ open # <<>> THEN Into(o, open[1], pragma) ELSE SkipPragma(o)

Unwanted(o, pragma) == SkipPragma(o)

Drained(o, Drain(_, _)) == [FoldLeft(Drain, o, o.pending) EXCEPT !.pending = <<>>]

IsInterface(d) == d.kind = "class" /\ d.below[1].text = "INTERFACE"

SortLate(o, d) ==
    LET IntoSection(x, pragma) == Into(x, d.kind, pragma)
    IN  CASE d.kind = "pragma"    -> [o EXCEPT !.pending = Append(@, d)]
          [] d.kind = "const"     -> Drained(Chunk(o, "const", FormatConst(d)), IntoSection)
          [] d.kind = "type"      -> Drained(Chunk(o, "type", FormatTypeDecl(d)), IntoSection)
          [] d.kind = "procedure" -> Drained(Chunk(o, "procedure", FormatProc(d)), IntoSection)
          [] IsInterface(d)       -> Chunk(Drained(o, Unwanted), "interface", FormatInterface(d))
          [] OTHER                -> Drained(o, Leftover)

Sort(o, d) ==
    LET IntoSection(x, pragma) == Into(x, d.kind, pragma)
        flushed == Drained(o, IntoSection)
    IN  CASE d.kind = "pragma"    -> [o EXCEPT !.pending = Append(@, d)]
          [] d.kind = "const"     -> Chunk(flushed, "const", FormatConst(d))
          [] d.kind = "type"      -> Chunk(flushed, "type", FormatTypeDecl(d))
          [] d.kind = "procedure" -> Chunk(flushed, "procedure", FormatProc(d))
          [] IsInterface(d)       -> Chunk(Drained(o, Unwanted), "interface", FormatInterface(d))
          [] OTHER                -> Drained(o, Leftover)

Sorted(decls) == Drained(FoldLeft(Sort, Sorting, decls), Leftover)

SectionText(word, chunk) == IF chunk = <<>> THEN <<>> ELSE <<Word(word)>> \o chunk

FormatTypesModule(m) ==
    LET sorted == Sorted(m.below[5].below)
        name == m.below[1]
    IN  [text |-> <<Word("DEFINITION"), Word("MODULE"), name, Word(";")>>
                    \o OwnLines(m.below[3].below)
                    \o FlattenSeq(Each(m.below[4].below, FormatImport))
                    \o SectionText("CONST", sorted.chunks["const"])
                    \o SectionText("TYPE", sorted.chunks["type"])
                    \o sorted.chunks["interface"]
                    \o sorted.chunks["procedure"]
                    \o <<Word("END"), name, Word(".")>>,
         skipped |-> sorted.skipped]

-----------------------------------------------------------------------------
(* The conditional pragmas that have a line become directives.             *)

AsPragma(token) == IF token.kind = "pragma line" THEN [token EXCEPT !.kind = "pragma"] ELSE token

AsDirective(token) ==
    IF token.kind = "pragma line" /\ token.text \in {"IF", "ELSIF", "ELSE", "END"}
    THEN Conditional("%" \o token.text, token.below)
    ELSE AsPragma(token)

\* Where that fails the text stays as it was, with a warning.
Evaluated(out, evaluated) ==
    [text |-> IF evaluated.ok THEN evaluated.out ELSE Each(out.text, AsPragma),
     skipped |-> out.skipped,
     evaluated |-> evaluated.ok]

WithConditions(out, env) == Evaluated(out, Preprocessed(Each(out.text, AsDirective), env))

TypesOutOf(m, env) == WithConditions(FormatTypesModule(m), env)
=============================================================================
