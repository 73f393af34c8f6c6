------------------------------- MODULE Parser --------------------------------
(***************************************************************************)
(* The recursive-descent parser (newm2-parser/src/parser.rs): from the     *)
(* tokens of a module to its tree, or to the first error.  Spans and       *)
(* messages are left out.                                                  *)
(***************************************************************************)
EXTENDS Syntax

(* The rules that are part of each other go through one operator.          *)
RECURSIVE Parse(_, _)

Expr(s) == Parse("expression", s)
Factor(s) == Parse("factor", s)
TypeExpr(s) == Parse("type", s)
VariantPart(s) == Parse("variant", s)
StmtSeq(s) == Parse("statements", s)
FinishBlock(s) == Parse("block", s)
TopDecls(s, bodies) == Parse(IF bodies THEN "declarations" ELSE "headings", s)

RECURSIVE Pragmas(_)
Pragmas(s) == IF At(s, "pragma") THEN Pragmas(Keep(s)) ELSE s

SkipPragmas(s) == Dropped(s, Pragmas(s))

IdentList(s) == OneOrMore(s, ExpectName, {","})

RECURSIVE QualTail(_)
QualTail(s) ==
    IF At(s, ".") /\ FollowedBy(s, "name") THEN QualTail(ExpectName(Bump(s))) ELSE s

QualName(s) == Group(s, QualTail(ExpectName(s)), "qual", "")

\* A list between brackets that may be empty.
Enclosed(s, List(_), close) == Expect(IF At(s, close) THEN s ELSE List(s), close)

-----------------------------------------------------------------------------
(* Expressions.                                                            *)

Relational == {"=", "#", "<>", "<", "<=", ">", ">=", "IN"}
Additive == {"+", "-", "OR"}
Multiplicative == {"*", "/", "DIV", "MOD", "REM", "AND", "&", "BOR", "BAND", "BXOR", "SHL", "SHR"}

Meaning(operator) ==
    IF operator = "<>" THEN "#" ELSE IF operator = "&" THEN "AND" ELSE operator

Term(s) == LeftToRight(Factor(s), Factor, Multiplicative, Meaning)

SimpleSignedSum(s) ==
    LET sum == LeftToRight(Term(IF AtOneOf(s, {"+", "-"}) THEN Bump(s) ELSE s), Term, Additive, Meaning)
    IN  IF AtOneOf(s, {"+", "-"}) THEN Wrap(sum, 1, "unary", Peek(s).kind) ELSE sum

\* A sign belongs to the first term.
Simple(s) ==
    LET first == IF AtOneOf(s, {"+", "-"})
                 THEN Wrap(Term(Bump(s)), 1, "unary", Peek(s).kind)
                 ELSE Term(s)
    IN  LeftToRight(first, Term, Additive, Meaning)

ParseExpr(s) == LeftToRight(Simple(s), Simple, Relational, Meaning)

ExprList(s) == OneOrMore(s, Expr, {","})

RECURSIVE Selectors(_)
Selectors(s) ==
    IF At(s, ".") /\ FollowedBy(s, "name")
    THEN Selectors(Made(Bump(Bump(s)), Leaf("field", PeekAt(s, 1).text)))
    ELSE IF At(s, "[") THEN Selectors(Group(s, Enclosed(Bump(s), ExprList, "]"), "index", ""))
    ELSE IF At(s, "^") THEN Selectors(Made(Bump(s), Leaf("deref", "")))
    ELSE s

Designator(s) == Group(s, Selectors(ExpectName(s)), "designator", "")

\* Selectors behind something that is not a designator.
Postfix(s) ==
    LET behind == Selectors(s)
    IN  IF Len(behind.nodes) = Len(s.nodes) THEN s
        ELSE Wrap(behind, 1 + Len(behind.nodes) - Len(s.nodes), "postfix", "")

\* lo or lo .. hi: the elements of sets and the labels of cases.
RangeOrOne(s) ==
    LET lo == Expr(s)
    IN  IF At(lo, "..") THEN Group(s, Expr(Bump(lo)), "range", "") ELSE lo

Ranges(s) == OneOrMore(s, RangeOrOne, {","})

\* The type's name is the last node, or Nothing.
SetConstructor(s) ==
    LET elements == Enclosed(Expect(s, "{"), Ranges, "}")
    IN  Wrap(elements, 1 + Len(elements.nodes) - Len(s.nodes), "set", "")

RECURSIVE DottedRunBeforeBrace(_, _)
DottedRunBeforeBrace(s, n) ==
    IF PeekAt(s, n).kind = "." /\ PeekAt(s, n + 1).kind = "name"
    THEN DottedRunBeforeBrace(s, n + 2)
    ELSE PeekAt(s, n).kind = "{"

\* An argument may name a type, which is not kept.
Argument(s) ==
    LET value == Expr(s)
    IN  IF At(value, ":") THEN Dropped(value, TypeExpr(Bump(value))) ELSE value

Arguments(s) == OneOrMore(s, Argument, {","})

Call(before, s, List(_)) == Group(before, Enclosed(Bump(s), List, ")"), "call", "")

RECURSIVE Keywords(_)
Keywords(s) ==
    IF At(s, "name") /\ FollowedBy(s, ":")
    THEN Keywords(Wrap(Expr(Bump(Bump(s))), 1, "keyword", Peek(s).text))
    ELSE s

MessageSend(s) ==
    LET receiver == Expr(Bump(s))
        parts == IF At(receiver, "name") /\ FollowedBy(receiver, ":")
                 THEN Keywords(receiver)
                 ELSE ExpectName(receiver)
    IN  Postfix(Group(s, Expect(parts, "]"), "send", ""))

Location == {"__LINE__", "__FILE__", "__FUNCTION__"}

NameFactor(s) ==
    IF Peek(s).text \in Location
    THEN Made(Bump(s), IF AtSoft(s, "__LINE__") THEN Leaf("integer", "line") ELSE Leaf("string", ""))
    ELSE IF DottedRunBeforeBrace(s, 1) THEN SetConstructor(QualName(s))
    ELSE LET d == Designator(s)
         IN  IF At(d, "(") THEN Postfix(Call(s, d, Arguments)) ELSE d

ParseFactor(s) ==
    IF AtOneOf(s, {"integer", "real", "char", "string"}) THEN Keep(s)
    ELSE IF AtOneOf(s, {"NOT", "~", "BNOT"}) THEN Wrap(Factor(Bump(s)), 1, "unary", "NOT")
    ELSE IF At(s, "(") THEN Postfix(Expect(Expr(Bump(s)), ")"))
    ELSE IF At(s, "[") THEN MessageSend(s)
    ELSE IF At(s, "{") THEN SetConstructor(Made(s, Nothing))
    ELSE IF At(s, "name") THEN NameFactor(s)
    ELSE Failed(s)

-----------------------------------------------------------------------------
(* Types.                                                                  *)

Array(s) ==
    LET t == Bump(s)
        indices == OneOrMore(t, TypeExpr, {","})
    IN  IF At(t, "OF") THEN Group(s, TypeExpr(Bump(t)), "open array", "")
        ELSE Group(s, TypeExpr(Expect(indices, "OF")), "array", "")

\* The type of something is all there is to say of it.
TypeOf(s, kind, text) == Wrap(TypeExpr(s), 1, kind, text)

\* VAR [OUT | INOUT], OUT and INOUT are one mode.
ByReference(s) == At(s, "VAR") \/ AtSoft(s, "OUT") \/ AtSoft(s, "INOUT")

AfterMode(s) ==
    IF At(s, "VAR")
    THEN IF AtSoft(Bump(s), "OUT") \/ AtSoft(Bump(s), "INOUT") THEN Bump(Bump(s)) ELSE Bump(s)
    ELSE IF ByReference(s) \/ At(s, "CONST") THEN Bump(s)
    ELSE s

\* In a procedure type CONST is by reference too.
TypeParameter(s) ==
    LET mode == Pragmas(s)
    IN  Group(s, TypeExpr(AfterMode(mode)), "parameter",
              IF ByReference(mode) \/ At(mode, "CONST") THEN "VAR" ELSE "")

TypeParameters(s) == OneOrMore(s, TypeParameter, {",", ";"})

Parameter(s) ==
    LET mode == Pragmas(s)
        names == IdentList(AfterMode(mode))
    IN  Group(s, TypeExpr(Expect(names, ":")), "parameter",
              IF ByReference(mode) THEN "VAR" ELSE IF At(mode, "CONST") THEN "CONST" ELSE "")

\* A procedure's parameters; "..." ends them, and stands for an attribute.
Varargs == Node("attribute", "VARARGS", <<>>)

IsEllipsis(s) == At(s, "..") /\ FollowedBy(s, ".")

RECURSIVE Parameters(_)
Parameters(s) ==
    LET one == Parameter(s)
    IN  IF IsEllipsis(s) THEN Made(Bump(Bump(s)), Varargs)
        ELSE IF AtOneOf(one, {",", ";"}) THEN Parameters(Bump(one))
        ELSE one

MethodParameters(s) == OneOrMore(s, Parameter, {",", ";"})

ParameterList(s, List(_)) ==
    Group(s, IF At(s, "(") THEN Enclosed(Bump(s), List, ")") ELSE s, "parameters", "")

Result(s) == IF At(s, ":") THEN TypeExpr(Bump(s)) ELSE Made(s, Nothing)

\* An attribute's argument is the tokens up to its end.
RECURSIVE AttributeTokens(_, _)
AttributeTokens(s, depth) ==
    IF At(s, "eof") \/ (AtOneOf(s, {",", ")"}) /\ depth = 0) \/ ~s.ok THEN s
    ELSE AttributeTokens(Keep(s), depth + (IF At(s, "(") THEN 1 ELSE IF At(s, ")") THEN -1 ELSE 0))

AttributeArgument(s) == Group(s, AttributeTokens(s, 0), "argument", "")

AttributeArguments(s) == OneOrMore(s, AttributeArgument, {","})

AttributeName(s) == IF At(s, "name") THEN Peek(s).text ELSE Peek(s).kind

Attribute(s) ==
    LET name == Bump(s)
    IN  IF AtOneOf(s, Reserved \cup {"name"})
        THEN Group(s, IF At(name, "(") THEN Enclosed(Bump(name), AttributeArguments, ")") ELSE name,
                   "attribute", AttributeName(s))
        ELSE Failed(s)

RECURSIVE AttributeRun(_)
AttributeRun(s) ==
    LET here == SkipPragmas(s)
        one == Attribute(here)
    IN  IF At(here, "]") THEN here
        ELSE IF At(one, ",") THEN AttributeRun(Bump(one))
        ELSE one

Attributes(s) ==
    Group(s, IF At(s, "[") THEN Expect(AttributeRun(Bump(s)), "]") ELSE s, "attributes", "")

ProcedureType(s) ==
    LET parameters == ParameterList(Bump(s), TypeParameters)
    IN  Group(s, Attributes(Result(parameters)), "procedure type", "")

EnumMember(s) ==
    LET name == Bump(s)
    IN  IF At(s, "name")
        THEN Group(s, IF At(name, "=") THEN Expr(Bump(name)) ELSE name, "member", Peek(s).text)
        ELSE Failed(s)

EnumMembers(s) == OneOrMore(s, EnumMember, {","})

Enumeration(s) == Group(s, EatSoft(Enclosed(Bump(s), EnumMembers, ")"), "BIG"), "enum", "")

Subrange(s) ==
    Group(s, Expect(Expr(Expect(Expr(Bump(s)), "..")), "]"), "subrange", "")

RECURSIVE DotsBeforeBracket(_, _, _)
DotsBeforeBracket(s, n, depth) ==
    LET kind == PeekAt(s, n).kind
    IN  CASE kind = "eof" \/ (kind = "]" /\ depth = 0) -> FALSE
          [] kind = ".." /\ depth = 0                  -> TRUE
          [] kind \in {"[", "(", "{"}                  -> DotsBeforeBracket(s, n + 1, depth + 1)
          [] kind \in {")", "}"} \/ (kind = "]" /\ depth # 0) -> DotsBeforeBracket(s, n + 1, depth - 1)
          [] OTHER                                     -> DotsBeforeBracket(s, n + 1, depth)

\* A subrange does not keep the name of its host type.
NamedType(s) ==
    LET name == QualName(s)
    IN  IF At(name, "[") /\ DotsBeforeBracket(name, 1, 0) THEN Subrange(Dropped(s, name)) ELSE name

-----------------------------------------------------------------------------
(* Records.                                                                *)

RECURSIVE Skipped(_, _)
Skipped(s, depth) ==
    IF depth = 0 \/ At(s, "eof") \/ ~s.ok THEN s
    ELSE Skipped(Bump(s), depth + (IF At(s, "[") THEN 1 ELSE IF At(s, "]") THEN -1 ELSE 0))

SkipBrackets(s) == IF At(s, "[") THEN Skipped(Bump(s), 1) ELSE s

HasLink(s) == At(s, "[") /\ FollowedBy(s, "string")

PlainName(s) == Eat(ExpectName(s), "*")

LinkedField(s) ==
    LET name == PlainName(s)
    IN  IF HasLink(name) THEN Expect(Bump(Bump(name)), "]") ELSE name

\* Whether the first name of a list carries the mark of an export.
Exported(s) == IF At(ExpectName(s), "*") THEN "*" ELSE ""

Fields(before, s, One(_)) ==
    LET names == OneOrMore(s, One, {","})
    IN  Group(before, Eat(TypeExpr(Expect(names, ":")), ";"), "fields", Exported(s))

\* The width is not kept.
BitWidth(type) == IF At(type, "BY") THEN Dropped(type, Expr(Bump(type))) ELSE type

Bitfield(s) ==
    Group(s, Eat(BitWidth(TypeExpr(Expect(IdentList(s), ":"))), ";"), "fields", "")

RECURSIVE Bitfields(_)
BitfieldsFrom(s) ==
    IF At(s, "END") THEN Bump(s) ELSE IF s.ok THEN Bitfields(Bitfield(s)) ELSE s

Bitfields(s) == BitfieldsFrom(SkipPragmas(s))

BitfieldSection(s) == Eat(Bitfields(Bump(s)), ";")

VariantTag(s) ==
    IF At(s, ":") THEN QualName(Bump(s))
    ELSE IF At(s, "name") /\ FollowedBy(s, ":") THEN QualName(Bump(Bump(s)))
    ELSE IF At(s, "name") THEN QualName(s)
    ELSE Made(s, Nothing)

TagName(s) == IF At(s, "name") /\ FollowedBy(s, ":") THEN Peek(s).text ELSE ""

RECURSIVE ArmFields(_)
ArmFields(s) ==
    LET names == Pragmas(s)
    IN  CASE AtOneOf(s, {"END", "ELSE", "|"}) -> s
          [] At(s, "CASE")                    -> Eat(VariantPart(Bump(s)), ";")
          [] AtSoft(s, "BITFIELDS")           -> ArmFields(BitfieldSection(s))
          [] AtOneOf(s, {"name", "pragma"}) /\ ~AtSoft(s, "BITFIELDS") ->
                IF At(names, "name") THEN ArmFields(Fields(s, names, PlainName))
                ELSE Dropped(s, names)
          [] OTHER                            -> s

VariantArm(s) == Group(s, ArmFields(Expect(Group(s, Ranges(s), "labels", ""), ":")), "arm", "")

RECURSIVE VariantArms(_)
MoreArms(one) == IF At(one, "|") THEN VariantArms(Bump(one)) ELSE one

VariantArms(s) ==
    IF AtOneOf(s, {"END", "ELSE"}) THEN s
    ELSE IF At(s, "|") THEN VariantArms(Bump(s))
    ELSE MoreArms(VariantArm(s))

RECURSIVE ElseFields(_)
ElseFields(s) ==
    IF AtOneOf(s, {"name", "pragma"}) THEN ElseFields(Fields(s, Pragmas(s), PlainName)) ELSE s

ElsePart(s) == IF At(s, "ELSE") THEN Group(s, ElseFields(Bump(s)), "else", "") ELSE s

\* The part behind CASE, with an END of its own.
ParseVariantPart(s) ==
    LET arms == VariantArms(Eat(Expect(VariantTag(s), "OF"), "|"))
    IN  Group(s, Expect(ElsePart(arms), "END"), "variant", TagName(s))

RECURSIVE RecordParts(_)
RecordParts(s) ==
    LET here == SkipPragmas(s)
    IN  CASE AtSoft(here, "BITFIELDS") -> RecordParts(BitfieldSection(here))
          [] At(here, "CASE")          -> RecordParts(Eat(VariantPart(Bump(here)), ";"))
          [] At(here, "name") /\ ~AtSoft(here, "BITFIELDS") ->
                RecordParts(Fields(here, here, LinkedField))
          [] OTHER                     -> here

\* A record keeps one variant part, the last.
OfKind(nodes, kind) == SelectSeq(nodes, LAMBDA n : n.kind = kind)

LastOf(nodes) == IF nodes = <<>> THEN nodes ELSE <<nodes[Len(nodes)]>>

RecordOf(before, parts) ==
    LET new == SubSeq(parts.nodes, Len(before.nodes) + 1, Len(parts.nodes))
    IN  IF parts.ok
        THEN Made(Dropped(before, parts),
                  Node("record", "", OfKind(new, "fields") \o LastOf(OfKind(new, "variant"))))
        ELSE parts

Record(s) == RecordOf(s, Expect(RecordParts(SkipBrackets(Bump(s))), "END"))

-----------------------------------------------------------------------------

TypeInner(s) ==
    CASE At(s, "ARRAY")     -> Array(s)
      [] At(s, "RECORD")    -> Record(s)
      [] At(s, "POINTER")   -> TypeOf(Expect(Bump(s), "TO"), "pointer", "")
      [] At(s, "PROCEDURE") -> ProcedureType(s)
      [] At(s, "SET")       -> TypeOf(Expect(Bump(s), "OF"), "set type", "")
      [] At(s, "PACKEDSET") -> TypeOf(Expect(Bump(s), "OF"), "set type", "PACKED")
      [] At(s, "(")         -> Enumeration(s)
      [] At(s, "[")         -> Subrange(s)
      [] At(s, "name")      -> NamedType(s)
      [] OTHER              -> Failed(s)

ParseTypeExpr(s) == EatSoft(TypeInner(EatSoft(s, "VALUE")), "BIG")

-----------------------------------------------------------------------------
(* END name: the name must be the one the construct began with.            *)

ExpectSame(s, name) == IF AtSoft(s, name) THEN Bump(s) ELSE Failed(s)
ExpectEnd(s, name) == ExpectSame(Expect(s, "END"), name)

-----------------------------------------------------------------------------
(* Statements.                                                             *)

StmtEnds == {"END", "ELSE", "ELSIF", "UNTIL", "EXCEPT", "FINALLY", "|"}

Stmts(s) == Group(s, StmtSeq(s), "statements", "")

ElseStmts(s) == IF At(s, "ELSE") THEN Stmts(Bump(s)) ELSE Made(s, Nothing)

\* IF and ELSIF arms; WHILE is one of them by itself.
CondArm(s, follows) == Group(s, Stmts(Expect(Expr(Bump(s)), follows)), "arm", "")

RECURSIVE IfArms(_)
IfArms(s) == IF At(s, "ELSIF") THEN IfArms(CondArm(s, "THEN")) ELSE s

IfStmt(s) == Group(s, Expect(ElseStmts(IfArms(CondArm(s, "THEN"))), "END"), "if", "")

WhileStmt(s) == Group(s, Expect(Stmts(Expect(Expr(Bump(s)), "DO")), "END"), "while", "")

RepeatStmt(s) == Group(s, Expr(Expect(Stmts(Bump(s)), "UNTIL")), "repeat", "")

LoopStmt(s) == Group(s, Expect(Stmts(Bump(s)), "END"), "loop", "")

WithStmt(s) == Group(s, Expect(Stmts(Expect(Designator(Bump(s)), "DO")), "END"), "with", "")

ForStmt(s) ==
    LET from == Expr(Expect(ExpectName(Bump(s)), ":="))
        to == Expr(Expect(from, "TO"))
        by == IF At(to, "BY") THEN Expr(Bump(to)) ELSE Made(to, Nothing)
    IN  Group(s, Expect(Stmts(Expect(by, "DO")), "END"), "for", "")

\* The arms of CASE and GUARD: separated by "|", one may stand before the first.
Arms(s, Arm(_)) ==
    LET RECURSIVE From(_)
        From(x) == LET one == Arm(x)
                   IN  IF AtOneOf(x, {"END", "ELSE"}) THEN x
                       ELSE IF At(one, "|") THEN From(Bump(one)) ELSE one
    IN  From(Eat(s, "|"))

CaseArm(s) == Group(s, Stmts(Expect(Group(s, Ranges(s), "labels", ""), ":")), "arm", "")

CaseStmt(s) ==
    LET arms == Arms(Expect(Expr(Bump(s)), "OF"), CaseArm)
    IN  Group(s, Expect(ElseStmts(arms), "END"), "case", "")

GuardArm(s) ==
    LET named == At(s, "name") /\ FollowedBy(s, ":")
        type == QualName(IF named THEN Bump(Bump(s)) ELSE s)
    IN  Group(s, Stmts(Expect(type, "DO")), "guarded", IF named THEN Peek(s).text ELSE "")

\* GUARD is a name where it is used as one.
StartsGuard(s) ==
    AtSoft(s, "GUARD") /\ PeekAt(s, 1).kind \notin {":=", ".", "[", "(", "^", ",", ":"}

GuardStmt(s) ==
    LET selector == Expr(Bump(s))
        arms == Arms(IF AtSoft(selector, "AS") THEN Bump(selector) ELSE Failed(selector), GuardArm)
    IN  Group(s, Expect(ElseStmts(arms), "END"), "guard", "")

ReturnStmt(s) ==
    LET after == Bump(s)
    IN  Group(s, IF AtOneOf(after, StmtEnds \cup {";"}) THEN after ELSE Expr(after), "return", "")

\* FUNC drops the value of a call.
FuncStmt(s) ==
    LET d == Designator(Bump(s))
    IN  Wrap(IF At(d, "(") THEN Call(s, d, ExprList) ELSE d, 1, "call statement", "")

NameStmt(s) ==
    LET d == Designator(s)
    IN  IF At(d, ":=") THEN Group(s, Expr(Bump(d)), "assign", "")
        ELSE Wrap(IF At(d, "(") THEN Call(s, d, ExprList) ELSE d, 1, "call statement", "")

Statement(s) ==
    CASE StartsGuard(s)   -> GuardStmt(s)
      [] At(s, "IF")      -> IfStmt(s)
      [] At(s, "CASE")    -> CaseStmt(s)
      [] At(s, "WHILE")   -> WhileStmt(s)
      [] At(s, "REPEAT")  -> RepeatStmt(s)
      [] At(s, "FOR")     -> ForStmt(s)
      [] At(s, "LOOP")    -> LoopStmt(s)
      [] At(s, "WITH")    -> WithStmt(s)
      [] At(s, "EXIT")    -> Made(Bump(s), Leaf("exit", ""))
      [] At(s, "RETURN")  -> ReturnStmt(s)
      [] At(s, "RETRY")   -> Made(Bump(s), Leaf("retry", ""))
      [] At(s, "[")       -> Wrap(Factor(s), 1, "call statement", "")
      [] AtSoft(s, "FUNC") -> FuncStmt(s)
      [] At(s, "name") /\ ~StartsGuard(s) /\ ~AtSoft(s, "FUNC") -> NameStmt(s)
      [] OTHER            -> Failed(s)

ParseStmtSeq(s) ==
    LET here == SkipPragmas(s)
        one == Statement(here)
    IN  IF AtOneOf(here, StmtEnds \cup {"eof"}) THEN here
        ELSE IF At(one, ";") THEN StmtSeq(Bump(one))
        ELSE one

RECURSIVE ExceptArms(_)
ExceptArms(s) ==
    LET names == IF At(s, "name") THEN Expect(OneOrMore(s, QualName, {","}), ":") ELSE s
        one == Group(s, Stmts(names), "handler", "")
    IN  IF At(one, "|") THEN ExceptArms(Bump(one)) ELSE one

CatchAll(s) == Group(s, Stmts(s), "handler", "")

\* Named handlers where they can be read, else one handler for everything.
Handlers(s) ==
    LET named == ExceptArms(s)
    IN  IF AtOneOf(s, {"END", "FINALLY"}) \/ ~named.ok THEN CatchAll(s) ELSE named

\* A body up to its END.
ParseFinishBlock(s) ==
    LET body == Stmts(s)
        handlers == Group(body, IF At(body, "EXCEPT") THEN Handlers(Bump(body)) ELSE body,
                          "handlers", "")
        finally == IF At(handlers, "FINALLY") THEN Stmts(Bump(handlers)) ELSE Made(handlers, Nothing)
    IN  Group(s, finally, "block", "")

EmptyBlock == Node("block", "", <<Leaf("statements", ""), Leaf("handlers", ""), Nothing>>)

-----------------------------------------------------------------------------
(* Declarations.                                                           *)

StartsConst(s) == At(s, "name")

\* ASSERT, INTERFACE and CLASS may begin something else.
StartsType(s) ==
    /\ At(s, "name")
    /\ ~(AtSoft(s, "ASSERT") /\ FollowedBy(s, "("))
    /\ ~((AtSoft(s, "INTERFACE") \/ AtSoft(s, "CLASS")) /\ FollowedBy(s, "name"))

StartsVar(s) == At(s, "name") /\ ~(AtSoft(s, "CLASS") /\ FollowedBy(s, "name"))

ConstDecl(s) ==
    Group(s, Expect(Expr(Expect(PlainName(s), "=")), ";"), "const", Exported(s))

TypeDecl(s) ==
    LET name == PlainName(s)
    IN  Group(s, IF At(name, ";") THEN Bump(name) ELSE Expect(TypeExpr(Expect(name, "=")), ";"),
              "type", Exported(s))

LinkedVar(s) ==
    LET name == PlainName(s)
    IN  IF HasLink(name) THEN SkipBrackets(name) ELSE name

VarDecl(s) ==
    LET names == OneOrMore(s, LinkedVar, {","})
        address == IF At(names, "[") THEN Expect(Expr(Bump(names)), "]") ELSE Made(names, Nothing)
    IN  Group(s, Expect(TypeExpr(Expect(address, ":")), ";"), "var", Exported(s))

\* The declarations of a section, with the pragmas between them.
Section(s, Starts(_), Decl(_)) ==
    LET RECURSIVE From(_)
        From(x) == LET here == Pragmas(x) IN IF Starts(here) THEN From(Decl(here)) ELSE here
    IN  From(s)

ExternalLinkage(s) ==
    LET name == Keep(Bump(s))
        external == IF AtSoft(name, "EXTERNAL") THEN Made(Bump(name), Word("EXTERNAL")) ELSE name
        dll == IF At(external, "FROM") THEN ExpectKept(Bump(external), "string") ELSE external
    IN  IF HasLink(s) THEN Group(s, Expect(dll, "]"), "linkage", "") ELSE Made(s, Nothing)

\* "..." has become an attribute: from the parameters to the attributes.
EllipsisMoved(s) ==
    LET n == Len(s.nodes)
        parameters == s.nodes[n - 2].below
    IN  IF s.ok /\ LastOf(parameters) = <<Varargs>>
        THEN [s EXCEPT !.nodes[n - 2].below = Front(@), !.nodes[n].below = Append(@, Varargs)]
        ELSE s

Body(s, name) ==
    LET decls == Group(s, TopDecls(s, TRUE), "declarations", "")
        block == IF At(decls, "BEGIN") THEN FinishBlock(Bump(decls)) ELSE Made(decls, EmptyBlock)
    IN  Group(s, Expect(ExpectEnd(block, name), ";"), "body", "")

\* Assembly goes up to its END.  At the end of the text the loop of the code
\* does not stop any more: the state then holds a node "endless".
RECURSIVE Assembly(_, _)
Assembly(s, depth) ==
    IF At(s, "eof") THEN Failed(Made(s, Leaf("endless", "")))
    ELSE IF ~s.ok \/ (At(s, "END") /\ depth = 0) THEN s
    ELSE Assembly(Keep(s), depth + (IF At(s, "ASM") THEN 1 ELSE IF At(s, "END") THEN -1 ELSE 0))

AssemblyBody(s, name) ==
    LET end == Bump(Group(s, Assembly(Bump(s), 0), "assembly", ""))
    IN  Expect(IF At(end, "name") THEN ExpectSame(end, name) ELSE end, ";")

BodyStarts == {"CONST", "TYPE", "VAR", "PROCEDURE", "MODULE", "BEGIN", "END", "EXPORT"}

RECURSIVE SkipQualifiers(_)
SkipQualifiers(s) ==
    IF AtSoft(s, "__BUILTIN__") \/ AtSoft(s, "__INLINE__") THEN SkipQualifiers(Bump(s)) ELSE s

ForwardMark(s) == Expect(Made(Bump(s), Leaf("forward", "")), ";")

\* What follows a procedure's heading.
ProcedureRest(s, name, bodies) ==
    LET after == Expect(s, ";")
        inline == AtSoft(after, "MACRO")
        start == IF inline THEN Expect(Bump(after), ";") ELSE after
    IN  IF At(s, "FORWARD") THEN ForwardMark(s)
        ELSE IF At(s, "=") THEN Made(Expect(Dropped(s, QualName(Bump(s))), ";"), Nothing)
        ELSE IF At(after, "FORWARD") THEN ForwardMark(after)
        ELSE IF At(after, "ASM") THEN AssemblyBody(after, name)
        ELSE IF (bodies \/ inline) /\ AtOneOf(start, BodyStarts) THEN Body(start, name)
        ELSE Made(start, Nothing)

ProcedureDecl(s, bodies) ==
    LET name == SkipQualifiers(Bump(s))
        parameters == ParameterList(ExternalLinkage(PlainName(name)), Parameters)
        attributes == EllipsisMoved(Attributes(Result(parameters)))
        heading == Group(attributes, Pragmas(attributes), "pragmas", "")
    IN  Group(s, ProcedureRest(heading, Peek(name).text, bodies), "procedure", Exported(name))

-----------------------------------------------------------------------------
(* Classes.                                                                *)

MethodBodyStarts == {"CONST", "TYPE", "VAR", "PROCEDURE", "BEGIN"}

\* s is at PROCEDURE; what stands before it has been read.
Method(before, s, role, bodies) ==
    LET name == ExpectName(Expect(s, "PROCEDURE"))
        attributes == Attributes(Result(ParameterList(name, MethodParameters)))
        heading == Expect(Group(attributes, Pragmas(attributes), "pragmas", ""), ";")
        abstract == role \in {"abstract", "abstract class"}
    IN  Group(before,
              IF ~abstract /\ bodies /\ AtOneOf(heading, MethodBodyStarts)
              THEN Body(heading, LastOf(name.nodes)[1].text)
              ELSE Made(heading, Nothing),
              "method", role)

MemberBoundary(s) ==
    AtOneOf(s, {"END", "PROCEDURE", "ABSTRACT", "pragma", "eof"}) \/ AtSoft(s, "OVERRIDE")

StartsField(s) == ~MemberBoundary(s) /\ StartsVar(s)

RECURSIVE ClassFields(_)
ClassFields(s) == IF StartsField(s) THEN ClassFields(VarDecl(s)) ELSE s

\* What may stand before the PROCEDURE of a method.
BeforeMethod(s) ==
    IF At(s, "ABSTRACT") /\ PeekAt(s, 1) = Name("CLASS") THEN "abstract class"
    ELSE IF At(s, "ABSTRACT") THEN "abstract"
    ELSE IF AtSoft(s, "OVERRIDE") THEN "override"
    ELSE IF AtSoft(s, "CLASS") THEN "class"
    ELSE ""

PastRole(s, role) == IF role = "" THEN s ELSE IF role = "abstract class" THEN Bump(Bump(s)) ELSE Bump(s)

\* The methods of an interface are abstract; OVERRIDE stays as it is.
RoleOf(role, interface) ==
    IF ~interface \/ role = "override" THEN role
    ELSE IF role = "class" THEN "abstract class"
    ELSE IF role = "" THEN "abstract"
    ELSE role

RECURSIVE Members(_, _, _)

MembersFrom(s, role, procedure, interface, bodies) ==
    CASE At(s, "pragma") -> Members(Keep(s), interface, bodies)
      [] At(s, "VAR")    -> Members(ClassFields(Bump(s)), interface, bodies)
      [] At(procedure, "PROCEDURE") ->
            Members(Method(s, procedure, RoleOf(role, interface), bodies), interface, bodies)
      [] OTHER           -> s

Members(s, interface, bodies) ==
    LET role == BeforeMethod(s)
    IN  MembersFrom(s, role, PastRole(s, role), interface, bodies)

InterfaceId(s) ==
    IF At(s, "[") THEN Expect(ExpectKept(Bump(s), "string"), "]") ELSE Made(s, Nothing)

Clause(s, word, List(_)) ==
    Group(s, IF AtSoft(s, word) THEN Expect(List(Bump(s)), ";") ELSE s, word, "")

Interfaces(s) == OneOrMore(s, QualName, {","})

RevealName(s) == ExpectName(EatSoft(s, "READONLY"))

Revealed(s) == OneOrMore(s, RevealName, {","})

ClassKind(s, word) ==
    IF AtSoft(word, "INTERFACE") THEN "INTERFACE" ELSE IF At(s, "ABSTRACT") THEN "ABSTRACT" ELSE ""

ClassWord(word) ==
    IF AtSoft(word, "INTERFACE") \/ AtSoft(word, "CLASS") THEN Bump(word) ELSE Failed(word)

ClassClauses(s) ==
    Clause(Clause(Clause(s, "INHERIT", QualName), "IMPLEMENTS", Interfaces), "REVEAL", Revealed)

\* From the heading on; name is where it stands.
ClassRest(heading, name, interface, bodies) ==
    IF At(heading, "FORWARD") THEN ForwardMark(heading)
    ELSE Expect(ExpectEnd(Members(ClassClauses(heading), interface, bodies), Peek(name).text), ";")

ClassNamed(s, name, kind, bodies) ==
    LET heading == Expect(InterfaceId(PlainName(Made(name, Leaf("class kind", kind)))), ";")
    IN  Group(s, ClassRest(heading, name, kind = "INTERFACE", bodies), "class", Exported(name))

ClassDecl(s, bodies) ==
    LET word == Eat(s, "ABSTRACT")
    IN  ClassNamed(s, ClassWord(word), ClassKind(s, word), bodies)

-----------------------------------------------------------------------------
(* Modules.                                                                *)

Alias(s) ==
    LET name == ExpectName(s)
    IN  Group(s, IF At(name, ":=") THEN ExpectName(Bump(name)) ELSE name, "import name", "")

Aliases(s) == OneOrMore(s, Alias, {","})

\* FROM m IMPORT * keeps no name.
FromImport(s) ==
    LET names == Expect(ExpectName(Bump(s)), "IMPORT")
    IN  Group(s, Expect(IF At(names, "*") THEN Bump(names) ELSE IdentList(names), ";"), "from", "")

RECURSIVE Imports(_)
Imports(s) ==
    LET here == SkipPragmas(s)
    IN  CASE At(here, "FROM")   -> Imports(FromImport(here))
          [] At(here, "IMPORT") -> Imports(Group(here, Expect(Aliases(Bump(here)), ";"), "import", ""))
          [] OTHER              -> here

Priority(s) == IF At(s, "[") THEN Expect(Expr(Bump(s)), "]") ELSE Made(s, Nothing)

\* Imports, declarations and a body; a DEFINITION has no body.
Inside(s, bodies) ==
    LET imports == Group(s, Imports(s), "imports", "")
        decls == Group(imports, TopDecls(imports, bodies), "declarations", "")
    IN  IF bodies /\ At(decls, "BEGIN") THEN FinishBlock(Bump(decls)) ELSE Made(decls, Nothing)

LocalModule(s) ==
    LET name == Bump(s)
        priority == Priority(ExpectName(name))
        heading == Expect(Group(priority, Pragmas(priority), "pragmas", ""), ";")
    IN  Group(s, Expect(ExpectEnd(Inside(heading, TRUE), Peek(name).text), ";"), "module", "LOCAL")

Export(s) ==
    LET names == Eat(Bump(s), "QUALIFIED")
    IN  Group(s, Expect(IdentList(names), ";"), "export",
              IF At(Bump(s), "QUALIFIED") THEN "QUALIFIED" ELSE "")

RECURSIVE Parenthesised(_, _)
Parenthesised(s, depth) ==
    IF depth = 0 \/ At(s, "eof") \/ ~s.ok THEN s
    ELSE Parenthesised(Bump(s), depth + (IF At(s, "(") THEN 1 ELSE IF At(s, ")") THEN -1 ELSE 0))

\* ASSERT (...); is read and not kept.
SkipAssert(s) ==
    LET after == Bump(s)
    IN  Eat(IF At(after, "(") THEN Parenthesised(Bump(after), 1) ELSE after, ";")

ParseTopDecls(s, bodies) ==
    LET here == Pragmas(s)
        More(x) == TopDecls(x, bodies)
    IN  CASE At(here, "CONST")  -> More(Section(Bump(here), StartsConst, ConstDecl))
          [] At(here, "TYPE")   -> More(Section(Bump(here), StartsType, TypeDecl))
          [] At(here, "VAR")    -> More(Section(Bump(here), StartsVar, VarDecl))
          [] At(here, "PROCEDURE") -> More(ProcedureDecl(here, bodies))
          [] At(here, "MODULE") /\ bodies -> More(LocalModule(here))
          [] At(here, "EXPORT") -> More(Export(here))
          [] \/ At(here, "ABSTRACT") /\ PeekAt(here, 1) = Name("CLASS")
             \/ AtSoft(here, "CLASS")
             \/ AtSoft(here, "INTERFACE") -> More(ClassDecl(here, bodies))
          [] AtSoft(here, "ASSERT") -> More(SkipAssert(here))
          [] OTHER -> here

ModuleKinds == {"DEFINITION", "IMPLEMENTATION", "MODULE"}

\* The pragmas before and in the heading are one list.
Module(s) ==
    LET kind == EatSoft(Pragmas(s), "UNSAFEGUARDED")
        name == IF At(kind, "MODULE") THEN Bump(kind)
                ELSE IF AtOneOf(kind, ModuleKinds) THEN Expect(Bump(kind), "MODULE")
                ELSE Failed(kind)
        priority == Priority(ExpectName(name))
        heading == Pragmas(Expect(Pragmas(priority), ";"))
        new == SubSeq(heading.nodes, Len(s.nodes) + 1, Len(heading.nodes))
        others == SelectSeq(new, LAMBDA n : n.kind # "pragma")
        sorted == [heading EXCEPT !.nodes =
                      s.nodes \o others \o <<Node("pragmas", "", OfKind(new, "pragma"))>>]
        inside == Inside(sorted, ~At(kind, "DEFINITION"))
    IN  Group(s, Expect(ExpectEnd(inside, Peek(name).text), "."), "module", Peek(kind).kind)

Parse(rule, s) ==
    CASE rule = "expression"   -> ParseExpr(s)
      [] rule = "factor"       -> ParseFactor(s)
      [] rule = "type"         -> ParseTypeExpr(s)
      [] rule = "variant"      -> ParseVariantPart(s)
      [] rule = "statements"   -> ParseStmtSeq(s)
      [] rule = "block"        -> ParseFinishBlock(s)
      [] rule = "module"       -> Module(s)
      [] rule \in {"declarations", "headings"} -> ParseTopDecls(s, rule = "declarations")

WholeText(end) == IF At(end, "eof") THEN end ELSE Failed(end)

\* The tree of a module, if the whole text is one.
ParseModule(tokens) == WholeText(Parse("module", OnTokens(tokens)))
=============================================================================
