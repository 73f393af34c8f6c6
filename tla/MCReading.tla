----------------------------- MODULE MCReading -------------------------------
(***************************************************************************)
(* What is read and written in the instances for TLC: trees of programs,   *)
(* chunks of definition modules, pieces of texts with conditions.          *)
(***************************************************************************)
EXTENDS ReadBack

Empty(kind) == Leaf(kind, "")

Of(kind, below) == Node(kind, "", below)

Var(n) == Of("designator", <<Name(n)>>)

X == Var("x")
One == Leaf("integer", "1")

Binary(op, l, r) == Node("binary", op, <<l, r>>)
Unary(op, e) == Node("unary", op, <<e>>)

\* Two operations, one of each level, in all ways to group them.
Operations(inner) ==
    {Binary(op, l, r) : op \in {"=", "-", "OR", "DIV", "AND"}, l \in inner, r \in inner}
        \cup {Unary(op, e) : op \in {"-", "NOT"}, e \in inner}

Operated == Operations({X} \cup Operations({X}))

\* Expressions in the places other expressions have for them.
Placed(e) ==
    LET call == Of("call", <<Var("f"), e, X>>)
    IN  {call,
         Of("call", <<Of("designator",
                       <<Name("a"), Of("index", <<e, One>>), Leaf("field", "p"), Empty("deref")>>)>>),
         Of("postfix", <<call, Leaf("field", "p")>>),
         Of("postfix", <<X, Empty("deref")>>),
         Of("set", <<Nothing, e, Of("range", <<One, e>>)>>),
         Of("set", <<Of("qual", <<Name("m"), Name("t")>>)>>),
         Of("send", <<e, Node("keyword", "key", <<X>>), Node("keyword", "at", <<e>>)>>),
         Of("postfix", <<Of("send", <<X, Name("key")>>), Empty("deref")>>)}

Expressions == Operated \cup UNION {Placed(e) : e \in {X} \cup Operations({X})}

-----------------------------------------------------------------------------

StmtsTree(list) == Of("statements", list)

Assign(e) == Of("assign", <<X, e>>)

CallF == Of("call statement", <<Of("call", <<Var("f")>>)>>)

TypeT == Of("qual", <<Name("t")>>)

Labels(e) == Of("labels", <<e, Of("range", <<One, e>>)>>)

\* Every statement around a list of statements.
Around(s) ==
    {Of("if", <<Of("arm", <<X, s>>), Nothing>>),
     Of("if", <<Of("arm", <<X, s>>), Of("arm", <<X, s>>), s>>),
     Of("case", <<X, Of("arm", <<Labels(One), s>>), Of("arm", <<Labels(X), s>>), s>>),
     Of("case", <<X, Of("arm", <<Labels(X), s>>), Nothing>>),
     Of("guard", <<X, Node("guarded", "g", <<TypeT, s>>), Of("guarded", <<TypeT, s>>), s>>),
     Of("while", <<X, s>>), Of("repeat", <<s, X>>), Of("loop", <<s>>), Of("with", <<X, s>>),
     Of("for", <<Name("x"), One, X, Nothing, s>>), Of("for", <<Name("x"), One, X, One, s>>)}

SimpleStmts == {Assign(X), CallF, Empty("return"), Of("return", <<X>>), Empty("exit"), Empty("retry"),
           Of("call statement", <<Of("send", <<X, Name("key")>>)>>), Of("call statement", <<X>>)}

Lists(set) == {<<>>} \cup {<<s>> : s \in set} \cup {<<s, t>> : s \in set, t \in {CallF}}

Statements == Around(StmtsTree(<<CallF>>)) \cup SimpleStmts

Bodies == {StmtsTree(b) : b \in Lists(Statements)}

HandlerLists ==
    LET handler(types, statement) == Of("handler", types \o <<StmtsTree(<<statement>>)>>)
    IN  {<<>>, <<handler(<<>>, CallF)>>, <<handler(<<>>, Empty("exit"))>>,
         <<handler(<<TypeT, TypeT>>, CallF), handler(<<TypeT>>, Empty("retry"))>>}

BlockTree(s) == Of("block", <<s, Empty("handlers"), Nothing>>)

Blocks ==
    {Of("block", <<s, Of("handlers", h), f>>) :
        s \in {StmtsTree(<<>>), StmtsTree(<<CallF, Assign(X)>>)},
        h \in HandlerLists, f \in {Nothing, StmtsTree(<<>>), StmtsTree(<<CallF>>)}}

-----------------------------------------------------------------------------

Pragma(text) == Leaf("pragma", text)

Types ==
    LET parameters == Of("parameters", <<Of("parameter", <<TypeT>>), Node("parameter", "VAR", <<TypeT>>)>>)
        attributes == Of("attributes", <<Leaf("attribute", "FORWARD"),
                                         Node("attribute", "Pass", <<Of("argument", <<Name("r")>>)>>)>>)
        field == Of("fields", <<Name("a"), Name("b"), TypeT>>)
        shown == Node("fields", "*", <<Name("c"), Of("pointer", <<TypeT>>)>>)
        inner == Of("variant", <<Nothing, Of("arm", <<Labels(One), field>>)>>)
        arms == <<Of("arm", <<Of("labels", <<One>>), field, shown, inner>>), Of("arm", <<Labels(X)>>)>>
    IN  {TypeT, Of("qual", <<Name("m"), Name("t")>>), Of("subrange", <<One, Binary("+", X, One)>>),
         Of("enum", <<Leaf("member", "red"), Node("member", "blue", <<One>>)>>),
         Of("array", <<TypeT, Of("subrange", <<One, X>>), TypeT>>), Of("open array", <<TypeT>>),
         Node("set type", "PACKED", <<TypeT>>), Of("set type", <<Of("enum", <<Leaf("member", "red")>>)>>),
         Of("procedure type", <<Empty("parameters"), Nothing, Empty("attributes")>>),
         Of("procedure type", <<parameters, TypeT, attributes>>),
         Of("record", <<>>), Of("record", <<field, shown>>),
         Of("record", <<field, Node("variant", "tag", <<TypeT>> \o arms \o <<Of("else", <<field>>)>>)>>),
         Of("record", <<Of("variant", <<TypeT>> \o arms)>>)}

ConstTree(n) == Of("const", <<Name(n), One>>)
TypeTree(n) == Of("type", <<Name(n), TypeT>>)
VarTree(n) == Of("var", <<Name(n), Nothing, TypeT>>)

\* A heading from the name on, with what follows it.
ProcTree(n, rest) ==
    Of("procedure",
       <<Name(n), Nothing, Empty("parameters"), Nothing, Empty("attributes"), Empty("pragmas"), rest>>)

FullHeading(rest) ==
    LET parameters == <<Of("parameter", <<Pragma("IN"), Name("a"), Name("b"), TypeT>>),
                        Node("parameter", "VAR", <<Name("c"), Of("open array", <<TypeT>>)>>),
                        Node("parameter", "CONST", <<Name("d"), TypeT>>)>>
        linkage == <<Leaf("string", "link"), Word("EXTERNAL"), Leaf("string", "dll")>>
    IN  Node("procedure", "*",
             <<Name("p"), Of("linkage", linkage), Of("parameters", parameters), TypeT,
               Of("attributes", <<Varargs>>), Of("pragmas", <<Pragma("INTRINSIC")>>), rest>>)

MethodTree(n, role, rest) ==
    Node("method", role,
         <<Name(n), Empty("parameters"), TypeT, Empty("attributes"), Empty("pragmas"), rest>>)

BodyTree(decls, block) == Of("body", <<Of("declarations", decls), block>>)

InterfaceTree(n) ==
    Of("class", <<Leaf("class kind", "INTERFACE"), Name(n), Leaf("string", "iid"),
                  Of("INHERIT", <<TypeT>>), Empty("IMPLEMENTS"), Empty("REVEAL"),
                  MethodTree("q", "abstract", Nothing)>>)

ClassTree(kind, members) ==
    Of("class", <<Leaf("class kind", kind), Name("c"), Nothing, Of("INHERIT", <<TypeT>>),
                  Of("IMPLEMENTS", <<TypeT, Of("qual", <<Name("m"), Name("t")>>)>>),
                  Of("REVEAL", <<Name("a")>>)>>
                 \o members)

ModuleTree(kind, imports, decls, block) ==
    Node("module", kind,
         <<Name("m"), Nothing, Empty("pragmas"), Of("imports", imports), Of("declarations", decls), block>>)

ImportTrees ==
    <<Of("from", <<Name("a"), Name("b"), Name("c")>>), Of("from", <<Name("a")>>),
      Of("import", <<Of("import name", <<Name("a")>>), Of("import name", <<Name("b"), Name("c")>>)>>)>>

\* All but the one that format_expr writes without its parentheses.
PlacedInConst == Placed(X) \ {Of("postfix", <<X, Empty("deref")>>)}

Declared ==
    {<<Of("type", <<Name("a"), t>>), Pragma("NOPACK"), Node("type", "*", <<Name("b")>>), VarTree("c")>> :
        t \in Types}
        \cup {<<Of("const", <<Name("a"), e>>), Pragma("NOPACK"), TypeTree("b")>> : e \in PlacedInConst}
        \cup {<<FullHeading(Nothing)>>, <<InterfaceTree("i"), TypeTree("b")>>,
              <<Node("var", "*", <<Name("a"), One, TypeT>>),
                Of("var", <<Name("b"), Name("c"), Nothing, TypeT>>)>>}

Bodied ==
    LET inner == ProcTree("q", BodyTree(<<>>, BlockTree(StmtsTree(<<CallF>>))))
        body == BodyTree(<<ConstTree("a"), inner>>, BlockTree(StmtsTree(<<Empty("exit")>>)))
        assembly == Of("assembly", <<Name("mov"), Word("ASM"), Name("r"), Word("END"), Word(",")>>)
    IN  {<<ProcTree("p", body), ProcTree("q", Empty("forward"))>>,
         <<FullHeading(BodyTree(<<VarTree("a")>>, EmptyBlock)), TypeTree("b")>>,
         <<ProcTree("p", assembly), ConstTree("a")>>,
         <<ClassTree("", <<VarTree("a"), MethodTree("p", "", body), MethodTree("q", "class", body),
                           Pragma("NOPACK"), VarTree("b"), MethodTree("q", "override", body)>>),
           VarTree("c")>>,
         <<ClassTree("ABSTRACT", <<MethodTree("p", "abstract", Nothing),
                                   MethodTree("q", "abstract class", Nothing)>>)>>,
         <<ModuleTree("LOCAL", ImportTrees,
                      <<Node("export", "QUALIFIED", <<Name("a"), Name("b")>>), ConstTree("a")>>,
                      BlockTree(StmtsTree(<<CallF>>))),
           ProcTree("p", Empty("forward")), TypeTree("b")>>}

Trees ==
    LET bodies == Bodies \cup UNION {{StmtsTree(<<s>>) : s \in Around(t)} : t \in Bodies}
        program(body) == ModuleTree("MODULE", <<>>, <<>>, BlockTree(body))
    IN  {program(StmtsTree(<<Assign(e)>>)) : e \in Expressions}
        \cup {program(b) : b \in bodies}
        \cup {ModuleTree("IMPLEMENTATION", <<>>, <<ProcTree("p", BodyTree(<<>>, b))>>, b) : b \in Blocks}
        \cup {ModuleTree("DEFINITION", ImportTrees, d, Nothing) : d \in Declared}
        \cup {ModuleTree("IMPLEMENTATION", ImportTrees, d, Nothing) : d \in Bodied}

-----------------------------------------------------------------------------

Flags == {"A", "B"}

Env == ("A" :> "true") @@ ("B" :> "false") @@ ("C" :> "1")

If(condition) == Node("pragma", "IF", condition)

\* What a definition module may go on with; names tell the declarations apart.
Numbered == <<"d1", "d2", "d3", "d4", "d5", "d6">>

Chunks(n) ==
    {If(<<Name(f)>>) : f \in Flags} \cup {Pragma("ELSE"), Pragma("END")}
        \cup {ConstTree(Numbered[n]), TypeTree(Numbered[n]), VarTree(Numbered[n]), ProcTree(Numbered[n], Nothing)}

Definition(decls) == ModuleTree("DEFINITION", <<>>, decls, Nothing)

\* What a text with conditions may go on with.
Conditions ==
    LET a == <<Name("A")>>
        b == <<Name("B")>>
        Not(c) == <<Word("%NOT")>> \o c
        ops == {"%AND", "%OR"}
    IN  {l \o <<Word(op)>> \o r : op \in ops, l \in {a, b, Not(b)}, r \in {a, Not(a), b}}
            \cup {Not(InParentheses(l \o <<Word(op)>> \o r)) \o <<Word(other)>> \o b :
                    op \in ops, other \in ops, l \in {a, b}, r \in {a, b}}
            \cup {l \o <<Word(op)>> \o r \o <<Word(other)>> \o a :
                    op \in ops, other \in ops, l \in {a, b}, r \in {a, b}}
            \cup {<<Name(l), Word(op), r>> :
                    l \in {"A", "C", "D"}, op \in {"=", "#"},
                    r \in {Leaf("integer", "1"), Leaf("string", "true")}}

Unfinished == <<Name("A"), Word("%AND")>>

Pieces(n) ==
    {Conditional(w, <<Name(f)>>) : w \in {"%IF", "%ELSIF"}, f \in Flags}
        \cup {Conditional("%ELSE", <<>>), Conditional("%END", <<>>), Conditional("%ELSIF", Unfinished)}
        \cup {Version(<<"B">>), Of("comment", <<Name("A"), Of("comment", <<Version(<<"B">>)>>)>>), Name(Numbered[n])}
        \cup (IF n = 1 THEN {Conditional("%IF", c) : c \in Conditions} ELSE {})

\* The text can still be one whose IFs and ENDs match.
MayEnd(text, limit) ==
    /\ \A i \in DOMAIN text : text[i].kind \in {"%ELSIF", "%ELSE", "%END"} => Depth(text, i) > 0
    /\ Depth(text, Len(text) + 1) <= limit - Len(text)
=============================================================================
