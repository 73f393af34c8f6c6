----------------------------- MODULE MCCompile ------------------------------
(***************************************************************************)
(* Instances of what the compiler does, for TLC.  A behaviour shows one of *)
(* nine scenes: the modules of a program are found and put into order      *)
(* ("load"), compilations share an interface cache ("cache"), a procedure  *)
(* grows and is scanned for mistakes with NEW and DISPOSE ("check"), a     *)
(* procedure is lowered and runs beside its source ("procedure"), a FOR    *)
(* loop runs by itself ("for"), an expression is folded and computed       *)
(* ("sum"), a program is written out and parsed ("read"), a definition     *)
(* module grows and goes to a .types file and back ("write"), a text grows *)
(* and is preprocessed ("branch").  What does not belong to the scene      *)
(* stays as it is.                                                         *)
(***************************************************************************)
EXTENDS Loader, SymCache, HeapCheck, MCLowering, Branches

CONSTANTS ma, mb, mc, p1, p2,
    Programs,       \* the trees of the programs that are read back
    CheckLimit,     \* the length of a procedure that is scanned
    BodyLimit,      \* the length of a compound statement's body in it
    ChunkLimit,     \* the length of a definition module that grows
    PieceLimit      \* the length of a text with conditions that grows

VARIABLES
    scene,
    document        \* the tree of a program, or the parts of a module

R == INSTANCE MCReading

lowerVars == <<semVars, forVars, expr>>

mcVars == <<loadVars, cacheVars, checkVars, lowerVars, branchVars, document, scene>>

MCPrograms == R!Trees

MCReadable(condition) == R!Readable(condition)

MCHolds(env, versions, condition) == R!HoldsIn(env, versions, condition)

MCDefines(piece) == R!Defines(piece)

MCPieces == UNION {R!Pieces(n) : n \in 1..PieceLimit}

MCEnv == R!Env

\* An import of an import, and a circle.
Chain == (ma :> {mb}) @@ (mb :> {mc}) @@ (mc :> {})
Circle == (ma :> {mb}) @@ (mb :> {ma, mc}) @@ (mc :> {})
ChainAndCircle == {Chain, Circle}

Scenes == {"load", "cache", "check", "procedure", "for", "sum", "read", "write", "branch"}

MCInit ==
    /\ scene \in Scenes
    /\ scene # "load" => text = [n \in {1} |-> {}] /\ entry = 1
    /\ LoadInit
    /\ IF scene = "cache"
       THEN \/ bodied = {} /\ nameless = {mb}
            \/ bodied = {mc} /\ nameless = {}
       ELSE bodied = {} /\ nameless = {} /\ imports = Chain
    /\ CacheInit
    /\ CheckInit
    /\ IF scene = "procedure" THEN SemInit ELSE ProcedureIdle
    /\ IF scene = "for" THEN ForInit ELSE ForIdle
    /\ IF scene = "sum" THEN ExprInit ELSE SumIdle
    /\ BranchesInit
    /\ IF scene = "read" THEN document \in Programs ELSE document = <<>>

OnModules ==
    /\ scene = "load" /\ LoadNext
    /\ UNCHANGED <<cacheVars, checkVars, lowerVars, branchVars, document, scene>>

OnCache ==
    /\ scene = "cache" /\ CacheNext
    /\ UNCHANGED <<loadVars, checkVars, lowerVars, branchVars, document, scene>>

Calls ==
    {<<i, 0>> : i \in {k \in DOMAIN code : code[k].kind \in Given}}
        \cup UNION {{i} \X {j \in DOMAIN code[i].body : code[i].body[j] \in Given} : i \in DOMAIN code}

WithinLimits(less) ==
    /\ Len(code) <= CheckLimit - less
    /\ \A i \in DOMAIN code : Len(code[i].body) <= BodyLimit - less

\* Of the statements one at most is a compound one.  With a call that is given p
\* by VAR, of which there is one at most, and with parts the procedure is shorter.
OnMistakes ==
    /\ scene = "check" /\ CheckNext
    /\ WithinLimits(IF Calls # {} \/ part # "body" THEN 1 ELSE 0)'
    /\ Cardinality(Calls') <= 1
    /\ ~open /\ open' => \A i \in DOMAIN code : code[i].kind \in Simple
    /\ UNCHANGED <<loadVars, cacheVars, lowerVars, branchVars, document, scene>>

OnProcedure ==
    /\ scene = "procedure" /\ SemNext
    /\ UNCHANGED <<loadVars, cacheVars, checkVars, forVars, expr, branchVars, document, scene>>

OnFor ==
    /\ scene = "for" /\ For
    /\ UNCHANGED <<loadVars, cacheVars, checkVars, semVars, expr, branchVars, document, scene>>

\* A definition module goes on with one more chunk, a text with one more piece,
\* neither behind a stray END nor with more IFs than there is room to END.
OnModule ==
    /\ scene = "write" /\ Len(document) < ChunkLimit
    /\ \E c \in R!Chunks(Len(document) + 1) : document' = Append(document, c)
    /\ R!MayEnd(R!AsText(document'), ChunkLimit)
    /\ UNCHANGED <<loadVars, cacheVars, checkVars, lowerVars, branchVars, scene>>

OnText ==
    /\ scene = "branch" /\ Len(pieces) < PieceLimit
    /\ R!MayEnd(pieces, PieceLimit)
    /\ \E c \in R!Pieces(Len(pieces) + 1) : ReadPiece(c)
    /\ UNCHANGED <<loadVars, cacheVars, checkVars, lowerVars, document, scene>>

MCNext == OnModules \/ OnCache \/ OnMistakes \/ OnProcedure \/ OnFor \/ OnModule \/ OnText

MCSpec == MCInit /\ [][MCNext]_mcVars

ProcSymmetry == Permutations(Procs)

-----------------------------------------------------------------------------

(* The shapes of the state of the loader, the cache, the scan for mistakes,   *)
(* the code, the loop and the preprocessor.                                   *)
SceneTypes ==
    /\ TypeOKLoader /\ TypeOKCache /\ TypeOKSem /\ TypeOKFor
    /\ scene = "check" => TypeOKCheck
    /\ scene = "branch" => TypeOKBranches

ParsedAs(parsed, tree) == parsed.ok /\ parsed.nodes = <<tree>>

\* A condition holds when what it says as a whole is so.
ConditionMeant(i) ==
    LET versions == VersionsAt(i)
    IN  /\ Legible(pieces[i].below)
        /\ Satisfied(Predefined, versions, pieces[i].below) <=>
                R!Meant([n \in versions |-> "true"] @@ Predefined, pieces[i].below)

(* What the parser makes of a program is what the program says: the tree of   *)
(* any program, written with no more parentheses than the grammar needs,      *)
(* parses without an error to that tree, whatever it nests in what.  So does  *)
(* the parser of the conditions: not all it takes binds alike.                *)
ReadsBack ==
    /\ scene = "read" =>
        \A tokens \in {R!WrittenModule(document)} : ParsedAs(R!ParseModule(tokens), document)
    /\ \A i \in DOMAIN pieces :
            pieces[i].kind \in {"%IF", "%ELSIF"} /\ pieces[i].below # R!Unfinished => ConditionMeant(i)

DeclsOf(module) == module.below[5].below

Written == IF scene = "write" THEN R!Definition(document) ELSE document

StandsFor(out, back, module) ==
    LET decls == DeclsOf(module)
    IN  /\ (\A i \in DOMAIN decls : decls[i].kind = "pragma" => decls[i].text = "NOPACK")
              => out.skipped = 0 /\ out.evaluated
        /\ R!Bracketed(R!AsText(decls)) /\ R!OneKind(decls) /\ out.skipped = 0 /\ out.evaluated
              => /\ back.ok
                 /\ back.nodes[1].below[4] = module.below[4]
                 /\ R!InSections(DeclsOf(back.nodes[1])) = R!InSections(R!Selected(R!AsText(decls), R!Env))

\* The text is made in full before it is parsed.
ReadAgain(out, module) ==
    \A tokens \in {out.text} : \A back \in {R!ParseModule(tokens)} : StandsFor(out, back, module)

(* A .types file stands for its definition module: it parses, its imports are *)
(* those of the module, and each of its sections has the declarations the     *)
(* conditions select, in their order.  What was skipped or could not be       *)
(* evaluated is told; without conditions there is no such thing.  Conditions  *)
(* that reach over declarations of several kinds are not promised anything.   *)
WrittenAsMeant ==
    scene = "write" \/ (scene = "read" /\ document.text = "DEFINITION") =>
        \A module \in {Written} : \A out \in {R!TypesOutOf(module, R!Env)} : ReadAgain(out, module)
=============================================================================
