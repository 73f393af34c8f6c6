------------------------------ MODULE SymCache ------------------------------
(***************************************************************************)
(* The interface cache of --cache (newm2-sema/src/symcache.rs, with its    *)
(* use in analyze.rs and its content in iface.rs).  Compiler processes     *)
(* share a directory of interface files.  A process reads the texts of the *)
(* modules, builds an interface for each, taking that of a module without  *)
(* implementation from its file when the file's key fits, and writes back  *)
(* those it had to check; meanwhile texts are edited and processes end at  *)
(* any point.                                                              *)
(*                                                                         *)
(* What a text says is its version.  An interface is the set of texts it   *)
(* is made from: a declaration may clone one of an imported module, so a   *)
(* module's interface takes in those of its imports.  A module's refer-    *)
(* ences to the types of another are the generation it was linked to.      *)
(***************************************************************************)
EXTENDS Naturals, FiniteSets

CONSTANTS
    Modules,        \* the modules with a DEF that programs import
    Graphs,         \* the import graphs considered
    Versions,       \* what a text can say
    Procs,          \* compiler processes that run at the same time
    BuildLimit,     \* bound: compilations
    EditLimit       \* bound: edits

ASSUME CacheAssumption ==
    /\ IsFiniteSet(Modules) /\ 1 \in Versions
    /\ Graphs \subseteq [Modules -> SUBSET Modules]
    /\ BuildLimit \in Nat /\ EditLimit \in Nat

VARIABLES
    imports,        \* imports[m]: what the DEF and the MOD of m import
    bodied,         \* the modules that have an implementation (a MOD)
    nameless,       \* the modules with a pointer type to a record without name
    source,           \* source[m]: the versions of m's DEF and MOD on disk
    file,           \* file[m][v]: the interface file <m>.<hash of v>.iface
    stage,          \* stage[p]: "idle", "read", "check" or "store"
    seen,           \* seen[p][m]: the versions process p has read
    made,           \* made[p][m]: the interface p uses for m
    hits,           \* hits[p]: modules p has taken from the cache
    linked,         \* linked[p][m]: the generations of its imports m is
                    \* linked to, and its own
    todo,           \* todo[p]: modules p has still to take, or to store
    torn,           \* torn[p]: the modules whose file p has truncated
    builds, edits

shape == <<imports, bodied, nameless>>
disk == <<shape, source, file>>
procVars == <<stage, seen, made, hits, linked, todo, torn>>
cacheVars == <<disk, procVars, builds, edits>>

NoFile == [key |-> {}, parts |-> {}]
Unread == [def |-> 0, mod |-> 0]

Reach[S \in SUBSET Modules] ==
    LET next == S \cup UNION {imports[m] : m \in S}
    IN IF next = S THEN S ELSE Reach[next]

\* The texts of a module: its DEF, and its MOD when it has one.
TextsOf(texts, m) ==
    {<<m, "def", texts[m].def>>} \cup
    (IF m \in bodied THEN {<<m, "mod", texts[m].mod>>} ELSE {})

\* is_pure_def: only such a module's interface is kept.
Pure(m) == m \notin bodied

CacheInit ==
    /\ imports \in Graphs
    /\ bodied \in SUBSET Modules
    /\ nameless \in SUBSET Modules
    /\ source = [m \in Modules |-> [def |-> 1, mod |-> 1]]
    /\ file = [m \in Modules |-> [v \in Versions |-> NoFile]]
    /\ stage = [p \in Procs |-> "idle"]
    /\ seen = [p \in Procs |-> [m \in Modules |-> Unread]]
    /\ made = [p \in Procs |-> [m \in Modules |-> {}]]
    /\ hits = [p \in Procs |-> {}]
    /\ linked = [p \in Procs |-> [m \in Modules |-> [n \in Modules |-> 0]]]
    /\ todo = [p \in Procs |-> {}]
    /\ torn = [p \in Procs |-> {}]
    /\ builds = 0 /\ edits = 0

Edit(m, part, v) ==
    /\ edits < EditLimit
    /\ part = "mod" => m \in bodied
    /\ source[m][part] # v
    /\ source' = [source EXCEPT ![m][part] = v]
    /\ edits' = edits + 1
    /\ UNCHANGED <<shape, file, procVars, builds>>

Begin(p) ==
    /\ stage[p] = "idle"
    /\ builds < BuildLimit
    /\ builds' = builds + 1
    /\ stage' = [stage EXCEPT ![p] = "read"]
    /\ todo' = [todo EXCEPT ![p] = Modules]
    /\ UNCHANGED <<disk, seen, made, hits, linked, torn, edits>>

\* The loader reads each source once; its AST and its hash come from that read.
Read(p, m) ==
    /\ stage[p] = "read"
    /\ m \in todo[p]
    /\ seen' = [seen EXCEPT ![p][m] = source[m]]
    /\ todo' = [todo EXCEPT ![p] = IF @ = {m} THEN Modules ELSE @ \ {m}]
    /\ stage' = [stage EXCEPT ![p] = IF todo[p] = {m} THEN "check" ELSE @]
    /\ UNCHANGED <<disk, made, hits, linked, torn, builds, edits>>

-----------------------------------------------------------------------------

\* Mutant: the key names the module's own imports only.
KeyOfDirect(p, m) == {<<n, seen[p][n].def>> : n \in imports[m] \cup {m}}

\* cache_key: the DEFs of the module and of all it imports, through DEF and MOD.
KeyOf(p, m) == {<<n, seen[p][n].def>> : n \in Reach[{m}]}

Built(p) == {m \in Modules : made[p][m] # {}}

\* Modules are taken in topo_order: each after its imports, circles apart.
Next1(p, m) ==
    /\ m \in todo[p]
    /\ \A n \in imports[m] : m \notin Reach[{n}] => n \notin todo[p]

\* load_valid_interface, and every type the interface names is there already.
Valid(p, m) ==
    /\ Pure(m)
    /\ file[m][seen[p][m].def].key = KeyOf(p, m)
    /\ imports[m] \subseteq Built(p) \cup {m}

\* The modules of S get a new generation, and are linked to the present one of
\* what they import; of types that are copied they have their own.
Link(p, S, copied) ==
    LET gen(n) == linked[p][n][n] + (IF n \in S THEN 1 ELSE 0)
    IN linked' = [linked EXCEPT ![p] =
           [m \in Modules |-> IF m \in S
                              THEN [n \in Modules |-> IF n \in (imports[m] \ copied) \cup {m}
                                                      THEN gen(n) ELSE 0]
                              ELSE linked[p][m]]]

Taken(p, m) == todo' = [todo EXCEPT ![p] = @ \ {m}]

\* try_intern_cached: an alias is stored written out (export_type_def), and what
\* has no name in it is made anew.
Hit(p, m) ==
    /\ Valid(p, m)
    /\ made' = [made EXCEPT ![p][m] = file[m][seen[p][m].def].parts]
    /\ hits' = [hits EXCEPT ![p] = @ \cup {m}]
    /\ Link(p, {m}, nameless)
    /\ Taken(p, m)

\* ensure_interface checks the module and, first, what it imports and is not
\* there yet; a circle is closed by names registered in advance.
Ensure(p, m) ==
    LET new == {n \in Reach[{m}] : n \notin Built(p)}
        parts(n) == UNION {IF k \in new THEN TextsOf(seen[p], k) ELSE made[p][k] : k \in Reach[{n}]}
    IN /\ ~ Valid(p, m)
       /\ made' = [made EXCEPT ![p] = [n \in Modules |-> IF n \in new THEN parts(n) ELSE @[n]]]
       /\ Link(p, new, {})
       /\ Taken(p, m)
       /\ UNCHANGED hits

\* Mutant: a module that a circle has built already is looked up as well.
TakeAgain(p, m) ==
    /\ stage[p] = "check"
    /\ Next1(p, m)
    /\ \/ Hit(p, m)
       \/ m \notin Built(p) /\ Ensure(p, m)
       \/ m \in Built(p) /\ ~ Valid(p, m) /\ Taken(p, m) /\ UNCHANGED <<made, hits, linked>>
    /\ UNCHANGED <<disk, stage, seen, torn, builds, edits>>

\* One round of pass 1 in check_module_graph_impl.
Take(p, m) ==
    /\ stage[p] = "check"
    /\ Next1(p, m)
    /\ \/ m \in Built(p) /\ Taken(p, m) /\ UNCHANGED <<made, hits, linked>>
       \/ m \notin Built(p) /\ (Hit(p, m) \/ Ensure(p, m))
    /\ UNCHANGED <<disk, stage, seen, torn, builds, edits>>

\* The check is over without an error: what was checked is written back.
WriteBack(p) ==
    /\ stage[p] = "check"
    /\ todo[p] = {}
    /\ stage' = [stage EXCEPT ![p] = "store"]
    /\ todo' = [todo EXCEPT ![p] = {m \in Modules \ hits[p] : Pure(m)}]
    /\ UNCHANGED <<disk, seen, made, hits, linked, torn, builds, edits>>

\* store_interface: fs::write truncates the file and then fills it.
Truncate(p, m) ==
    /\ stage[p] = "store"
    /\ torn[p] = {}
    /\ Next1(p, m)
    /\ file' = [file EXCEPT ![m][seen[p][m].def] = NoFile]
    /\ torn' = [torn EXCEPT ![p] = {m}]
    /\ UNCHANGED <<shape, source, stage, seen, made, hits, linked, todo, builds, edits>>

\* Mutant: the DEFs are read again for the key.
FillFromDisk(p, m) ==
    /\ m \in torn[p]
    /\ file' = [file EXCEPT ![m][seen[p][m].def] =
           [key |-> {<<n, source[n].def>> : n \in Reach[{m}]}, parts |-> made[p][m]]]
    /\ torn' = [torn EXCEPT ![p] = {}]
    /\ Taken(p, m)
    /\ UNCHANGED <<shape, source, stage, seen, made, hits, linked, builds, edits>>

Fill(p, m) ==
    /\ m \in torn[p]
    /\ file' = [file EXCEPT ![m][seen[p][m].def] = [key |-> KeyOf(p, m), parts |-> made[p][m]]]
    /\ torn' = [torn EXCEPT ![p] = {}]
    /\ Taken(p, m)
    /\ UNCHANGED <<shape, source, stage, seen, made, hits, linked, builds, edits>>

\* export_interface gives up on what it cannot write down.
Skip(p, m) ==
    /\ stage[p] = "store"
    /\ torn[p] = {}
    /\ Next1(p, m)
    /\ Taken(p, m)
    /\ UNCHANGED <<disk, stage, seen, made, hits, linked, torn, builds, edits>>

\* The process has finished, has found an error, or is killed.
End(p) ==
    /\ stage[p] # "idle"
    /\ stage' = [stage EXCEPT ![p] = "idle"]
    /\ seen' = [seen EXCEPT ![p] = [m \in Modules |-> Unread]]
    /\ made' = [made EXCEPT ![p] = [m \in Modules |-> {}]]
    /\ linked' = [linked EXCEPT ![p] = [m \in Modules |-> [n \in Modules |-> 0]]]
    /\ hits' = [hits EXCEPT ![p] = {}]
    /\ todo' = [todo EXCEPT ![p] = {}]
    /\ torn' = [torn EXCEPT ![p] = {}]
    /\ UNCHANGED <<disk, builds, edits>>

CacheNext ==
    \/ \E m \in Modules, part \in {"def", "mod"}, v \in Versions : Edit(m, part, v)
    \/ \E p \in Procs : Begin(p) \/ WriteBack(p) \/ End(p)
    \/ \E p \in Procs, m \in Modules :
          Read(p, m) \/ Take(p, m) \/ Truncate(p, m) \/ Fill(p, m) \/ Skip(p, m)

CacheSpec == CacheInit /\ [][CacheNext]_cacheVars

-----------------------------------------------------------------------------

(* The shape of the state: a process is inside of one file, which it has not  *)
(* taken from the cache, and an entry's key is about its own module.          *)
TypeOKCache ==
    /\ \A p \in Procs : torn[p] \subseteq todo[p] \ (hits[p] \cup bodied)
    /\ \A p \in Procs : hits[p] \subseteq Built(p) \ bodied
    /\ \A m \in Modules, v \in Versions : file[m][v] # NoFile => <<m, v>> \in file[m][v].key

\* The interface a check without the cache makes from what p has read.
Fresh(p, m) == UNION {TextsOf(seen[p], n) : n \in Reach[{m}]}

Defs(parts) == {t \in parts : t[2] = "def"}

(* An interface a compilation uses, from the cache or not, is made from the   *)
(* DEFs that compilation has read and from no other version of them, however  *)
(* compilations, edits and interrupted writes interleave (symcache.rs:6-11).  *)
DefsFresh ==
    \A p \in Procs : \A m \in Built(p) : Defs(made[p][m]) = Defs(Fresh(p, m))

(* A type has one identity: what a module means by an imported module's types *)
(* is what that module, built or taken from the cache, means by them          *)
(* (analyze.rs:437-440); types without a name apart, which a cached module    *)
(* has a copy of.                                                             *)
OneIdentity ==
    \A p \in Procs : \A m \in Built(p) : \A n \in imports[m] :
        /\ n \in Built(p)
        /\ linked[p][m][n] = IF m \in hits[p] /\ n \in nameless \ {m} THEN 0 ELSE linked[p][n][n]

(* An interface from the cache is the one a check without it would build, of  *)
(* the same texts and linked to the same types (symcache.rs:10, iface.rs:434).*)
OnlySkipsWork ==
    \A p \in Procs : \A m \in Built(p) :
        /\ made[p][m] = Fresh(p, m)
        /\ \A n \in imports[m] : linked[p][m][n] = linked[p][n][n]
=============================================================================
