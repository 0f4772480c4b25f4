----------------------------- MODULE BuildCache -----------------------------
(***************************************************************************)
(* The build command and its cache (build_input_to_aibc1, handle_clean and  *)
(* the source graph key of ailang_cli/ailang.c) over the sources that the   *)
(* package manager puts in place.                                           *)
(*                                                                          *)
(* The sources of a program are its entry file and, through the lock file,  *)
(* the packages it imports.  A source graph is what the build reads: the    *)
(* content of every file reached.  The compiler is a function of the source *)
(* graph (external here), so an artifact is named by the graph it was       *)
(* compiled from; the cache key is the graph that was hashed.  Reading a    *)
(* graph is one step; writing a file is two, as in PackageManager.          *)
(***************************************************************************)
EXTENDS PackageManager

CONSTANTS
    EntryImports,     \* [contents of the entry file -> SUBSET Packages]
    PackageImports,   \* [Packages -> [contents -> SUBSET Packages]]
    BuildCommands,    \* the <<input, use the cache?>> of the builds started
    Unresolved,       \* no graph: an import does not resolve
    NoFile,           \* no artifact
    Torn              \* an artifact that was not written to its end

VARIABLES
    entry,     \* content of the entry file
    outs,      \* [project, sibling: NoFile, Torn or the graph compiled]
    cache,     \* set of [key, art, clean]: .toolchain/cache/ailang/<key>/app.aibc1
    build      \* the build that is running

buildVars == <<entry, outs, cache, build>>

NoBuild == [pc |-> "none", input |-> "", via |-> "", useCache |-> FALSE,
            key |-> Unresolved, art |-> Torn, disturbed |-> FALSE, clean |-> TRUE]

\* simple_lock_resolve_package: where an import of the package leads now; NoDir
\* when it is not locked, or not there.
LockEntry(p) == SelectInSeq(lock.entries, LAMBDA e : e.name = p)
PackageContent(p) ==
    IF LockEntry(p) = 0 THEN NoDir
    ELSE LET e == lock.entries[LockEntry(p)] IN IF e.local THEN e.content ELSE tree[p]

ImportsOf(p, content) == IF content = NoDir THEN {} ELSE PackageImports[p][content]

\* source_graph_hash_file: the packages reached through Import nodes, each one
\* visited once: reached[n] are those within n imports of the entry file.
Reach(contents, imports) ==
    LET reached[n \in Nat] ==
            IF n = 0 THEN imports
            ELSE LET r == reached[n - 1] IN
                 r \cup UNION {ImportsOf(p, contents[p]) : p \in r}
    IN  reached[Cardinality(Packages)]

\* The files the hash is taken over; Unresolved when an import does not resolve.
GraphFrom(contents, main) ==
    LET reached == Reach(contents, EntryImports[main]) IN
    IF \A p \in reached : contents[p] # NoDir
    THEN {<<"entry", main>>} \cup {<<p, contents[p]>> : p \in reached}
    ELSE Unresolved

SourceGraph == GraphFrom([p \in Packages |-> PackageContent(p)], entry)

\* Faulty variant: the key is the hash of the entry file alone.
CacheKeyOfEntry == {<<"entry", entry>>}

\* compute_source_graph_cache_key.
CacheKey == SourceGraph

\* is_supported_aibc1_file: the file loads.
Supported(art) == art \notin {NoFile, Torn}

Cached(key) == {e \in cache : e.key = key}

\* The file a build writes: handle_build's default output directory.
OutOf(input) == IF input = "project" THEN "project" ELSE "sibling"

-----------------------------------------------------------------------------
(* A project input ("project") is written to the project directory, an      *)
(* explicit entry file ("aos") beside the entry file.                       *)

StartBuild(input, useCache) ==
    /\ build.pc \in {"none", "done", "failed"} /\ budget.commands < MaxCommands
    /\ Spend("commands")
    /\ build' = [NoBuild EXCEPT !.pc = "resolve", !.input = input,
                     !.useCache = useCache]
    /\ UNCHANGED <<manifest, lock, tree, registry, config, globalTools, cmd,
                   result, entry, outs, cache>>

\* resolve_input_to_aibc1: a project whose own app.aibc1 does not exist takes
\* the one beside its entry file, when that one loads.
PreferArtifact ==
    /\ build.pc = "resolve"
    /\ build' = IF build.input = "project" /\ outs.project = NoFile
                   /\ Supported(outs.sibling)
                THEN [build EXCEPT !.pc = "copy", !.via = "artifact",
                          !.art = outs.sibling]
                ELSE [build EXCEPT !.pc = "lookup"]
    /\ UNCHANGED <<entry, outs, cache, pmVars>>

\* The cache is asked for the key of the sources; a file that does not load is
\* as good as none.
LookupCache ==
    /\ build.pc = "lookup"
    /\ build' = IF build.useCache /\ CacheKey # Unresolved
                   /\ \E e \in Cached(CacheKey) : Supported(e.art)
                THEN LET e == CHOOSE e \in Cached(CacheKey) : TRUE IN
                     [build EXCEPT !.pc = "copy", !.via = "cache",
                          !.art = e.art, !.clean = e.clean]
                ELSE [build EXCEPT !.pc = "compile"]
    /\ UNCHANGED <<entry, outs, cache, pmVars>>

\* parse_simple_program_aos_to_program_file reads the sources again.
CompileSources ==
    /\ build.pc = "compile"
    /\ build' = IF SourceGraph = Unresolved THEN [build EXCEPT !.pc = "failed"]
                ELSE [build EXCEPT !.pc = "copy", !.via = "compile",
                          !.art = SourceGraph]
    /\ UNCHANGED <<entry, outs, cache, pmVars>>

\* copy_file and write_program_as_aibc1: the output is truncated, then written.
TruncateOutput ==
    /\ build.pc = "copy"
    /\ outs' = [outs EXCEPT ![OutOf(build.input)] = Torn]
    /\ build' = [build EXCEPT !.pc = "output"]
    /\ UNCHANGED <<entry, cache, pmVars>>

WriteOutput ==
    /\ build.pc = "output"
    /\ outs' = [outs EXCEPT ![OutOf(build.input)] = build.art]
    /\ build' = [build EXCEPT !.pc =
                    IF build.via = "compile" /\ build.useCache THEN "key" ELSE "done"]
    /\ UNCHANGED <<entry, cache, pmVars>>

\* After a compilation the key is computed a second time, from the sources as
\* they are now, and the output copied under it.
TruncateCacheFile ==
    /\ build.pc = "key"
    /\ IF CacheKey = Unresolved
       THEN build' = [build EXCEPT !.pc = "done"] /\ UNCHANGED cache
       ELSE /\ build' = [build EXCEPT !.pc = "store", !.key = CacheKey]
            /\ cache' = (cache \ Cached(CacheKey)) \cup
                  {[key |-> CacheKey, art |-> Torn, clean |-> TRUE]}
    /\ UNCHANGED <<entry, outs, pmVars>>

WriteCacheFile ==
    /\ build.pc = "store"
    /\ cache' = (cache \ Cached(build.key)) \cup
          {[key |-> build.key, art |-> outs[OutOf(build.input)],
            clean |-> ~build.disturbed]}
    /\ build' = [build EXCEPT !.pc = "done"]
    /\ UNCHANGED <<entry, outs, pmVars>>

BuildStep ==
    \/ PreferArtifact \/ LookupCache \/ CompileSources
    \/ TruncateOutput \/ WriteOutput \/ TruncateCacheFile \/ WriteCacheFile

BuildKilled ==
    /\ build.pc \notin {"none", "done", "failed"} /\ budget.events < MaxEvents
    /\ Spend("events")
    /\ build' = NoBuild
    /\ UNCHANGED <<manifest, lock, tree, registry, config, globalTools, cmd,
                   result, entry, outs, cache>>

\* The user edits the entry file, also while a build runs.
EditEntry(c) ==
    /\ entry' = c /\ entry' # entry
    /\ build' = [build EXCEPT !.disturbed = TRUE]
    /\ Edit
    /\ UNCHANGED <<manifest, registry, config, globalTools, outs, cache>>

\* handle_clean: the cache directory of the project is deleted.
Clean ==
    /\ cache # {} /\ budget.commands < MaxCommands
    /\ cache' = {}
    /\ Spend("commands")
    /\ UNCHANGED <<manifest, lock, tree, registry, config, globalTools, cmd,
                   result, entry, outs, build>>

BuildInit ==
    /\ entry = 1
    /\ outs = [project |-> NoFile, sibling |-> NoFile]
    /\ cache = {}
    /\ build = NoBuild

BuildNext ==
    \/ \E b \in BuildCommands : StartBuild(b[1], b[2])
    \/ BuildStep
    \/ BuildKilled
    \/ \E c \in DOMAIN EntryImports : EditEntry(c)
    \/ Clean

-----------------------------------------------------------------------------
(* Properties *)

\* A build that ends while nobody changed its sources, and that did not take
\* what a disturbed build left in the cache, leaves the program of the current
\* sources: after edits, restores that moved a package, kills that left files
\* cut short, and cleaning (build_input_to_aibc1, source_graph_hash_file).  A
\* build that took an existing app.aibc1 is exempt: the code prefers it.
BuildIsCurrent ==
    (build.pc = "done" /\ build.via # "artifact" /\ ~build.disturbed /\ build.clean)
        => outs[OutOf(build.input)] = SourceGraph
=============================================================================
