--------------------------- MODULE PackageManager ---------------------------
(***************************************************************************)
(* The package manager of the ailang command line                          *)
(* (ailang_package_manager.c): the commands restore, add and remove over    *)
(* the files of one project, and the tools they make runnable.              *)
(*                                                                          *)
(* The project's files are project.aiproj (manifest), ailang.lock.toml      *)
(* (lock), the package directories under .ailang/packages (tree) and the    *)
(* configuration files (config).  The registry and the global tools lie     *)
(* outside the project and are changed by others while a command runs.  A   *)
(* command is a process: every file it writes and every git command it      *)
(* starts is a step, and it may be killed between any two of them.  Writing *)
(* a file is two steps because pm_write_text truncates it before it writes. *)
(***************************************************************************)
EXTENDS Integers, FiniteSets, Sequences, SequencesExt

CONSTANTS
    Packages,          \* package names
    Versions,          \* 1..n; a version's commit is named by the version
    Descriptor,        \* [Packages -> [Versions -> descriptor]], package.toml:
                       \*   [valid, deps: Seq of [name, version], spaces]
    ToolPackages,      \* packages whose record has the type "tool"
    ReservedNames,     \* names of compiled commands and of local tools
    Locals,            \* directories that an Include may name with path=
    LocalManifest,     \* [Locals -> Seq of includes, or NoManifest]
    NoManifest,
    FirstProjects,     \* the projects to start with: [includes, entries, tree]
    FirstRegistries,   \* the registries it may start with
    AddSpecs,          \* the <<name, version>> that are asked for with add
    Overrides,         \* the <<name, file, directory>> put into the configuration
    MaxDependencies,   \* AILANG_PM_MAX_DEPENDENCIES (64)
    MaxIncludeDepth,   \* AILANG_PM_LOCAL_INCLUDE_MAX_DEPTH (8)
    MaxCommands,       \* bound: commands started
    MaxEvents          \* bound: kills, failing git commands, and changes made
                       \*   by others between two steps

VARIABLES
    manifest,     \* [includes, whole]: whole is FALSE for a file cut short
    lock,         \* [entries, whole]: no file is as good as an empty one
    tree,         \* [Packages -> NoDir, FreshClone or the version checked out]
    registry,     \* [Packages -> [default, published]]
    config,       \* [Packages -> [shared, local: NoOverride, MissingDir or the
                  \*   content of the directory]]: config.toml, config.local.toml
    globalTools,  \* packages with a file in <install root>/tools
    cmd,          \* the command that is running
    result,       \* how the last command ended: "none", "ok", "failed", "killed"
    budget        \* [commands, events] spent

pmVars == <<manifest, lock, tree, registry, config, globalTools, cmd, result,
            budget>>

NoVersion == 0     \* the empty version string
NoDir == 0         \* no directory .ailang/packages/<name>
FreshClone == -1   \* a clone, whole or cut short, before the checkout
NoOverride == 0    \* no [packages.<name>] path in config.toml
MissingDir == -1   \* an override whose directory does not exist

Dirs == Versions \cup {NoOverride, MissingDir}
Request == [name : STRING, version : Nat]
LockLine == [name : Packages, version : Versions, local : BOOLEAN, content : Versions]
RegistryRecord == [default : Versions \cup {NoVersion}, published : Seq(Versions)]

Idle == [op |-> "idle", pc |-> "idle", queue |-> <<>>, at |-> 0, text |-> <<>>,
         spaces |-> {}, next |-> <<>>, todo |-> <<>>, requests |-> <<>>,
         version |-> NoVersion, local |-> NoOverride]

\* The packages of a lock file go together: no package is there in two versions,
\* what a package depends on is there in exactly that version, and no namespace
\* is provided twice.
Consistent(locked) ==
    /\ \A e, f \in locked : e.name = f.name => e = f
    /\ \A e \in locked : \A d \in ToSet(Descriptor[e.name][e.content].deps) :
          \E f \in locked : f.name = d.name /\ f.version = d.version
    /\ \A e, f \in locked : e # f =>
          Descriptor[e.name][e.content].spaces
             \cap Descriptor[f.name][f.content].spaces = {}

\* What the files outside the model's reach hold: descriptors and registry
\* records parse, and a project starts fresh or as a restore left it.
ASSUME PmAssumption ==
    /\ Versions \subseteq Nat \ {NoVersion}
    /\ Descriptor \in [Packages -> [Versions ->
          [valid : BOOLEAN, deps : Seq(Request), spaces : SUBSET STRING]]]
    /\ FirstRegistries \subseteq [Packages -> RegistryRecord]
    /\ \A p \in FirstProjects :
          /\ p.tree \in [Packages -> Int]
          /\ p.entries \in Seq(LockLine) /\ Consistent(ToSet(p.entries))
    /\ Overrides \subseteq Packages \X {"shared", "local"} \X Dirs

-----------------------------------------------------------------------------
(* Reading the registry, the configuration, descriptors and the manifest *)

\* pm_first_version.
FirstVersion(rec) == IF rec.published = <<>> THEN NoVersion ELSE Head(rec.published)

\* pm_load_record: the version asked for, else defaultVersion, else the first
\* one of the record; NoVersion when the registry does not have it.
LoadRecord(name, version) ==
    LET rec == registry[name]
        v == IF version # NoVersion THEN version
             ELSE IF rec.default # NoVersion THEN rec.default
             ELSE FirstVersion(rec)
    IN  IF name \in Packages /\ Contains(rec.published, v) THEN v ELSE NoVersion

\* pm_project_config_get_package_path: config.local.toml wins over config.toml.
PackagePath(name) ==
    IF config[name].local # NoOverride THEN config[name].local ELSE config[name].shared

Overridden(name) == PackagePath(name) # NoOverride

\* pm_is_sdk_owned_name.
SdkOwned(name) == name = "ailang"

\* pm_collect_source_dependencies: the [dependencies] of package.toml, each with
\* an exact version.  The SDK's own name is refused.
SourceDependencies(name, content) == Descriptor[name][content].deps

\* pm_collect_source_namespaces: the namespaces of the library entries.
SourceNamespaces(name, content) == Descriptor[name][content].spaces

\* pm_load_package_source_metadata: is package.toml there and well formed?
MetadataLoads(name, content) ==
    /\ Descriptor[name][content].valid
    /\ \A d \in ToSet(SourceDependencies(name, content)) :
          ~SdkOwned(d.name) /\ d.version # NoVersion

\* pm_tool_conflict: a package that is a tool must not have the name of a
\* compiled command, of a global tool or of a local tool.
ToolConflict(name) ==
    name \in ToolPackages /\ (name \in ReservedNames \/ name \in globalTools)

QueueIndex(queue, name) == SelectInSeq(queue, LAMBDA e : e.name = name)

\* Faulty variant: a name that is queued already is taken as it is, without a
\* look at its version.
QueueTakesUnchecked(queue, name, version) ==
    QueueIndex(queue, name) # 0 \/ Len(queue) < MaxDependencies

\* pm_restore_queue_add takes a request that fits into the queue and contradicts
\* no version asked for earlier.
QueueTakes(queue, name, version) ==
    LET i == QueueIndex(queue, name) IN
    IF i = 0 THEN Len(queue) < MaxDependencies
    ELSE queue[i].version = NoVersion \/ version \in {NoVersion, queue[i].version}

\* The queue with a request that it takes.
RestoreQueueAdd(queue, name, version) ==
    LET i == QueueIndex(queue, name) IN
    IF i = 0 THEN Append(queue, [name |-> name, version |-> version])
    ELSE IF queue[i].version = NoVersion THEN [queue EXCEPT ![i].version = version]
    ELSE queue

\* pm_parse_include_ex: a line that is no Include declaration is no such record.
ParseInclude(line) == line \in [name : STRING, version : Nat, path : STRING]

\* The lines of a manifest that is read at some depth of path= includes.
LinesAt(includes, depth) ==
    [i \in DOMAIN includes |-> [line |-> includes[i], depth |-> depth]]

-----------------------------------------------------------------------------
(* The commands *)

Fail == /\ cmd' = Idle
        /\ result' = "failed"

Spend(what) == budget' = [budget EXCEPT ![what] = @ + 1]

\* Restore starts at its own beginning; add and remove first change the
\* manifest.
Begin(op, pc, next) == cmd' = [Idle EXCEPT !.op = op, !.pc = pc, !.next = next]

StartRestore ==
    /\ cmd = Idle /\ budget.commands < MaxCommands
    /\ Begin("restore", "registry", <<>>)
    /\ Spend("commands")
    /\ UNCHANGED <<manifest, lock, tree, registry, config, globalTools, result>>

\* pm_manifest_has_include: an Include with or without a path counts.
ManifestHasInclude(name) ==
    \E inc \in ToSet(manifest.includes) : ParseInclude(inc) /\ inc.name = name

\* pm_append_include_to_manifest: the new line goes to the end of the Project
\* node, whose closing brace must be there.
AppendInclude(name, version) ==
    Append(manifest.includes, [name |-> name, version |-> version, path |-> ""])

\* pm_remove_include_from_manifest: every line that includes the package goes.
RemoveInclude(name) ==
    SelectSeq(manifest.includes, LAMBDA inc : ~(ParseInclude(inc) /\ inc.name = name))

\* ailang_package_manager_add up to pm_append_include_to_manifest: fails when
\* the package is included already, is not in the registry, or conflicts with
\* a tool and is not overridden, or when the manifest has no Project node.
StartAdd(name, version) ==
    LET v == LoadRecord(name, version) IN
    /\ cmd = Idle /\ budget.commands < MaxCommands
    /\ Spend("commands")
    /\ IF \/ SdkOwned(name) \/ ManifestHasInclude(name)
          \/ v = NoVersion
          \/ ~Overridden(name) /\ ToolConflict(name)
          \/ ~manifest.whole
       THEN Fail
       ELSE /\ Begin("add", "truncate", AppendInclude(name, v))
            /\ UNCHANGED result
    /\ UNCHANGED <<manifest, lock, tree, registry, config, globalTools>>

\* ailang_package_manager_remove up to pm_write_text.
StartRemove(name) ==
    /\ cmd = Idle /\ budget.commands < MaxCommands
    /\ Spend("commands")
    /\ IF ManifestHasInclude(name)
       THEN Begin("remove", "truncate", RemoveInclude(name)) /\ UNCHANGED result
       ELSE Fail
    /\ UNCHANGED <<manifest, lock, tree, registry, config, globalTools>>

\* pm_write_text of the manifest: fopen(path, "wb"), then fwrite.
TruncateManifest ==
    /\ cmd.pc = "truncate"
    /\ manifest' = [includes |-> <<>>, whole |-> FALSE]
    /\ cmd' = [cmd EXCEPT !.pc = "write"]
    /\ UNCHANGED <<lock, tree, registry, config, globalTools, result, budget>>

WriteManifest ==
    /\ cmd.pc = "write"
    /\ manifest' = [includes |-> cmd.next, whole |-> TRUE]
    /\ cmd' = [cmd EXCEPT !.pc = "registry"]
    /\ UNCHANGED <<lock, tree, registry, config, globalTools, result, budget>>

\* pm_resolve_registry: a directory that is configured or beside the project,
\* or the clone under the install root, brought up to date by git.
ResolveRegistry ==
    /\ cmd.pc = "registry"
    /\ cmd' = [cmd EXCEPT !.pc = "scan"]
    /\ UNCHANGED <<manifest, lock, tree, registry, config, globalTools, result, budget>>

\* ailang_package_manager_restore up to its loop: the manifest is read, and
\* scanned for its includes.
ScanManifest ==
    /\ cmd.pc = "scan"
    /\ cmd' = [cmd EXCEPT !.pc = "include", !.todo = LinesAt(manifest.includes, 0)]
    /\ UNCHANGED <<manifest, lock, tree, registry, config, globalTools, result, budget>>

\* A request that is taken leads to the rest of the command.
Enqueue(name, version, rest) ==
    IF QueueTakes(cmd.queue, name, version)
    THEN /\ cmd' = [rest EXCEPT !.queue = RestoreQueueAdd(@, name, version)]
         /\ UNCHANGED result
    ELSE Fail

\* pm_scan_manifest_includes_for_restore, one line: a path= include is followed
\* into the manifest of its directory, any other include is queued.
ScanInclude ==
    LET inc == Head(cmd.todo).line
        depth == Head(cmd.todo).depth + 1
        rest == [cmd EXCEPT !.todo = Tail(@)]
    IN  /\ cmd.pc = "include" /\ cmd.todo # <<>>
        /\ IF ~ParseInclude(inc) THEN Fail
           ELSE IF inc.path = ""
           THEN IF SdkOwned(inc.name) THEN Fail ELSE Enqueue(inc.name, inc.version, rest)
           ELSE IF inc.path \notin Locals \/ LocalManifest[inc.path] = NoManifest
           THEN cmd' = rest /\ UNCHANGED result
           ELSE IF depth > MaxIncludeDepth THEN Fail
           ELSE /\ cmd' = [rest EXCEPT !.todo = LinesAt(LocalManifest[inc.path], depth) \o @]
                /\ UNCHANGED result
        /\ UNCHANGED <<manifest, lock, tree, registry, config, globalTools, budget>>

ScanEnds ==
    /\ cmd.pc = "include" /\ cmd.todo = <<>>
    /\ cmd' = [cmd EXCEPT !.pc = "record", !.at = 1]
    /\ UNCHANGED <<manifest, lock, tree, registry, config, globalTools, result, budget>>

Entry == cmd.queue[cmd.at]
More == cmd.at <= Len(cmd.queue)

\* The loop of restore up to the package directory: the record, the version it
\* gives to an entry without one, the override and the tool conflict.
ChooseVersion ==
    LET v == LoadRecord(Entry.name, Entry.version) IN
    /\ cmd.pc = "record" /\ More
    /\ IF v = NoVersion \/ (~Overridden(Entry.name) /\ ToolConflict(Entry.name))
          \/ PackagePath(Entry.name) = MissingDir
       THEN Fail
       ELSE /\ cmd' = [cmd EXCEPT !.version = v, !.queue[cmd.at].version = v,
                  !.local = PackagePath(Entry.name),
                  !.pc = IF Overridden(Entry.name) THEN "metadata" ELSE "clone"]
            /\ UNCHANGED result
    /\ UNCHANGED <<manifest, lock, tree, registry, config, globalTools, budget>>

\* pm_clone_checkout: git clone unless the directory exists, git fetch, git
\* checkout.
GitClone ==
    /\ cmd.pc = "clone"
    /\ tree' = IF tree[Entry.name] = NoDir
               THEN [tree EXCEPT ![Entry.name] = FreshClone] ELSE tree
    /\ cmd' = [cmd EXCEPT !.pc = "fetch"]
    /\ UNCHANGED <<manifest, lock, registry, config, globalTools, result, budget>>

\* Faulty variant: the commit is checked out only into a fresh clone.
GitCheckoutFresh ==
    /\ cmd.pc = "fetch"
    /\ tree' = IF tree[Entry.name] = FreshClone
               THEN [tree EXCEPT ![Entry.name] = cmd.version] ELSE tree
    /\ cmd' = [cmd EXCEPT !.pc = "metadata"]
    /\ UNCHANGED <<manifest, lock, registry, config, globalTools, result, budget>>

GitCheckout ==
    /\ cmd.pc = "fetch"
    /\ tree' = [tree EXCEPT ![Entry.name] = cmd.version]
    /\ cmd' = [cmd EXCEPT !.pc = "metadata"]
    /\ UNCHANGED <<manifest, lock, registry, config, globalTools, result, budget>>

\* A git command that fails ends the command; a clone that fails leaves no
\* directory, a fetch or a checkout that fails leaves the one there is.
GitFails ==
    /\ cmd.pc \in {"registry", "clone", "fetch"} /\ budget.events < MaxEvents
    /\ Fail
    /\ Spend("events")
    /\ UNCHANGED <<manifest, lock, tree, registry, config, globalTools>>

\* pm_namespace_seen, over the namespaces of one package.
NamespaceSeen(spaces) == spaces \cap cmd.spaces # {}

\* The directory of the package the loop is at: the override, or the checkout.
Content == IF cmd.local # NoOverride THEN cmd.local ELSE tree[Entry.name]

LoadMetadata ==
    /\ cmd.pc = "metadata"
    /\ IF MetadataLoads(Entry.name, Content)
       THEN /\ cmd' = [cmd EXCEPT !.pc = "depend",
                         !.requests = SourceDependencies(Entry.name, Content)]
            /\ UNCHANGED result
       ELSE Fail
    /\ UNCHANGED <<manifest, lock, tree, registry, config, globalTools, budget>>

\* The loop over the dependencies of the package, one of them.
QueueDependency ==
    /\ cmd.pc = "depend" /\ cmd.requests # <<>>
    /\ LET d == Head(cmd.requests) IN
       Enqueue(d.name, d.version, [cmd EXCEPT !.requests = Tail(@)])
    /\ UNCHANGED <<manifest, lock, tree, registry, config, globalTools, budget>>

\* The rest of the loop's body: the namespaces are checked against those
\* restored so far, and the package is appended to the text of the lock file.
AddToLockText ==
    LET spaces == SourceNamespaces(Entry.name, Content) IN
    /\ cmd.pc = "depend" /\ cmd.requests = <<>>
    /\ IF NamespaceSeen(spaces) THEN Fail
       ELSE /\ cmd' = [cmd EXCEPT !.pc = "record", !.at = @ + 1,
                  !.spaces = @ \cup spaces,
                  !.text = Append(@, [name |-> Entry.name, version |-> cmd.version,
                              local |-> cmd.local # NoOverride, content |-> Content])]
            /\ UNCHANGED result
    /\ UNCHANGED <<manifest, lock, tree, registry, config, globalTools, budget>>

\* The end of restore: the lock file is written in one go by pm_write_text.
TruncateLock ==
    /\ cmd.pc = "record" /\ ~More
    /\ lock' = [entries |-> <<>>, whole |-> FALSE]
    /\ cmd' = [cmd EXCEPT !.pc = "lock"]
    /\ UNCHANGED <<manifest, tree, registry, config, globalTools, result, budget>>

WriteLock ==
    /\ cmd.pc = "lock"
    /\ lock' = [entries |-> cmd.text, whole |-> TRUE]
    /\ cmd' = Idle
    /\ result' = "ok"
    /\ UNCHANGED <<manifest, tree, registry, config, globalTools, budget>>

-----------------------------------------------------------------------------
(* What others do between two steps of a command *)

\* The process is killed, or its machine stops.  A file that was being written
\* holds a prefix of its text.
Killed ==
    /\ cmd # Idle /\ budget.events < MaxEvents
    /\ cmd' = Idle
    /\ result' = "killed"
    /\ Spend("events")
    /\ IF cmd.pc = "write"
       THEN \E n \in 0..Len(cmd.next) : manifest' =
               [includes |-> SubSeq(cmd.next, 1, n), whole |-> FALSE]
       ELSE UNCHANGED manifest
    /\ IF cmd.pc = "lock"
       THEN \E n \in 0..Len(cmd.text) : lock' =
               [entries |-> SubSeq(cmd.text, 1, n), whole |-> FALSE]
       ELSE UNCHANGED lock
    /\ UNCHANGED <<tree, registry, config, globalTools>>

Edit == /\ budget.events < MaxEvents
        /\ Spend("events")
        /\ UNCHANGED <<lock, tree, cmd, result>>

\* A package's author publishes a version, perhaps as the default.
Publish(name, v) ==
    /\ ~Contains(registry[name].published, v)
    /\ \E d \in {registry[name].default, v} : registry' =
          [registry EXCEPT ![name] = [default |-> d, published |-> Append(@.published, v)]]
    /\ Edit
    /\ UNCHANGED <<manifest, config, globalTools>>

\* The user edits config.local.toml, installs a global tool, or repairs a
\* manifest by hand.
Configure(name, file, dir) ==
    /\ config' = [config EXCEPT ![name][file] = dir]
    /\ config' # config
    /\ Edit
    /\ UNCHANGED <<manifest, registry, globalTools>>

InstallTool(name) ==
    /\ globalTools' = globalTools \cup {name}
    /\ globalTools' # globalTools
    /\ Edit
    /\ UNCHANGED <<manifest, registry, config>>

RepairManifest ==
    /\ ~manifest.whole /\ cmd = Idle
    /\ \E p \in FirstProjects : manifest' = [includes |-> p.includes, whole |-> TRUE]
    /\ UNCHANGED <<lock, tree, registry, config, globalTools, cmd, result, budget>>

-----------------------------------------------------------------------------
PmInit ==
    /\ \E p \in FirstProjects :
          /\ manifest = [includes |-> p.includes, whole |-> TRUE]
          /\ lock = [entries |-> p.entries, whole |-> p.entries # <<>>]
          /\ tree = p.tree
    /\ registry \in FirstRegistries
    /\ config = [p \in Packages |-> [shared |-> NoOverride, local |-> NoOverride]]
    /\ globalTools = {}
    /\ cmd = Idle
    /\ result = "none"
    /\ budget = [commands |-> 0, events |-> 0]

PmStep ==
    \/ TruncateManifest \/ WriteManifest \/ ResolveRegistry
    \/ ScanManifest \/ ScanInclude \/ ScanEnds
    \/ ChooseVersion \/ GitClone \/ GitCheckout
    \/ LoadMetadata \/ QueueDependency \/ AddToLockText \/ TruncateLock \/ WriteLock

PmNext ==
    \/ StartRestore
    \/ \E p \in Packages : StartRemove(p)
    \/ \E spec \in AddSpecs : StartAdd(spec[1], spec[2])
    \/ PmStep
    \/ GitFails
    \/ Killed
    \/ \E p \in Packages, v \in Versions : Publish(p, v)
    \/ \E o \in Overrides : Configure(o[1], o[2], o[3])
    \/ \E p \in ToolPackages : InstallTool(p)
    \/ RepairManifest

-----------------------------------------------------------------------------
(* Properties *)

\* A lock file that was written to its end is a consistent set of packages: no
\* package is there in two versions, what a locked package says it depends on
\* is locked in exactly that version, and no namespace is provided twice - in
\* whatever order the queue met the requests, and whatever the registry
\* published meanwhile (ailang_package_manager_restore, pm_restore_queue_add).
LockClosed == lock.whole => Consistent(ToSet(lock.entries))

\* After a command that succeeded, every package directory holds the commit the
\* lock names for it: the build, which reads the directory and never the commit,
\* compiles what is locked (pm_clone_checkout before the lock entry).
TreeMatchesLock ==
    (cmd = Idle /\ result = "ok") =>
        \A e \in ToSet(lock.entries) : ~e.local => tree[e.name] = e.version
=============================================================================
