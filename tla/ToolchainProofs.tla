--------------------------- MODULE ToolchainProofs --------------------------
(***************************************************************************)
(* Proofs about the ailang command line: the lock file that restore writes  *)
(* and the package directories beside it, and the artifact that build       *)
(* leaves, for every set of packages, versions, descriptors and requests,   *)
(* and any number of commands, kills and edits.                             *)
(***************************************************************************)
EXTENDS Toolchain, WellFoundedInduction, TLAPS

\* Prover time limits, in seconds.
USE SMTT(30), ZenonT(30)

-----------------------------------------------------------------------------
(* The restore that is running *)

\* The loop over the queue has begun.
InLoop == {"record", "clone", "fetch", "metadata", "depend", "lock"}

\* It is at a package that has been chosen.
AtPackage == {"clone", "fetch", "metadata", "depend"}

\* A command is its fields.
CmdOK(c) ==
    /\ c = [op |-> c.op, pc |-> c.pc, queue |-> c.queue, at |-> c.at, text |-> c.text,
            spaces |-> c.spaces, next |-> c.next, todo |-> c.todo,
            requests |-> c.requests, version |-> c.version, local |-> c.local]
    /\ c.queue \in Seq(Request) /\ c.requests \in Seq(Request)
    /\ c.text \in Seq(LockLine)
    /\ c.at \in Nat /\ c.version \in Nat /\ c.local \in Dirs

FilesOK ==
    /\ tree \in [Packages -> Int]
    /\ registry \in [Packages -> RegistryRecord]
    /\ config \in [Packages -> [shared : Dirs, local : Dirs]]

\* Every package is queued once.
NamesDistinct(queue) ==
    \A i, j \in 1..Len(queue) : queue[i].name = queue[j].name => i = j

\* The request is in the queue, in the version it asks for.
Queued(queue, d) ==
    \E i \in 1..Len(queue) : queue[i].name = d.name /\ queue[i].version = d.version

\* The queue grows at its end; a version in it stays.
QueueGrows(q, r) ==
    /\ r \in Seq(Request) /\ NamesDistinct(r) /\ Len(q) <= Len(r)
    /\ \A i \in 1..Len(q) :
          /\ r[i].name = q[i].name
          /\ q[i].version # NoVersion => r[i].version = q[i].version

\* The loop is one package beyond the text of the lock file.
Position ==
    /\ cmd.pc \in InLoop => cmd.at = Len(cmd.text) + 1 /\ Len(cmd.text) <= Len(cmd.queue)
    /\ cmd.pc \notin InLoop => cmd.text = <<>>
    /\ cmd.pc = "lock" => Len(cmd.text) = Len(cmd.queue)

\* The package the loop is at has its version, and once it is checked out its
\* directory has it too.
PackageChosen ==
    cmd.pc \in AtPackage =>
        /\ cmd.at <= Len(cmd.queue)
        /\ Entry.name \in Packages /\ Entry.version = cmd.version
        /\ cmd.version \in Versions /\ cmd.local # MissingDir
        /\ cmd.pc \in {"clone", "fetch"} => cmd.local = NoOverride
        /\ cmd.pc \in {"metadata", "depend"} /\ cmd.local = NoOverride =>
              tree[Entry.name] = cmd.version

Deps(line) == ToSet(Descriptor[line.name][line.content].deps)
Spaces(line) == Descriptor[line.name][line.content].spaces

\* What the package the loop is at depends on is queued or still to be requested.
EntryClosed ==
    cmd.pc = "depend" => \A d \in ToSet(SourceDependencies(Entry.name, Content)) :
        d.version # NoVersion /\ (d \in ToSet(cmd.requests) \/ Queued(cmd.queue, d))

\* The text of the lock file goes along with the queue, in the versions chosen.
TextInQueue ==
    \A i \in 1..Len(cmd.text) :
        /\ i <= Len(cmd.queue)
        /\ cmd.text[i].name = cmd.queue[i].name
        /\ cmd.text[i].version = cmd.queue[i].version

\* Whatever a package in the text depends on is queued.
TextClosed ==
    \A i \in 1..Len(cmd.text) : \A d \in Deps(cmd.text[i]) :
        d.version # NoVersion /\ Queued(cmd.queue, d)

\* The namespaces of the packages in the text are all recorded and disjoint.
SpacesApart ==
    /\ \A i \in 1..Len(cmd.text) : Spaces(cmd.text[i]) \subseteq cmd.spaces
    /\ \A i, j \in 1..Len(cmd.text) : i # j =>
          Spaces(cmd.text[i]) \cap Spaces(cmd.text[j]) = {}

\* The directory of a package in the text stays at its version.
TreeMatchesText ==
    \A i \in 1..Len(cmd.text) :
        ~cmd.text[i].local => tree[cmd.text[i].name] = cmd.text[i].version

TextInv == TextInQueue /\ TextClosed /\ SpacesApart /\ TreeMatchesText

CmdInv ==
    /\ CmdOK(cmd) /\ NamesDistinct(cmd.queue)
    /\ Position /\ PackageChosen /\ EntryClosed /\ TextInv

PmInv == FilesOK /\ CmdInv /\ LockClosed /\ TreeMatchesLock

-----------------------------------------------------------------------------
(* The build that is running *)

BuildShape(b) ==
    /\ b = [pc |-> b.pc, input |-> b.input, via |-> b.via, useCache |-> b.useCache,
            key |-> b.key, art |-> b.art, disturbed |-> b.disturbed, clean |-> b.clean]
    /\ b.disturbed \in BOOLEAN /\ b.clean \in BOOLEAN

BuildTypeOK ==
    BuildShape(build) /\ DOMAIN outs = {"project", "sibling"}

\* A cache file that was written to its end by a build nobody disturbed holds
\* the program of its key, and every key has one file.
CacheSound ==
    /\ \A e, f \in cache : e.key = f.key => e = f
    /\ \A e \in cache : e.clean \in BOOLEAN /\ (e.clean /\ e.art # Torn => e.art = e.key)

\* What an undisturbed build is about to write, or wrote, is the program of the
\* sources as they are; so is the key under which it will be stored.
ArtCurrent ==
    /\ (build.pc \in {"copy", "output", "key", "store", "done"}
           /\ build.via # "artifact" /\ ~build.disturbed /\ build.clean)
          => build.art = SourceGraph
    /\ build.pc = "store" /\ ~build.disturbed => build.key = SourceGraph
    /\ build.pc \in {"key", "store", "done"} => outs[OutOf(build.input)] = build.art

\* Only what comes from the cache can be unclean.
CompiledClean ==
    /\ build.pc \in {"resolve", "lookup", "compile"} \/ build.via = "compile" => build.clean
    /\ build.pc \in {"key", "store"} => build.via = "compile"

BuildInv == BuildTypeOK /\ CacheSound /\ ArtCurrent /\ CompiledClean

-----------------------------------------------------------------------------
(* The queue *)

\* A set of natural numbers that is not empty has a least member, the one that
\* Min takes.
LEMMA LeastNat ==
    ASSUME NEW S \in SUBSET Nat, S # {}
    PROVE  Min(S) \in S
<1> DEFINE Less == OpToRel(<, Nat)
<1>1. IsWellFoundedOn(Less, Nat)
  BY Zenon, NatLessThanWellFounded
<1> HIDE DEF Less
<1>2. PICK x \in S : \A y \in S : ~(<<y, x>> \in Less)
  BY Zenon, <1>1, WFMin
<1>3. Less = {p \in Nat \X Nat : p[1] < p[2]}
  BY Zenon DEF Less, OpToRel
<1>4. ASSUME NEW y \in S PROVE x <= y
  <2>1. <<y, x>> \in Nat \X Nat /\ <<y, x>>[1] = y /\ <<y, x>>[2] = x
    OBVIOUS
  <2>2. ~(y < x)
    BY <1>2, <1>3, <2>1
  <2> QED
    BY <2>2
<1> QED
  BY Zenon, <1>4 DEF Min

LEMMA LengthIsNat == ASSUME NEW S, NEW q \in Seq(S) PROVE Len(q) <= Len(q)
  OBVIOUS

\* pm_restore_queue_index: where a package is queued, or 0 when it is not.
LEMMA QueueIndexFound ==
    ASSUME NEW q \in Seq(Request), NEW n
    PROVE  \/ QueueIndex(q, n) \in 1..Len(q) /\ q[QueueIndex(q, n)].name = n
           \/ QueueIndex(q, n) = 0 /\ \A i \in 1..Len(q) : q[i].name # n
<1> DEFINE I == {i \in 1..Len(q) : q[i].name = n}
<1>1. QueueIndex(q, n) = IF I # {} THEN Min(I) ELSE 0
  BY Zenon DEF QueueIndex, SelectInSeq
<1>2. I \in SUBSET Nat
  OBVIOUS
<1>3. CASE I = {}
  BY <1>1, <1>3
<1>4. CASE I # {}
  <2>1. Min(I) \in I
    BY Zenon, <1>2, <1>4, LeastNat
  <2> QED
    BY Zenon, <1>1, <1>4, <2>1
<1> QED
  BY <1>3, <1>4

\* pm_restore_queue_add: a request that is taken keeps the queue's order, the
\* versions it has, and one entry for every package; the package asked for is in
\* it afterwards, in the version asked for if there is one.
LEMMA RestoreQueueAddKeeps ==
    ASSUME NEW q \in Seq(Request), NamesDistinct(q),
           NEW n \in STRING, NEW v \in Nat, QueueTakes(q, n, v)
    PROVE  /\ QueueGrows(q, RestoreQueueAdd(q, n, v))
           /\ v # NoVersion => Queued(RestoreQueueAdd(q, n, v), [name |-> n, version |-> v])
<1> DEFINE i0 == QueueIndex(q, n)
           new == [name |-> n, version |-> v]
<1>1. new \in Request /\ new.name = n /\ new.version = v
  BY DEF Request
<1>2. CASE i0 = 0
  <2>1. \A i \in 1..Len(q) : q[i].name # n
    BY <1>2, QueueIndexFound
  <2>2. RestoreQueueAdd(q, n, v) = Append(q, new)
    BY Zenon, <1>2 DEF RestoreQueueAdd
  <2>3. /\ Append(q, new) \in Seq(Request) /\ Len(Append(q, new)) = Len(q) + 1
        /\ \A i \in 1..Len(q) : Append(q, new)[i] = q[i]
        /\ Append(q, new)[Len(q) + 1] = new
    BY <1>1
  <2> QED
    BY <1>1, <2>1, <2>2, <2>3 DEF NamesDistinct, Queued, QueueGrows
<1>3. CASE i0 # 0
  <2>1. i0 \in 1..Len(q) /\ q[i0].name = n /\ q[i0] \in Request
    BY <1>3, QueueIndexFound
  <2> HIDE DEF i0
  <2>2. CASE q[i0].version = NoVersion
    <3> DEFINE r == [q EXCEPT ![i0].version = v]
    <3>1. RestoreQueueAdd(q, n, v) = r
      BY Zenon, <1>3, <2>2 DEF RestoreQueueAdd, i0
    <3>2. [q[i0] EXCEPT !.version = v] = new
      BY <2>1 DEF Request
    <3>3. r \in Seq(Request) /\ Len(r) = Len(q)
          /\ \A i \in 1..Len(q) : r[i] = IF i = i0 THEN new ELSE q[i]
      BY <1>1, <2>1, <3>2
    <3> HIDE DEF r
    <3> QED
      BY <1>1, <2>1, <2>2, <3>1, <3>3 DEF NamesDistinct, Queued, QueueGrows
  <2>3. CASE q[i0].version # NoVersion
    <3>1. RestoreQueueAdd(q, n, v) = q
      BY Zenon, <1>3, <2>3 DEF RestoreQueueAdd, i0
    <3>2. v \in {NoVersion, q[i0].version}
      BY Zenon, <1>3, <2>3 DEF QueueTakes, i0
    <3>3. v # NoVersion => Queued(q, new)
      BY Zenon, <1>1, <2>1, <3>2 DEF Queued
    <3> QED
      BY Zenon, <3>1, <3>3, LengthIsNat DEF QueueGrows
  <2> QED
    BY <2>2, <2>3
<1> QED
  BY <1>2, <1>3

LEMMA QueuedStays ==
    ASSUME NEW q \in Seq(Request), NEW r, QueueGrows(q, r), NEW d, Queued(q, d),
           d.version # NoVersion
    PROVE  Queued(r, d)
<1>1. PICK i \in 1..Len(q) : q[i].name = d.name /\ q[i].version = d.version
  BY Zenon DEF Queued
<1>2. i \in 1..Len(r) /\ r[i].name = d.name /\ r[i].version = d.version
  BY <1>1 DEF QueueGrows
<1> QED
  BY Zenon, <1>2 DEF Queued

-----------------------------------------------------------------------------
(* The text of the lock file *)

\* The empty version string is no version.
LEMMA VersionIsNat == ASSUME NEW v \in Versions PROVE v \in Nat /\ v # NoVersion
  BY Zenon, PmAssumption

LEMMA LineFields ==
    ASSUME CmdOK(cmd), NEW i \in 1..Len(cmd.text)
    PROVE  /\ cmd.text[i].name \in Packages /\ cmd.text[i].version \in Versions
           /\ cmd.text[i].content \in Versions
<1>1. cmd.text[i] \in LockLine
  BY DEF CmdOK
<1> QED
  BY <1>1 DEF LockLine

\* The text keeps its meaning while the queue grows and no directory of a
\* package in it is touched.
LEMMA TextKept ==
    ASSUME TextInv, CmdOK(cmd), QueueGrows(cmd.queue, cmd'.queue),
           cmd'.text = cmd.text, cmd'.spaces = cmd.spaces,
           \A i \in 1..Len(cmd.text) : tree'[cmd.text[i].name] = tree[cmd.text[i].name]
    PROVE  TextInv'
<1>1. TextInQueue'
  <2>1. ASSUME NEW i \in 1..Len(cmd.text)
        PROVE  i <= Len(cmd'.queue) /\ cmd.text[i].name = cmd'.queue[i].name
               /\ cmd.text[i].version = cmd'.queue[i].version
    <3>1. /\ i <= Len(cmd.queue) /\ cmd.text[i].name = cmd.queue[i].name
          /\ cmd.text[i].version = cmd.queue[i].version
      BY Zenon DEF TextInv, TextInQueue
    <3>2. cmd.text[i].version # NoVersion
      BY Zenon, LineFields, VersionIsNat
    <3>3. i \in 1..Len(cmd.queue)
      BY <3>1 DEF CmdOK
    <3>4. /\ cmd'.queue[i].name = cmd.queue[i].name
          /\ cmd'.queue[i].version = cmd.queue[i].version
      BY Zenon, <3>1, <3>2, <3>3 DEF QueueGrows
    <3>5. i <= Len(cmd'.queue)
      BY <3>3 DEF QueueGrows, CmdOK
    <3> QED
      BY Zenon, <3>1, <3>4, <3>5
  <2> QED
    BY Zenon, <2>1 DEF TextInQueue
<1>2. TextClosed'
  <2>1. cmd.queue \in Seq(Request)
    BY Zenon DEF CmdOK
  <2> QED
    BY Zenon, <2>1, QueuedStays DEF TextInv, TextClosed
<1>3. SpacesApart'
  BY Zenon DEF TextInv, SpacesApart
<1>4. TreeMatchesText'
  BY Zenon DEF TextInv, TreeMatchesText
<1> QED
  BY Zenon, <1>1, <1>2, <1>3, <1>4 DEF TextInv

\* Once the loop is through the queue, the text is a consistent lock file.
LEMMA TextConsistent ==
    ASSUME CmdOK(cmd), NamesDistinct(cmd.queue), TextInv, Len(cmd.text) = Len(cmd.queue)
    PROVE  Consistent(ToSet(cmd.text))
<1> DEFINE T == cmd.text
<1>1. ASSUME NEW e \in ToSet(T) PROVE \E i \in 1..Len(T) : e = T[i]
  BY DEF ToSet, CmdOK
<1>2. ASSUME NEW i \in 1..Len(T) PROVE T[i] \in ToSet(T)
  BY DEF ToSet, CmdOK
<1>3. ASSUME NEW i \in 1..Len(T), NEW j \in 1..Len(T), T[i].name = T[j].name PROVE i = j
  BY Zenon, <1>3 DEF TextInv, TextInQueue, NamesDistinct
<1>4. ASSUME NEW e \in ToSet(T), NEW f \in ToSet(T), e.name = f.name PROVE e = f
  <2>1. PICK i \in 1..Len(T) : e = T[i]
    BY Zenon, <1>1
  <2>2. PICK j \in 1..Len(T) : f = T[j]
    BY Zenon, <1>1
  <2>3. i = j
    BY Zenon, <1>3, <1>4, <2>1, <2>2
  <2> QED
    BY Zenon, <2>1, <2>2, <2>3
<1>5. ASSUME NEW e \in ToSet(T), NEW d \in ToSet(Descriptor[e.name][e.content].deps)
      PROVE  \E f \in ToSet(T) : f.name = d.name /\ f.version = d.version
  <2>1. Queued(cmd.queue, d)
    BY Zenon, <1>1, <1>5 DEF TextInv, TextClosed, Deps
  <2>2. PICK j \in 1..Len(T) : cmd.queue[j].name = d.name /\ cmd.queue[j].version = d.version
    BY Zenon, <2>1 DEF Queued
  <2>3. T[j].name = d.name /\ T[j].version = d.version
    BY Zenon, <2>2 DEF TextInv, TextInQueue
  <2> QED
    BY Zenon, <1>2, <2>3
<1>6. ASSUME NEW e \in ToSet(T), NEW f \in ToSet(T), e # f
      PROVE  Descriptor[e.name][e.content].spaces \cap Descriptor[f.name][f.content].spaces = {}
  BY Zenon, <1>1, <1>6 DEF TextInv, SpacesApart, Spaces
<1> QED
  BY Zenon, <1>4, <1>5, <1>6 DEF Consistent

-----------------------------------------------------------------------------
(* Commands *)

LEMMA IdleFields ==
    /\ CmdOK(Idle) /\ Idle.pc = "idle" /\ Idle.queue = <<>> /\ Idle.text = <<>>
<1>1. /\ Idle.op = "idle" /\ Idle.pc = "idle" /\ Idle.queue = <<>> /\ Idle.at = 0
      /\ Idle.text = <<>> /\ Idle.spaces = {} /\ Idle.next = <<>> /\ Idle.todo = <<>>
      /\ Idle.requests = <<>> /\ Idle.version = NoVersion /\ Idle.local = NoOverride
  BY Zenon DEF Idle
<1>2. Idle = [op |-> Idle.op, pc |-> Idle.pc, queue |-> Idle.queue, at |-> Idle.at,
              text |-> Idle.text, spaces |-> Idle.spaces, next |-> Idle.next,
              todo |-> Idle.todo, requests |-> Idle.requests,
              version |-> Idle.version, local |-> Idle.local]
  BY Zenon DEF Idle
<1>3. <<>> \in Seq(Request) /\ <<>> \in Seq(LockLine) /\ 0 \in Nat /\ 0 \in Dirs
  BY DEF Dirs, NoOverride
<1> QED
  BY Zenon, <1>1, <1>2, <1>3 DEF CmdOK, NoVersion, NoOverride

LEMMA NoNames == NamesDistinct(<<>>)
  BY DEF NamesDistinct

\* Before the loop there is only the queue.
LEMMA BeforeLoop ==
    ASSUME CmdOK(cmd)', NamesDistinct(cmd'.queue), cmd'.text = <<>>,
           cmd'.pc \notin AtPackage, cmd'.pc # "lock", cmd'.pc = "record" => cmd'.at = 1
    PROVE  CmdInv'
<1>1. Len(cmd'.text) = 0
  OBVIOUS
<1>2. Position'
  <2>1. Len(cmd'.queue) \in Nat
    BY DEF CmdOK
  <2> QED
    BY <1>1, <2>1 DEF Position, InLoop, AtPackage
<1>3. PackageChosen' /\ EntryClosed'
  BY Zenon DEF PackageChosen, EntryClosed, AtPackage
<1>4. \A i \in 1..Len(cmd'.text) : FALSE
  BY <1>1
<1>5. TextInv'
  BY Zenon, <1>4 DEF TextInv, TextInQueue, TextClosed, SpacesApart, TreeMatchesText
<1> QED
  BY Zenon, <1>2, <1>3, <1>5 DEF CmdInv

LEMMA IdleInv == ASSUME cmd' = Idle PROVE CmdInv'
<1>1. CmdOK(cmd)'
  BY Zenon, IdleFields DEF CmdOK
<1> QED
  BY Zenon, <1>1, IdleFields, NoNames, BeforeLoop DEF AtPackage

LEMMA CmdKept == ASSUME CmdInv, UNCHANGED <<cmd, tree>> PROVE CmdInv'
<1>1. CmdOK(cmd)' /\ NamesDistinct(cmd'.queue) /\ Position'
  BY Zenon DEF CmdInv, CmdOK, Position
<1>2. PackageChosen'
  BY Zenon DEF CmdInv, PackageChosen, Entry
<1>3. EntryClosed'
  BY Zenon DEF CmdInv, EntryClosed, Entry, Content, SourceDependencies
<1>4. TextInv'
  BY Zenon DEF CmdInv, TextInv, TextInQueue, TextClosed, SpacesApart, TreeMatchesText
<1> QED
  BY Zenon, <1>1, <1>2, <1>3, <1>4 DEF CmdInv

LEMMA OtherTodo ==
    ASSUME NEW c, CmdOK(c), NEW t, NEW d, d = [c EXCEPT !.todo = t]
    PROVE  CmdOK(d) /\ d.queue = c.queue /\ d.text = c.text /\ d.pc = c.pc
  BY Zenon DEF CmdOK

LEMMA HeadOrTail ==
    ASSUME NEW r \in Seq(Request), r # <<>>
    PROVE  /\ Head(r) \in Request /\ Tail(r) \in Seq(Request)
           /\ \A e \in ToSet(r) : e = Head(r) \/ e \in ToSet(Tail(r))
<1>1. ASSUME NEW i \in 1..Len(r), i # 1 PROVE r[i] = Tail(r)[i - 1] /\ i - 1 \in 1..Len(Tail(r))
  BY <1>1
<1>2. DOMAIN r = 1..Len(r) /\ DOMAIN Tail(r) = 1..Len(Tail(r)) /\ Head(r) = r[1]
  OBVIOUS
<1>3. \A e \in ToSet(r) : e = Head(r) \/ e \in ToSet(Tail(r))
  BY ZenonT(30), <1>1, <1>2 DEF ToSet
<1> QED
  BY <1>3

\* Starting a command, changing the manifest and scanning it for includes only
\* builds the queue (pm_scan_manifest_includes_for_restore).
LEMMA PreparationKeeps ==
    ASSUME CmdInv,
           \/ StartRestore \/ (\E p : StartRemove(p)) \/ (\E n, v : StartAdd(n, v))
           \/ TruncateManifest \/ WriteManifest \/ ResolveRegistry \/ ScanManifest
           \/ ScanInclude \/ ScanEnds
    PROVE  CmdInv'
<1> DEFINE Begins == \E op, next : \E pc \in {"registry", "truncate"} : Begin(op, pc, next)
<1>1. CASE cmd' = Idle
  BY Zenon, <1>1, IdleInv
<1>2. CASE Begins
  <2>1. PICK op, next : \E pc \in {"registry", "truncate"} : Begin(op, pc, next)
    BY Zenon, <1>2
  <2>2. PICK pc \in {"registry", "truncate"} : Begin(op, pc, next)
    BY Zenon, <2>1
  <2>3. CmdOK(cmd)' /\ cmd'.pc = pc /\ cmd'.queue = <<>> /\ cmd'.text = <<>>
    BY Zenon, <2>2, IdleFields DEF Begin, CmdOK
  <2> QED
    BY Zenon, <2>2, <2>3, NoNames, BeforeLoop DEF AtPackage
<1>3. CmdOK(cmd) /\ NamesDistinct(cmd.queue) /\ (cmd.pc \notin InLoop => cmd.text = <<>>)
  BY Zenon DEF CmdInv, Position
<1>4. CASE TruncateManifest \/ WriteManifest \/ ResolveRegistry \/ ScanManifest
  <2>1. /\ CmdOK(cmd)' /\ cmd'.queue = cmd.queue /\ cmd'.text = cmd.text
        /\ cmd.pc \in {"truncate", "write", "registry", "scan"}
        /\ cmd'.pc \in {"write", "registry", "scan", "include"}
    BY Zenon, <1>3, <1>4 DEF TruncateManifest, WriteManifest, ResolveRegistry, ScanManifest, CmdOK
  <2> QED
    BY Zenon, <1>3, <2>1, BeforeLoop DEF AtPackage, InLoop
<1>5. CASE ScanEnds
  <2>1. /\ cmd'.queue = cmd.queue /\ cmd'.text = cmd.text /\ cmd.pc = "include"
        /\ cmd'.pc = "record" /\ cmd'.at = 1
    BY Zenon, <1>3, <1>5 DEF ScanEnds, CmdOK
  <2>2. CmdOK(cmd)'
    BY Zenon, <1>3, <1>5 DEF ScanEnds, CmdOK
  <2> QED
    BY Zenon, <1>3, <2>1, <2>2, BeforeLoop DEF AtPackage, InLoop
<1>6. CASE ScanInclude /\ cmd' # Idle
  <2> DEFINE inc == Head(cmd.todo).line
             rest == [cmd EXCEPT !.todo = Tail(cmd.todo)]
  <2>1. cmd.pc = "include"
    BY Zenon, <1>6 DEF ScanInclude
  <2>2. \/ ParseInclude(inc) /\ Enqueue(inc.name, inc.version, rest)
        \/ cmd' = rest
        \/ \E t : cmd' = [rest EXCEPT !.todo = t]
    BY Zenon, <1>6 DEF ScanInclude, Fail
  <2>3. /\ CmdOK(rest) /\ rest.queue = cmd.queue /\ rest.text = cmd.text /\ rest.pc = "include"
    <3>1. CmdOK(cmd)
      BY Zenon, <1>3
    <3>2. CmdOK(rest) /\ rest.queue = cmd.queue /\ rest.text = cmd.text /\ rest.pc = cmd.pc
      BY Zenon, <3>1, OtherTodo
    <3> QED
      BY Zenon, <2>1, <3>2
  <2> HIDE DEF rest
  <2>4. CASE cmd' = rest
    BY Zenon, <1>3, <2>1, <2>3, <2>4, BeforeLoop DEF AtPackage, InLoop, CmdOK
  <2>5. CASE \E t : cmd' = [rest EXCEPT !.todo = t]
    <3>1. /\ CmdOK(cmd)' /\ cmd'.queue = cmd.queue /\ cmd'.text = cmd.text
          /\ cmd'.pc = "include"
      BY Zenon, <2>3, <2>5 DEF CmdOK
    <3> QED
      BY Zenon, <1>3, <2>1, <3>1, BeforeLoop DEF AtPackage, InLoop
  <2>6. CASE ParseInclude(inc) /\ Enqueue(inc.name, inc.version, rest)
    <3> DEFINE q == RestoreQueueAdd(cmd.queue, inc.name, inc.version)
    <3>1. inc.name \in STRING /\ inc.version \in Nat
      BY <2>6 DEF ParseInclude
    <3>2. QueueTakes(cmd.queue, inc.name, inc.version) /\ cmd' = [rest EXCEPT !.queue = q]
      BY Zenon, <1>6, <2>3, <2>6 DEF Enqueue, Fail
    <3>3. q \in Seq(Request) /\ NamesDistinct(q)
      BY Zenon, <1>3, <3>1, <3>2, RestoreQueueAddKeeps DEF CmdOK, QueueGrows
    <3> HIDE DEF q
    <3>4. CmdOK(cmd)' /\ cmd'.queue = q /\ cmd'.text = cmd.text /\ cmd'.pc = "include"
      BY Zenon, <2>3, <3>2, <3>3 DEF CmdOK
    <3> QED
      BY Zenon, <1>3, <2>1, <3>3, <3>4, BeforeLoop DEF AtPackage, InLoop
  <2> QED
    BY Zenon, <2>2, <2>4, <2>5, <2>6
<1> QED
  <2>1. StartRestore => Begins
    BY Zenon DEF StartRestore
  <2>2. ASSUME NEW n, StartRemove(n)
        PROVE  cmd' = Idle \/ Begins
    BY Zenon, <2>2 DEF StartRemove, Fail
  <2>3. ASSUME NEW n, NEW v, StartAdd(n, v)
        PROVE  cmd' = Idle \/ Begins
    BY Zenon, <2>3 DEF StartAdd, Fail
  <2> QED
    BY Zenon, <1>1, <1>2, <1>4, <1>5, <1>6, <2>1, <2>2, <2>3

-----------------------------------------------------------------------------
(* The loop of restore *)

LEMMA QueueGrowsSelf ==
    ASSUME NEW q \in Seq(Request), NamesDistinct(q) PROVE QueueGrows(q, q)
  BY Zenon, LengthIsNat DEF QueueGrows

\* The loop is at an entry of the queue.
LEMMA EntryPlace ==
    ASSUME CmdInv, cmd.pc \in AtPackage \/ (cmd.pc = "record" /\ More)
    PROVE  /\ cmd.at = Len(cmd.text) + 1 /\ cmd.at \in 1..Len(cmd.queue)
           /\ Entry \in Request /\ Len(cmd.text) \in Nat /\ Len(cmd.queue) \in Nat
<1>1. cmd.queue \in Seq(Request) /\ cmd.text \in Seq(LockLine)
  BY Zenon DEF CmdInv, CmdOK
<1>2. cmd.at = Len(cmd.text) + 1 /\ cmd.at <= Len(cmd.queue)
  BY Zenon DEF CmdInv, Position, PackageChosen, More, InLoop, AtPackage
<1> QED
  BY <1>1, <1>2 DEF Entry

\* The package the loop is at is not in the text yet.
LEMMA EntryIsNew ==
    ASSUME CmdInv, cmd.pc \in AtPackage, NEW i \in 1..Len(cmd.text)
    PROVE  cmd.text[i].name # Entry.name
<1>1. i # cmd.at /\ i \in 1..Len(cmd.queue)
  BY EntryPlace
<1>2. cmd.text[i].name = cmd.queue[i].name
  BY Zenon DEF CmdInv, TextInv, TextInQueue
<1> QED
  BY Zenon, <1>1, <1>2, EntryPlace DEF CmdInv, NamesDistinct, Entry

\* What is read as the package's descriptor is one of its versions.
LEMMA ContentIsVersion ==
    ASSUME CmdInv, cmd.pc \in {"metadata", "depend"}
    PROVE  /\ Content \in Versions /\ Entry.name \in Packages
           /\ cmd.local # NoOverride \/ tree[Entry.name] = cmd.version
<1>1. cmd.pc \in AtPackage
  BY Zenon DEF AtPackage
<1>2. cmd.local \in Dirs /\ cmd.local # MissingDir /\ cmd.version \in Versions
  BY Zenon, <1>1 DEF CmdInv, CmdOK, PackageChosen
<1> QED
  BY Zenon, <1>1, <1>2 DEF CmdInv, PackageChosen, Content, Dirs

\* pm_collect_source_dependencies: what a descriptor lists are requests.
LEMMA DependenciesParsed ==
    ASSUME NEW n \in Packages, NEW c \in Versions
    PROVE  Descriptor[n][c].deps \in Seq(Request)
<1> DEFINE D == [valid : BOOLEAN, deps : Seq(Request), spaces : SUBSET STRING]
<1>1. Descriptor \in [Packages -> [Versions -> D]]
  BY Zenon, PmAssumption
<1>2. \A x \in D : x.deps \in Seq(Request)
  OBVIOUS
<1> HIDE DEF D
<1>3. Descriptor[n][c] \in D
  BY Zenon, <1>1
<1> QED
  BY Zenon, <1>2, <1>3

\* pm_load_record: the version found is one of the package's, and it is the one
\* asked for if there is one.
LEMMA RecordLoaded ==
    ASSUME FilesOK, NEW n, NEW v, LoadRecord(n, v) # NoVersion
    PROVE  /\ n \in Packages /\ LoadRecord(n, v) \in Versions
           /\ v # NoVersion => LoadRecord(n, v) = v
<1>1. n \in Packages /\ Contains(registry[n].published, LoadRecord(n, v))
  BY Zenon DEF LoadRecord
<1>2. v # NoVersion => LoadRecord(n, v) = v
  BY Zenon DEF LoadRecord
<1>3. registry[n].published \in Seq(Versions)
  BY <1>1 DEF FilesOK, RegistryRecord
<1> QED
  BY <1>1, <1>2, <1>3 DEF Contains

\* pm_project_config_get_package_path gives a directory or none.
LEMMA PathIsDir == ASSUME FilesOK, NEW n \in Packages PROVE PackagePath(n) \in Dirs
<1>1. config[n] \in [shared : Dirs, local : Dirs]
  BY DEF FilesOK
<1>2. config[n].shared \in Dirs /\ config[n].local \in Dirs
  BY <1>1
<1> QED
  BY Zenon, <1>2 DEF PackagePath

\* Choosing a version fills in one that was left open and changes none.
LEMMA ChooseVersionKeeps ==
    ASSUME FilesOK, CmdInv, ChooseVersion PROVE CmdInv'
<1> DEFINE v == LoadRecord(Entry.name, Entry.version)
           q == [cmd.queue EXCEPT ![cmd.at].version = v]
           path == PackagePath(Entry.name)
<1>1. CASE cmd' = Idle
  BY Zenon, <1>1, IdleInv
<1>2. CASE cmd' # Idle
  <2>1. /\ cmd.pc = "record" /\ More /\ v # NoVersion /\ path # MissingDir
        /\ UNCHANGED tree
        /\ cmd' = [cmd EXCEPT !.version = v, !.queue[cmd.at].version = v, !.local = path,
              !.pc = IF Overridden(Entry.name) THEN "metadata" ELSE "clone"]
    BY Zenon, <1>2 DEF ChooseVersion, Fail
  <2>2. /\ cmd.at = Len(cmd.text) + 1 /\ cmd.at \in 1..Len(cmd.queue)
        /\ Entry \in Request /\ Len(cmd.text) \in Nat /\ Len(cmd.queue) \in Nat
    BY Zenon, <2>1, EntryPlace
  <2>3. /\ Entry.name \in Packages /\ v \in Versions /\ v \in Nat
        /\ Entry.version # NoVersion => v = Entry.version
    BY Zenon, <2>1, RecordLoaded, VersionIsNat
  <2>4. path \in Dirs
    BY Zenon, <2>3, PathIsDir
  <2>5. CmdOK(cmd) /\ NamesDistinct(cmd.queue) /\ TextInv /\ cmd.queue \in Seq(Request)
    BY Zenon DEF CmdInv, CmdOK
  <2> HIDE DEF v, path
  <2>6. /\ q \in Seq(Request) /\ Len(q) = Len(cmd.queue)
        /\ \A i \in 1..Len(q) : i # cmd.at => q[i] = cmd.queue[i]
        /\ q[cmd.at] = [Entry EXCEPT !.version = v]
    BY <2>2, <2>3, <2>5 DEF Entry, Request
  <2>7. q[cmd.at].name = Entry.name /\ q[cmd.at].version = v
    BY <2>2, <2>6 DEF Request
  <2>8. QueueGrows(cmd.queue, q)
    <3>1. ASSUME NEW i \in 1..Len(cmd.queue)
          PROVE  /\ q[i].name = cmd.queue[i].name
                 /\ cmd.queue[i].version # NoVersion => q[i].version = cmd.queue[i].version
      BY Zenon, <2>3, <2>6, <2>7 DEF Entry
    <3>2. NamesDistinct(q)
      BY Zenon, <2>5, <2>6, <3>1 DEF NamesDistinct
    <3> QED
      BY Zenon, <2>5, <2>6, <3>1, <3>2, LengthIsNat DEF QueueGrows
  <2> HIDE DEF q
  <2>9. /\ CmdOK(cmd)' /\ cmd'.queue = q /\ cmd'.at = cmd.at /\ cmd'.version = v
        /\ cmd'.text = cmd.text /\ cmd'.spaces = cmd.spaces /\ cmd'.local = path
        /\ cmd'.pc = IF Overridden(Entry.name) THEN "metadata" ELSE "clone"
    BY Zenon, <2>1, <2>3, <2>4, <2>5, <2>6 DEF CmdOK, q
  <2>10. TextInv'
    BY Zenon, <2>1, <2>5, <2>8, <2>9, TextKept
  <2>11. Position'
    BY <2>2, <2>6, <2>9 DEF Position, InLoop
  <2>12. PackageChosen'
    <3>1. cmd'.at <= Len(cmd'.queue)
      BY <2>2, <2>6, <2>9
    <3>2. Entry'.name = Entry.name /\ Entry'.version = v
      BY Zenon, <2>7, <2>9 DEF Entry
    <3>3. \/ cmd'.pc = "metadata" /\ path # NoOverride
          \/ cmd'.pc = "clone" /\ path = NoOverride
      BY Zenon, <2>9 DEF Overridden, path
    <3> QED
      BY Zenon, <2>1, <2>3, <2>9, <3>1, <3>2, <3>3 DEF PackageChosen
  <2>13. EntryClosed'
    BY Zenon, <2>9 DEF EntryClosed
  <2> QED
    BY Zenon, <2>8, <2>9, <2>10, <2>11, <2>12, <2>13 DEF CmdInv, QueueGrows
<1> QED
  BY <1>1, <1>2

\* pm_clone_checkout touches no directory but the one of its package.
LEMMA GitKeeps ==
    ASSUME FilesOK, CmdInv, GitClone \/ GitCheckout PROVE CmdInv'
<1>1. cmd.pc \in {"clone", "fetch"} /\ cmd.pc \in AtPackage
  BY Zenon DEF GitClone, GitCheckout, AtPackage
<1>2. /\ CmdOK(cmd) /\ NamesDistinct(cmd.queue) /\ TextInv /\ cmd.queue \in Seq(Request)
      /\ cmd.at <= Len(cmd.queue) /\ Entry.name \in Packages /\ Entry.version = cmd.version
      /\ cmd.version \in Versions /\ cmd.local = NoOverride /\ cmd.local # MissingDir
  BY Zenon, <1>1 DEF CmdInv, PackageChosen, CmdOK
<1>3. /\ CmdOK(cmd)' /\ cmd'.queue = cmd.queue /\ cmd'.at = cmd.at /\ cmd'.text = cmd.text
      /\ cmd'.spaces = cmd.spaces /\ cmd'.version = cmd.version /\ cmd'.local = cmd.local
      /\ \/ cmd'.pc = "fetch"
         \/ cmd'.pc = "metadata" /\ tree' = [tree EXCEPT ![Entry.name] = cmd.version]
  BY Zenon, <1>2 DEF GitClone, GitCheckout, CmdOK
<1>4. ASSUME NEW i \in 1..Len(cmd.text) PROVE tree'[cmd.text[i].name] = tree[cmd.text[i].name]
  <2>1. cmd.text[i].name # Entry.name
    BY Zenon, <1>1, EntryIsNew
  <2>2. cmd.text[i].name \in Packages /\ DOMAIN tree = Packages
    BY Zenon, <1>2, LineFields DEF FilesOK
  <2> QED
    BY Zenon, <2>1, <2>2 DEF GitClone, GitCheckout
<1>5. TextInv'
  BY Zenon, <1>2, <1>3, <1>4, QueueGrowsSelf, TextKept
<1>6. Position' /\ EntryClosed'
  BY Zenon, <1>1, <1>3 DEF CmdInv, Position, EntryClosed, InLoop
<1>7. PackageChosen'
  <2>1. Entry' = Entry
    BY Zenon, <1>3 DEF Entry
  <2>2. cmd'.pc = "metadata" => tree'[Entry.name] = cmd.version
    BY Zenon, <1>2, <1>3 DEF FilesOK
  <2> QED
    BY Zenon, <1>2, <1>3, <2>1, <2>2 DEF PackageChosen
<1> QED
  BY Zenon, <1>2, <1>3, <1>5, <1>6, <1>7 DEF CmdInv

\* pm_load_package_source_metadata: every dependency is to be requested.
LEMMA LoadMetadataKeeps ==
    ASSUME CmdInv, LoadMetadata PROVE CmdInv'
<1> DEFINE deps == SourceDependencies(Entry.name, Content)
<1>1. CASE cmd' = Idle
  BY Zenon, <1>1, IdleInv
<1>2. CASE cmd' # Idle
  <2>1. /\ cmd.pc = "metadata" /\ MetadataLoads(Entry.name, Content) /\ UNCHANGED tree
        /\ cmd' = [cmd EXCEPT !.pc = "depend", !.requests = deps]
    BY Zenon, <1>2 DEF LoadMetadata, Fail
  <2>2. /\ CmdOK(cmd) /\ NamesDistinct(cmd.queue) /\ TextInv /\ cmd.queue \in Seq(Request)
    BY Zenon DEF CmdInv, CmdOK
  <2>3. deps \in Seq(Request)
    <3>1. Content \in Versions /\ Entry.name \in Packages
      BY Zenon, <2>1, ContentIsVersion
    <3> QED
      BY Zenon, <3>1, DependenciesParsed DEF SourceDependencies
  <2> HIDE DEF deps
  <2>4. /\ CmdOK(cmd)' /\ cmd'.queue = cmd.queue /\ cmd'.at = cmd.at /\ cmd'.text = cmd.text
        /\ cmd'.spaces = cmd.spaces /\ cmd'.version = cmd.version /\ cmd'.local = cmd.local
        /\ cmd'.pc = "depend" /\ cmd'.requests = deps
    BY Zenon, <2>1, <2>2, <2>3 DEF CmdOK
  <2>5. TextInv'
    BY Zenon, <2>1, <2>2, <2>4, QueueGrowsSelf, TextKept
  <2>6. Position'
    BY Zenon, <2>1, <2>4 DEF CmdInv, Position, InLoop
  <2>7. Entry' = Entry /\ Content' = Content
    <3>1. Entry' = Entry
      BY Zenon, <2>4 DEF Entry
    <3> QED
      BY Zenon, <2>1, <2>4, <3>1 DEF Content
  <2>8. PackageChosen'
    BY Zenon, <2>1, <2>4, <2>7 DEF CmdInv, PackageChosen, AtPackage
  <2>9. EntryClosed'
    <3>1. \A d \in ToSet(deps) : d.version # NoVersion
      BY Zenon, <2>1 DEF MetadataLoads, deps
    <3> QED
      BY Zenon, <2>4, <2>7, <3>1 DEF EntryClosed, deps
  <2> QED
    BY Zenon, <2>2, <2>4, <2>5, <2>6, <2>8, <2>9 DEF CmdInv
<1> QED
  BY <1>1, <1>2

\* A dependency that is taken is in the queue, in the version it asks for.
LEMMA QueueDependencyKeeps ==
    ASSUME CmdInv, QueueDependency PROVE CmdInv'
<1> DEFINE d == Head(cmd.requests)
           q == RestoreQueueAdd(cmd.queue, d.name, d.version)
           rest == [cmd EXCEPT !.requests = Tail(cmd.requests)]
<1>1. CASE cmd' = Idle
  BY Zenon, <1>1, IdleInv
<1>2. CASE cmd' # Idle
  <2>1. /\ cmd.pc = "depend" /\ cmd.requests # <<>> /\ UNCHANGED tree
        /\ Enqueue(d.name, d.version, rest)
    BY Zenon, <1>2 DEF QueueDependency
  <2>2. /\ CmdOK(cmd) /\ NamesDistinct(cmd.queue) /\ TextInv /\ cmd.queue \in Seq(Request)
        /\ cmd.requests \in Seq(Request)
    BY Zenon DEF CmdInv, CmdOK
  <2>3. /\ d \in Request /\ Tail(cmd.requests) \in Seq(Request)
        /\ \A e \in ToSet(cmd.requests) : e = d \/ e \in ToSet(Tail(cmd.requests))
    BY <2>1, <2>2, HeadOrTail
  <2>4. d.name \in STRING /\ d.version \in Nat /\ d = [name |-> d.name, version |-> d.version]
    BY <2>3 DEF Request
  <2>16. rest = [cmd EXCEPT !.requests = Tail(cmd.requests)]
    BY Zenon
  <2> HIDE DEF d, rest
  <2>5. /\ rest.queue = cmd.queue /\ CmdOK(rest) /\ rest.requests = Tail(cmd.requests)
        /\ rest.at = cmd.at /\ rest.text = cmd.text /\ rest.spaces = cmd.spaces
        /\ rest.version = cmd.version /\ rest.local = cmd.local /\ rest.pc = "depend"
    BY Zenon, <2>1, <2>2, <2>3, <2>16 DEF CmdOK
  <2>6. QueueTakes(cmd.queue, d.name, d.version) /\ cmd' = [rest EXCEPT !.queue = q]
    BY Zenon, <1>2, <2>1, <2>5 DEF Enqueue, Fail
  <2>7. QueueGrows(cmd.queue, q) /\ (d.version # NoVersion => Queued(q, d))
    BY Zenon, <2>2, <2>4, <2>6, RestoreQueueAddKeeps
  <2> HIDE DEF q
  <2>8. /\ CmdOK(cmd)' /\ cmd'.queue = q /\ cmd'.at = cmd.at /\ cmd'.text = cmd.text
        /\ cmd'.spaces = cmd.spaces /\ cmd'.version = cmd.version /\ cmd'.local = cmd.local
        /\ cmd'.pc = "depend" /\ cmd'.requests = Tail(cmd.requests)
    BY Zenon, <2>5, <2>6, <2>7 DEF CmdOK, QueueGrows
  <2>9. TextInv'
    BY Zenon, <2>1, <2>2, <2>7, <2>8, TextKept
  <2>10. cmd.at \in 1..Len(cmd.queue) /\ cmd.pc \in AtPackage
    BY Zenon, <2>1, EntryPlace DEF AtPackage
  <2>11. Len(cmd.queue) \in Nat /\ Len(q) \in Nat /\ Len(cmd.queue) <= Len(q)
    BY <2>2, <2>7 DEF QueueGrows
  <2>12. Position'
    <3>1. cmd.at = Len(cmd.text) + 1 /\ Len(cmd.text) \in Nat /\ Len(cmd.text) <= Len(q)
      BY <2>10, <2>11, EntryPlace
    <3> QED
      BY Zenon, <2>8, <3>1 DEF Position, InLoop
  <2>13. /\ Entry'.name = Entry.name /\ Entry'.version = cmd.version /\ Content' = Content
    <3>1. Entry.version = cmd.version /\ cmd.version # NoVersion
      BY Zenon, <2>10, VersionIsNat DEF CmdInv, PackageChosen
    <3>2. Entry'.name = Entry.name /\ Entry'.version = cmd.version
      BY Zenon, <2>7, <2>8, <2>10, <3>1 DEF QueueGrows, Entry
    <3> QED
      BY Zenon, <2>1, <2>8, <3>2 DEF Content
  <2>14. PackageChosen'
    <3>1. cmd'.at <= Len(cmd'.queue)
      BY <2>8, <2>10, <2>11
    <3> QED
      BY Zenon, <2>1, <2>8, <2>10, <2>13, <3>1 DEF CmdInv, PackageChosen
  <2>15. EntryClosed'
    BY Zenon, <2>1, <2>2, <2>3, <2>7, <2>8, <2>13, QueuedStays DEF CmdInv, EntryClosed
  <2> QED
    BY Zenon, <2>7, <2>8, <2>9, <2>12, <2>14, <2>15 DEF CmdInv, QueueGrows
<1> QED
  BY <1>1, <1>2

\* A package whose dependencies are queued and whose namespaces are new goes
\* into the text, in the version its directory has.
LEMMA AddToLockTextKeeps ==
    ASSUME CmdInv, AddToLockText PROVE CmdInv'
<1> DEFINE n == Len(cmd.text)
           line == [name |-> Entry.name, version |-> cmd.version,
                    local |-> cmd.local # NoOverride, content |-> Content]
<1>1. CASE cmd' = Idle
  BY Zenon, <1>1, IdleInv
<1>2. CASE cmd' # Idle
  <2>1. /\ cmd.pc = "depend" /\ cmd.requests = <<>> /\ UNCHANGED tree
        /\ SourceNamespaces(Entry.name, Content) \cap cmd.spaces = {}
        /\ cmd' = [cmd EXCEPT !.pc = "record", !.at = cmd.at + 1,
                     !.spaces = cmd.spaces \cup SourceNamespaces(Entry.name, Content),
                     !.text = Append(cmd.text, line)]
    BY Zenon, <1>2 DEF AddToLockText, Fail, NamespaceSeen
  <2>2. /\ CmdOK(cmd) /\ NamesDistinct(cmd.queue) /\ TextInv /\ cmd.queue \in Seq(Request)
        /\ cmd.text \in Seq(LockLine) /\ cmd.at \in Nat
    BY Zenon DEF CmdInv, CmdOK
  <2>3. /\ cmd.at = n + 1 /\ cmd.at \in 1..Len(cmd.queue) /\ n \in Nat
        /\ Len(cmd.queue) \in Nat /\ cmd.pc \in AtPackage
    BY Zenon, <2>1, EntryPlace DEF AtPackage
  <2>4. /\ Content \in Versions /\ Entry.name \in Packages
        /\ cmd.local # NoOverride \/ tree[Entry.name] = cmd.version
        /\ cmd.version \in Versions /\ Entry.version = cmd.version
    BY Zenon, <2>1, <2>3, ContentIsVersion DEF CmdInv, PackageChosen
  <2>5. /\ line \in LockLine /\ line.name = Entry.name /\ line.version = cmd.version
        /\ line.content = Content /\ (~line.local => cmd.local = NoOverride)
    BY Zenon, <2>4 DEF LockLine
  <2> HIDE DEF line
  <2>6. /\ Append(cmd.text, line) \in Seq(LockLine)
        /\ Len(Append(cmd.text, line)) = n + 1
        /\ \A i \in 1..n : Append(cmd.text, line)[i] = cmd.text[i]
        /\ Append(cmd.text, line)[n + 1] = line
        /\ \A i \in 1..(n + 1) : i \in 1..n \/ i = n + 1
        /\ \A i \in 1..n : i # n + 1
    BY <2>2, <2>5
  <2>7. /\ cmd'.text = Append(cmd.text, line) /\ cmd'.queue = cmd.queue
        /\ cmd'.pc = "record" /\ cmd'.at = cmd.at + 1
        /\ cmd'.spaces = cmd.spaces \cup Spaces(line)
    BY Zenon, <2>1, <2>2, <2>5 DEF CmdOK, Spaces, SourceNamespaces
  <2>8. CmdOK(cmd)'
    <3>1. cmd.at + 1 \in Nat
      BY <2>2
    <3> QED
      BY Zenon, <2>1, <2>2, <2>6, <3>1 DEF CmdOK
  <2>9. Position'
    BY <2>3, <2>6, <2>7 DEF Position, InLoop
  <2>10. PackageChosen' /\ EntryClosed'
    BY Zenon, <2>7 DEF PackageChosen, EntryClosed, AtPackage
  <2>11. TextInQueue'
    <3>1. n + 1 <= Len(cmd.queue)
      BY <2>3
    <3> QED
      BY ZenonT(30), <2>2, <2>3, <2>4, <2>5, <2>6, <2>7, <3>1 DEF TextInv, TextInQueue, Entry
  <2>12. TextClosed'
    <3>1. Deps(line) = ToSet(SourceDependencies(Entry.name, Content))
      BY Zenon, <2>5 DEF Deps, SourceDependencies
    <3>2. \A d : d \notin ToSet(cmd.requests)
      BY <2>1 DEF ToSet
    <3>3. \A d \in Deps(line) : d.version # NoVersion /\ Queued(cmd.queue, d)
      BY Zenon, <2>1, <3>1, <3>2 DEF CmdInv, EntryClosed
    <3> QED
      BY Zenon, <2>2, <2>6, <2>7, <3>3 DEF TextInv, TextClosed
  <2>13. SpacesApart'
    <3>1. Spaces(line) \cap cmd.spaces = {}
      BY Zenon, <2>1, <2>5 DEF Spaces, SourceNamespaces
    <3>2. ASSUME NEW i \in 1..n PROVE Spaces(cmd.text[i]) \subseteq cmd.spaces
      BY Zenon, <2>2 DEF TextInv, SpacesApart
    <3>3. ASSUME NEW i \in 1..n
          PROVE  /\ Spaces(cmd.text[i]) \cap Spaces(line) = {}
                 /\ Spaces(line) \cap Spaces(cmd.text[i]) = {}
      BY Zenon, <3>1, <3>2
    <3>4. \A i, j \in 1..n : i # j => Spaces(cmd.text[i]) \cap Spaces(cmd.text[j]) = {}
      BY Zenon, <2>2 DEF TextInv, SpacesApart
    <3>5. \A i, j \in 1..Len(cmd'.text) : i # j =>
             Spaces(cmd'.text[i]) \cap Spaces(cmd'.text[j]) = {}
      BY Zenon, <2>6, <2>7, <3>3, <3>4
    <3>6. \A i \in 1..Len(cmd'.text) : Spaces(cmd'.text[i]) \subseteq cmd'.spaces
      BY Zenon, <2>6, <2>7, <3>2
    <3> QED
      BY Zenon, <3>5, <3>6 DEF SpacesApart
  <2>14. TreeMatchesText'
    <3>1. ~line.local => tree[line.name] = line.version
      BY Zenon, <2>4, <2>5
    <3>2. \A i \in 1..n : ~cmd.text[i].local => tree[cmd.text[i].name] = cmd.text[i].version
      BY Zenon, <2>2 DEF TextInv, TreeMatchesText
    <3>3. \A i \in 1..Len(cmd'.text) :
             ~cmd'.text[i].local => tree[cmd'.text[i].name] = cmd'.text[i].version
      <4> SUFFICES ASSUME NEW i \in 1..(n + 1), cmd'.text[i] = Append(cmd.text, line)[i],
                          ~cmd'.text[i].local
                   PROVE  tree[cmd'.text[i].name] = cmd'.text[i].version
        BY Zenon, <2>6, <2>7
      <4>1. CASE i \in 1..n
        <5>1. cmd'.text[i] = cmd.text[i]
          BY Zenon, <2>6, <4>1
        <5> QED
          BY Zenon, <3>2, <4>1, <5>1
      <4>2. CASE i = n + 1
        <5>1. cmd'.text[i] = line
          BY Zenon, <2>6, <4>2
        <5> QED
          BY Zenon, <3>1, <5>1
      <4> QED
        BY Zenon, <2>6, <4>1, <4>2
    <3> QED
      BY Zenon, <2>1, <3>3 DEF TreeMatchesText
  <2> QED
    BY Zenon, <2>2, <2>7, <2>8, <2>9, <2>10, <2>11, <2>12, <2>13, <2>14 DEF CmdInv, TextInv
<1> QED
  BY <1>1, <1>2

\* The lock file is written when the loop is through the queue.
LEMMA TruncateLockKeeps ==
    ASSUME CmdInv, TruncateLock PROVE CmdInv'
<1>1. /\ CmdOK(cmd) /\ NamesDistinct(cmd.queue) /\ TextInv /\ cmd.queue \in Seq(Request)
      /\ cmd.text \in Seq(LockLine)
  BY Zenon DEF CmdInv, CmdOK
<1>2. cmd.pc = "record" /\ ~More /\ UNCHANGED tree /\ cmd' = [cmd EXCEPT !.pc = "lock"]
  BY Zenon DEF TruncateLock
<1>3. /\ CmdOK(cmd)' /\ cmd'.pc = "lock" /\ cmd'.queue = cmd.queue /\ cmd'.text = cmd.text
      /\ cmd'.at = cmd.at /\ cmd'.spaces = cmd.spaces
  BY Zenon, <1>1, <1>2 DEF CmdOK
<1>4. Position'
  <2>1. cmd.at = Len(cmd.text) + 1 /\ Len(cmd.text) <= Len(cmd.queue)
    BY Zenon, <1>2 DEF CmdInv, Position, InLoop
  <2>2. Len(cmd.text) = Len(cmd.queue)
    BY <1>1, <1>2, <2>1 DEF More
  <2> QED
    BY Zenon, <1>3, <2>1, <2>2 DEF Position, InLoop
<1>5. PackageChosen' /\ EntryClosed'
  BY Zenon, <1>3 DEF PackageChosen, EntryClosed, AtPackage
<1>6. TextInv'
  BY Zenon, <1>1, <1>2, <1>3, QueueGrowsSelf, TextKept
<1> QED
  BY Zenon, <1>1, <1>3, <1>4, <1>5, <1>6 DEF CmdInv

-----------------------------------------------------------------------------
(* The package manager *)

LEMMA CmdInvStep == ASSUME FilesOK, CmdInv, PmNext PROVE CmdInv'
<1>1. CASE WriteLock \/ GitFails \/ Killed
  BY Zenon, <1>1, IdleInv DEF WriteLock, GitFails, Killed, Fail
<1>2. CASE \/ \E p \in Packages, v \in Versions : Publish(p, v)
           \/ \E o \in Overrides : Configure(o[1], o[2], o[3])
           \/ \E p \in ToolPackages : InstallTool(p)
           \/ RepairManifest
  BY Zenon, <1>2, CmdKept DEF Publish, Configure, InstallTool, RepairManifest, Edit
<1>3. CASE \/ StartRestore \/ \E p \in Packages : StartRemove(p)
           \/ \E spec \in AddSpecs : StartAdd(spec[1], spec[2])
  BY Zenon, <1>3, PreparationKeeps
<1>4. CASE PmStep
  BY Zenon, <1>1, <1>4, PreparationKeeps, ChooseVersionKeeps, GitKeeps, LoadMetadataKeeps,
     QueueDependencyKeeps, AddToLockTextKeeps, TruncateLockKeeps DEF PmStep
<1> QED
  BY Zenon, <1>1, <1>2, <1>3, <1>4 DEF PmNext

LEMMA FilesStep == ASSUME FilesOK, CmdInv, PmNext PROVE FilesOK'
<1>1. tree' \in [Packages -> Int]
  <2>1. CASE UNCHANGED tree
    BY Zenon, <2>1 DEF FilesOK
  <2>2. CASE GitClone \/ GitCheckout
    <3>1. FreshClone \in Int /\ cmd.version \in Int
      BY DEF FreshClone, CmdInv, CmdOK
    <3>2. \E v \in Int : tree' = [tree EXCEPT ![Entry.name] = v] \/ tree' = tree
      BY Zenon, <2>2, <3>1 DEF GitClone, GitCheckout
    <3> QED
      BY <3>2 DEF FilesOK
  <2> QED
    BY Zenon, <2>1, <2>2 DEF PmNext, StartRestore, StartRemove, StartAdd, PmStep,
       TruncateManifest, WriteManifest, ResolveRegistry, ScanManifest, ScanInclude, ScanEnds,
       ChooseVersion, LoadMetadata, QueueDependency, AddToLockText, TruncateLock, WriteLock,
       GitFails, Killed, Publish, Configure, InstallTool, RepairManifest, Edit
<1>2. registry' \in [Packages -> RegistryRecord]
  <2>1. CASE UNCHANGED registry
    BY Zenon, <2>1 DEF FilesOK
  <2>2. ASSUME NEW p \in Packages, NEW v \in Versions, Publish(p, v)
        PROVE  registry' \in [Packages -> RegistryRecord]
    <3>1. PICK d \in {registry[p].default, v} : registry' = [registry EXCEPT ![p] =
             [default |-> d, published |-> Append(registry[p].published, v)]]
      BY Zenon, <2>2 DEF Publish
    <3>2. /\ registry[p].default \in Versions \cup {NoVersion}
          /\ registry[p].published \in Seq(Versions)
      BY DEF FilesOK, RegistryRecord
    <3>3. [default |-> d, published |-> Append(registry[p].published, v)] \in RegistryRecord
      BY <3>2 DEF RegistryRecord
    <3> QED
      BY Zenon, <3>1, <3>3 DEF FilesOK
  <2> QED
    BY Zenon, <2>1, <2>2 DEF PmNext, StartRestore, StartRemove, StartAdd, PmStep,
       TruncateManifest, WriteManifest, ResolveRegistry, ScanManifest, ScanInclude, ScanEnds,
       ChooseVersion, GitClone, GitCheckout, LoadMetadata, QueueDependency, AddToLockText,
       TruncateLock, WriteLock, GitFails, Killed, Configure, InstallTool, RepairManifest
<1>3. config' \in [Packages -> [shared : Dirs, local : Dirs]]
  <2>1. CASE UNCHANGED config
    BY Zenon, <2>1 DEF FilesOK
  <2>2. ASSUME NEW o \in Overrides, Configure(o[1], o[2], o[3])
        PROVE  config' \in [Packages -> [shared : Dirs, local : Dirs]]
    <3>1. o[1] \in Packages /\ o[2] \in {"shared", "local"} /\ o[3] \in Dirs
      BY PmAssumption
    <3>2. config' = [config EXCEPT ![o[1]][o[2]] = o[3]]
      BY Zenon, <2>2 DEF Configure
    <3>3. config[o[1]] \in [shared : Dirs, local : Dirs]
      BY Zenon, <3>1 DEF FilesOK
    <3>4. [config[o[1]] EXCEPT ![o[2]] = o[3]] \in [shared : Dirs, local : Dirs]
      BY <3>1, <3>3
    <3> QED
      BY Zenon, <3>1, <3>2, <3>4 DEF FilesOK
  <2> QED
    BY Zenon, <2>1, <2>2 DEF PmNext, StartRestore, StartRemove, StartAdd, PmStep,
       TruncateManifest, WriteManifest, ResolveRegistry, ScanManifest, ScanInclude, ScanEnds,
       ChooseVersion, GitClone, GitCheckout, LoadMetadata, QueueDependency, AddToLockText,
       TruncateLock, WriteLock, GitFails, Killed, Publish, InstallTool, RepairManifest
<1> QED
  BY Zenon, <1>1, <1>2, <1>3 DEF FilesOK

\* The lock file changes only at the end of a restore and in a kill.
LEMMA LockStep == ASSUME CmdInv, LockClosed, PmNext PROVE LockClosed'
<1>1. CASE UNCHANGED lock
  BY Zenon, <1>1 DEF LockClosed
<1>2. CASE TruncateLock
  BY Zenon, <1>2 DEF TruncateLock, LockClosed
<1>3. CASE WriteLock
  <2>1. cmd.pc = "lock" /\ lock'.entries = cmd.text
    BY Zenon, <1>3 DEF WriteLock
  <2>2. Consistent(ToSet(cmd.text))
    BY Zenon, <2>1, TextConsistent DEF CmdInv, Position
  <2> QED
    BY Zenon, <2>1, <2>2 DEF LockClosed
<1>4. CASE Killed
  <2>1. CASE cmd.pc = "lock"
    <3>1. PICK n \in 0..Len(cmd.text) :
             lock' = [entries |-> SubSeq(cmd.text, 1, n), whole |-> FALSE]
      BY Zenon, <1>4, <2>1 DEF Killed
    <3>2. lock'.whole = FALSE
      BY Zenon, <3>1
    <3> QED
      BY Zenon, <3>2 DEF LockClosed
  <2>2. CASE cmd.pc # "lock"
    BY Zenon, <1>1, <1>4, <2>2 DEF Killed
  <2> QED
    BY Zenon, <2>1, <2>2
<1> QED
  BY Zenon, <1>1, <1>2, <1>3, <1>4 DEF PmNext, StartRestore, StartRemove, StartAdd, PmStep,
     TruncateManifest, WriteManifest, ResolveRegistry, ScanManifest, ScanInclude, ScanEnds,
     ChooseVersion, GitClone, GitCheckout, LoadMetadata, QueueDependency, AddToLockText,
     GitFails, Publish, Configure, InstallTool, RepairManifest, Edit

\* A command ends well only by writing the lock file.
LEMMA EndsWithLock ==
    ASSUME CmdInv, PmNext, ~WriteLock, ~UNCHANGED <<cmd, result, lock, tree>>
    PROVE  cmd' # Idle \/ result' # "ok"
<1>1. CASE Fail \/ Killed
  BY Zenon, <1>1 DEF Fail, Killed
<1>2. ASSUME NEW op, NEW pc, NEW next, Begin(op, pc, next), pc # "idle"
      PROVE  cmd' # Idle
  <2>1. cmd'.pc = pc
    BY Zenon, <1>2 DEF Begin, Idle
  <2> QED
    BY Zenon, <1>2, <2>1, IdleFields
<1>3. CASE StartRestore
  BY Zenon, <1>2, <1>3 DEF StartRestore
<1>4. ASSUME NEW p, StartRemove(p) PROVE Fail \/ cmd' # Idle
  BY Zenon, <1>2, <1>4 DEF StartRemove
<1>5. ASSUME NEW p, NEW v, StartAdd(p, v) PROVE Fail \/ cmd' # Idle
  BY Zenon, <1>2, <1>5 DEF StartAdd
<1>6. CmdOK(cmd) /\ Idle.pc = "idle"
  BY Zenon, IdleFields DEF CmdInv
<1>7. ASSUME PmStep PROVE Fail \/ cmd' # Idle
  <2>1. CASE \/ TruncateManifest \/ WriteManifest \/ ResolveRegistry \/ ScanManifest
             \/ ScanEnds \/ GitClone \/ GitCheckout \/ TruncateLock
    <3>1. PICK pc \in {"write", "registry", "scan", "include", "record", "fetch", "metadata",
                       "lock"} : cmd'.pc = pc
      BY Zenon, <1>6, <2>1 DEF CmdOK, TruncateManifest, WriteManifest, ResolveRegistry,
         ScanManifest, ScanEnds, GitClone, GitCheckout, TruncateLock
    <3> QED
      BY Zenon, <1>6, <3>1
  <2>2. CASE ScanInclude \/ QueueDependency
    <3>1. Fail \/ cmd'.pc = cmd.pc
      BY Zenon, <1>6, <2>2 DEF CmdOK, ScanInclude, QueueDependency, Enqueue
    <3>2. cmd.pc # "idle"
      BY Zenon, <2>2 DEF ScanInclude, QueueDependency
    <3> QED
      BY Zenon, <1>6, <3>1, <3>2
  <2>3. CASE ChooseVersion \/ LoadMetadata \/ AddToLockText
    <3>1. Fail \/ cmd'.pc \in {"clone", "metadata", "depend", "record"}
      BY Zenon, <1>6, <2>3 DEF CmdOK, ChooseVersion, LoadMetadata, AddToLockText
    <3> QED
      BY Zenon, <1>6, <3>1
  <2> QED
    BY Zenon, <1>7, <2>1, <2>2, <2>3 DEF PmStep
<1>8. CASE GitFails
  BY Zenon, <1>1, <1>8 DEF GitFails
<1> QED
  BY Zenon, <1>1, <1>3, <1>4, <1>5, <1>7, <1>8 DEF PmNext, Publish, Configure, InstallTool,
     RepairManifest, Edit

LEMMA TreeStep == ASSUME CmdInv, TreeMatchesLock, PmNext PROVE TreeMatchesLock'
<1>1. CASE UNCHANGED <<cmd, result, lock, tree>>
  BY Zenon, <1>1 DEF TreeMatchesLock
<1>2. CASE WriteLock
  <2>1. lock'.entries = cmd.text /\ UNCHANGED tree
    BY Zenon, <1>2 DEF WriteLock
  <2>2. ASSUME NEW e \in ToSet(cmd.text) PROVE \E i \in 1..Len(cmd.text) : e = cmd.text[i]
    BY DEF ToSet, CmdInv, CmdOK
  <2>3. \A e \in ToSet(cmd.text) : ~e.local => tree[e.name] = e.version
    BY Zenon, <2>2 DEF CmdInv, TextInv, TreeMatchesText
  <2> QED
    BY Zenon, <2>1, <2>3 DEF TreeMatchesLock
<1> QED
  BY Zenon, <1>1, <1>2, EndsWithLock DEF TreeMatchesLock

LEMMA PmInvInit == Init => PmInv
<1> SUFFICES ASSUME PmInit PROVE PmInv
  BY Zenon DEF Init
<1>1. PICK p \in FirstProjects :
         /\ lock = [entries |-> p.entries, whole |-> p.entries # <<>>]
         /\ tree = p.tree
  BY Zenon DEF PmInit
<1>2. p.tree \in [Packages -> Int] /\ Consistent(ToSet(p.entries))
  BY Zenon, PmAssumption
<1>3. lock.entries = p.entries
  BY Zenon, <1>1
<1>4. config \in [Packages -> [shared : Dirs, local : Dirs]]
  BY DEF PmInit, Dirs
<1>5. registry \in [Packages -> RegistryRecord]
  BY Zenon, PmAssumption DEF PmInit
<1>6. CmdInv
  <2>1. cmd = Idle /\ cmd.queue = <<>> /\ cmd.text = <<>> /\ cmd.pc = "idle"
    BY Zenon, IdleFields DEF PmInit
  <2>2. CmdOK(cmd) /\ NamesDistinct(cmd.queue)
    BY Zenon, <2>1, IdleFields, NoNames
  <2>3. \A i \in 1..Len(cmd.text) : FALSE
    BY <2>1
  <2>4. Position /\ PackageChosen /\ EntryClosed
    BY Zenon, <2>1 DEF Position, PackageChosen, EntryClosed, InLoop, AtPackage
  <2>5. TextInv
    BY Zenon, <2>3 DEF TextInv, TextInQueue, TextClosed, SpacesApart, TreeMatchesText
  <2> QED
    BY Zenon, <2>2, <2>4, <2>5 DEF CmdInv
<1>7. LockClosed /\ TreeMatchesLock
  BY Zenon, <1>2, <1>3 DEF LockClosed, TreeMatchesLock, PmInit
<1> QED
  BY Zenon, <1>1, <1>2, <1>4, <1>5, <1>6, <1>7 DEF PmInv, FilesOK

\* Tools and builds change no file of the package manager.
LEMMA PmInvStep == ASSUME PmInv, [Next]_vars PROVE PmInv'
<1>1. CASE PmBesideBuild
  BY Zenon, <1>1, CmdInvStep, FilesStep, LockStep, TreeStep DEF PmInv, PmBesideBuild
<1>2. CASE UNCHANGED <<lock, tree, registry, config, cmd, result>>
  BY Zenon, <1>2, CmdKept DEF PmInv, FilesOK, LockClosed, TreeMatchesLock
<1>3. CASE ToolNext
  BY Zenon, <1>2, <1>3 DEF ToolNext, StartTool, ChildExits, ToolStep, PollChild,
     SleepOneSecond, pmVars
<1>4. CASE BuildNext
  BY Zenon, <1>2, <1>4 DEF BuildNext, StartBuild, BuildStep, PreferArtifact, LookupCache,
     CompileSources, TruncateOutput, WriteOutput, TruncateCacheFile, WriteCacheFile,
     BuildKilled, EditEntry, Edit, Clean, pmVars
<1> QED
  BY Zenon, <1>1, <1>2, <1>3, <1>4 DEF Next, vars, pmVars

\* A lock file that is there in full is consistent: no package in two versions,
\* every dependency in the version asked for, no namespace twice; for any
\* packages, descriptors and manifests, and however commands fail, are killed or
\* meet a changed registry (ailang_package_manager_restore).
THEOREM LockAlwaysClosed == Spec => []LockClosed
<1>1. PmInv => LockClosed
  BY Zenon DEF PmInv
<1> QED
  BY <1>1, PmInvInit, PmInvStep, PTL DEF Spec

\* After a command that succeeded, the directory of every locked package holds
\* the locked commit (pm_clone_checkout before the lock entry is appended).
THEOREM TreeAlwaysMatches == Spec => []TreeMatchesLock
<1>1. PmInv => TreeMatchesLock
  BY Zenon DEF PmInv
<1> QED
  BY <1>1, PmInvInit, PmInvStep, PTL DEF Spec

-----------------------------------------------------------------------------
(* Builds *)

\* The source graph is read from the entry file, the lock and the directories.
LEMMA GraphKept ==
    ASSUME UNCHANGED <<lock, tree, entry>>
    PROVE  SourceGraph' = SourceGraph
<1>1. ASSUME NEW p PROVE PackageContent(p)' = PackageContent(p)
  BY Zenon DEF PackageContent, LockEntry, SelectInSeq
<1>2. [p \in Packages |-> PackageContent(p)]' = [p \in Packages |-> PackageContent(p)]
  BY <1>1
<1> QED
  BY Zenon, <1>2 DEF SourceGraph

LEMMA NoBuildShape ==
    /\ BuildShape(NoBuild)
    /\ NoBuild.pc = "none" /\ NoBuild.via = "" /\ NoBuild.clean = TRUE
  BY Zenon DEF NoBuild, BuildShape

LEMMA BuildInvInit == ASSUME Init PROVE BuildInv
<1>1. build = NoBuild /\ cache = {} /\ outs = [project |-> NoFile, sibling |-> NoFile]
  BY Zenon DEF Init, BuildInit
<1>2. BuildTypeOK
  BY Zenon, <1>1, NoBuildShape DEF BuildTypeOK
<1>3. CacheSound
  BY Zenon, <1>1 DEF CacheSound
<1>4. ArtCurrent /\ CompiledClean
  BY Zenon, <1>1, NoBuildShape DEF ArtCurrent, CompiledClean
<1> QED
  BY Zenon, <1>2, <1>3, <1>4 DEF BuildInv

LEMMA BuildKept ==
    ASSUME BuildInv, UNCHANGED buildVars, SourceGraph' = SourceGraph
    PROVE  BuildInv'
  BY Zenon DEF BuildInv, BuildTypeOK, BuildShape, CacheSound, ArtCurrent, CompiledClean,
               buildVars, OutOf

LEMMA BuildDisturbed ==
    ASSUME BuildInv, UNCHANGED <<outs, cache>>,
           build' = [build EXCEPT !.disturbed = TRUE]
    PROVE  BuildInv'
<1>1. /\ build'.pc = build.pc /\ build'.input = build.input /\ build'.via = build.via
      /\ build'.art = build.art /\ build'.clean = build.clean /\ build'.disturbed = TRUE
      /\ BuildShape(build)'
  BY Zenon DEF BuildInv, BuildTypeOK, BuildShape
<1> QED
  BY Zenon, <1>1 DEF BuildInv, BuildTypeOK, CacheSound, ArtCurrent, CompiledClean, OutOf

\* handle_build, resolve_input_to_aibc1 and the lookup choose where the artifact
\* comes from; a cache file that is taken holds the program of the sources.
LEMMA BuildChooses ==
    ASSUME BuildInv,
           \/ \E input, useCache : StartBuild(input, useCache)
           \/ PreferArtifact \/ LookupCache \/ CompileSources
    PROVE  BuildInv'
<1>1. UNCHANGED <<lock, tree, entry, outs, cache>>
  BY Zenon DEF StartBuild, PreferArtifact, LookupCache, CompileSources, pmVars
<1>2. SourceGraph' = SourceGraph
  BY Zenon, <1>1, GraphKept
<1>3. CacheSound' /\ (DOMAIN outs = {"project", "sibling"})'
  BY Zenon, <1>1 DEF BuildInv, BuildTypeOK, CacheSound
<1>4. CASE \E input, useCache : StartBuild(input, useCache)
  <2>1. PICK input, useCache : StartBuild(input, useCache)
    BY Zenon, <1>4
  <2>2. BuildShape(build)' /\ build'.pc = "resolve" /\ build'.clean = TRUE /\ build'.via = ""
    BY Zenon, <2>1, NoBuildShape DEF StartBuild, BuildShape
  <2> QED
    BY Zenon, <1>3, <2>2 DEF BuildInv, BuildTypeOK, ArtCurrent, CompiledClean
<1>5. CASE PreferArtifact
  <2>1. /\ BuildShape(build)' /\ build'.clean = build.clean
        /\ build'.disturbed = build.disturbed
        /\ \/ build'.pc = "copy" /\ build'.via = "artifact"
           \/ build'.pc = "lookup" /\ build'.via = build.via
    BY Zenon, <1>5 DEF PreferArtifact, BuildInv, BuildTypeOK, BuildShape
  <2>2. build.clean
    BY Zenon, <1>5 DEF PreferArtifact, BuildInv, CompiledClean
  <2> QED
    BY Zenon, <1>3, <2>1, <2>2 DEF BuildInv, BuildTypeOK, ArtCurrent, CompiledClean
<1>6. CASE LookupCache
  <2>1. build.pc = "lookup" /\ build.clean /\ BuildShape(build)
    BY Zenon, <1>6 DEF LookupCache, BuildInv, CompiledClean, BuildTypeOK
  <2>2. CASE build' = [build EXCEPT !.pc = "compile"]
    <3>1. BuildShape(build)' /\ build'.pc = "compile" /\ build'.clean = build.clean
      BY Zenon, <2>1, <2>2 DEF BuildShape
    <3> QED
      BY Zenon, <1>3, <2>1, <3>1 DEF BuildInv, BuildTypeOK, ArtCurrent, CompiledClean
  <2>3. CASE build' # [build EXCEPT !.pc = "compile"]
    <3>1. /\ \E e \in Cached(CacheKey) : Supported(e.art)
          /\ build' = LET e == CHOOSE e \in Cached(CacheKey) : TRUE IN
                [build EXCEPT !.pc = "copy", !.via = "cache", !.art = e.art, !.clean = e.clean]
      BY Zenon, <1>6, <2>3 DEF LookupCache
    <3>2. PICK e \in Cached(CacheKey) : Supported(e.art)
      BY Zenon, <3>1
    <3>3. \A f \in Cached(CacheKey) : f = e
      BY Zenon, <3>2 DEF BuildInv, CacheSound, Cached
    <3>4. (CHOOSE f \in Cached(CacheKey) : TRUE) = e
      BY Zenon, <3>2, <3>3
    <3>5. build' = [build EXCEPT !.pc = "copy", !.via = "cache", !.art = e.art, !.clean = e.clean]
      BY Zenon, <3>1, <3>4
    <3>6. e.clean \in BOOLEAN /\ (e.clean => e.art = SourceGraph)
      BY Zenon, <3>2 DEF BuildInv, CacheSound, Cached, Supported, CacheKey
    <3>7. /\ BuildShape(build)' /\ build'.pc = "copy" /\ build'.via = "cache"
          /\ build'.art = e.art /\ build'.clean = e.clean
      BY Zenon, <2>1, <3>5, <3>6 DEF BuildShape
    <3> QED
      BY Zenon, <1>2, <1>3, <3>6, <3>7 DEF BuildInv, BuildTypeOK, ArtCurrent, CompiledClean
  <2> QED
    BY Zenon, <2>2, <2>3
<1>7. CASE CompileSources
  <2>1. build.clean /\ BuildShape(build)
    BY Zenon, <1>7 DEF CompileSources, BuildInv, CompiledClean, BuildTypeOK
  <2>2. /\ BuildShape(build)' /\ build'.clean = build.clean
        /\ \/ build'.pc = "failed" /\ build'.via = build.via
           \/ build'.pc = "copy" /\ build'.via = "compile" /\ build'.art = SourceGraph
    BY Zenon, <1>7, <2>1 DEF CompileSources, BuildShape
  <2> QED
    BY Zenon, <1>2, <1>3, <2>1, <2>2 DEF BuildInv, BuildTypeOK, ArtCurrent, CompiledClean
<1> QED
  BY Zenon, <1>4, <1>5, <1>6, <1>7

\* copy_file and write_program_as_aibc1 write the artifact in two steps, to the
\* output and then to the cache under the key computed again.
LEMMA BuildWrites ==
    ASSUME BuildInv,
           TruncateOutput \/ WriteOutput \/ TruncateCacheFile \/ WriteCacheFile
    PROVE  BuildInv'
<1>1. UNCHANGED <<lock, tree, entry>>
  BY Zenon DEF TruncateOutput, WriteOutput, TruncateCacheFile, WriteCacheFile, pmVars
<1>2. SourceGraph' = SourceGraph
  BY Zenon, <1>1, GraphKept
<1>3. /\ BuildShape(build) /\ OutOf(build.input) \in {"project", "sibling"}
      /\ DOMAIN outs = {"project", "sibling"}
  BY Zenon DEF BuildInv, BuildTypeOK, OutOf
<1>4. ASSUME NEW art
      PROVE  LET o == [outs EXCEPT ![OutOf(build.input)] = art] IN
             DOMAIN o = {"project", "sibling"} /\ o[OutOf(build.input)] = art
  BY Zenon, <1>3
<1>5. CASE TruncateOutput
  <2>1. /\ BuildShape(build)' /\ build'.pc = "output" /\ build.pc = "copy"
        /\ build'.via = build.via /\ build'.disturbed = build.disturbed
        /\ build'.clean = build.clean /\ build'.art = build.art /\ UNCHANGED cache
    BY Zenon, <1>3, <1>5 DEF TruncateOutput, BuildShape
  <2>2. (DOMAIN outs = {"project", "sibling"})'
    BY Zenon, <1>4, <1>5 DEF TruncateOutput
  <2> QED
    BY Zenon, <1>2, <2>1, <2>2
       DEF BuildInv, BuildTypeOK, CacheSound, ArtCurrent, CompiledClean
<1>6. CASE WriteOutput
  <2>1. /\ BuildShape(build)' /\ build'.pc \in {"key", "done"} /\ build.pc = "output"
        /\ build'.pc = "key" => build.via = "compile"
        /\ build'.via = build.via /\ build'.disturbed = build.disturbed
        /\ build'.input = build.input
        /\ build'.clean = build.clean /\ build'.art = build.art /\ UNCHANGED cache
    BY Zenon, <1>3, <1>6 DEF WriteOutput, BuildShape
  <2>2. /\ (DOMAIN outs = {"project", "sibling"})'
        /\ outs'[OutOf(build'.input)] = build'.art
    <3>1. outs' = [outs EXCEPT ![OutOf(build.input)] = build.art]
      BY Zenon, <1>6 DEF WriteOutput
    <3>2. OutOf(build'.input) = OutOf(build.input)
      BY Zenon, <2>1
    <3> QED
      BY Zenon, <1>4, <2>1, <3>1, <3>2
  <2> QED
    BY Zenon, <1>2, <2>1, <2>2
       DEF BuildInv, BuildTypeOK, CacheSound, ArtCurrent, CompiledClean
<1>7. CASE TruncateCacheFile
  <2>1. /\ BuildShape(build)' /\ build'.pc \in {"done", "store"} /\ build.pc = "key"
        /\ build'.pc = "store" => build'.key = SourceGraph
        /\ build'.via = build.via /\ build'.disturbed = build.disturbed
        /\ build'.input = build.input /\ UNCHANGED outs
        /\ build'.clean = build.clean /\ build'.art = build.art
    BY Zenon, <1>3, <1>7 DEF TruncateCacheFile, BuildShape, CacheKey
  <2>2. CacheSound'
    <3> DEFINE new == [key |-> CacheKey, art |-> Torn, clean |-> TRUE]
    <3>1. cache' = cache \/ cache' = (cache \ Cached(CacheKey)) \cup {new}
      BY Zenon, <1>7 DEF TruncateCacheFile
    <3>2. new.key = CacheKey /\ new.art = Torn /\ new.clean = TRUE
      BY Zenon
    <3> QED
      BY Zenon, <3>1, <3>2 DEF BuildInv, CacheSound, Cached
  <2> QED
    BY Zenon, <1>2, <1>3, <2>1, <2>2
       DEF BuildInv, BuildTypeOK, ArtCurrent, CompiledClean
<1>8. CASE WriteCacheFile
  <2>1. /\ BuildShape(build)' /\ build'.pc = "done" /\ build.pc = "store"
        /\ build'.via = build.via /\ build'.disturbed = build.disturbed
        /\ build'.input = build.input /\ UNCHANGED outs
        /\ build'.clean = build.clean /\ build'.art = build.art
    BY Zenon, <1>3, <1>8 DEF WriteCacheFile, BuildShape
  <2>2. CacheSound'
    <3> DEFINE new == [key |-> build.key, art |-> outs[OutOf(build.input)],
                       clean |-> ~build.disturbed]
    <3>1. cache' = (cache \ Cached(build.key)) \cup {new}
      BY Zenon, <1>8 DEF WriteCacheFile
    <3>2. /\ new.key = build.key /\ new.art = build.art /\ new.clean = ~build.disturbed
          /\ new.clean \in BOOLEAN
      BY <2>1 DEF BuildInv, ArtCurrent
    <3>3. ~build.disturbed => build.art = build.key
      BY Zenon, <2>1 DEF BuildInv, ArtCurrent, CompiledClean
    <3> HIDE DEF new
    <3> QED
      BY Zenon, <3>1, <3>2, <3>3 DEF BuildInv, CacheSound, Cached
  <2> QED
    BY Zenon, <1>2, <1>3, <2>1, <2>2
       DEF BuildInv, BuildTypeOK, ArtCurrent, CompiledClean
<1> QED
  BY Zenon, <1>5, <1>6, <1>7, <1>8

\* Every step of the command line keeps the invariant of builds.
LEMMA BuildInvStep == ASSUME BuildInv, [Next]_vars PROVE BuildInv'
<1>1. CASE UNCHANGED vars
  <2>1. UNCHANGED <<lock, tree, entry>> /\ UNCHANGED buildVars
    BY Zenon, <1>1 DEF vars, pmVars, buildVars
  <2> QED
    BY Zenon, <2>1, GraphKept, BuildKept
<1>2. CASE PmBesideBuild
  <2>1. CASE SourceGraph' = SourceGraph
    BY Zenon, <1>2, <2>1, BuildKept DEF PmBesideBuild, buildVars
  <2>2. CASE SourceGraph' # SourceGraph
    BY Zenon, <1>2, <2>2, GraphKept, BuildDisturbed DEF PmBesideBuild
  <2> QED
    BY Zenon, <2>1, <2>2
<1>3. CASE ToolNext /\ UNCHANGED buildVars
  <2>1. UNCHANGED <<lock, tree, entry>>
    BY Zenon, <1>3 DEF ToolNext, StartTool, ChildExits, ToolStep, PollChild, SleepOneSecond,
       pmVars, buildVars
  <2> QED
    BY Zenon, <1>3, <2>1, GraphKept, BuildKept
<1>4. CASE BuildNext
  <2>1. CASE BuildKilled
    <3>1. build' = NoBuild /\ UNCHANGED <<outs, cache>>
      BY Zenon, <2>1 DEF BuildKilled
    <3> QED
      BY Zenon, <3>1, NoBuildShape
         DEF BuildInv, BuildTypeOK, CacheSound, ArtCurrent, CompiledClean
  <2>2. CASE \E c \in DOMAIN EntryImports : EditEntry(c)
    BY Zenon, <2>2, BuildDisturbed DEF EditEntry
  <2>3. CASE Clean
    <3>1. UNCHANGED <<lock, tree, entry, outs, build>> /\ cache' = {}
      BY Zenon, <2>3 DEF Clean
    <3> QED
      BY Zenon, <3>1, GraphKept
         DEF BuildInv, BuildTypeOK, BuildShape, CacheSound, ArtCurrent, CompiledClean, OutOf
  <2> QED
    BY Zenon, <1>4, <2>1, <2>2, <2>3, BuildChooses, BuildWrites DEF BuildNext, BuildStep
<1> QED
  BY Zenon, <1>1, <1>2, <1>3, <1>4 DEF Next

\* A build that ends while nobody changed its sources leaves the program of the
\* current sources, whatever was edited, restored, killed or cleaned before, and
\* for any sources and any number of builds (build_input_to_aibc1).
THEOREM BuildsAlwaysCurrent == Spec => []BuildIsCurrent
<1>1. BuildInv => BuildIsCurrent
  BY Zenon DEF BuildInv, ArtCurrent, BuildIsCurrent
<1> QED
  BY <1>1, BuildInvInit, BuildInvStep, PTL DEF Spec
=============================================================================
