--------------------------- MODULE VmTasksProofs ---------------------------
(***************************************************************************)
(* Proofs about VmTasks for tables, workloads, stacks and programs of any  *)
(* size.                                                                   *)
(***************************************************************************)
EXTENDS VmTasks, FiniteSetTheorems, WellFoundedInduction, TLAPS

\* Prover time limits, in seconds.
USE SMTT(30), ZenonT(30)

Record == [kind : {"syscall", "bytecode", "worker"},
           state : {"PENDING", "COMPLETED", "CANCELED"}]

\* A table that gives out its handles in order and never exceeds its capacity.
TableOK(t, next) ==
  /\ DOMAIN t \subseteq 1..(next - 1)
  /\ t \in [DOMAIN t -> Record]
  /\ Cardinality(DOMAIN t) <= TaskCapacity

\* Workloads whose tasks got handles that were given out.
GroupsOK(gs, next) ==
  /\ gs \in Seq(Seq(Nat))
  /\ \A g \in DOMAIN gs : Len(gs[g]) <= MaxHandle
  /\ \A g \in DOMAIN gs : \A i \in DOMAIN gs[g] : gs[g][i] < next

\* What the worker runtime can know of a submission.
Stages == {"none", "queued", "running"} \cup Settled

TypeOK ==
  /\ nextHandle \in 1..(MaxHandle + 1)
  /\ TableOK(tasks, nextHandle)
  /\ GroupsOK(groups, nextHandle)
  /\ tombstones \subseteq Handles /\ Cardinality(tombstones) <= TaskCapacity
  /\ board \in [Handles -> Stages]
  /\ thread \in [Handles -> {"none", "running", "returned", "failed"}]
  /\ consumptions \in [Handles -> Nat]
  /\ program \in Programs

\* While the VM runs there are handles left for every logical task that waits.
HandlesLeft ==
  status = "RUNNING" =>
    nextHandle + Cardinality(OpenSlots(groups)) <= program.handles + 1

\* A result that was consumed has left the table, and its handle is spent.
ConsumedGone ==
  /\ \A h \in Handles : consumptions[h] <= 1
  /\ \A h \in Handles : h >= nextHandle => consumptions[h] = 0
  /\ status = "RUNNING" => \A h \in DOMAIN tasks : consumptions[h] = 0

Inv ==
  /\ TypeOK
  /\ HandlesLeft
  /\ ConsumedGone
  /\ WorkFollowsTable
  /\ CanonicalWindow
  /\ NoStrandedWork

\* Init and the inductive step need no more of the constants than this.
USE VmTasksAssumption DEF Handles, NoHandle

-----------------------------------------------------------------------------
(* Numbers, and the order in which workloads are served.                   *)

\* A slot of a workload has a number below the next handle, and below every
\* later one.
LEMMA GroupSlot ==
    ASSUME NEW gs, NEW next \in Nat, GroupsOK(gs, next), NEW g \in DOMAIN gs,
           NEW i \in DOMAIN gs[g]
    PROVE  gs[g][i] \in Nat /\ gs[g][i] < next
<1>1. gs \in Seq(Seq(Nat)) /\ gs[g][i] < next
  BY Zenon DEF GroupsOK
<1>2. gs[g] \in Seq(Nat)
  BY <1>1
<1>3. gs[g][i] \in Nat
  BY <1>2
<1> QED
  BY Zenon, <1>1, <1>3

LEMMA GroupsLater ==
    ASSUME NEW gs, NEW next \in Nat, GroupsOK(gs, next), NEW m \in Nat, next <= m
    PROVE  GroupsOK(gs, m)
<1>1. ASSUME NEW g \in DOMAIN gs, NEW i \in DOMAIN gs[g] PROVE gs[g][i] < m
  <2>1. gs[g][i] \in Nat /\ gs[g][i] < next
    BY Zenon, GroupSlot
  <2> QED
    BY <2>1
<1> QED
  BY Zenon, <1>1 DEF GroupsOK

LEMMA LaterStill ==
    ASSUME NEW next \in Nat, NEW k \in Nat, NEW later \in 1..(MaxHandle + 1), later >= next + k
    PROVE  \A h \in Handles : h >= later => h >= next
  OBVIOUS

\* Min finds the oldest entry of the table.
LEMMA LeastNat ==
    ASSUME NEW S \in SUBSET Nat, S # {}
    PROVE  Min(S) \in S /\ \A y \in S : Min(S) <= y
<1> DEFINE Less == OpToRel(<, Nat)
<1>1. IsWellFoundedOn(Less, Nat)
  BY Zenon, NatLessThanWellFounded
<1> HIDE DEF Less
<1>2. PICK x \in S : \A y \in S : ~(<<y, x>> \in Less)
  BY Zenon, <1>1, WFMin
<1>3. Less = {p \in Nat \X Nat : p[1] < p[2]}
  BY Zenon DEF Less, OpToRel
<1>4. ASSUME NEW y \in S PROVE x <= y
  <2>1. <<y, x>> \in Nat \X Nat /\ <<y, x>>[1] = y /\ <<y, x>>[2] = x
    OBVIOUS
  <2>2. ~(y < x)
    BY <1>2, <1>3, <2>1
  <2> QED
    BY <2>2
<1> QED
  BY Zenon, <1>4 DEF Min

LEMMA GreatestNat ==
    ASSUME NEW n \in Nat, NEW S \in SUBSET (0..n), S # {}
    PROVE  Max(S) \in S
<1> DEFINE T == {n - x : x \in S}
<1>1. T \in SUBSET Nat /\ T # {}
  <2>1. \A x \in S : n - x \in Nat
    OBVIOUS
  <2> QED
    BY Zenon, <2>1
<1>2. Min(T) \in T /\ \A y \in T : Min(T) <= y
  BY Zenon, <1>1, LeastNat
<1>3. PICK x \in S : Min(T) = n - x
  BY Zenon, <1>2
<1>4. ASSUME NEW y \in S PROVE x >= y
  <2>1. Min(T) <= n - y
    BY Zenon, <1>2
  <2>2. n - x <= n - y
    BY <1>3, <2>1
  <2>3. x \in Int /\ y \in Int
    OBVIOUS
  <2> QED
    BY <2>2, <2>3
<1> QED
  BY Zenon, <1>4 DEF Max

LEMMA MinOfTwo ==
    ASSUME NEW a \in Int, NEW c \in Int
    PROVE  Min({a, c}) = IF a <= c THEN a ELSE c
  BY DEF Min

LEMMA SlotsOfGroups ==
    ASSUME NEW gs, NEW s
    PROVE  /\ s \in LogicalTasks(gs) <=>
                \E g \in DOMAIN gs : \E i \in DOMAIN gs[g] : s = <<g, i>>
           /\ s \in OpenSlots(gs) <=>
                \E g \in DOMAIN gs : \E i \in DOMAIN gs[g] : s = <<g, i>> /\ gs[g][i] = 0
<1>1. s \in LogicalTasks(gs) <=> \E g \in DOMAIN gs : \E i \in DOMAIN gs[g] : s = <<g, i>>
  BY DEF LogicalTasks
<1>2. s \in OpenSlots(gs) <=> s \in LogicalTasks(gs) /\ gs[s[1]][s[2]] = 0
  BY DEF OpenSlots
<1> QED
  BY <1>1, <1>2

LEMMA OpenFinite ==
    ASSUME NEW gs, NEW next, GroupsOK(gs, next)
    PROVE  IsFiniteSet(OpenSlots(gs)) /\ Cardinality(OpenSlots(gs)) \in Nat
<1> DEFINE P == (1..Len(gs)) \X (1..MaxHandle)
<1>1. IsFiniteSet(1..Len(gs)) /\ IsFiniteSet(1..MaxHandle)
  <2>1. Len(gs) \in Int /\ MaxHandle \in Int /\ 1 \in Int
    BY DEF GroupsOK
  <2> QED
    BY Zenon, <2>1, FS_Interval
<1>2. IsFiniteSet(P)
  BY Zenon, <1>1, FS_Product
<1>3. OpenSlots(gs) \subseteq P
  <2> SUFFICES ASSUME NEW s \in OpenSlots(gs) PROVE s \in P
    OBVIOUS
  <2>1. PICK g \in DOMAIN gs : \E i \in DOMAIN gs[g] : s = <<g, i>>
    BY SlotsOfGroups
  <2>2. PICK i \in DOMAIN gs[g] : s = <<g, i>>
    BY <2>1
  <2>3. g \in 1..Len(gs) /\ gs[g] \in Seq(Nat) /\ Len(gs[g]) <= MaxHandle
    BY DEF GroupsOK
  <2>4. i \in 1..MaxHandle
    BY <2>3
  <2> QED
    BY Zenon, <2>2, <2>3, <2>4
<1> HIDE DEF P
<1> QED
  BY <1>2, <1>3, FS_Subset, FS_CardinalityType

\* The order of logical tasks: total, and Rank counts along it.
LEMMA RankGrows ==
    ASSUME NEW gs, NEW next, GroupsOK(gs, next), NEW s \in OpenSlots(gs)
    PROVE  /\ Rank(gs, s) \in Nat /\ Rank(gs, s) < Cardinality(OpenSlots(gs))
           /\ \A t \in OpenSlots(gs) : Before(s, t) => Rank(gs, s) < Rank(gs, t)
           /\ \A t \in OpenSlots(gs) : s # t => Before(s, t) \/ Before(t, s)
<1> DEFINE O == OpenSlots(gs)
           Below(t) == {u \in O : Before(u, t)}
<1>1. IsFiniteSet(O)
  BY OpenFinite
<1>2. \A u \in O : \E g \in Nat, i \in Nat : u = <<g, i>>
  <2> SUFFICES ASSUME NEW u \in O PROVE \E g \in Nat, i \in Nat : u = <<g, i>>
    OBVIOUS
  <2>1. PICK g \in DOMAIN gs : \E i \in DOMAIN gs[g] : u = <<g, i>>
    BY SlotsOfGroups
  <2>2. PICK i \in DOMAIN gs[g] : u = <<g, i>>
    BY <2>1
  <2>3. g \in 1..Len(gs) /\ gs[g] \in Seq(Nat)
    BY DEF GroupsOK
  <2> QED
    BY <2>2, <2>3
<1> HIDE DEF O
<1>3. \A u \in O : ~Before(u, u)
  BY <1>2 DEF Before
<1>4. \A u, v, w \in O : Before(u, v) /\ Before(v, w) => Before(u, w)
  BY <1>2 DEF Before
<1>5. \A u, v \in O : u # v => Before(u, v) \/ Before(v, u)
  BY <1>2 DEF Before
<1>6. s \in O /\ \A u : Rank(gs, u) = Cardinality(Below(u))
  BY DEF Rank, O
<1>7. \A u : IsFiniteSet(Below(u)) /\ Cardinality(Below(u)) \in Nat /\ Below(u) \subseteq O
  <2>1. \A u : Below(u) \in SUBSET O
    OBVIOUS
  <2> HIDE DEF Below
  <2> QED
    BY <1>1, <2>1, FS_Subset, FS_CardinalityType
<1>8. Rank(gs, s) < Cardinality(O)
  <2>1. Below(s) # O /\ Below(s) \in SUBSET O
    BY <1>3, <1>6
  <2>2. Cardinality(O) \in Nat
    BY <1>1, FS_CardinalityType
  <2> HIDE DEF Below
  <2>3. Cardinality(Below(s)) <= Cardinality(O) /\ Cardinality(Below(s)) # Cardinality(O)
    BY <1>1, <2>1, FS_Subset
  <2> QED
    BY <1>6, <1>7, <2>2, <2>3
<1>9. ASSUME NEW t \in O, Before(s, t) PROVE Rank(gs, s) < Rank(gs, t)
  <2>1. Below(s) \in SUBSET Below(t) /\ Below(s) # Below(t)
    BY <1>3, <1>4, <1>6, <1>9
  <2> HIDE DEF Below
  <2>2. Cardinality(Below(s)) <= Cardinality(Below(t)) /\ Cardinality(Below(s)) # Cardinality(Below(t))
    BY <1>7, <2>1, FS_Subset
  <2> QED
    BY <1>6, <1>7, <2>2
<1> QED
  BY Zenon, <1>5, <1>6, <1>7, <1>8, <1>9 DEF O

-----------------------------------------------------------------------------
(* aivm_vm_refill_worker_task_groups.                                      *)

\* CanonicalWindow of the workloads gs.
Canonical(gs) ==
  \A s, t \in LogicalTasks(gs) :
    Before(s, t) =>
      \/ gs[t[1]][t[2]] = NoHandle
      \/ gs[s[1]][s[2]] # NoHandle /\ gs[s[1]][s[2]] < gs[t[1]][t[2]]

LEMMA TableFinite ==
    ASSUME NEW t, NEW next \in Nat, TableOK(t, next)
    PROVE  IsFiniteSet(DOMAIN t) /\ Cardinality(DOMAIN t) \in Nat
<1>1. next - 1 \in Int /\ 1 \in Int
  OBVIOUS
<1>2. IsFiniteSet(1..(next - 1))
  BY <1>1, FS_Interval
<1>3. DOMAIN t \in SUBSET (1..(next - 1))
  BY DEF TableOK
<1> QED
  BY <1>2, <1>3, FS_Subset, FS_CardinalityType

LEMMA WantedFits ==
    ASSUME NEW t, NEW gs, NEW next \in Nat, TableOK(t, next), GroupsOK(gs, next)
    PROVE  LET w == Wanted(t, gs)
               n == Cardinality(OpenSlots(gs))
               m == Cardinality(DOMAIN t)
           IN  /\ w \in Nat /\ w <= n /\ m + w <= TaskCapacity
               /\ w = n \/ m + w = TaskCapacity
<1>1. Cardinality(OpenSlots(gs)) \in Nat /\ Cardinality(DOMAIN t) \in Nat
  BY OpenFinite, TableFinite
<1>2. Cardinality(DOMAIN t) <= TaskCapacity
  BY DEF TableOK
<1> DEFINE n == Cardinality(OpenSlots(gs))
           m == Cardinality(DOMAIN t)
<1>3. TaskCapacity - m \in Int /\ n \in Int /\ Wanted(t, gs) = Min({n, TaskCapacity - m})
  BY <1>1 DEF Wanted
<1>4. n \in Nat /\ m \in Nat /\ m <= TaskCapacity
  BY <1>1, <1>2
<1> HIDE DEF n, m
<1>5. Wanted(t, gs) = IF n <= TaskCapacity - m THEN n ELSE TaskCapacity - m
  BY <1>3, MinOfTwo
<1>6. Wanted(t, gs) \in Nat /\ Wanted(t, gs) <= n /\ m + Wanted(t, gs) <= TaskCapacity
  BY <1>4, <1>5
<1>7. Wanted(t, gs) = n \/ m + Wanted(t, gs) = TaskCapacity
  BY <1>4, <1>5
<1> QED
  BY <1>6, <1>7 DEF n, m

\* The workloads after the k slots that come first got the handles from next on.
FilledGroups(gs, next, k) ==
  [g \in DOMAIN gs |-> [i \in DOMAIN gs[g] |->
     IF gs[g][i] = NoHandle /\ Rank(gs, <<g, i>>) < k
     THEN next + Rank(gs, <<g, i>>)
     ELSE gs[g][i]]]

LEMMA FilledSlot ==
    ASSUME NEW gs, NEW next \in Nat \ {0}, NEW k \in Nat, GroupsOK(gs, next),
           NEW g \in DOMAIN gs, NEW i \in DOMAIN gs[g]
    PROVE  LET f == FilledGroups(gs, next, k)
               s == <<g, i>>
           IN  /\ gs[g][i] \in Nat /\ gs[g][i] < next
               /\ s \in OpenSlots(gs) <=> gs[g][i] = 0
               /\ gs[g][i] # 0 => f[g][i] = gs[g][i]
               /\ gs[g][i] = 0 => /\ Rank(gs, s) \in Nat
                                  /\ Rank(gs, s) < k => f[g][i] = next + Rank(gs, s)
                                  /\ ~(Rank(gs, s) < k) => f[g][i] = 0
<1>1. gs[g][i] \in Nat /\ gs[g][i] < next
  BY Zenon, GroupSlot
<1>2. <<g, i>> \in OpenSlots(gs) <=> gs[g][i] = 0
  BY SlotsOfGroups
<1>3. gs[g][i] = 0 => Rank(gs, <<g, i>>) \in Nat
  BY <1>2, RankGrows
<1> QED
  BY <1>1, <1>2, <1>3 DEF FilledGroups

LEMMA FilledOK ==
    ASSUME NEW gs, NEW next \in Nat \ {0}, NEW k \in Nat, GroupsOK(gs, next),
           k <= Cardinality(OpenSlots(gs))
    PROVE  LET f == FilledGroups(gs, next, k)
           IN  /\ GroupsOK(f, next + k)
               /\ DOMAIN f = DOMAIN gs /\ \A g \in DOMAIN gs : DOMAIN f[g] = DOMAIN gs[g]
               /\ LogicalTasks(f) = LogicalTasks(gs)
<1> DEFINE f == FilledGroups(gs, next, k)
<1>1. DOMAIN f = DOMAIN gs /\ \A g \in DOMAIN gs : DOMAIN f[g] = DOMAIN gs[g]
  BY DEF FilledGroups
<1>2. \A g \in DOMAIN gs : gs[g] \in Seq(Nat) /\ DOMAIN gs[g] = 1..Len(gs[g]) /\ Len(gs[g]) <= MaxHandle
  BY DEF GroupsOK
<1>3. ASSUME NEW g \in DOMAIN gs, NEW i \in DOMAIN gs[g] PROVE f[g][i] \in Nat /\ f[g][i] < next + k
  <2> HIDE DEF f
  <2>1. /\ gs[g][i] \in Nat /\ gs[g][i] < next
        /\ gs[g][i] # 0 => f[g][i] = gs[g][i]
        /\ gs[g][i] = 0 => /\ Rank(gs, <<g, i>>) \in Nat
                           /\ Rank(gs, <<g, i>>) < k => f[g][i] = next + Rank(gs, <<g, i>>)
                           /\ ~(Rank(gs, <<g, i>>) < k) => f[g][i] = 0
    BY FilledSlot DEF f
  <2> QED
    BY <2>1
<1>4. ASSUME NEW g \in DOMAIN gs PROVE f[g] \in Seq(Nat) /\ Len(f[g]) = Len(gs[g])
  <2>1. f[g] \in [1..Len(gs[g]) -> Nat] /\ Len(gs[g]) \in Nat
    <3>1. f[g] = [i \in DOMAIN gs[g] |-> f[g][i]]
      BY DEF FilledGroups
    <3> HIDE DEF f
    <3> QED
      BY <1>2, <1>3, <3>1
  <2> HIDE DEF f
  <2> QED
    BY <2>1
<1>5. f \in Seq(Seq(Nat))
  <2>1. DOMAIN gs = 1..Len(gs) /\ Len(gs) \in Nat
    BY DEF GroupsOK
  <2>2. f = [g \in 1..Len(gs) |-> f[g]]
    BY <2>1 DEF FilledGroups
  <2> HIDE DEF f
  <2>3. f \in [1..Len(gs) -> Seq(Nat)]
    BY <1>4, <2>1, <2>2
  <2> QED
    BY <2>1, <2>3
<1> HIDE DEF f
<1>6. LogicalTasks(f) = LogicalTasks(gs)
  BY <1>1 DEF LogicalTasks
<1>7. GroupsOK(f, next + k)
  BY Zenon, <1>1, <1>2, <1>3, <1>4, <1>5 DEF GroupsOK
<1> QED
  BY <1>1, <1>6, <1>7 DEF f

\* Filling keeps the canonical order and leaves all but k slots open.
LEMMA FilledCanonical ==
    ASSUME NEW gs, NEW next \in Nat \ {0}, NEW k \in Nat, GroupsOK(gs, next),
           k <= Cardinality(OpenSlots(gs)), Canonical(gs)
    PROVE  Canonical(FilledGroups(gs, next, k))
<1> DEFINE f == FilledGroups(gs, next, k)
<1>1. LogicalTasks(f) = LogicalTasks(gs)
  BY FilledOK
<1> SUFFICES ASSUME NEW s \in LogicalTasks(gs), NEW t \in LogicalTasks(gs), Before(s, t),
                    f[t[1]][t[2]] # 0
             PROVE  f[s[1]][s[2]] # 0 /\ f[s[1]][s[2]] < f[t[1]][t[2]]
  BY <1>1 DEF Canonical
<1>2. PICK g \in DOMAIN gs : \E i \in DOMAIN gs[g] : s = <<g, i>>
  BY SlotsOfGroups
<1>3. PICK i \in DOMAIN gs[g] : s = <<g, i>>
  BY <1>2
<1>4. PICK p \in DOMAIN gs : \E q \in DOMAIN gs[p] : t = <<p, q>>
  BY SlotsOfGroups
<1>5. PICK q \in DOMAIN gs[p] : t = <<p, q>>
  BY Zenon, <1>4
<1> HIDE DEF f
<1>6. /\ gs[g][i] \in Nat /\ gs[g][i] < next
      /\ s \in OpenSlots(gs) <=> gs[g][i] = 0
      /\ gs[g][i] # 0 => f[g][i] = gs[g][i]
      /\ gs[g][i] = 0 => /\ Rank(gs, s) \in Nat
                         /\ Rank(gs, s) < k => f[g][i] = next + Rank(gs, s)
                         /\ ~(Rank(gs, s) < k) => f[g][i] = 0
  BY <1>3, FilledSlot DEF f
<1>7. /\ gs[p][q] \in Nat /\ gs[p][q] < next
      /\ t \in OpenSlots(gs) <=> gs[p][q] = 0
      /\ gs[p][q] # 0 => f[p][q] = gs[p][q]
      /\ gs[p][q] = 0 => /\ Rank(gs, t) \in Nat
                         /\ Rank(gs, t) < k => f[p][q] = next + Rank(gs, t)
                         /\ ~(Rank(gs, t) < k) => f[p][q] = 0
  BY <1>5, FilledSlot DEF f
<1>8. gs[p][q] # 0 => gs[g][i] # 0 /\ gs[g][i] < gs[p][q]
  BY Zenon, <1>3, <1>5 DEF Canonical
<1>9. gs[p][q] = 0 /\ gs[g][i] = 0 => Rank(gs, s) < Rank(gs, t)
  BY Zenon, <1>6, <1>7, RankGrows
<1>10. f[p][q] # 0
  BY <1>5
<1>11. f[g][i] # 0 /\ f[g][i] < f[p][q]
  <2>1. CASE gs[p][q] # 0
    BY Zenon, <1>6, <1>7, <1>8, <2>1
  <2>2. CASE gs[p][q] = 0 /\ gs[g][i] # 0
    BY <1>6, <1>7, <1>10, <2>2
  <2>3. CASE gs[p][q] = 0 /\ gs[g][i] = 0
    BY <1>6, <1>7, <1>9, <1>10, <2>3
  <2> QED
    BY Zenon, <2>1, <2>2, <2>3
<1> QED
  BY <1>3, <1>5, <1>11

LEMMA FilledOpen ==
    ASSUME NEW gs, NEW next \in Nat \ {0}, NEW k \in Nat, GroupsOK(gs, next),
           k <= Cardinality(OpenSlots(gs))
    PROVE  LET O == OpenSlots(FilledGroups(gs, next, k))
           IN  /\ Cardinality(O) \in Nat
               /\ Cardinality(O) + k <= Cardinality(OpenSlots(gs))
               /\ k = Cardinality(OpenSlots(gs)) => O = {}
<1> DEFINE f == FilledGroups(gs, next, k)
           O == OpenSlots(f)
           n == Cardinality(OpenSlots(gs))
           r == [s \in O |-> Rank(gs, s)]
<1>1. DOMAIN f = DOMAIN gs /\ \A g \in DOMAIN gs : DOMAIN f[g] = DOMAIN gs[g]
  BY FilledOK
<1>2. n \in Nat
  BY OpenFinite
<1>3. ASSUME NEW s \in O
      PROVE  s \in OpenSlots(gs) /\ Rank(gs, s) \in k..(n - 1)
  <2>1. PICK g \in DOMAIN gs : \E i \in DOMAIN gs[g] : s = <<g, i>> /\ f[g][i] = 0
    <3>1. \E g \in DOMAIN f : \E i \in DOMAIN f[g] : s = <<g, i>> /\ f[g][i] = 0
      <4> HIDE DEF f
      <4> QED
        BY SlotsOfGroups
    <3> HIDE DEF f
    <3> QED
      BY <1>1, <3>1
  <2>2. PICK i \in DOMAIN gs[g] : s = <<g, i>> /\ f[g][i] = 0
    BY <2>1
  <2> HIDE DEF f
  <2>3. /\ gs[g][i] \in Nat
        /\ s \in OpenSlots(gs) <=> gs[g][i] = 0
        /\ gs[g][i] # 0 => f[g][i] = gs[g][i]
        /\ gs[g][i] = 0 => /\ Rank(gs, s) \in Nat
                           /\ Rank(gs, s) < k => f[g][i] = next + Rank(gs, s)
    BY <2>2, FilledSlot DEF f
  <2>4. s \in OpenSlots(gs) /\ Rank(gs, s) \in Nat /\ ~(Rank(gs, s) < k)
    BY <2>2, <2>3
  <2>5. Rank(gs, s) < n
    BY <2>4, RankGrows
  <2> QED
    BY <1>2, <2>4, <2>5
<1> HIDE DEF O
<1>4. r \in Injection(O, k..(n - 1))
  <2>1. r \in [O -> k..(n - 1)]
    BY <1>3
  <2>2. \A s, t \in O : r[s] = r[t] => s = t
    <3> SUFFICES ASSUME NEW s \in O, NEW t \in O, Rank(gs, s) = Rank(gs, t), s # t
                 PROVE  FALSE
      OBVIOUS
    <3>1. s \in OpenSlots(gs) /\ t \in OpenSlots(gs) /\ Rank(gs, s) \in Nat
      BY <1>2, <1>3
    <3>2. Rank(gs, s) < Rank(gs, t) \/ Rank(gs, t) < Rank(gs, s)
      BY <3>1, RankGrows
    <3> QED
      BY <3>1, <3>2
  <2> HIDE DEF r
  <2> QED
    BY <2>1, <2>2 DEF Injection, IsInjective
<1>5. IsFiniteSet(k..(n - 1)) /\ Cardinality(k..(n - 1)) = n - k
  <2>1. n - 1 \in Int /\ k \in Int /\ k <= n
    BY <1>2
  <2>2. IsFiniteSet(k..(n - 1)) /\ Cardinality(k..(n - 1)) = IF k > n - 1 THEN 0 ELSE (n - 1) - k + 1
    BY Zenon, <2>1, FS_Interval
  <2> QED
    BY <1>2, <2>1, <2>2
<1> HIDE DEF r, n
<1>6. IsFiniteSet(O) /\ Cardinality(O) <= n - k
  BY <1>4, <1>5, FS_Injection
<1>7. Cardinality(O) \in Nat
  BY <1>6, FS_CardinalityType
<1>8. k = n => O = {}
  BY <1>2, <1>3
<1>9. Cardinality(O) + k <= n
  BY <1>2, <1>6, <1>7
<1> QED
  BY <1>7, <1>8, <1>9 DEF O, n

\* The k handles that next_task_handle gives out from next on.
Fresh(next, k) == next..(next + k - 1)

\* Adding entries with fresh handles.
LEMMA WithOK ==
    ASSUME NEW t, NEW next \in Nat \ {0}, NEW k \in Nat, NEW e \in Record, TableOK(t, next),
           Cardinality(DOMAIN t) + k <= TaskCapacity
    PROVE  /\ TableOK(With(t, Fresh(next, k), e), next + k)
           /\ Cardinality(DOMAIN t \cup Fresh(next, k)) = Cardinality(DOMAIN t) + k
           /\ DOMAIN t \cap Fresh(next, k) = {}
<1> DEFINE new == next..(next + k - 1)
           u == With(t, new, e)
<1>0. new = Fresh(next, k)
  BY DEF Fresh
<1>1. DOMAIN u = DOMAIN t \cup new
  BY DEF With
<1>2. \A h \in DOMAIN t : h \notin new /\ u[h] = t[h]
  BY DEF With, TableOK
<1>3. \A h \in new : u[h] = e
  BY DEF With
<1>4. IsFiniteSet(new) /\ Cardinality(new) = k
  <2>1. next \in Int /\ next + k - 1 \in Int
    OBVIOUS
  <2>2. IsFiniteSet(new) /\ Cardinality(new) = IF next > next + k - 1 THEN 0 ELSE (next + k - 1) - next + 1
    BY Zenon, <2>1, FS_Interval
  <2> QED
    BY <2>2
<1>5. IsFiniteSet(DOMAIN t) /\ Cardinality(DOMAIN t) \in Nat
  BY TableFinite
<1>6. DOMAIN t \cap new = {}
  BY <1>2
<1>7. new \subseteq 1..(next + k - 1) /\ DOMAIN t \subseteq 1..(next + k - 1)
  BY DEF TableOK
<1>8. u = [h \in DOMAIN t \cup new |-> u[h]]
  BY DEF With
<1> HIDE DEF u
<1>9. Cardinality(DOMAIN t \cup new) = Cardinality(DOMAIN t) + k
  <2>1. Cardinality(DOMAIN t \cup new)
          = Cardinality(DOMAIN t) + Cardinality(new) - Cardinality(DOMAIN t \cap new)
    BY Zenon, <1>4, <1>5, FS_Union
  <2>2. Cardinality(DOMAIN t \cap new) = 0
    BY <1>6, FS_EmptySet
  <2> QED
    BY <1>4, <1>5, <2>1, <2>2
<1>10. u \in [DOMAIN u -> Record]
  BY Zenon, <1>1, <1>2, <1>3, <1>8 DEF TableOK
<1>11. TableOK(u, next + k)
  BY <1>1, <1>7, <1>9, <1>10 DEF TableOK
<1> QED
  BY Zenon, <1>0, <1>6, <1>9, <1>11 DEF u

\* Removing entries.
LEMMA WithoutOK ==
    ASSUME NEW t, NEW next \in Nat, TableOK(t, next), NEW hs
    PROVE  /\ TableOK(Without(t, hs), next)
           /\ DOMAIN Without(t, hs) = DOMAIN t \ hs
           /\ \A h \in DOMAIN t \ hs : Without(t, hs)[h] = t[h]
           /\ Cardinality(DOMAIN t \ hs) <= Cardinality(DOMAIN t)
<1> DEFINE u == Without(t, hs)
<1>1. DOMAIN u = DOMAIN t \ hs /\ (\A h \in DOMAIN t \ hs : u[h] = t[h])
      /\ u = [h \in DOMAIN t \ hs |-> u[h]]
  BY DEF Without, Restrict
<1>2. Cardinality(DOMAIN t \ hs) <= Cardinality(DOMAIN t) /\ Cardinality(DOMAIN t \ hs) \in Nat
      /\ Cardinality(DOMAIN t) \in Nat
  <2>1. IsFiniteSet(DOMAIN t) /\ DOMAIN t \ hs \in SUBSET DOMAIN t
    BY TableFinite
  <2> QED
    BY <2>1, FS_Subset, FS_CardinalityType
<1> HIDE DEF u
<1>3. u \in [DOMAIN u -> Record]
  BY <1>1 DEF TableOK
<1>4. TableOK(u, next)
  BY <1>1, <1>2, <1>3 DEF TableOK
<1> QED
  BY <1>1, <1>2, <1>4 DEF u

\* The numbers of a refill of k tasks out of w that fit into a table with c
\* entries, when n slots are open, the handles end at limit and the next handle
\* becomes later.
RefillNumbers(next, k, w, n, c, limit, later) ==
  /\ later \in Nat /\ later >= next + k /\ next + k <= later /\ next + k \in Nat
  /\ later <= limit + 1 /\ later \in 1..(MaxHandle + 1)
  /\ k = w => later = next + k
  /\ \A o \in Nat : o + k <= n /\ k = w => later + o <= limit + 1
  /\ c + k <= TaskCapacity
  /\ Fresh(next, k) \subseteq Handles

LEMMA RefillNumbersOK ==
    ASSUME NEW next \in Nat \ {0}, NEW k \in Nat, NEW w \in Nat, NEW n \in Nat, NEW c \in Nat,
           NEW limit \in 1..MaxHandle, k <= w, k <= n, c + w <= TaskCapacity,
           w <= n, next + n <= limit + 1
    PROVE  RefillNumbers(next, k, w, n, c, limit, next + k + (IF k < w THEN 1 ELSE 0))
  BY DEF RefillNumbers, Fresh

\* A refill of table t, workloads gs and board b: the k new entries are pending
\* worker tasks with submissions, the rest stays, and when nothing was refused
\* no slot is open while the table has room.
LEMMA Refilled ==
    ASSUME nextHandle \in Nat \ {0}, NEW t, NEW gs, NEW b, NEW k \in Nat,
           TableOK(t, nextHandle), GroupsOK(gs, nextHandle), Canonical(gs),
           b \in [Handles -> Stages], k <= Wanted(t, gs), NEW limit \in 1..MaxHandle,
           nextHandle + Cardinality(OpenSlots(gs)) <= limit + 1,
           Materialize(t, gs, b, k)
    PROVE  LET new == Fresh(nextHandle, k)
           IN  /\ new \subseteq Handles /\ new \cap DOMAIN t = {}
               /\ nextHandle' \in 1..(MaxHandle + 1) /\ nextHandle' >= nextHandle + k
               /\ TableOK(tasks', nextHandle')
               /\ DOMAIN tasks' = DOMAIN t \cup new
               /\ \A h \in DOMAIN t : tasks'[h] = t[h]
               /\ \A h \in new : tasks'[h] = Entry("worker", "PENDING")
               /\ GroupsOK(groups', nextHandle') /\ CanonicalWindow'
               /\ board' \in [Handles -> Stages]
               /\ \A h \in Handles : board'[h] = IF h \in new THEN "queued" ELSE b[h]
               /\ k = Wanted(t, gs) =>
                    /\ nextHandle' + Cardinality(OpenSlots(groups')) <= limit + 1
                    /\ OpenSlots(groups') = {} \/ Full'
<1> DEFINE new == Fresh(nextHandle, k)
           n == Cardinality(OpenSlots(gs))
           w == Wanted(t, gs)
           e == Entry("worker", "PENDING")
<1>1. /\ w \in Nat /\ w <= n /\ Cardinality(DOMAIN t) + w <= TaskCapacity
      /\ w = n \/ Cardinality(DOMAIN t) + w = TaskCapacity
      /\ n \in Nat /\ Cardinality(DOMAIN t) \in Nat
  BY Zenon, WantedFits, OpenFinite, TableFinite
<1>2. /\ tasks' = With(t, new, e)
      /\ groups' = FilledGroups(gs, nextHandle, k)
      /\ board' = [h \in Handles |-> IF h \in new THEN "queued" ELSE b[h]]
      /\ nextHandle' = nextHandle + k + (IF k < w THEN 1 ELSE 0)
  BY DEF Materialize, FilledGroups, Fresh
<1>3. e \in Record
  BY DEF Entry, Record
<1> HIDE DEF n, w, e
<1>4. k <= w /\ k <= n /\ nextHandle + n <= limit + 1
  BY <1>1 DEF w, n
<1>5. /\ nextHandle' \in Nat /\ nextHandle' >= nextHandle + k /\ nextHandle + k <= nextHandle'
      /\ nextHandle + k \in Nat
      /\ nextHandle' <= limit + 1 /\ nextHandle' \in 1..(MaxHandle + 1)
      /\ k = w => nextHandle' = nextHandle + k
      /\ \A o \in Nat : o + k <= n /\ k = w => nextHandle' + o <= limit + 1
      /\ Cardinality(DOMAIN t) + k <= TaskCapacity
      /\ new \subseteq Handles
  <2>1. RefillNumbers(nextHandle, k, w, n, Cardinality(DOMAIN t), limit,
                      nextHandle + k + (IF k < w THEN 1 ELSE 0))
    BY Zenon, <1>1, <1>4, RefillNumbersOK
  <2> QED
    BY Zenon, <1>2, <2>1 DEF RefillNumbers
<1>6. new \subseteq Handles
  BY Zenon, <1>5
<1>7. Cardinality(DOMAIN t) + k <= TaskCapacity
  BY Zenon, <1>5
<1>8. /\ TableOK(tasks', nextHandle + k)
      /\ DOMAIN tasks' = DOMAIN t \cup new
      /\ Cardinality(DOMAIN tasks') = Cardinality(DOMAIN t) + k
      /\ \A h \in DOMAIN t : h \notin new /\ tasks'[h] = t[h]
      /\ \A h \in new : tasks'[h] = e
  <2>1. TableOK(With(t, new, e), nextHandle + k)
    BY Zenon, <1>3, <1>7, WithOK
  <2>2. Cardinality(DOMAIN t \cup new) = Cardinality(DOMAIN t) + k /\ DOMAIN t \cap new = {}
    BY Zenon, <1>3, <1>7, WithOK
  <2> HIDE DEF new
  <2>3. /\ DOMAIN tasks' = DOMAIN t \cup new
        /\ \A h \in new : tasks'[h] = e
        /\ \A h \in DOMAIN t : h \notin new => tasks'[h] = t[h]
    BY Zenon, <1>2 DEF With
  <2> QED
    BY <1>2, <2>1, <2>2, <2>3
<1>9. TableOK(tasks', nextHandle')
  <2>1. \A h \in 1..((nextHandle + k) - 1) : h \in 1..(nextHandle' - 1)
    <3>1. PICK a : a = nextHandle + k
      OBVIOUS
    <3>2. PICK c : c = nextHandle'
      OBVIOUS
    <3>3. a \in Nat /\ c \in Nat /\ a <= c
      BY <1>5, <3>1, <3>2
    <3>4. \A h \in 1..(a - 1) : h \in 1..(c - 1)
      BY <3>3
    <3> QED
      BY Zenon, <3>1, <3>2, <3>4
  <2> QED
    BY Zenon, <1>8, <2>1 DEF TableOK
<1>10. GroupsOK(groups', nextHandle + k)
  BY <1>2, <1>4, FilledOK DEF n
<1>11. GroupsOK(groups', nextHandle')
  BY Zenon, <1>5, <1>10, GroupsLater
<1>12. CanonicalWindow'
  <2>1. Canonical(groups')
    BY Zenon, <1>2, <1>4, FilledCanonical DEF n
  <2> QED
    BY Zenon, <2>1 DEF Canonical, CanonicalWindow
<1>13. /\ Cardinality(OpenSlots(groups')) \in Nat
       /\ Cardinality(OpenSlots(groups')) + k <= n
       /\ k = n => OpenSlots(groups') = {}
  BY Zenon, <1>2, <1>4, FilledOpen DEF n
<1>14. /\ board' \in [Handles -> Stages]
       /\ \A h \in Handles : board'[h] = IF h \in new THEN "queued" ELSE b[h]
  BY <1>2 DEF Stages
<1>15. k = w => /\ nextHandle' + Cardinality(OpenSlots(groups')) <= limit + 1
                /\ OpenSlots(groups') = {} \/ Full'
  <2>1. ASSUME k = w PROVE nextHandle' + Cardinality(OpenSlots(groups')) <= limit + 1
    BY Zenon, <1>5, <1>13, <2>1
  <2>2. ASSUME k = w PROVE OpenSlots(groups') = {} \/ Full'
    <3>1. CASE k = n
      BY <1>13, <3>1
    <3>2. CASE k # n
      BY ZenonT(30), <1>1, <1>8, <2>2, <3>2 DEF Full
    <3> QED
      BY <3>1, <3>2
  <2> QED
    BY Zenon, <2>1, <2>2
<1> QED
  BY Zenon, <1>5, <1>6, <1>8, <1>9, <1>11, <1>12, <1>14, <1>15 DEF w, e

-----------------------------------------------------------------------------
(* Opcodes that create one task.                                           *)

\* reclaim_oldest_completed_task_slot makes room for one entry, and what it
\* drops is finished and not pinned.
LEMMA ReclaimedOK ==
    ASSUME TypeOK, ~NoRoom
    PROVE  /\ TableOK(Reclaimed, nextHandle)
           /\ DOMAIN Reclaimed \subseteq DOMAIN tasks
           /\ \A h \in DOMAIN Reclaimed : Reclaimed[h] = tasks[h]
           /\ \A h \in DOMAIN tasks \ DOMAIN Reclaimed : h \in Reclaimable
           /\ Cardinality(DOMAIN Reclaimed) + 1 <= TaskCapacity
           /\ Full => Cardinality(DOMAIN Reclaimed) + 1 = TaskCapacity
<1> DEFINE m == Cardinality(DOMAIN tasks)
           v == Min(Reclaimable)
<1>1. TableOK(tasks, nextHandle) /\ nextHandle \in Nat /\ m <= TaskCapacity
  BY DEF TypeOK, TableOK
<1>2. IsFiniteSet(DOMAIN tasks) /\ m \in Nat
  BY <1>1, TableFinite
<1>3. CASE ~Full
  <2>1. Reclaimed = tasks
    BY <1>3 DEF Reclaimed
  <2>2. m + 1 <= TaskCapacity
    BY <1>2, <1>3 DEF Full
  <2> QED
    BY <1>1, <1>3, <2>1, <2>2
<1>4. CASE Full
  <2>1. v \in Reclaimable
    <3>1. Reclaimable \in SUBSET Nat
      BY <1>1 DEF Reclaimable, TableOK
    <3>2. Reclaimable # {}
      BY <1>4 DEF NoRoom
    <3> QED
      BY <3>1, <3>2, LeastNat
  <2>2. v \in DOMAIN tasks
    BY <2>1 DEF Reclaimable
  <2>3. Reclaimed = Without(tasks, {v})
    BY <1>4 DEF Reclaimed
  <2> HIDE DEF v
  <2>4. /\ TableOK(Reclaimed, nextHandle)
        /\ DOMAIN Reclaimed = DOMAIN tasks \ {v}
        /\ \A h \in DOMAIN tasks \ {v} : Reclaimed[h] = tasks[h]
    BY Zenon, <1>1, <2>3, WithoutOK
  <2>5. Cardinality(DOMAIN tasks \ {v}) = m - 1
    BY Zenon, <1>2, <2>2, FS_RemoveElement
  <2>6. m = TaskCapacity
    BY <1>1, <1>2, <1>4 DEF Full
  <2> QED
    BY <1>2, <2>1, <2>4, <2>5, <2>6
<1> QED
  BY <1>3, <1>4

\* The new entry takes the next handle; the rest of the table stays, but for
\* what was reclaimed.
LEMMA Created ==
    ASSUME Inv, ~NoRoom, Fits(1), status = "RUNNING", NEW e \in Record,
           tasks' = With(Reclaimed, {nextHandle}, e), nextHandle' = nextHandle + 1,
           UNCHANGED <<status, tombstones, groups, consumptions, program>>
    PROVE  /\ nextHandle \in Handles /\ nextHandle \notin DOMAIN tasks
           /\ nextHandle' \in 1..(MaxHandle + 1)
           /\ TableOK(tasks', nextHandle') /\ GroupsOK(groups', nextHandle')
           /\ DOMAIN tasks' = DOMAIN Reclaimed \cup {nextHandle}
           /\ tasks'[nextHandle] = e
           /\ \A h \in DOMAIN Reclaimed : tasks'[h] = tasks[h]
           /\ HandlesLeft' /\ ConsumedGone' /\ CanonicalWindow' /\ NoStrandedWork'
<1> DEFINE n == Cardinality(OpenSlots(groups))
           m == Cardinality(DOMAIN Reclaimed)
<1>1. TypeOK /\ TableOK(tasks, nextHandle) /\ GroupsOK(groups, nextHandle) /\ nextHandle \in Nat \ {0}
  BY DEF Inv, TypeOK
<1>2. /\ TableOK(Reclaimed, nextHandle)
      /\ DOMAIN Reclaimed \subseteq DOMAIN tasks
      /\ \A h \in DOMAIN Reclaimed : Reclaimed[h] = tasks[h]
      /\ m + 1 <= TaskCapacity
      /\ Full => m + 1 = TaskCapacity
  BY <1>1, ReclaimedOK
<1>3. program \in Programs /\ program.handles \in 1..MaxHandle
  BY <1>1 DEF TypeOK
<1>4. n \in Nat
  BY <1>1, OpenFinite
<1>5. nextHandle + n + 1 <= program.handles + 1
  BY DEF Fits
<1> HIDE DEF n, m
<1>6. nextHandle \in Handles /\ nextHandle' \in 1..(MaxHandle + 1)
  BY <1>1, <1>3, <1>4, <1>5
<1>7. nextHandle \notin DOMAIN tasks
  BY <1>1 DEF TableOK
<1>8. Fresh(nextHandle, 1) = {nextHandle}
  BY <1>1 DEF Fresh
<1>9. TableOK(tasks', nextHandle') /\ Cardinality(DOMAIN Reclaimed \cup {nextHandle}) = m + 1
  <2>1. TableOK(With(Reclaimed, Fresh(nextHandle, 1), e), nextHandle + 1)
    BY Zenon, <1>1, <1>2, WithOK DEF m
  <2>2. Cardinality(DOMAIN Reclaimed \cup Fresh(nextHandle, 1)) = m + 1
    BY Zenon, <1>1, <1>2, WithOK DEF m
  <2> QED
    BY <1>8, <2>1, <2>2
<1>10. /\ DOMAIN tasks' = DOMAIN Reclaimed \cup {nextHandle}
       /\ tasks'[nextHandle] = e
       /\ \A h \in DOMAIN Reclaimed : tasks'[h] = tasks[h]
  BY Zenon, <1>2, <1>7 DEF With
<1>11. GroupsOK(groups', nextHandle')
  <2>1. nextHandle + 1 \in Nat /\ nextHandle <= nextHandle + 1 /\ nextHandle \in Nat
    BY <1>1
  <2> QED
    BY Zenon, <1>1, <2>1, GroupsLater
<1>12. HandlesLeft'
  BY <1>1, <1>4, <1>5 DEF HandlesLeft, n
<1>13. ConsumedGone'
  <2>1. ConsumedGone
    BY DEF Inv
  <2>2. \A h \in Handles : h >= nextHandle + 1 => h >= nextHandle
    BY <1>1
  <2>3. consumptions[nextHandle] = 0
    BY <1>1, <1>6, <2>1 DEF ConsumedGone
  <2> QED
    BY <1>2, <1>10, <2>1, <2>2, <2>3 DEF ConsumedGone
<1>14. CanonicalWindow'
  BY DEF Inv, CanonicalWindow
<1>15. NoStrandedWork'
  <2>1. CASE Full
    BY Zenon, <1>2, <1>9, <1>10, <2>1 DEF NoStrandedWork, Full
  <2>2. CASE ~Full
    BY Zenon, <2>2 DEF Inv, NoStrandedWork
  <2> QED
    BY Zenon, <2>1, <2>2
<1> QED
  BY ZenonT(30), <1>6, <1>7, <1>9, <1>10, <1>11, <1>12, <1>13, <1>14, <1>15

LEMMA PendingReclaimed ==
    ASSUME TypeOK, ~NoRoom, NEW kind
    PROVE  {h \in DOMAIN Reclaimed : Reclaimed[h] = Entry(kind, "PENDING")} = Pending(kind)
<1>1. /\ DOMAIN Reclaimed \subseteq DOMAIN tasks
      /\ \A h \in DOMAIN Reclaimed : Reclaimed[h] = tasks[h]
      /\ \A h \in DOMAIN tasks \ DOMAIN Reclaimed : h \in Reclaimable
  BY Zenon, ReclaimedOK
<1>2. \A h \in Reclaimable : tasks[h] # Entry(kind, "PENDING")
  BY DEF Reclaimable, Entry
<1> QED
  BY Zenon, <1>1, <1>2 DEF Pending

LEMMA PendingCreated ==
    ASSUME Inv, ~NoRoom, Fits(1), status = "RUNNING", NEW e \in Record,
           tasks' = With(Reclaimed, {nextHandle}, e), nextHandle' = nextHandle + 1,
           UNCHANGED <<status, tombstones, groups, consumptions, program>>, NEW kind
    PROVE  /\ e = Entry(kind, "PENDING") => Pending(kind)' = Pending(kind) \cup {nextHandle}
           /\ e # Entry(kind, "PENDING") => Pending(kind)' = Pending(kind)
<1>1. /\ DOMAIN tasks' = DOMAIN Reclaimed \cup {nextHandle}
      /\ tasks'[nextHandle] = e
      /\ \A h \in DOMAIN Reclaimed : tasks'[h] = tasks[h]
      /\ nextHandle \notin DOMAIN tasks
  BY Zenon, Created
<1>2. {h \in DOMAIN Reclaimed : Reclaimed[h] = Entry(kind, "PENDING")} = Pending(kind)
  BY PendingReclaimed DEF Inv
<1>3. \A h \in DOMAIN Reclaimed : Reclaimed[h] = tasks[h]
  BY ZenonT(30), ReclaimedOK DEF Inv
<1>4. Pending(kind)' = {h \in DOMAIN tasks' : tasks'[h] = Entry(kind, "PENDING")}
  BY DEF Pending, Entry
<1> QED
  BY ZenonT(30), <1>1, <1>2, <1>3, <1>4

LEMMA AsyncCallSysStep ==
    ASSUME Inv, AsyncCallSys
    PROVE  Inv'
<1> DEFINE e == Entry("syscall", "COMPLETED")
<1>1. /\ e \in Record /\ \A kind : e # Entry(kind, "PENDING")
  BY ZenonT(30) DEF Record, Entry
<1>2. /\ ~NoRoom /\ Fits(1) /\ status = "RUNNING" /\ tasks' = With(Reclaimed, {nextHandle}, e)
      /\ nextHandle' = nextHandle + 1
      /\ UNCHANGED <<status, tombstones, groups, consumptions, program>>
      /\ UNCHANGED <<board, thread>>
  BY ZenonT(30) DEF AsyncCallSys, Can, workloads, threads
<1> HIDE DEF e
<1>3. /\ nextHandle' \in 1..(MaxHandle + 1)
      /\ TableOK(tasks', nextHandle') /\ GroupsOK(groups', nextHandle')
      /\ HandlesLeft' /\ ConsumedGone' /\ CanonicalWindow' /\ NoStrandedWork'
  BY Zenon, <1>1, <1>2, Created
<1>4. Pending("worker")' = Pending("worker") /\ Pending("bytecode")' = Pending("bytecode")
  BY Zenon, <1>1, <1>2, PendingCreated
<1>5. WorkFollowsTable'
  BY <1>2, <1>4 DEF Inv, WorkFollowsTable
<1>6. TypeOK'
  BY Zenon, <1>2, <1>3 DEF Inv, TypeOK, TableOK, GroupsOK
<1> QED
  BY Zenon, <1>3, <1>5, <1>6 DEF Inv

LEMMA AsyncCallStep ==
    ASSUME Inv, AsyncCall
    PROVE  Inv'
<1> DEFINE e == Entry("bytecode", "PENDING")
<1>1. e \in Record /\ e = Entry("bytecode", "PENDING") /\ e # Entry("worker", "PENDING")
  BY ZenonT(30) DEF Record, Entry
<1>2. /\ ~NoRoom /\ Fits(1) /\ status = "RUNNING" /\ tasks' = With(Reclaimed, {nextHandle}, e)
      /\ nextHandle' = nextHandle + 1
      /\ UNCHANGED <<status, tombstones, groups, consumptions, program>>
      /\ UNCHANGED board /\ thread' = [thread EXCEPT ![nextHandle] = "running"]
  BY ZenonT(30) DEF AsyncCall, Can, workloads
<1> HIDE DEF e
<1>3. /\ nextHandle' \in 1..(MaxHandle + 1) /\ nextHandle \in Handles
      /\ TableOK(tasks', nextHandle') /\ GroupsOK(groups', nextHandle')
      /\ HandlesLeft' /\ ConsumedGone' /\ CanonicalWindow' /\ NoStrandedWork'
  BY Zenon, <1>1, <1>2, Created
<1>4. Pending("worker")' = Pending("worker") /\ Pending("bytecode")' = Pending("bytecode") \cup {nextHandle}
  BY Zenon, <1>1, <1>2, PendingCreated
<1>5. WorkFollowsTable'
  BY <1>2, <1>3, <1>4 DEF Inv, WorkFollowsTable, TypeOK
<1>6. TypeOK'
  BY Zenon, <1>2, <1>3 DEF Inv, TypeOK, TableOK, GroupsOK
<1> QED
  BY Zenon, <1>3, <1>5, <1>6 DEF Inv

LEMMA WorkerRunStep ==
    ASSUME Inv, WorkerRun
    PROVE  Inv'
<1> DEFINE e == Entry("worker", "PENDING")
<1>1. e \in Record /\ e = Entry("worker", "PENDING") /\ e # Entry("bytecode", "PENDING")
  BY Zenon DEF Record, Entry
<1>2. /\ ~NoRoom /\ Fits(1) /\ status = "RUNNING" /\ tasks' = With(Reclaimed, {nextHandle}, e)
      /\ nextHandle' = nextHandle + 1
      /\ UNCHANGED <<status, tombstones, groups, consumptions, program>>
      /\ UNCHANGED thread /\ board' = [board EXCEPT ![nextHandle] = "queued"]
  BY DEF WorkerRun, Can, workloads
<1> HIDE DEF e
<1>3. /\ nextHandle' \in 1..(MaxHandle + 1) /\ nextHandle \in Handles
      /\ TableOK(tasks', nextHandle') /\ GroupsOK(groups', nextHandle')
      /\ HandlesLeft' /\ ConsumedGone' /\ CanonicalWindow' /\ NoStrandedWork'
  BY Zenon, <1>1, <1>2, Created
<1>4. Pending("bytecode")' = Pending("bytecode") /\ Pending("worker")' = Pending("worker") \cup {nextHandle}
  BY Zenon, <1>1, <1>2, PendingCreated
<1>5. board \in [Handles -> Stages] /\ board' \in [Handles -> Stages]
  BY Zenon, <1>2, <1>3 DEF Inv, TypeOK, Stages
<1>6. WorkFollowsTable'
  <2>1. {h \in Handles : board'[h] # "none"} = {h \in Handles : board[h] # "none"} \cup {nextHandle}
    BY <1>2, <1>3, <1>5
  <2> QED
    BY ZenonT(30), <1>2, <1>4, <2>1 DEF Inv, WorkFollowsTable
<1>7. TypeOK'
  BY Zenon, <1>2, <1>3, <1>5 DEF Inv, TypeOK, TableOK, GroupsOK
<1> QED
  BY Zenon, <1>3, <1>6, <1>7 DEF Inv

\* An instruction that leaves the tasks alone, whether it stops the VM or not.
LEMMA KeptStep ==
    ASSUME Inv, status' # status => status' # "RUNNING",
           UNCHANGED <<table, workloads, threads, consumptions, program>>
    PROVE  Inv'
<1>1. UNCHANGED <<tasks, nextHandle, tombstones, groups, board, thread, consumptions, program>>
  BY Zenon DEF table, workloads, threads
<1>2. TypeOK'
  BY Zenon, <1>1 DEF Inv, TypeOK, TableOK, GroupsOK
<1>3. HandlesLeft' /\ ConsumedGone' /\ WorkFollowsTable' /\ NoStrandedWork'
  BY Zenon, <1>1 DEF Inv, HandlesLeft, ConsumedGone, WorkFollowsTable, NoStrandedWork, Pending, Full
<1>4. CanonicalWindow'
  BY Zenon, <1>1 DEF Inv, CanonicalWindow
<1> QED
  BY Zenon, <1>2, <1>3, <1>4 DEF Inv

\* An instruction that stops the VM with an entry reclaimed.
LEMMA ReclaimedStep ==
    ASSUME Inv, ~NoRoom, tasks' = Reclaimed, status' # "RUNNING",
           nextHandle' \in {nextHandle, nextHandle + 1}, nextHandle' \in 1..(MaxHandle + 1),
           UNCHANGED <<tombstones, groups, board, thread, consumptions, program>>
    PROVE  Inv'
<1>1. TypeOK /\ nextHandle \in Nat /\ TableOK(Reclaimed, nextHandle) /\ GroupsOK(groups, nextHandle)
  <2>1. TypeOK /\ nextHandle \in 1..(MaxHandle + 1) /\ GroupsOK(groups, nextHandle)
    BY Zenon DEF Inv, TypeOK
  <2>2. nextHandle \in Nat
    BY <2>1
  <2>3. TableOK(Reclaimed, nextHandle)
    BY Zenon, <2>1, ReclaimedOK
  <2> QED
    BY Zenon, <2>1, <2>2, <2>3
<1>2. TableOK(tasks', nextHandle')
  <2>1. \A h \in DOMAIN Reclaimed : h \in 1..(nextHandle' - 1)
    BY <1>1 DEF TableOK
  <2> QED
    BY <1>1, <2>1 DEF TableOK
<1>3. GroupsOK(groups', nextHandle')
  <2>1. nextHandle <= nextHandle' /\ nextHandle' \in Nat
    BY <1>1
  <2> QED
    BY Zenon, <1>1, <2>1, GroupsLater
<1>4. TypeOK'
  BY <1>1, <1>2, <1>3 DEF TypeOK
<1>5. ConsumedGone'
  <2>1. \A h \in Handles : h >= nextHandle' => h >= nextHandle
    BY <1>1
  <2> QED
    BY <2>1 DEF Inv, ConsumedGone
<1>6. WorkFollowsTable'
  <2>1. Pending("bytecode")' = {h \in DOMAIN Reclaimed : Reclaimed[h] = Entry("bytecode", "PENDING")}
    BY DEF Pending, Entry
  <2>2. Pending("bytecode")' = Pending("bytecode")
    BY Zenon, <1>1, <2>1, PendingReclaimed
  <2> QED
    BY Zenon, <2>2 DEF Inv, WorkFollowsTable
<1>7. CanonicalWindow'
  BY DEF Inv, CanonicalWindow
<1> QED
  BY Zenon, <1>4, <1>5, <1>6, <1>7 DEF Inv, HandlesLeft, NoStrandedWork

LEMMA CreateFailsStep ==
    ASSUME Inv, WorkerRunFails \/ \E error \in {"MEMORY", "BOUNDARY", "THREAD_START"} : AsyncCallFails(error)
    PROVE  Inv'
<1>1. CASE WorkerRunFails
  <2>1. /\ ~NoRoom /\ Fits(1) /\ tasks' = Reclaimed /\ status' # "RUNNING" /\ nextHandle' = nextHandle + 1
        /\ UNCHANGED <<tombstones, groups, board, thread, consumptions, program>>
    BY Zenon, <1>1 DEF WorkerRunFails, workloads, threads
  <2>2. nextHandle' \in 1..(MaxHandle + 1)
    <3>1. nextHandle \in Nat \ {0} /\ program.handles \in 1..MaxHandle
      BY DEF Inv, TypeOK
    <3>2. Cardinality(OpenSlots(groups)) \in Nat
      BY OpenFinite DEF Inv, TypeOK
    <3> QED
      BY <2>1, <3>1, <3>2 DEF Fits
  <2> QED
    BY Zenon, <2>1, <2>2, ReclaimedStep
<1>2. CASE \E error \in {"MEMORY", "BOUNDARY", "THREAD_START"} : AsyncCallFails(error)
  <2>1. /\ ~NoRoom /\ tasks' = Reclaimed /\ status' # "RUNNING" /\ nextHandle' = nextHandle
        /\ UNCHANGED <<tombstones, groups, board, thread, consumptions, program>>
    BY <1>2 DEF AsyncCallFails, workloads, threads
  <2>2. nextHandle' \in 1..(MaxHandle + 1)
    BY Zenon, <2>1 DEF Inv, TypeOK
  <2> QED
    BY Zenon, <2>1, <2>2, ReclaimedStep
<1> QED
  BY Zenon, <1>1, <1>2

-----------------------------------------------------------------------------
(* WORKER_RUN_ALL.                                                         *)

\* What is pending after entries for worker tasks were added to table t.
LEMMA PendingRefilled ==
    ASSUME NEW t, NEW new, DOMAIN tasks' = DOMAIN t \cup new,
           \A h \in DOMAIN t : tasks'[h] = t[h],
           \A h \in new : tasks'[h] = Entry("worker", "PENDING")
    PROVE  /\ Pending("worker")' = {h \in DOMAIN t : t[h] = Entry("worker", "PENDING")} \cup new
           /\ new \cap DOMAIN t = {} =>
                Pending("bytecode")' = {h \in DOMAIN t : t[h] = Entry("bytecode", "PENDING")}
<1>1. \A kind : Pending(kind)' = {h \in DOMAIN tasks' : tasks'[h] = Entry(kind, "PENDING")}
  BY DEF Pending, Entry
<1>2. Entry("worker", "PENDING") # Entry("bytecode", "PENDING")
  BY Zenon DEF Entry
<1> QED
  BY <1>1, <1>2

\* ext is gs with one more workload.
Appended(gs, z, ext) == ext = Append(gs, z)

\* No slot behind the last workload comes before one of it.
LEMMA BehindAll ==
    ASSUME NEW m \in Nat, NEW t, t[1] \in 1..m, NEW s, Before(s, t)
    PROVE  s[1] # m + 1
  BY DEF Before

\* A new workload: n more open slots, behind all others.
LEMMA AppendedGroups ==
    ASSUME NEW gs, NEW next \in Nat \ {0}, GroupsOK(gs, next), Canonical(gs),
           NEW n \in Nat, n <= MaxHandle, NEW ext, NEW z, Appended(gs, z, ext),
           z \in Seq(Nat), Len(z) = n, \A i \in 1..n : z[i] = 0
    PROVE  /\ GroupsOK(ext, next) /\ Canonical(ext)
           /\ Cardinality(OpenSlots(ext)) \in Nat
           /\ Cardinality(OpenSlots(ext)) <= Cardinality(OpenSlots(gs)) + n
<1> DEFINE l == Len(gs) + 1
           N == {l} \X (1..n)
<1>1. gs \in Seq(Seq(Nat)) /\ Len(gs) \in Nat /\ DOMAIN gs = 1..Len(gs) /\ l \in Nat
  BY DEF GroupsOK
<1>2. z \in Seq(Nat) /\ Len(z) = n /\ DOMAIN z = 1..n /\ \A i \in 1..n : z[i] = 0
  OBVIOUS
<1>3. /\ ext \in Seq(Seq(Nat)) /\ DOMAIN ext = 1..l /\ ext[l] = z
      /\ \A g \in DOMAIN gs : ext[g] = gs[g]
  BY <1>1, <1>2 DEF Appended
<1>4. \A g \in DOMAIN ext : g \in DOMAIN gs \/ g = l
  <2>1. \A g \in 1..(Len(gs) + 1) : g \in 1..Len(gs) \/ g = Len(gs) + 1
    BY <1>1
  <2> QED
    BY <1>1, <1>3, <2>1, Zenon
<1>5. GroupsOK(ext, next)
  <2>1. ASSUME NEW g \in DOMAIN ext
        PROVE  Len(ext[g]) <= MaxHandle /\ \A i \in DOMAIN ext[g] : ext[g][i] < next
    <3>1. CASE g \in DOMAIN gs
      BY Zenon, <1>3, <3>1 DEF GroupsOK
    <3>2. CASE g = l
      <4>1. \A i \in 1..n : 0 < next
        OBVIOUS
      <4> QED
        BY Zenon, <1>2, <1>3, <3>2, <4>1
    <3> QED
      BY <1>4, <3>1, <3>2
  <2> QED
    BY Zenon, <1>3, <2>1 DEF GroupsOK
<1>6. ASSUME NEW s \in LogicalTasks(ext)
      PROVE  \/ s \in LogicalTasks(gs) /\ s[1] \in 1..Len(gs) /\ ext[s[1]][s[2]] = gs[s[1]][s[2]]
             \/ s \in N /\ s[1] = l /\ ext[s[1]][s[2]] = 0
  <2>1. PICK g \in DOMAIN ext : \E i \in DOMAIN ext[g] : s = <<g, i>>
    BY SlotsOfGroups
  <2>2. PICK i \in DOMAIN ext[g] : s = <<g, i>>
    BY Zenon, <2>1
  <2>3. CASE g \in DOMAIN gs
    <3>1. ext[g] = gs[g] /\ s = <<g, i>> /\ s[1] = g /\ s[2] = i
      BY Zenon, <1>3, <2>2, <2>3
    <3>2. s \in LogicalTasks(gs)
      BY Zenon, <2>3, <3>1, SlotsOfGroups
    <3> QED
      BY Zenon, <1>1, <2>3, <3>1, <3>2
  <2>4. CASE g = l
    BY Zenon, <1>2, <1>3, <2>2, <2>4
  <2> QED
    BY Zenon, <1>4, <2>3, <2>4
<1>7. Canonical(ext)
  <2> SUFFICES ASSUME NEW s \in LogicalTasks(ext), NEW t \in LogicalTasks(ext), Before(s, t),
                      ext[t[1]][t[2]] # 0
               PROVE  ext[s[1]][s[2]] # 0 /\ ext[s[1]][s[2]] < ext[t[1]][t[2]]
    BY Zenon DEF Canonical
  <2>1. t \in LogicalTasks(gs) /\ t[1] \in 1..Len(gs) /\ ext[t[1]][t[2]] = gs[t[1]][t[2]]
    BY Zenon, <1>6
  <2>2. s[1] # l
    BY Zenon, <1>1, <2>1, BehindAll
  <2>3. s \in LogicalTasks(gs) /\ ext[s[1]][s[2]] = gs[s[1]][s[2]]
    BY Zenon, <1>6, <2>2
  <2> QED
    BY Zenon, <2>1, <2>3 DEF Canonical
<1>8. OpenSlots(ext) \in SUBSET (OpenSlots(gs) \cup N)
  BY Zenon, <1>6 DEF OpenSlots
<1>9. IsFiniteSet(N) /\ Cardinality(N) = n
  <2>1. IsFiniteSet(1..n) /\ Cardinality(1..n) = n
    <3>1. 1 \in Int /\ n \in Int
      OBVIOUS
    <3>2. IsFiniteSet(1..n) /\ Cardinality(1..n) = IF 1 > n THEN 0 ELSE n - 1 + 1
      BY <3>1, FS_Interval
    <3> QED
      BY <3>2
  <2>2. IsFiniteSet({l}) /\ Cardinality({l}) = 1
    BY Zenon, FS_Singleton
  <2>3. IsFiniteSet(N) /\ Cardinality(N) = Cardinality({l}) * Cardinality(1..n)
    BY Zenon, <2>1, <2>2, FS_Product
  <2> QED
    BY <2>1, <2>2, <2>3
<1> HIDE DEF N
<1>10. IsFiniteSet(OpenSlots(gs)) /\ Cardinality(OpenSlots(gs)) \in Nat
  BY OpenFinite
<1>11. /\ IsFiniteSet(OpenSlots(gs) \cup N)
       /\ Cardinality(OpenSlots(gs) \cup N)
            = Cardinality(OpenSlots(gs)) + n - Cardinality(OpenSlots(gs) \cap N)
  BY Zenon, <1>9, <1>10, FS_Union
<1>12. Cardinality(OpenSlots(gs) \cap N) \in Nat
  BY Zenon, <1>9, <1>10, FS_Intersection, FS_CardinalityType
<1>13. Cardinality(OpenSlots(gs) \cup N) \in Nat /\ Cardinality(OpenSlots(gs) \cup N) <= Cardinality(OpenSlots(gs)) + n
  BY <1>10, <1>11, <1>12, FS_CardinalityType
<1>14. Cardinality(OpenSlots(ext)) <= Cardinality(OpenSlots(gs) \cup N)
  BY Zenon, <1>8, <1>11, FS_Subset
<1>15. Cardinality(OpenSlots(ext)) \in Nat
  BY Zenon, <1>5, OpenFinite
<1>16. Cardinality(OpenSlots(ext)) <= Cardinality(OpenSlots(gs)) + n
  BY <1>10, <1>13, <1>14, <1>15
<1> QED
  BY Zenon, <1>5, <1>7, <1>15, <1>16

LEMMA WorkerRunAllStep ==
    ASSUME Inv, NEW n \in BatchSizes, NEW k \in 0..n, WorkerRunAll(n, k)
    PROVE  Inv'
<1> DEFINE z == [i \in 1..n |-> NoHandle]
           ext == Append(groups, z)
           new == Fresh(nextHandle, k)
           limit == program.handles
<1>1. /\ status = "RUNNING" /\ Fits(n) /\ k <= Wanted(tasks, ext)
      /\ Materialize(tasks, ext, board, k)
      /\ status' = "RUNNING" => k = Wanted(tasks, ext)
      /\ UNCHANGED <<tombstones, thread, consumptions, program>>
  BY ZenonT(30) DEF WorkerRunAll, Can
<1>2. /\ TypeOK /\ nextHandle \in Nat \ {0} /\ TableOK(tasks, nextHandle) /\ GroupsOK(groups, nextHandle)
      /\ Canonical(groups) /\ board \in [Handles -> Stages] /\ limit \in 1..MaxHandle
  <2>1. /\ TypeOK /\ nextHandle \in 1..(MaxHandle + 1) /\ TableOK(tasks, nextHandle)
        /\ GroupsOK(groups, nextHandle) /\ board \in [Handles -> Stages] /\ program \in Programs
    BY Zenon DEF Inv, TypeOK
  <2>2. Canonical(groups)
    BY Zenon DEF Inv, CanonicalWindow, Canonical
  <2>3. limit \in 1..MaxHandle
    BY Zenon, <2>1
  <2>4. nextHandle \in Nat \ {0}
    BY <2>1
  <2> QED
    BY Zenon, <2>1, <2>2, <2>3, <2>4
<1>3. Cardinality(OpenSlots(groups)) \in Nat /\ n \in Nat /\ k \in Nat
  BY <1>2, OpenFinite
<1>3a. nextHandle \in Nat \ {0} /\ limit \in 1..MaxHandle
  BY Zenon, <1>2
<1>4. nextHandle + Cardinality(OpenSlots(groups)) + n <= limit + 1
  BY <1>1 DEF Fits
<1>5. n <= MaxHandle
  BY <1>3, <1>3a, <1>4
<1>6. z \in Seq(Nat) /\ Len(z) = n /\ (\A i \in 1..n : z[i] = 0) /\ Appended(groups, z, ext)
  BY <1>3 DEF Appended
<1> HIDE DEF z, ext, limit
<1>7. /\ GroupsOK(ext, nextHandle) /\ Canonical(ext)
      /\ Cardinality(OpenSlots(ext)) \in Nat
      /\ Cardinality(OpenSlots(ext)) <= Cardinality(OpenSlots(groups)) + n
  BY Zenon, <1>2, <1>3, <1>5, <1>6, AppendedGroups
<1>8. nextHandle + Cardinality(OpenSlots(ext)) <= limit + 1
  <2>1. Cardinality(OpenSlots(ext)) \in Nat /\ Cardinality(OpenSlots(ext)) <= Cardinality(OpenSlots(groups)) + n
    BY Zenon, <1>7
  <2> QED
    BY <1>3, <1>3a, <1>4, <2>1
<1>9. /\ new \subseteq Handles /\ new \cap DOMAIN tasks = {}
      /\ nextHandle' \in 1..(MaxHandle + 1) /\ nextHandle' >= nextHandle + k
      /\ TableOK(tasks', nextHandle')
      /\ DOMAIN tasks' = DOMAIN tasks \cup new
      /\ \A h \in DOMAIN tasks : tasks'[h] = tasks[h]
      /\ \A h \in new : tasks'[h] = Entry("worker", "PENDING")
      /\ GroupsOK(groups', nextHandle') /\ CanonicalWindow'
      /\ board' \in [Handles -> Stages]
      /\ \A h \in Handles : board'[h] = IF h \in new THEN "queued" ELSE board[h]
      /\ k = Wanted(tasks, ext) =>
           /\ nextHandle' + Cardinality(OpenSlots(groups')) <= limit + 1
           /\ OpenSlots(groups') = {} \/ Full'
  BY Zenon, <1>1, <1>2, <1>3, <1>7, <1>8, Refilled
<1>10. TypeOK'
  BY Zenon, <1>1, <1>2, <1>9 DEF TypeOK
<1>11. HandlesLeft' /\ NoStrandedWork'
  BY Zenon, <1>1, <1>9 DEF HandlesLeft, NoStrandedWork, limit
<1>12. \A h \in new : h >= nextHandle
  BY <1>2, <1>3 DEF Fresh
<1>13. ConsumedGone'
  <2>1. \A h \in Handles : h >= nextHandle' => h >= nextHandle
    BY Zenon, <1>2, <1>3, <1>9, LaterStill
  <2> HIDE DEF new
  <2> QED
    BY ZenonT(30), <1>1, <1>9, <1>12, <2>1 DEF Inv, ConsumedGone
<1> HIDE DEF new
<1>14. WorkFollowsTable'
  <2>1. /\ Pending("worker")' = {h \in DOMAIN tasks : tasks[h] = Entry("worker", "PENDING")} \cup new
        /\ Pending("bytecode")' = {h \in DOMAIN tasks : tasks[h] = Entry("bytecode", "PENDING")}
    BY ZenonT(30), <1>9, PendingRefilled
  <2>2. Pending("worker")' = Pending("worker") \cup new /\ Pending("bytecode")' = Pending("bytecode")
    BY <2>1 DEF Pending
  <2>3. {h \in Handles : board'[h] # "none"} = {h \in Handles : board[h] # "none"} \cup new
    BY Zenon, <1>9
  <2>4. {h \in Handles : board[h] # "none"} = Pending("worker")
        /\ {h \in Handles : thread[h] # "none"} \subseteq Pending("bytecode")
    BY Zenon, <1>1 DEF Inv, WorkFollowsTable
  <2> QED
    BY Zenon, <1>1, <2>2, <2>3, <2>4 DEF WorkFollowsTable
<1> QED
  BY Zenon, <1>9, <1>10, <1>11, <1>13, <1>14 DEF Inv

-----------------------------------------------------------------------------
(* release_consumed_task_result.                                           *)

\* The releases that find room for a tombstone keep the tombstones bounded.
LEMMA ReleasableOK ==
    ASSUME TypeOK, NEW hs, NEW n \in Nat, hs \in [1..n -> Handles \cup {NoHandle}], Len(hs) = n,
           NEW stk, NEW par
    PROVE  /\ Releasable(hs, stk, par) \in 0..n
           /\ \A r \in 0..Releasable(hs, stk, par) :
                /\ TombstonesAfter(hs, r, stk, par) \subseteq Handles
                /\ Cardinality(TombstonesAfter(hs, r, stk, par)) <= TaskCapacity
<1> DEFINE T(r) == TombstonesAfter(hs, r, stk, par)
           S == {r \in 0..n : Cardinality(T(r)) <= TaskCapacity}
           last == Releasable(hs, stk, par)
<1>1. \A r \in 0..n : T(r) \in SUBSET Handles
  <2>1. ASSUME NEW r \in 0..n PROVE ReleasedAfter(hs, r) \subseteq Handles
    <3>1. \A j \in 1..r : j \in 1..n
      OBVIOUS
    <3> QED
      BY Zenon, <3>1 DEF ReleasedAfter
  <2> QED
    BY Zenon, <2>1 DEF TypeOK, TombstonesAfter
<1>2. IsFiniteSet(Handles)
  <2>1. 1 \in Int /\ MaxHandle \in Int
    OBVIOUS
  <2> QED
    BY Zenon, <2>1, FS_Interval
<1>3. T(0) = tombstones
  BY DEF TombstonesAfter, ReleasedAfter
<1>4. \A q, r \in 0..n : q <= r => T(q) \in SUBSET T(r)
  BY DEF TombstonesAfter, ReleasedAfter
<1>5. last = Max(S)
  BY Zenon DEF Releasable
<1>6. 0 \in S /\ S \in SUBSET (0..n)
  BY <1>3 DEF TypeOK
<1> HIDE DEF T, last
<1>7. last \in S
  BY Zenon, <1>5, <1>6, GreatestNat
<1>8. last \in 0..n /\ Cardinality(T(last)) <= TaskCapacity
  BY Zenon, <1>7
<1>9. ASSUME NEW r \in 0..last PROVE Cardinality(T(r)) <= TaskCapacity
  <2>1. r \in 0..n /\ r <= last
    BY <1>8
  <2>2. IsFiniteSet(T(last)) /\ T(r) \in SUBSET T(last) /\ IsFiniteSet(T(r))
    BY Zenon, <1>1, <1>2, <1>4, <1>8, <2>1, FS_Subset
  <2>3. Cardinality(T(r)) <= Cardinality(T(last)) /\ Cardinality(T(r)) \in Nat /\ Cardinality(T(last)) \in Nat
    BY Zenon, <2>2, FS_Subset, FS_CardinalityType
  <2> QED
    BY <1>8, <2>3
<1>10. \A r \in 0..last : r \in 0..n
  BY <1>8
<1> QED
  BY Zenon, <1>1, <1>8, <1>9, <1>10 DEF T, last

\* What is left after the tasks known were consumed: those of rel were released
\* before a failure stopped the VM, all of them when it runs on, and new tasks
\* of the workloads took their places.
Consumed(known, t, b, rel, new) ==
  /\ \A h \in new : h >= nextHandle
  /\ nextHandle' \in 1..(MaxHandle + 1) /\ nextHandle' >= nextHandle
  /\ TableOK(tasks', nextHandle')
  /\ GroupsOK(groups', nextHandle') /\ CanonicalWindow'
  /\ tombstones' \subseteq Handles /\ Cardinality(tombstones') <= TaskCapacity
  /\ DOMAIN tasks' = (DOMAIN tasks \ rel) \cup new
  /\ \A h \in DOMAIN tasks \ rel : tasks'[h] = t[h]
  /\ \A h \in new : tasks'[h] = Entry("worker", "PENDING")
  /\ board' \in [Handles -> Stages]
  /\ \A h \in Handles : board'[h] = IF h \in new THEN "queued" ELSE b[h]
  /\ status' = "RUNNING" => rel = known /\ HandlesLeft' /\ NoStrandedWork'

LEMMA HandleNumbers ==
    /\ \A n \in 1..(MaxHandle + 1) : n \in Nat \ {0} /\ n \in Nat
    /\ \A n, m \in Nat : n >= m => \A h \in Handles : h >= n => h >= m
  OBVIOUS

LEMMA Bounds ==
    ASSUME NEW n \in Nat, NEW m \in 0..n
    PROVE  /\ m \in Nat /\ m <= n /\ (~(m < n) => m = n)
           /\ \A j \in 0..m : j \in 0..n
           /\ \A j \in 1..m : j \in 1..n
  OBVIOUS

LEMMA AboveFresh ==
    ASSUME NEW m \in Nat, NEW k \in Nat
    PROVE  /\ \A h \in Fresh(m, k) : h >= m
           /\ \A h \in Nat : h >= m + k => h >= m
  BY DEF Fresh

LEMMA Released ==
    ASSUME Inv, status = "RUNNING", NEW hs, NEW n \in Nat,
           hs \in [1..n -> Handles \cup {NoHandle}], Len(hs) = n,
           NEW known \in SUBSET DOMAIN tasks, ReleasedAfter(hs, n) = known,
           NEW t, TableOK(t, nextHandle), DOMAIN t = DOMAIN tasks,
           NEW b \in [Handles -> Stages], NEW stk, NEW par,
           Release(hs, t, b, stk, par), program' = program
    PROVE  \E rel \in SUBSET known, new \in SUBSET Handles : Consumed(known, t, b, rel, new)
<1> DEFINE last == Releasable(hs, stk, par)
           R(r) == RefilledAfter(hs, r, t, stk, par)
           limit == program.handles
<1>1. PICK r \in 0..last : \E k \in 0..R(r) :
        /\ k < R(r) \/ r = last
        /\ tombstones' = TombstonesAfter(hs, r, stk, par)
        /\ Materialize(RemainingAfter(hs, r, t, stk, par), groups, b, k)
        /\ status' = IF k < R(r) THEN "MATERIALIZE" ELSE IF last < Len(hs) THEN "TOMBSTONES" ELSE "RUNNING"
  BY Zenon DEF Release
<1> DEFINE rel == ReleasedAfter(hs, r)
           u == Without(t, rel)
           w == Wanted(u, groups)
<1>2. RemainingAfter(hs, r, t, stk, par) = u /\ R(r) = IF rel = {} THEN 0 ELSE w
  BY Zenon DEF RemainingAfter, RefilledAfter
<1> HIDE DEF R, last
<1>3. PICK k \in 0..R(r) :
        /\ k < R(r) \/ r = last
        /\ tombstones' = TombstonesAfter(hs, r, stk, par)
        /\ Materialize(u, groups, b, k)
        /\ status' = IF k < R(r) THEN "MATERIALIZE" ELSE IF last < n THEN "TOMBSTONES" ELSE "RUNNING"
  BY Zenon, <1>1, <1>2
<1>4. /\ last \in 0..n
      /\ TombstonesAfter(hs, r, stk, par) \subseteq Handles
      /\ Cardinality(TombstonesAfter(hs, r, stk, par)) <= TaskCapacity
  BY Zenon, ReleasableOK DEF Inv, last
<1>5. rel \in SUBSET known /\ (r = n => rel = known)
  <2>1. \A j \in 1..r : j \in 1..n
    <3>1. r \in 0..n
      BY Zenon, <1>4, Bounds
    <3> QED
      BY Zenon, <3>1, Bounds
  <2> QED
    BY Zenon, <2>1 DEF ReleasedAfter
<1>6. /\ nextHandle \in Nat \ {0} /\ GroupsOK(groups, nextHandle) /\ Canonical(groups)
      /\ limit \in 1..MaxHandle /\ nextHandle + Cardinality(OpenSlots(groups)) <= limit + 1
  <2>1. TypeOK /\ CanonicalWindow /\ HandlesLeft
    BY Zenon DEF Inv
  <2>2. nextHandle \in 1..(MaxHandle + 1) /\ GroupsOK(groups, nextHandle) /\ program \in Programs
    BY Zenon, <2>1 DEF TypeOK
  <2>3. nextHandle \in Nat \ {0}
    BY Zenon, <2>2, HandleNumbers
  <2>4. limit \in 1..MaxHandle
    BY Zenon, <2>2, VmTasksAssumption
  <2>5. Canonical(groups)
    BY Zenon, <2>1 DEF CanonicalWindow, Canonical
  <2> QED
    BY Zenon, <2>1, <2>2, <2>3, <2>4, <2>5 DEF HandlesLeft
<1> HIDE DEF rel, u, limit
<1>7. /\ TableOK(u, nextHandle)
      /\ DOMAIN u = DOMAIN tasks \ rel
      /\ \A h \in DOMAIN tasks \ rel : u[h] = t[h]
  BY ZenonT(30), <1>6, WithoutOK DEF u
<1>8. w \in Nat /\ R(r) = w
  <2>1. /\ w \in Nat /\ w <= Cardinality(OpenSlots(groups)) /\ Cardinality(DOMAIN u) + w <= TaskCapacity
    BY Zenon, <1>6, <1>7, WantedFits
  <2>2. ASSUME rel = {} PROVE w = 0
    <3>1. DOMAIN u = DOMAIN tasks
      BY ZenonT(30), <1>7, <2>2
    <3>2. CASE OpenSlots(groups) = {}
      <4>1. Cardinality({}) = 0
        BY Zenon, FS_EmptySet
      <4> QED
        BY <2>1, <3>2, <4>1
    <3>3. CASE Full
      <4>1. Cardinality(DOMAIN tasks) \in Nat /\ Cardinality(DOMAIN tasks) >= TaskCapacity
        BY Zenon, <1>6, <1>7, <3>1, <3>3, TableFinite DEF Full
      <4> QED
        BY <2>1, <3>1, <4>1
    <3> QED
      BY Zenon, <3>2, <3>3 DEF Inv, NoStrandedWork
  <2> QED
    BY Zenon, <1>2, <2>1, <2>2
<1> HIDE DEF w
<1>9. k \in Nat /\ k <= w /\ (~(k < R(r)) => k = w)
  BY Zenon, <1>3, <1>8, Bounds
<1> DEFINE new == Fresh(nextHandle, k)
<1>10. /\ new \subseteq Handles /\ new \cap DOMAIN u = {}
       /\ nextHandle' \in 1..(MaxHandle + 1) /\ nextHandle' >= nextHandle + k
       /\ TableOK(tasks', nextHandle')
       /\ DOMAIN tasks' = DOMAIN u \cup new
       /\ \A h \in DOMAIN u : tasks'[h] = u[h]
       /\ \A h \in new : tasks'[h] = Entry("worker", "PENDING")
       /\ GroupsOK(groups', nextHandle') /\ CanonicalWindow'
       /\ board' \in [Handles -> Stages]
       /\ \A h \in Handles : board'[h] = IF h \in new THEN "queued" ELSE b[h]
       /\ k = Wanted(u, groups) =>
            /\ nextHandle' + Cardinality(OpenSlots(groups')) <= limit + 1
            /\ OpenSlots(groups') = {} \/ Full'
  BY ZenonT(30), <1>3, <1>6, <1>7, <1>9, Refilled DEF w
<1>11. nextHandle \in Nat /\ nextHandle' \in Nat
  BY Zenon, <1>6, <1>10, HandleNumbers
<1>12. nextHandle' >= nextHandle /\ \A h \in new : h >= nextHandle
  BY Zenon, <1>9, <1>10, <1>11, AboveFresh
<1>13. ASSUME status' = "RUNNING" PROVE k = w /\ r = n
  <2>1. ~(k < R(r)) /\ ~(last < n)
    BY Zenon, <1>3, <1>13
  <2> QED
    BY Zenon, <1>3, <1>4, <1>9, <2>1, Bounds
<1> HIDE DEF new
<1>14. status' = "RUNNING" => rel = known /\ HandlesLeft' /\ NoStrandedWork'
  BY Zenon, <1>5, <1>10, <1>13 DEF HandlesLeft, NoStrandedWork, w, limit
<1>15. Consumed(known, t, b, rel, new)
  BY ZenonT(30), <1>3, <1>4, <1>7, <1>10, <1>12, <1>14 DEF Consumed
<1> QED
  BY Zenon, <1>5, <1>10, <1>15

-----------------------------------------------------------------------------
(* AWAIT and PAR_JOIN.                                                     *)

LEMMA CompletedOK ==
    ASSUME TypeOK, NEW known, NEW oom
    PROVE  /\ TableOK(CompletedTable(known, oom), nextHandle)
           /\ DOMAIN CompletedTable(known, oom) = DOMAIN tasks
           /\ \A h \in DOMAIN tasks : ~(h \in known /\ Delivers(h, oom)) =>
                CompletedTable(known, oom)[h] = tasks[h]
           /\ CompletedBoard(known, oom) \in [Handles -> Stages]
           /\ CompletedThread(known, oom) \in [Handles -> {"none", "running", "returned", "failed"}]
<1> DEFINE t == CompletedTable(known, oom)
<1>1. tasks \in [DOMAIN tasks -> Record]
  BY Zenon DEF TypeOK, TableOK
<1>2. DOMAIN t = DOMAIN tasks /\ \A h \in DOMAIN tasks : ~(h \in known /\ Delivers(h, oom)) => t[h] = tasks[h]
  BY Zenon DEF CompletedTable
<1>3. \A h \in DOMAIN tasks : \A state \in {"COMPLETED", "CANCELED"} : Entry(tasks[h].kind, state) \in Record
  BY Zenon, <1>1 DEF Entry, Record
<1>4. \A h \in DOMAIN tasks : t[h] \in Record
  BY Zenon, <1>1, <1>3 DEF CompletedTable
<1>5. t = [h \in DOMAIN tasks |-> t[h]]
  BY Zenon DEF CompletedTable
<1> HIDE DEF t
<1>6. TableOK(t, nextHandle)
  BY Zenon, <1>2, <1>4, <1>5 DEF TypeOK, TableOK
<1>7. CompletedBoard(known, oom) \in [Handles -> Stages]
  BY Zenon DEF CompletedBoard, TypeOK, Stages
<1>8. CompletedThread(known, oom) \in [Handles -> {"none", "running", "returned", "failed"}]
  BY DEF CompletedThread, TypeOK
<1> QED
  BY ZenonT(30), <1>2, <1>6, <1>7, <1>8 DEF t

\* The tasks known, all of them completed, are consumed by one instruction.
LEMMA ConsumedStep ==
    ASSUME Inv, status = "RUNNING", NEW oom \in BOOLEAN,
           NEW known \in SUBSET DOMAIN tasks, \A h \in known : Delivers(h, oom),
           NEW hs, NEW n \in Nat, hs \in [1..n -> Handles \cup {NoHandle}], Len(hs) = n,
           ReleasedAfter(hs, n) = known, NEW stk, NEW par,
           Release(hs, CompletedTable(known, oom), CompletedBoard(known, oom), stk, par),
           thread' = CompletedThread(known, oom), consumptions' = Count(known), program' = program
    PROVE  /\ Inv'
           /\ \A h \in DOMAIN tasks \ DOMAIN tasks' : consumptions'[h] > consumptions[h]
<1> DEFINE t == CompletedTable(known, oom)
           b == CompletedBoard(known, oom)
<1>1. /\ TableOK(t, nextHandle) /\ DOMAIN t = DOMAIN tasks
      /\ \A h \in DOMAIN tasks \ known : t[h] = tasks[h]
      /\ b \in [Handles -> Stages]
      /\ thread' \in [Handles -> {"none", "running", "returned", "failed"}]
  <2>1. TypeOK
    BY Zenon DEF Inv
  <2>2. TableOK(t, nextHandle) /\ DOMAIN t = DOMAIN tasks
    BY Zenon, <2>1, CompletedOK
  <2>3. ASSUME NEW h \in DOMAIN tasks, h \notin known PROVE t[h] = tasks[h]
    BY Zenon, <2>3 DEF CompletedTable
  <2>4. b \in [Handles -> Stages]
    BY Zenon, <2>1, CompletedOK
  <2>5. thread' \in [Handles -> {"none", "running", "returned", "failed"}]
    BY Zenon, <2>1, CompletedOK
  <2> QED
    BY Zenon, <2>2, <2>3, <2>4, <2>5
<1> HIDE DEF t
<1>2. \E rel \in SUBSET known, new \in SUBSET Handles : Consumed(known, t, b, rel, new)
  <2> HIDE DEF b
  <2>1. Release(hs, t, b, stk, par)
    BY Zenon DEF t, b
  <2> QED
    BY ZenonT(30), <1>1, <2>1, Released
<1>3. PICK rel \in SUBSET known, new \in SUBSET Handles : Consumed(known, t, b, rel, new)
  BY Zenon, <1>2
<1>4. DOMAIN tasks \subseteq Handles /\ nextHandle \in Nat /\ \A h \in DOMAIN tasks : h < nextHandle
  <2>1. DOMAIN tasks \subseteq 1..(nextHandle - 1) /\ nextHandle \in 1..(MaxHandle + 1)
    BY Zenon DEF Inv, TypeOK, TableOK
  <2> QED
    BY <2>1
<1>5. \A h \in Handles :
        /\ h \in known => consumptions[h] = 0 /\ consumptions'[h] = 1
        /\ h \notin known => consumptions'[h] = consumptions[h]
  <2>1. ASSUME NEW h \in known PROVE consumptions[h] = 0
    BY Zenon DEF Inv, ConsumedGone
  <2>2. Min({0 + 1, 2}) = 1
    BY MinOfTwo
  <2>3. \A h \in Handles :
          /\ h \in known => consumptions'[h] = Min({consumptions[h] + 1, 2})
          /\ h \notin known => consumptions'[h] = consumptions[h]
    BY Zenon DEF Count
  <2> QED
    BY Zenon, <2>1, <2>2, <2>3
<1>6. consumptions' \in [Handles -> Nat]
  <2>1. consumptions' = [h \in Handles |-> consumptions'[h]]
    BY DEF Count
  <2>2. \A h \in Handles : consumptions[h] \in Nat
    BY Zenon DEF Inv, TypeOK
  <2> QED
    BY <1>5, <2>1, <2>2
<1>7. TypeOK'
  BY Zenon, <1>1, <1>3, <1>6 DEF Inv, TypeOK, Consumed
<1>8. HandlesLeft' /\ NoStrandedWork' /\ CanonicalWindow'
  BY Zenon, <1>3 DEF Consumed, HandlesLeft, NoStrandedWork
<1>9. ConsumedGone'
  <2>1. \A h \in Handles : h >= nextHandle => h \notin known /\ consumptions[h] = 0
    <3>1. ConsumedGone
      BY Zenon DEF Inv
    <3>2. \A h \in Handles : h >= nextHandle => ~(h < nextHandle)
      BY <1>4
    <3> QED
      BY Zenon, <1>4, <3>1, <3>2 DEF ConsumedGone
  <2>2. \A h \in Handles : h >= nextHandle' => h >= nextHandle
    <3>1. nextHandle' \in Nat /\ nextHandle' >= nextHandle
      BY Zenon, <1>3, HandleNumbers DEF Consumed
    <3> QED
      BY Zenon, <1>4, <3>1, HandleNumbers
  <2>3. \A h \in new : h >= nextHandle
    BY Zenon, <1>3 DEF Consumed
  <2>4. status' = "RUNNING" => DOMAIN tasks' = (DOMAIN tasks \ known) \cup new
    BY ZenonT(30), <1>3 DEF Consumed
  <2>5. \A h \in Handles : consumptions'[h] <= 1
    BY <1>5 DEF Inv, ConsumedGone
  <2>6. \A h \in Handles : h >= nextHandle' => consumptions'[h] = 0
    BY Zenon, <1>5, <2>1, <2>2
  <2>7. status' = "RUNNING" => \A h \in DOMAIN tasks' : consumptions'[h] = 0
    BY ZenonT(30), <1>4, <1>5, <2>1, <2>3, <2>4 DEF Inv, ConsumedGone
  <2> QED
    BY Zenon, <2>5, <2>6, <2>7 DEF ConsumedGone
<1>10. WorkFollowsTable'
  <2>1. /\ {h \in Handles : board[h] # "none"} = Pending("worker")
        /\ {h \in Handles : thread[h] # "none"} \subseteq Pending("bytecode")
    BY DEF Inv, WorkFollowsTable
  <2>2. \A h \in Handles : b[h] # "none" <=> board[h] # "none" /\ h \notin known
    <3> SUFFICES ASSUME NEW h \in known PROVE ~(oom /\ board[h] = "canceled")
      BY Zenon DEF CompletedBoard
    <3>1. board[h] = "canceled" => PendingWorker(h)
      BY Zenon, <1>4, <2>1 DEF PendingWorker
    <3> QED
      BY ZenonT(30), <3>1 DEF Delivers
  <2>3. \A h \in Handles : thread'[h] # "none" => thread[h] # "none" /\ h \notin known
    BY ZenonT(30), <2>1 DEF CompletedThread, PendingBytecode
  <2> HIDE DEF b
  <2> DEFINE v == [h \in DOMAIN tasks \ rel |-> t[h]]
  <2>4. new \cap DOMAIN tasks = {}
    BY <1>3, <1>4 DEF Consumed
  <2>5. /\ DOMAIN v = DOMAIN tasks \ rel
        /\ DOMAIN tasks' = DOMAIN v \cup new /\ new \cap DOMAIN v = {}
        /\ \A h \in DOMAIN v : tasks'[h] = v[h]
        /\ \A h \in new : tasks'[h] = Entry("worker", "PENDING")
    BY Zenon, <1>3, <2>4 DEF Consumed
  <2>6. \A h \in DOMAIN v : h \notin known => v[h] = tasks[h]
    BY Zenon, <1>1
  <2> HIDE DEF v
  <2>7. /\ Pending("worker")' = {h \in DOMAIN v : v[h] = Entry("worker", "PENDING")} \cup new
        /\ Pending("bytecode")' = {h \in DOMAIN v : v[h] = Entry("bytecode", "PENDING")}
    BY Zenon, <2>5, PendingRefilled
  <2>8. \A h \in Handles : thread'[h] # "none" => h \in Pending("bytecode")'
    BY ZenonT(30), <2>1, <2>3, <2>5, <2>6, <2>7 DEF Pending
  <2>9. ASSUME status' = "RUNNING"
        PROVE  {h \in Handles : board'[h] # "none"} = Pending("worker")'
    <3>1. rel = known
      BY Zenon, <1>3, <2>9 DEF Consumed
    <3>2. Pending("worker")' = (Pending("worker") \ known) \cup new
      BY Zenon, <2>5, <2>6, <2>7, <3>1 DEF Pending
    <3>3. \A h \in Handles : board'[h] = IF h \in new THEN "queued" ELSE b[h]
      BY Zenon, <1>3 DEF Consumed
    <3> QED
      BY Zenon, <2>1, <2>2, <3>2, <3>3
  <2> QED
    BY Zenon, <2>8, <2>9 DEF WorkFollowsTable
<1>11. \A h \in DOMAIN tasks \ DOMAIN tasks' : consumptions'[h] > consumptions[h]
  <2>1. \A h \in DOMAIN tasks \ DOMAIN tasks' : h \in Handles /\ h \in known
    BY Zenon, <1>3, <1>4 DEF Consumed
  <2>2. 1 > 0
    OBVIOUS
  <2> QED
    BY Zenon, <1>5, <2>1, <2>2
<1> QED
  BY Zenon, <1>7, <1>8, <1>9, <1>10, <1>11 DEF Inv

LEMMA AwaitDeliversStep ==
    ASSUME Inv, AwaitDelivers
    PROVE  /\ Inv'
           /\ \A h \in DOMAIN tasks \ DOMAIN tasks' : consumptions'[h] > consumptions[h]
<1>1. PICK h : /\ status = "RUNNING" /\ InTable(h) /\ Delivers(h, FALSE)
               /\ Release(<<h>>, CompletedTable({h}, FALSE), CompletedBoard({h}, FALSE), Popped, parValues)
               /\ thread' = CompletedThread({h}, FALSE) /\ consumptions' = Count({h})
               /\ program' = program
  BY Zenon DEF AwaitDelivers, Can
<1>2. h \in DOMAIN tasks /\ h \in Handles
  BY <1>1 DEF InTable, Inv, TypeOK, TableOK
<1> DEFINE hs == <<h>>
<1>3. hs \in [1..1 -> Handles \cup {NoHandle}] /\ Len(hs) = 1 /\ hs[1] = h
  BY <1>2
<1>4. ReleasedAfter(hs, 1) = {h}
  <2>1. \A j \in 1..1 : hs[j] = h
    BY <1>3
  <2> HIDE DEF hs
  <2> QED
    BY <1>2, <2>1 DEF ReleasedAfter
<1>5. Release(hs, CompletedTable({h}, FALSE), CompletedBoard({h}, FALSE), Popped, parValues)
  BY Zenon, <1>1
<1> HIDE DEF hs
<1>6. {h} \in SUBSET DOMAIN tasks /\ \A x \in {h} : Delivers(x, FALSE)
  BY ZenonT(30), <1>1, <1>2
<1> QED
  BY Zenon, <1>1, <1>3, <1>4, <1>5, <1>6, ConsumedStep

\* A step of the board or of the threads alone that keeps who has work.
LEMMA WorkStep ==
    ASSUME Inv, UNCHANGED <<table, workloads, consumptions, program>>,
           status' # status => status' # "RUNNING",
           board' \in [Handles -> Stages],
           thread' \in [Handles -> {"none", "running", "returned", "failed"}],
           status' = "RUNNING" => \A h \in Handles : board'[h] # "none" <=> board[h] # "none",
           \A h \in Handles : thread'[h] # "none" => thread[h] # "none"
    PROVE  Inv'
<1>1. UNCHANGED <<tasks, nextHandle, tombstones, groups, consumptions, program>>
  BY DEF table, workloads
<1>2. TypeOK'
  BY ZenonT(30), <1>1 DEF Inv, TypeOK, TableOK, GroupsOK
<1>3. HandlesLeft' /\ ConsumedGone' /\ NoStrandedWork'
  BY <1>1 DEF Inv, HandlesLeft, ConsumedGone, NoStrandedWork, Full
<1>4. CanonicalWindow'
  BY ZenonT(30), <1>1 DEF Inv, CanonicalWindow
<1>5. WorkFollowsTable'
  <2>1. Pending("worker")' = Pending("worker") /\ Pending("bytecode")' = Pending("bytecode")
    BY <1>1 DEF Pending
  <2> QED
    BY Zenon, <2>1 DEF Inv, WorkFollowsTable
<1> QED
  BY Zenon, <1>2, <1>3, <1>4, <1>5 DEF Inv

LEMMA AwaitFailsStep ==
    ASSUME Inv, NEW oom \in BOOLEAN, AwaitFails(oom)
    PROVE  Inv'
<1>1. PICK h : /\ status' = CompletionError(h) /\ board' = CompletedBoard({h}, oom)
               /\ UNCHANGED <<table, workloads, thread, consumptions, program>>
  BY ZenonT(30) DEF AwaitFails
<1>2. status' # "RUNNING"
  BY Zenon, <1>1 DEF CompletionError
<1>3. board' \in [Handles -> Stages]
  BY Zenon, <1>1, CompletedOK DEF Inv
<1>4. thread' \in [Handles -> {"none", "running", "returned", "failed"}]
  BY Zenon, <1>1 DEF Inv, TypeOK
<1> QED
  BY ZenonT(30), <1>1, <1>2, <1>3, <1>4, WorkStep

LEMMA TaskCancelStep ==
    ASSUME Inv, TaskCancel
    PROVE  Inv'
<1>1. PICK h : /\ status' = IF InTable(h) THEN status ELSE "CANCEL_INVALID"
               /\ board' = IF PendingWorker(h) /\ board[h] = "queued"
                           THEN [board EXCEPT ![h] = "canceled"] ELSE board
               /\ UNCHANGED <<table, workloads, thread, consumptions, program>>
  BY Zenon DEF TaskCancel
<1>2. board \in [Handles -> Stages] /\ thread \in [Handles -> {"none", "running", "returned", "failed"}]
  BY Zenon DEF Inv, TypeOK
<1>3. board' \in [Handles -> Stages] /\ \A x \in Handles : board'[x] # "none" <=> board[x] # "none"
  BY Zenon, <1>1, <1>2 DEF Stages, Settled
<1> QED
  BY Zenon, <1>1, <1>2, <1>3, WorkStep

LEMMA ThreadsStep ==
    ASSUME Inv, Threads
    PROVE  Inv'
<1>1. board \in [Handles -> Stages] /\ thread \in [Handles -> {"none", "running", "returned", "failed"}]
  BY Zenon DEF Inv, TypeOK
<1>2. UNCHANGED <<status, table, workloads, consumptions, program>>
  BY DEF Threads, WorkerStart, WorkerFinish, ThreadFinish
<1>3. board' \in [Handles -> Stages] /\ \A x \in Handles : board'[x] # "none" <=> board[x] # "none"
  BY Zenon, <1>1 DEF Threads, WorkerStart, WorkerFinish, ThreadFinish, Stages, Settled
<1>4. thread' \in [Handles -> {"none", "running", "returned", "failed"}]
      /\ \A x \in Handles : thread'[x] # "none" => thread[x] # "none"
  BY ZenonT(30), <1>1 DEF Threads, WorkerStart, WorkerFinish, ThreadFinish
<1> QED
  BY Zenon, <1>2, <1>3, <1>4, WorkStep

Context == [expected : Nat, start : Nat]

\* The Par contexts are nested: each begins at or after the one around it, and
\* none beyond the branch values there are.
ParOK ==
  /\ parValues \in Seq(Range(parValues))
  /\ parContexts \in Seq(Context)
  /\ \A i \in DOMAIN parContexts : parContexts[i].start <= Len(parValues)
  /\ \A i, j \in DOMAIN parContexts : i <= j => parContexts[i].start <= parContexts[j].start

LEMMA ContextType ==
    ASSUME ParOK
    PROVE  /\ Len(parValues) \in Nat /\ Len(parContexts) \in Nat
           /\ DOMAIN parContexts = 1..Len(parContexts)
           /\ \A i \in DOMAIN parContexts : parContexts[i] \in Context /\ parContexts[i].start \in Nat
<1>1. \A i \in DOMAIN parContexts : parContexts[i] \in Context
  BY DEF ParOK
<1>2. \A c \in Context : c.start \in Nat
  BY Zenon DEF Context
<1> QED
  BY <1>1, <1>2 DEF ParOK

LEMMA ParJoinStep ==
    ASSUME Inv, ParOK, NEW n \in Nat, NEW oom \in BOOLEAN, ParJoin(n, oom)
    PROVE  /\ Inv'
           /\ \A h \in DOMAIN tasks \ DOMAIN tasks' : consumptions'[h] > consumptions[h]
<1> DEFINE known == BranchTasks \cap DOMAIN tasks
           failed == {h \in known : ~Delivers(h, oom)}
           gone == (BranchTasks \ known) \cap tombstones
           left == SubSeq(parValues, 1, Innermost.start)
           hs == [j \in 1..n |-> IF IsTask(Branches[j]) /\ Branches[j][2] \in known
                                 THEN Branches[j][2] ELSE NoHandle]
<1>1. /\ status = "RUNNING" /\ JoinMatches(n) /\ thread' = CompletedThread(known, oom)
      /\ program' = program
  BY Zenon DEF ParJoin, Can
<1>2. DOMAIN tasks \subseteq Handles
  <2>1. DOMAIN tasks \subseteq 1..(nextHandle - 1) /\ nextHandle \in 1..(MaxHandle + 1)
    BY Zenon DEF Inv, TypeOK, TableOK
  <2> QED
    BY <2>1
<1>3. CASE failed \cup gone = {}
  <2>1. /\ Release(hs, CompletedTable(known, oom), CompletedBoard(known, oom), stack, left)
        /\ consumptions' = Count(known)
    BY Zenon, <1>3 DEF ParJoin
  <2>2. hs \in [1..n -> Handles \cup {NoHandle}] /\ Len(hs) = n
    <3>1. \A j \in 1..n : hs[j] \in Handles \cup {NoHandle}
      BY Zenon, <1>2
    <3>2. hs = [j \in 1..n |-> hs[j]]
      BY Zenon
    <3> HIDE DEF hs
    <3>3. hs \in [1..n -> Handles \cup {NoHandle}]
      BY Zenon, <3>1, <3>2
    <3> QED
      BY <3>3
  <2>3. ReleasedAfter(hs, n) = known
    <3>1. DOMAIN Branches = 1..n
      <4> DEFINE c == Len(parContexts)
                 s == parContexts[c].start
      <4>1. c \in DOMAIN parContexts
        BY <1>1 DEF ParOK, JoinMatches
      <4>2. s \in Nat /\ s <= Len(parValues) /\ Len(parValues) \in Nat
        BY Zenon, <4>1, ContextType DEF ParOK
      <4>3. Branches = SubSeq(parValues, s + 1, Len(parValues)) /\ Len(Branches) = n
        BY ZenonT(30), <1>1 DEF Branches, Innermost, JoinMatches
      <4> HIDE DEF s
      <4>4. DOMAIN Branches = 1..Len(Branches)
        BY <4>2, <4>3 DEF ParOK
      <4> QED
        BY ZenonT(30), <4>3, <4>4
    <3>2. known = {h \in DOMAIN tasks : \E j \in 1..n : IsTask(Branches[j]) /\ h = Branches[j][2]}
      BY Zenon, <3>1 DEF BranchTasks, Range
    <3>3. NoHandle \notin known
      BY <1>2
    <3> HIDE DEF known
    <3>4. \A j \in 1..n : hs[j] = IF IsTask(Branches[j]) /\ Branches[j][2] \in known
                                  THEN Branches[j][2] ELSE NoHandle
      BY Zenon
    <3> HIDE DEF hs
    <3>5. ASSUME NEW h \in known PROVE \E j \in 1..n : hs[j] = h
      <4>1. PICK j \in 1..n : IsTask(Branches[j]) /\ h = Branches[j][2]
        BY Zenon, <3>2
      <4> QED
        BY Zenon, <3>4, <4>1
    <3> QED
      BY <3>3, <3>4, <3>5 DEF ReleasedAfter
  <2>4. known \in SUBSET DOMAIN tasks /\ \A h \in known : Delivers(h, oom)
    BY <1>3
  <2> HIDE DEF known, hs, left
  <2> QED
    BY Zenon, <1>1, <2>1, <2>2, <2>3, <2>4, ConsumedStep
<1>4. CASE failed \cup gone # {}
  <2>1. /\ status' \in (IF gone = {} THEN {} ELSE {"TASK_CONSUMED"}) \cup {CompletionError(h) : h \in failed}
        /\ tasks' = CompletedTable(known, oom)
        /\ board' = CompletedBoard(known, oom)
        /\ UNCHANGED <<nextHandle, tombstones, groups, consumptions>>
    BY Zenon, <1>4 DEF ParJoin
  <2>2. status' # "RUNNING"
    BY Zenon, <2>1 DEF CompletionError
  <2> HIDE DEF known
  <2>3. /\ TableOK(tasks', nextHandle) /\ DOMAIN tasks' = DOMAIN tasks
        /\ \A h \in DOMAIN tasks : ~(h \in known /\ Delivers(h, oom)) => tasks'[h] = tasks[h]
        /\ board' \in [Handles -> Stages]
        /\ thread' \in [Handles -> {"none", "running", "returned", "failed"}]
    BY ZenonT(30), <1>1, <2>1, CompletedOK DEF Inv
  <2>4. TypeOK'
    BY Zenon, <1>1, <2>1, <2>3 DEF Inv, TypeOK, GroupsOK
  <2>5. ConsumedGone' /\ CanonicalWindow'
    BY Zenon, <2>1, <2>2 DEF Inv, ConsumedGone, CanonicalWindow
  <2>6. WorkFollowsTable'
    <3>1. ASSUME NEW h \in Handles, thread'[h] # "none" PROVE h \in Pending("bytecode")'
      <4>1. thread[h] # "none" /\ ~(h \in known /\ PendingBytecode(h) /\ Delivers(h, oom))
        BY Zenon, <1>1, <3>1 DEF CompletedThread
      <4>2. h \in Pending("bytecode")
        BY <4>1 DEF Inv, WorkFollowsTable
      <4> QED
        BY Zenon, <2>3, <4>1, <4>2 DEF Pending, PendingBytecode, Entry
    <3> QED
      BY <2>2, <3>1 DEF WorkFollowsTable
  <2> QED
    BY Zenon, <2>2, <2>3, <2>4, <2>5, <2>6 DEF Inv, HandlesLeft, NoStrandedWork
<1> QED
  BY Zenon, <1>3, <1>4

LEMMA ParStep ==
    ASSUME ParOK, [Next]_vars
    PROVE  ParOK'
<1>1. CASE UNCHANGED <<parContexts, parValues>>
  BY Zenon, <1>1 DEF ParOK
<1>2. ASSUME NEW n \in 1..ParValueCapacity, ParBegin(n) PROVE ParOK'
  <2>1. CASE UNCHANGED parContexts
    BY Zenon, <1>2, <2>1 DEF ParOK, ParBegin
  <2>2. CASE parContexts' = Append(parContexts, [expected |-> n, start |-> Len(parValues)])
    <3>1. parValues' = parValues /\ Len(parValues) \in Nat
      <4>1. parValues' = parValues
        BY Zenon, <1>2 DEF ParBegin
      <4>2. parValues \in Seq(Range(parValues))
        BY Zenon DEF ParOK
      <4> HIDE DEF ParOK
      <4> QED
        BY <4>1, <4>2
    <3> DEFINE c == [expected |-> n, start |-> Len(parValues)]
    <3>2. c \in Context /\ c.start = Len(parValues)
      BY <3>1 DEF Context
    <3>3. parContexts' = Append(parContexts, c)
      BY Zenon, <2>2
    <3> HIDE DEF c
    <3>4. /\ parContexts' \in Seq(Context)
          /\ DOMAIN parContexts' = 1..(Len(parContexts) + 1)
          /\ parContexts'[Len(parContexts) + 1] = c
          /\ \A i \in DOMAIN parContexts : parContexts'[i] = parContexts[i]
          /\ Len(parContexts) \in Nat /\ DOMAIN parContexts = 1..Len(parContexts)
      BY <3>2, <3>3 DEF ParOK
    <3>5. \A i \in DOMAIN parContexts' : i \in DOMAIN parContexts \/ i = Len(parContexts) + 1
      BY <3>4
    <3>6. \A i \in DOMAIN parContexts' : parContexts'[i].start <= Len(parValues)
      <4>1. Len(parValues) <= Len(parValues)
        BY <3>1
      <4>2. \A i \in DOMAIN parContexts : parContexts[i].start <= Len(parValues)
        BY Zenon DEF ParOK
      <4> QED
        BY ZenonT(30), <3>2, <3>4, <3>5, <4>1, <4>2
    <3>7. \A i, j \in DOMAIN parContexts' : i <= j => parContexts'[i].start <= parContexts'[j].start
      <4> SUFFICES ASSUME NEW i \in DOMAIN parContexts', NEW j \in DOMAIN parContexts', i <= j
                   PROVE  parContexts'[i].start <= parContexts'[j].start
        BY Zenon
      <4>1. CASE j = Len(parContexts) + 1
        BY ZenonT(30), <3>2, <3>4, <3>6, <4>1
      <4>2. CASE j # Len(parContexts) + 1
        BY <3>4, <3>5, <4>2 DEF ParOK
      <4> QED
        BY Zenon, <4>1, <4>2
    <3> QED
      BY ZenonT(30), <3>1, <3>4, <3>6, <3>7 DEF ParOK
  <2> QED
    BY <1>2, <2>1, <2>2 DEF ParBegin
<1>3. CASE ParFork
  <2>1. CASE UNCHANGED parValues
    BY Zenon, <1>3, <2>1 DEF ParOK, ParFork
  <2>2. CASE parValues' = Append(parValues, Top)
    <3>1. parContexts' = parContexts
      BY ZenonT(30), <1>3 DEF ParFork
    <3> DEFINE S == Range(parValues) \cup {Top}
    <3>2. parValues \in Seq(S) /\ Top \in S
      BY DEF ParOK
    <3>3. Len(parValues') = Len(parValues) + 1 /\ parValues' \in Seq(S) /\ Len(parValues) \in Nat
      BY <2>2, <3>2
    <3>4. parValues' \in Seq(Range(parValues'))
      BY <3>3 DEF Range
    <3>5. \A i \in DOMAIN parContexts : parContexts[i].start \in Nat
      BY ContextType
    <3> QED
      BY <3>1, <3>3, <3>4, <3>5 DEF ParOK
  <2> QED
    BY Zenon, <1>3, <2>1, <2>2 DEF ParFork
<1>4. ASSUME NEW n \in 1..ParValueCapacity, NEW oom \in BOOLEAN, ParJoin(n, oom) PROVE ParOK'
  <2>1. CASE UNCHANGED <<parContexts, parValues>>
    BY Zenon, <2>1 DEF ParOK
  <2>2. CASE /\ parContexts' = SubSeq(parContexts, 1, Len(parContexts) - 1)
             /\ parValues' = SubSeq(parValues, 1, Innermost.start)
    <3> DEFINE c == Len(parContexts)
               s == parContexts[c].start
    <3>0. parContexts \in Seq(Context) /\ parContexts # <<>>
      BY Zenon, <1>4 DEF ParJoin, JoinMatches, ParOK
    <3>1. c \in Nat \ {0} /\ DOMAIN parContexts = 1..c /\ c \in DOMAIN parContexts
      BY <3>0
    <3>2. s \in Nat /\ s <= Len(parValues) /\ Len(parValues) \in Nat
      BY Zenon, <3>1, ContextType DEF ParOK
    <3>3. parContexts' = SubSeq(parContexts, 1, c - 1) /\ parValues' = SubSeq(parValues, 1, s)
      BY Zenon, <2>2 DEF Innermost
    <3> HIDE DEF s
    <3>4. parValues' \in Seq(Range(parValues)) /\ Len(parValues') = s
      BY <3>2, <3>3 DEF ParOK
    <3>5. parValues' \in Seq(Range(parValues'))
      BY <3>4 DEF Range
    <3>6. /\ parContexts' \in Seq(Context)
          /\ DOMAIN parContexts' = 1..(c - 1) /\ \A i \in 1..(c - 1) : parContexts'[i] = parContexts[i]
      BY <3>1, <3>3 DEF ParOK
    <3>7. \A i \in DOMAIN parContexts' : i \in DOMAIN parContexts /\ i <= c
      BY <3>1, <3>6
    <3>8. \A i \in DOMAIN parContexts' : parContexts'[i].start <= s
      BY ZenonT(30), <3>1, <3>6, <3>7 DEF ParOK, s
    <3> HIDE DEF c
    <3> QED
      BY <3>4, <3>5, <3>6, <3>7, <3>8 DEF ParOK
  <2> QED
    BY ZenonT(30), <1>4, <2>1, <2>2 DEF ParJoin
<1>5. CASE Reset
  BY <1>5 DEF Reset, ParOK, Range
<1>6. CASE Creates
  BY Zenon, <1>1, <1>6 DEF Creates, NoTaskSlot, AsyncCallSys, AsyncCall, AsyncCallFails, WorkerRun,
     WorkerRunFails, WorkerRunAllRefused, WorkerRunAll, data
<1>7. CASE Moves
  BY ZenonT(30), <1>1, <1>7 DEF Moves, LoadLocal, StoreLocal, OverwriteLocal, PopValue, MakePair, PairFirst, WorkerTaskAt
<1>8. CASE Threads
  BY Zenon, <1>1, <1>8 DEF Threads, WorkerStart, WorkerFinish, ThreadFinish, data
<1>9. CASE Consumes
  <2>1. ASSUME AwaitDelivers \/ (\E oom \in BOOLEAN : AwaitFails(oom)) \/ AwaitUnknown \/ TaskCancel
               \/ (\E n \in 1..ParValueCapacity : ParJoinMismatch(n))
        PROVE  ParOK'
    BY Zenon, <1>1, <2>1 DEF AwaitDelivers, AwaitFails, AwaitUnknown, TaskCancel, ParJoinMismatch, data
  <2> QED
    BY Zenon, <1>2, <1>3, <1>4, <1>9, <2>1 DEF Consumes
<1>10. CASE UNCHANGED vars
  BY <1>1, <1>10 DEF vars, data
<1> QED
  BY Zenon, <1>5, <1>6, <1>7, <1>8, <1>9, <1>10 DEF Next

-----------------------------------------------------------------------------
(* The induction.                                                          *)

\* A VM without tasks and workloads, which still may hold tombstones.
LEMMA Blank ==
    ASSUME NEW t, t = [h \in {} |-> <<>>]
    PROVE  /\ TableOK(t, 1) /\ GroupsOK(<<>>, 1) /\ OpenSlots(<<>>) = {} /\ LogicalTasks(<<>>) = {}
           /\ Cardinality(OpenSlots(<<>>)) = 0
<1>1. DOMAIN t = {} /\ t \in [{} -> Record]
  BY Zenon
<1>2. LogicalTasks(<<>>) = {} /\ OpenSlots(<<>>) = {}
  BY DEF LogicalTasks, OpenSlots
<1>3. Cardinality({}) = 0
  BY Zenon, FS_EmptySet
<1>4. TableOK(t, 1)
  BY <1>1, <1>3 DEF TableOK
<1>5. GroupsOK(<<>>, 1)
  BY DEF GroupsOK
<1> QED
  BY ZenonT(30), <1>2, <1>3, <1>4, <1>5

LEMMA InitInv ==
    ASSUME Init
    PROVE  Inv /\ ParOK
<1>1. /\ tasks = [h \in {} |-> <<>>] /\ nextHandle = 1 /\ groups = <<>> /\ tombstones = {}
      /\ board = [h \in Handles |-> "none"] /\ thread = [h \in Handles |-> "none"]
      /\ consumptions = [h \in Handles |-> 0] /\ program \in Programs /\ status = "RUNNING"
  BY Zenon DEF Init
<1>2. /\ TableOK(tasks, 1) /\ GroupsOK(groups, 1) /\ OpenSlots(groups) = {} /\ LogicalTasks(groups) = {}
      /\ Cardinality(OpenSlots(groups)) = 0 /\ DOMAIN tasks = {}
  BY Zenon, <1>1, Blank
<1>3. TypeOK
  <2>1. Cardinality(tombstones) = 0
    BY Zenon, <1>1, FS_EmptySet
  <2> QED
    BY <1>1, <1>2, <2>1 DEF TypeOK, Stages
<1>4. HandlesLeft
  BY <1>1, <1>2 DEF HandlesLeft
<1>5. ConsumedGone
  BY <1>1, <1>2 DEF ConsumedGone
<1>6. WorkFollowsTable
  BY <1>1, <1>2 DEF WorkFollowsTable, Pending
<1>7. CanonicalWindow /\ NoStrandedWork
  BY Zenon, <1>2 DEF CanonicalWindow, NoStrandedWork
<1>8. ParOK
  BY DEF Init, ParOK, Range
<1> QED
  BY Zenon, <1>3, <1>4, <1>5, <1>6, <1>7, <1>8 DEF Inv

LEMMA ResetStep ==
    ASSUME Inv, Reset
    PROVE  Inv'
<1>1. /\ tasks' = [h \in {} |-> <<>>] /\ nextHandle' = 1 /\ groups' = <<>> /\ tombstones' = tombstones
      /\ board' = [h \in Handles |-> "none"] /\ thread' = [h \in Handles |-> "none"]
      /\ consumptions' = [h \in Handles |-> 0] /\ program' = program
  BY Zenon DEF Reset
<1>2. /\ TableOK(tasks', 1) /\ GroupsOK(groups', 1) /\ OpenSlots(groups') = {} /\ LogicalTasks(groups') = {}
      /\ Cardinality(OpenSlots(groups')) = 0 /\ DOMAIN tasks' = {}
  BY Zenon, <1>1, Blank
<1>3. TypeOK'
  BY <1>1, <1>2 DEF Inv, TypeOK, Stages
<1>4. HandlesLeft'
  BY <1>1, <1>2 DEF Inv, TypeOK, HandlesLeft
<1>5. ConsumedGone'
  BY <1>1, <1>2 DEF ConsumedGone
<1>6. WorkFollowsTable'
  BY <1>1, <1>2 DEF WorkFollowsTable, Pending
<1>7. CanonicalWindow' /\ NoStrandedWork'
  BY Zenon, <1>2 DEF CanonicalWindow, NoStrandedWork
<1> QED
  BY Zenon, <1>3, <1>4, <1>5, <1>6, <1>7 DEF Inv

\* Why an entry may leave the table in a step.
Justified(h) ==
  \/ consumptions'[h] > consumptions[h]
  \/ tasks[h].state # "PENDING" /\ ~Pinned(h)
  \/ nextHandle' = 1

\* An instruction that reclaims drops only what reclaim_oldest_completed_task_slot
\* found finished and not pinned.
LEMMA ReclaimDrops ==
    ASSUME Inv, ~NoRoom, DOMAIN Reclaimed \subseteq DOMAIN tasks'
    PROVE  \A h \in DOMAIN tasks \ DOMAIN tasks' : Justified(h)
<1>1. \A h \in DOMAIN tasks \ DOMAIN Reclaimed : h \in Reclaimable
  BY ReclaimedOK DEF Inv
<1> QED
  BY ZenonT(30), <1>1 DEF Reclaimable, Justified

LEMMA CreatesStep ==
    ASSUME Inv, Creates
    PROVE  Inv' /\ \A h \in DOMAIN tasks \ DOMAIN tasks' : Justified(h)
<1>1. CASE NoTaskSlot \/ \E n \in BatchSizes : WorkerRunAllRefused(n)
  <2>1. UNCHANGED <<table, workloads, threads, consumptions, program>> /\ status' # "RUNNING"
    BY Zenon, <1>1 DEF NoTaskSlot, WorkerRunAllRefused
  <2>2. DOMAIN tasks \ DOMAIN tasks' = {}
    BY Zenon, <2>1 DEF table
  <2> QED
    BY Zenon, <2>1, <2>2, KeptStep
<1>2. CASE AsyncCallSys
  <2>1. ~NoRoom /\ DOMAIN Reclaimed \subseteq DOMAIN tasks'
    BY Zenon, <1>2 DEF AsyncCallSys, With
  <2> QED
    BY Zenon, <1>2, <2>1, AsyncCallSysStep, ReclaimDrops
<1>3. CASE AsyncCall
  <2>1. ~NoRoom /\ DOMAIN Reclaimed \subseteq DOMAIN tasks'
    BY Zenon, <1>3 DEF AsyncCall, With
  <2> QED
    BY Zenon, <1>3, <2>1, AsyncCallStep, ReclaimDrops
<1>4. CASE WorkerRun
  <2>1. ~NoRoom /\ DOMAIN Reclaimed \subseteq DOMAIN tasks'
    BY Zenon, <1>4 DEF WorkerRun, With
  <2> QED
    BY Zenon, <1>4, <2>1, WorkerRunStep, ReclaimDrops
<1>5. CASE WorkerRunFails \/ \E error \in {"MEMORY", "BOUNDARY", "THREAD_START"} : AsyncCallFails(error)
  <2>1. ~NoRoom /\ DOMAIN Reclaimed \subseteq DOMAIN tasks'
    BY Zenon, <1>5 DEF WorkerRunFails, AsyncCallFails
  <2> QED
    BY Zenon, <1>5, <2>1, CreateFailsStep, ReclaimDrops
<1>6. ASSUME NEW n \in BatchSizes, NEW k \in 0..n, WorkerRunAll(n, k)
      PROVE  Inv' /\ \A h \in DOMAIN tasks \ DOMAIN tasks' : Justified(h)
  <2>1. DOMAIN tasks \ DOMAIN tasks' = {}
    BY ZenonT(30), <1>6 DEF WorkerRunAll, Materialize, With
  <2> QED
    BY Zenon, <1>6, <2>1, WorkerRunAllStep
<1> QED
  BY ZenonT(30), <1>1, <1>2, <1>3, <1>4, <1>5, <1>6 DEF Creates

LEMMA MovesStep ==
    ASSUME Inv, Moves
    PROVE  Inv' /\ \A h \in DOMAIN tasks \ DOMAIN tasks' : Justified(h)
<1>1. UNCHANGED <<table, workloads, threads, consumptions, program>>
  BY Zenon DEF Moves, LoadLocal, StoreLocal, OverwriteLocal, PopValue, MakePair, PairFirst, WorkerTaskAt
<1>2. status' # status => status' # "RUNNING"
  BY Zenon DEF Moves, LoadLocal, StoreLocal, OverwriteLocal, PopValue, MakePair, PairFirst, WorkerTaskAt
<1>3. DOMAIN tasks \ DOMAIN tasks' = {}
  BY <1>1 DEF table
<1> QED
  BY Zenon, <1>1, <1>2, <1>3, KeptStep

LEMMA ConsumesStep ==
    ASSUME Inv, ParOK, Consumes
    PROVE  Inv' /\ \A h \in DOMAIN tasks \ DOMAIN tasks' : Justified(h)
<1>1. CASE AwaitDelivers
  BY Zenon, <1>1, AwaitDeliversStep DEF Justified
<1>2. CASE \E oom \in BOOLEAN : AwaitFails(oom)
  <2>1. DOMAIN tasks \ DOMAIN tasks' = {}
    BY Zenon, <1>2 DEF AwaitFails, table
  <2> QED
    BY Zenon, <1>2, <2>1, AwaitFailsStep
<1>3. CASE TaskCancel
  <2>1. DOMAIN tasks \ DOMAIN tasks' = {}
    BY <1>3 DEF TaskCancel, table
  <2> QED
    BY Zenon, <1>3, <2>1, TaskCancelStep
<1>4. CASE AwaitUnknown \/ ParFork \/ \E n \in 1..ParValueCapacity : ParBegin(n) \/ ParJoinMismatch(n)
  <2>1. /\ UNCHANGED <<table, workloads, threads, consumptions, program>>
        /\ status' # status => status' # "RUNNING"
    BY Zenon, <1>4 DEF AwaitUnknown, ParFork, ParBegin, ParJoinMismatch
  <2>2. DOMAIN tasks \ DOMAIN tasks' = {}
    BY Zenon, <2>1 DEF table
  <2> QED
    BY Zenon, <2>1, <2>2, KeptStep
<1>5. ASSUME NEW n \in 1..ParValueCapacity, NEW oom \in BOOLEAN, ParJoin(n, oom)
      PROVE  Inv' /\ \A h \in DOMAIN tasks \ DOMAIN tasks' : Justified(h)
  <2>1. n \in Nat
    OBVIOUS
  <2> QED
    BY Zenon, <1>5, <2>1, ParJoinStep DEF Justified
<1> QED
  BY ZenonT(30), <1>1, <1>2, <1>3, <1>4, <1>5 DEF Consumes

LEMMA NextInv ==
    ASSUME Inv, ParOK, [Next]_vars
    PROVE  Inv' /\ ParOK' /\ \A h \in DOMAIN tasks \ DOMAIN tasks' : Justified(h)
<1>1. CASE UNCHANGED vars
  <2>1. UNCHANGED <<status, table, workloads, threads, consumptions, program>> /\ tasks' = tasks
    BY Zenon, <1>1 DEF vars, table
  <2> QED
    BY Zenon, <2>1, ParStep, KeptStep
<1>2. CASE Threads
  <2>1. tasks' = tasks
    BY Zenon, <1>2 DEF Threads, WorkerStart, WorkerFinish, ThreadFinish, table
  <2> QED
    BY Zenon, <1>2, <2>1, ThreadsStep, ParStep
<1>3. CASE Reset
  <2>1. nextHandle' = 1
    BY <1>3 DEF Reset
  <2> QED
    BY Zenon, <1>3, <2>1, ResetStep, ParStep DEF Justified
<1> QED
  BY ZenonT(30), <1>1, <1>2, <1>3, CreatesStep, MovesStep, ConsumesStep, ParStep DEF Next

LEMMA Invariance == Spec => [](Inv /\ ParOK)
<1>1. Init => Inv /\ ParOK
  BY Zenon, InitInv
<1>2. (Inv /\ ParOK) /\ [Next]_vars => (Inv /\ ParOK)'
  BY NextInv
<1> QED
  BY <1>1, <1>2, PTL DEF Spec

-----------------------------------------------------------------------------
(* The theorems.                                                           *)

\* For every capacity, program and interleaving of the threads behind the
\* owner: the worker runtime holds a submission exactly for the pending worker
\* tasks while the VM runs, and every thread of an ASYNC_CALL has a pending
\* entry.  No opcode, refill or failure leaks or orphans work.
THEOREM WorkAlwaysFollowsTable == Spec => []WorkFollowsTable
<1>1. Inv /\ ParOK => WorkFollowsTable
  BY DEF Inv
<1> QED
  BY <1>1, Invariance, PTL

\* AWAIT and PAR_JOIN together consume a task's result at most once, through
\* however many aliases the program made.
THEOREM ResultsConsumedOnce == Spec => []ConsumedOnce
<1>1. Inv /\ ParOK => ConsumedOnce
  BY DEF Inv, ConsumedGone, ConsumedOnce
<1> QED
  BY <1>1, Invariance, PTL

\* aivm_vm_refill_worker_task_groups materialises the tasks of all workloads in
\* canonical order, however slots become free.
THEOREM WindowAlwaysCanonical == Spec => []CanonicalWindow
<1>1. Inv /\ ParOK => CanonicalWindow
  BY DEF Inv
<1> QED
  BY <1>1, Invariance, PTL

\* Every path that frees a slot refills it: between two instructions a logical
\* task waits only while the table is full.
THEOREM WorkNeverStranded == Spec => []NoStrandedWork
<1>1. Inv /\ ParOK => NoStrandedWork
  BY DEF Inv
<1> QED
  BY <1>1, Invariance, PTL

\* An entry leaves the table only consumed, or finished and not pinned, or by
\* aivm_reset_state.
THEOREM DropsAreJustified == Spec => DroppedOnlyWhenUnneeded
<1>1. (Inv /\ ParOK) /\ [Next]_vars =>
        [\A h \in DOMAIN tasks \ DOMAIN tasks' :
           \/ consumptions'[h] > consumptions[h]
           \/ tasks[h].state # "PENDING" /\ ~Pinned(h)
           \/ nextHandle' = 1]_vars
  BY Zenon, NextInv DEF Justified
<1> QED
  BY <1>1, Invariance, PTL DEF Spec, DroppedOnlyWhenUnneeded

=============================================================================
