-------------------------- MODULE MCWorkerRuntime --------------------------
(***************************************************************************)
(* Two slots, two workers, three ids and four catalog entries: one that    *)
(* loads, one whose capabilities the owner lacks, one with a bad artifact, *)
(* one that asks for the filesystem.                                       *)
(***************************************************************************)
EXTENDS WorkerRuntime, TLC

CONSTANT o

OneOwner == {o}
SomeIds == {1, 2, 3}
SomeCatalog == 1..4
SomeCaps == (1 :> {"CLOCK", "ENVIRONMENT"}) @@ (2 :> {"NETWORK"}) @@ (3 :> {"CLOCK"})
            @@ (4 :> {"FILESYSTEM"})
SomeArtifacts == (1 :> "good") @@ (2 :> "good") @@ (3 :> "bad") @@ (4 :> "good")
SomePolicy == {"TIME", "PROCESS", "CONSOLE"}
=============================================================================
