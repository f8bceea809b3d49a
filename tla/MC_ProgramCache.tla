--------------------------- MODULE MC_ProgramCache ---------------------------
(***************************************************************************)
(* Instances of ProgramCache for TLC.                                      *)
(***************************************************************************)
EXTENDS ProgramCache, TLC

\* No block 2; two forks above block 0 (0 - 1 - 4 and 0 - 3) or above block 1
\* (0 - 1 - 4 and 0 - 1 - 3), or none (0 - 1 - 3 - 4).
SkippedSlot == {<<0, 0, 0, 1>>, <<0, 0, 1, 1>>, <<0, 0, 1, 3>>}

\* Two forks above block 0: 0 - 1 - 3 and 0 - 2.
EarlyFork == {<<0, 0, 1>>}

\* No block 2; the fork 0 - 3 is ahead of the fork 0 - 1 - 4 - 5.
AheadOfTime == {<<0, 0, 0, 1, 4>>}

\* No forks.
Chain == {<<0, 1>>}

AllV4 == [k \in Keys |-> "v4"]
OneOfEach == [k \in Keys |-> IF k \in DeployedAtGenesis THEN "v3" ELSE "v4"]

Symmetry == Permutations(Threads)
==============================================================================
