------------------------- MODULE ProgramCacheIndex -------------------------
(***************************************************************************)
(* The second level of the index of the global program cache: the versions *)
(* of one program, a sequence of entries sorted by slot, and the functions *)
(* of loaded_programs.rs that read and rewrite it.  The payload of an      *)
(* entry is its kind and its environment; sizes, owners and usage          *)
(* statistics are left out.                                                *)
(***************************************************************************)
EXTENDS Integers, Sequences, SequencesExt, FiniteSets, FiniteSetsExt

CONSTANTS MaxSlot,    \* the slots are 0..MaxSlot, 0 is the first root
          Blocks,     \* the slots that are not skipped
          Trees       \* the trees of blocks: which block each one builds on

VARIABLE fork_graph   \* the fork of each block: itself and the blocks below

Slots == 0..MaxSlot

ASSUME ForksAssumption ==
    /\ MaxSlot \in Nat
    /\ 0 \in Blocks /\ Blocks \subseteq Slots
    /\ \A parent \in Trees : \A s \in Blocks \ {0} : parent[s] \in Blocks /\ parent[s] < s

ForkGraph(parent) ==
    LET fork[s \in Blocks] == IF s = 0 THEN {0} ELSE {s} \cup fork[parent[s]] IN fork

Parent(s) == Max(fork_graph[s] \ {s})

\* ForkGraph::relationship of the block store, which knows no block below
\* its root.  The store is rerooted right after ProgramCache::prune.
relationship(root, a, b) ==
    CASE a < root \/ b < root                           -> "Unknown"
      [] a = b                                          -> "Equal"
      [] root <= a /\ a < b /\ a \in fork_graph[b]       -> "Ancestor"
      [] root <= b /\ b < a /\ b \in fork_graph[a]       -> "Descendant"
      [] OTHER                                          -> "Unrelated"

-----------------------------------------------------------------------------
(***************************************************************************)
(* Entries.                                                                *)
(***************************************************************************)

Entry(kind, env, deployment_slot, effective_slot) ==
    [kind |-> kind, env |-> env,
     deployment_slot |-> deployment_slot, effective_slot |-> effective_slot]

NoEnv == "none"

Loaded(env, slot) == Entry("Loaded", env, slot, slot + 1)

new_tombstone(slot, kind, env) == Entry(kind, env, slot, slot)

has_environment(e) == e.kind \in {"Loaded", "Unloaded", "FailedVerification"}

is_tombstone(e) == e.kind \in {"FailedVerification", "Closed", "DelayVisibility"}

\* PartialEq of ProgramCacheEntry.
SameVersion(a, b) ==
    /\ a.effective_slot = b.effective_slot
    /\ a.deployment_slot = b.deployment_slot
    /\ is_tombstone(a) = is_tombstone(b)

is_implicit_delay_visibility_tombstone(e, slot) ==
    /\ e.kind # "Builtin"
    /\ e.effective_slot - e.deployment_slot = 1
    /\ e.deployment_slot <= slot /\ slot < e.effective_slot

\* A slip: environments are never told apart.
NeverDiffer(a, b) == FALSE

EnvironmentsDiffer(a, b) == has_environment(a) /\ has_environment(b) /\ a.env # b.env

to_unloaded(e) == IF e.kind = "Loaded" THEN [e EXCEPT !.kind = "Unloaded"] ELSE e

matches_environment(e, env) == has_environment(e) => e.env = env

\* ProgramCacheMatchCriteria: at_least is the slot of DeployedOnOrAfterSlot.
NoCriteria == [what |-> "NoCriteria", at_least |-> 0]

matches_criteria(e, criteria) ==
    CASE criteria.what = "DeployedOnOrAfterSlot" -> e.deployment_slot >= criteria.at_least
      [] criteria.what = "Tombstone"             -> is_tombstone(e)
      [] criteria.what = "NoCriteria"            -> TRUE

-----------------------------------------------------------------------------
(***************************************************************************)
(* ProgramCache::assign_program.                                           *)
(***************************************************************************)

Compare(a, b) == IF a < b THEN -1 ELSE IF a > b THEN 1 ELSE 0

IsCurrentEnv(env, e) == IF has_environment(e) => e.env = env THEN 1 ELSE 0

\* A slip: environments are not told apart.
CompareEntriesWithoutEnv(env, at, e) ==
    IF at.effective_slot = e.effective_slot
    THEN Compare(at.deployment_slot, e.deployment_slot)
    ELSE Compare(at.effective_slot, e.effective_slot)

\* The order of assign_program; env is the environment it was called with.
CompareEntries(env, at, e) ==
    CASE at.effective_slot # e.effective_slot -> Compare(at.effective_slot, e.effective_slot)
      [] at.effective_slot = e.effective_slot /\ at.deployment_slot # e.deployment_slot ->
           Compare(at.deployment_slot, e.deployment_slot)
      [] OTHER -> Compare(IsCurrentEnv(env, at), IsCurrentEnv(env, e))

\* slice::binary_search_by of the Rust library: halve the range, keeping the
\* upper half unless its first element is greater than what is looked for.
\* The result is the index of an equal element or the insertion point.
binary_search_by(versions, env, e) ==
    LET n == Len(versions)
        Cmp(at) == CompareEntries(env, at, e)
        Base[size \in 1..n, base \in 1..n] ==
            IF size = 1 THEN base
            ELSE LET half == size \div 2
                     mid  == base + half
                 IN Base[size - half, IF Cmp(versions[mid]) = 1 THEN base ELSE mid]
    IN IF n = 0 THEN [found |-> FALSE, index |-> 1]
       ELSE LET base == Base[n, 1]
                cmp  == Cmp(versions[base])
            IN [found |-> cmp = 0, index |-> IF cmp = -1 THEN base + 1 ELSE base]

\* Which entry may take the place of an equal one.  (Closed over Closed is
\* allowed only when the owner changes, which no loader does.)
MayReplace(existing, e) ==
    <<existing.kind, e.kind>> \in {<<"Builtin", "Builtin">>, <<"Unloaded", "Loaded">>}

\* Entries of the same deployment slot go, unless their environment differs.
RetainOthers(versions, e) ==
    SelectSeq(versions, LAMBDA x :
        \/ x.deployment_slot # e.deployment_slot
        \/ EnvironmentsDiffer(x, e)
        \/ SameVersion(x, e))

\* The versions after the assignment, and whether it was refused ("Unexpected
\* replacement of an entry").
assign_program(versions, env, e) ==
    LET point == binary_search_by(versions, env, e)
    IN CASE point.found /\ MayReplace(versions[point.index], e) ->
              [refused |-> FALSE,
               versions |-> RetainOthers(ReplaceAt(versions, point.index, e), e)]
         [] point.found /\ ~MayReplace(versions[point.index], e) ->
              [refused |-> TRUE, versions |-> versions]
         [] ~point.found ->
              [refused |-> FALSE,
               versions |-> RetainOthers(InsertAt(versions, point.index, e), e)]

-----------------------------------------------------------------------------
(***************************************************************************)
(* ProgramCache::extract, for one program.                                 *)
(***************************************************************************)

\* A slip: the fork graph is not consulted.
OnSameBranchBySlot(root, e, slot) == e.deployment_slot <= slot

OnSameBranch(root, e, slot) ==
    \/ e.deployment_slot <= root
    \/ relationship(root, e.deployment_slot, slot) \in {"Equal", "Ancestor"}

Miss == Entry("Miss", NoEnv, 0, 0)

\* filter_by_deployment_slot: the newest of stops with the deployment slot of
\* the skipped entry, or 0.
NewestOfDeployment(versions, stops, skipped) ==
    Max({i \in stops : versions[i].deployment_slot = versions[skipped].deployment_slot}
            \cup {0})

\* The walk from the newest entry down.  It stops at an entry of this fork
\* that is effective in the right environment, or that is not visible yet.
\* An effective entry of another environment fixes the deployment slot of
\* the current version: past it only entries of that slot are considered.
Lookup(root, versions, slot, env, criteria) ==
    LET branch     == {i \in 1..Len(versions) : OnSameBranch(root, versions[i], slot)}
        effective  == {i \in branch : slot >= versions[i].effective_slot}
        mismatched == {i \in effective : ~matches_environment(versions[i], env)}
        delayed    == {i \in branch \ effective :
                         is_implicit_delay_visibility_tombstone(versions[i], slot)}
        stops      == (effective \ mismatched) \cup delayed
        skipped    == Max(mismatched \cup {0})
        newest     == Max(stops \cup {0})
        stop       == IF newest >= skipped THEN newest
                      ELSE NewestOfDeployment(versions, stops, skipped)
    IN CASE stop = 0 -> Miss
         [] stop \in delayed ->
              new_tombstone(versions[stop].deployment_slot, "DelayVisibility", NoEnv)
         [] stop \in effective ->
              IF matches_criteria(versions[stop], criteria) /\ versions[stop].kind # "Unloaded"
              THEN versions[stop] ELSE Miss

-----------------------------------------------------------------------------
(***************************************************************************)
(* Removal of entries.                                                     *)
(***************************************************************************)

\* The entries whose positions are in kept.
Keep(versions, kept) ==
    LET order == SelectSeq([i \in 1..Len(versions) |-> i], LAMBDA i : i \in kept)
    IN [i \in 1..Len(order) |-> versions[order[i]]]

OnRootedFork(root, e, new_root) ==
    \/ relationship(root, e.deployment_slot, new_root) = "Ancestor"
    \/ e.deployment_slot <= root

\* ProgramCache::prune: entries on orphaned forks go, and on the rooted fork
\* those that the newest one overshadows; env is the environment of a new
\* epoch that gets its first root, or NoEnv.
prune(versions, root, new_root, env) ==
    LET Above(i) == versions[i].deployment_slot >= new_root
        rooted   == {i \in 1..Len(versions) : ~Above(i) /\ OnRootedFork(root, versions[i], new_root)}
        first    == Max(rooted \cup {0})
    IN Keep(versions,
            {i \in 1..Len(versions) :
               /\ \/ /\ Above(i)
                     /\ relationship(root, versions[i].deployment_slot, new_root)
                           \in {"Equal", "Descendant"}
                  \/ /\ i \in rooted
                     /\ i = first \/ EnvironmentsDiffer(versions[i], versions[first])
               /\ env # NoEnv => matches_environment(versions[i], env)})

prune_by_deployment_slot(versions, slot) ==
    SelectSeq(versions, LAMBDA e : e.deployment_slot # slot)

\* unload_program_entry for each position in chosen: it is the first equal
\* entry that is unloaded.
unload_program_entries(versions, chosen) ==
    LET First(i) == SelectInSeq(versions, LAMBDA e : SameVersion(e, versions[i]))
        targets  == {First(i) : i \in chosen}
    IN [i \in 1..Len(versions) |->
          IF i \in targets THEN to_unloaded(versions[i]) ELSE versions[i]]
=============================================================================
