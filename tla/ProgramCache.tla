---------------------------- MODULE ProgramCache ----------------------------
(***************************************************************************)
(* The global program cache and the transaction batches that use it.       *)
(*                                                                         *)
(* Threads execute batches on the open blocks of a tree of forks.  Before  *)
(* each transaction replenish_program_cache brings its programs into the   *)
(* cache of the batch; transactions deploy and close programs; a finished  *)
(* batch evicts programs from the global cache and, once committed, merges *)
(* its deployments into it.  Around them the validator opens blocks, moves *)
(* the root and drops blocks.                                              *)
(*                                                                         *)
(* The accounts of the programs are the ground truth: ledger records what  *)
(* each block did to each program.  The cache is an optimisation, and the  *)
(* main property says that no batch can tell.                              *)
(***************************************************************************)
EXTENDS ProgramCacheIndex

CONSTANTS Threads,              \* transaction processing threads
          NoThread,             \* the vacant entry of loading_entries
          Keys,                 \* addresses of programs
          LoaderOf,             \* the loader of each program: "v3" or "v4"
          DeployedAtGenesis,    \* the programs that block 0 contains
          EpochStart,           \* first slot of the epoch with a new environment
          Fragile,              \* deployment slots whose code the other environment rejects
          CheckDeploymentSlot,  \* check_program_deployment_slot
          LimitToLoad,          \* limit_to_load_programs
          ShrinkTo,             \* how many loaded programs an eviction leaves
          MaxResults            \* bound: program modifications by one batch

ASSUME CacheAssumption ==
    /\ NoThread \notin Threads
    /\ \A k \in Keys : LoaderOf[k] \in {"v3", "v4"}
    /\ DeployedAtGenesis \subseteq Keys
    /\ EpochStart \in Nat /\ ShrinkTo \in Nat /\ MaxResults \in Nat
    /\ Fragile \subseteq Slots
    /\ CheckDeploymentSlot \in BOOLEAN /\ LimitToLoad \in BOOLEAN

VARIABLES entries,            \* the versions of each program
          latest_root_slot,
          loading,            \* loading_entries: the thread that loads each program
          pc,                 \* what each thread does
          missing,            \* missing_programs of replenish_program_cache
          current,            \* whether the cookie a thread holds is the waiter's
          batch,              \* the batch of each thread
          status,             \* of each block
          ledger              \* what each block did to the accounts of each program

threadVars == <<pc, missing, current, batch>>
bankVars   == <<status, ledger, fork_graph>>
vars == <<entries, latest_root_slot, loading, threadVars, bankVars>>

EnvOf(slot) == IF slot >= EpochStart THEN "new" ELSE "old"

\* The environment a deployment is verified in is that of the next slot.
EnvForDeployment(slot) == EnvOf(slot + 1)

\* Whether the version deployed in slot passes the verifier of env.
Verifies(slot, env) == env = EnvForDeployment(slot) \/ slot \notin Fragile

\* results: what the successful transactions of the batch did to programs;
\* dirty: loaded_missing or merged_modified.
NoBatch == [slot |-> 0, locks |-> {}, writes |-> {}, entries |-> <<>>,
            results |-> <<>>, dirty |-> FALSE]

-----------------------------------------------------------------------------
(***************************************************************************)
(* The accounts of the programs as a batch sees them.                      *)
(***************************************************************************)

EventAt(b, k, slot) ==
    LET own == SelectSeq(b.results, LAMBDA r : r.key = k)
    IN IF slot = b.slot /\ own # <<>> THEN Last(own).what ELSE ledger[slot][k]

\* The newest block on the fork of the batch that did one of whats to k, or -1.
LatestSlot(b, k, whats) ==
    Max({-1} \cup {s \in fork_graph[b.slot] : EventAt(b, k, s) \in whats})

AccountStatus(b, k) ==
    LET slot == LatestSlot(b, k, {"deploy", "close"})
    IN [slot |-> slot, what |-> IF slot = -1 THEN "none" ELSE EventAt(b, k, slot)]

\* The slot in the account of the loader: a v4 program keeps it when it is
\* retracted.
get_program_deployment_slot(b, k) ==
    LET account == AccountStatus(b, k)
    IN CASE account.what = "deploy" -> account.slot
         [] account.what # "deploy" /\ LoaderOf[k] = "v3" -> -1
         [] account.what # "deploy" /\ LoaderOf[k] = "v4" ->
              Max({0, LatestSlot(b, k, {"deploy"})})

\* A slip: off by one.
CriteriaTooStrict(b, k) ==
    [what |-> "DeployedOnOrAfterSlot", at_least |-> get_program_deployment_slot(b, k) + 1]

Criteria(b, k) ==
    LET slot == get_program_deployment_slot(b, k)
    IN CASE ~CheckDeploymentSlot -> NoCriteria
         [] CheckDeploymentSlot /\ slot = -1 -> [what |-> "Tombstone", at_least |-> 0]
         [] CheckDeploymentSlot /\ slot # -1 ->
              [what |-> "DeployedOnOrAfterSlot", at_least |-> slot]

load_program_with_pubkey(b, k, env) ==
    LET account == AccountStatus(b, k)
    IN CASE account.what # "deploy" -> new_tombstone(b.slot, "Closed", NoEnv)
         [] account.what = "deploy" /\ Verifies(account.slot, env) ->
              Loaded(env, account.slot)
         [] account.what = "deploy" /\ ~Verifies(account.slot, env) ->
              new_tombstone(account.slot, "FailedVerification", env)

\* The entry a deployment or a close stores in modified_entries.
ModifiedEntry(slot, what) ==
    IF what = "deploy" THEN Loaded(EnvForDeployment(slot), slot)
    ELSE new_tombstone(slot, "Closed", NoEnv)

\* ProgramCacheForTxBatch::find.
find(b, k) ==
    LET e == b.entries[k]
    IN IF is_implicit_delay_visibility_tombstone(e, b.slot)
       THEN new_tombstone(e.deployment_slot, "DelayVisibility", NoEnv) ELSE e

-----------------------------------------------------------------------------
Init ==
    /\ \E parent \in Trees : fork_graph = ForkGraph(parent)
    /\ entries = [k \in Keys |-> <<>>]
    /\ latest_root_slot = 0
    /\ loading = [k \in Keys |-> NoThread]
    /\ pc = [t \in Threads |-> "idle"]
    /\ missing = [t \in Threads |-> {}]
    /\ current = [t \in Threads |-> FALSE]
    /\ batch = [t \in Threads |-> NoBatch]
    /\ status = [s \in Blocks |-> IF s = 0 THEN "frozen" ELSE "unborn"]
    /\ ledger = [s \in Blocks |-> [k \in Keys |->
                   IF s = 0 /\ k \in DeployedAtGenesis THEN "deploy" ELSE "none"]]

-----------------------------------------------------------------------------
(***************************************************************************)
(* Batches.                                                                *)
(***************************************************************************)

\* A batch starts once its account locks are granted: on one block, no two
\* batches use a program that one of them writes.
BeginBatch(t, slot, locks, writes) ==
    /\ pc[t] = "idle"
    /\ status[slot] = "open"
    /\ \A u \in Threads : pc[u] # "idle" /\ batch[u].slot = slot =>
          writes \cap batch[u].locks = {} /\ locks \cap batch[u].writes = {}
    /\ batch' = [batch EXCEPT ![t] =
                   [NoBatch EXCEPT !.slot = slot, !.locks = locks, !.writes = writes]]
    /\ pc' = [pc EXCEPT ![t] = "run"]
    /\ UNCHANGED <<entries, latest_root_slot, loading, missing, current, bankVars>>

\* The next transaction of the batch has been loaded:
\* filter_executable_program_accounts lists its programs that the cache of
\* the batch lacks and replenish_program_cache is called.
NextTransaction(t, keys) ==
    /\ pc[t] = "run"
    /\ keys \subseteq batch[t].locks
    /\ missing' = [missing EXCEPT ![t] = keys \ DOMAIN batch[t].entries]
    /\ pc' = [pc EXCEPT ![t] = "extract"]
    /\ UNCHANGED <<entries, latest_root_slot, loading, current, batch, bankVars>>

Extract(t) ==
    LET b         == batch[t]
        Found(k)  == Lookup(latest_root_slot, entries[k], b.slot, EnvOf(b.slot), Criteria(b, k))
        hits      == {k \in missing[t] : Found(k) # Miss}
        rest      == missing[t] \ hits
        vacant    == {k \in rest : loading[k] = NoThread}
    IN /\ pc[t] = "extract"
       /\ missing' = [missing EXCEPT ![t] = rest]
       /\ batch' = [batch EXCEPT ![t].entries =
                      [k \in DOMAIN @ \cup hits |-> IF k \in hits THEN Found(k) ELSE @[k]]]
       /\ \/ \E k \in vacant :
                /\ loading' = [loading EXCEPT ![k] = t]
                /\ pc' = [pc EXCEPT ![t] = "load"]
          \/ /\ vacant = {}
             /\ pc' = [pc EXCEPT ![t] = IF rest = {} THEN "run" ELSE "wait"]
             /\ UNCHANGED loading
       /\ current' = [current EXCEPT ![t] = TRUE]
       /\ UNCHANGED <<entries, latest_root_slot, bankVars>>

\* The program is loaded outside the locks and submitted with
\* finish_cooperative_loading_task.  If the cache refuses it and loading is
\* limited, the whole batch is given up with ProgramCacheHitMaxLimit.
FinishLoading(t, k) ==
    LET b      == batch[t]
        env    == EnvOf(b.slot)
        result == assign_program(entries[k], env, load_program_with_pubkey(b, k, env))
    IN /\ pc[t] = "load"
       /\ loading[k] = t
       /\ loading' = [loading EXCEPT ![k] = NoThread]
       /\ entries' = [entries EXCEPT ![k] = result.versions]
       /\ IF result.refused /\ LimitToLoad
          THEN /\ batch' = [batch EXCEPT ![t] = NoBatch]
               /\ pc' = [pc EXCEPT ![t] = "idle"]
          ELSE /\ batch' = [batch EXCEPT ![t].dirty = TRUE]
               /\ pc' = [pc EXCEPT ![t] = "extract"]
       /\ current' = [u \in Threads |-> FALSE]
       /\ UNCHANGED <<latest_root_slot, missing, bankVars>>

\* A slip: the condition variable is not waited on in a loop.
WakeSpuriously(t) ==
    /\ pc[t] = "wait"
    /\ pc' = [pc EXCEPT ![t] = "extract"]
    /\ UNCHANGED <<entries, latest_root_slot, loading, missing, current, batch, bankVars>>

Wake(t) ==
    /\ pc[t] = "wait"
    /\ ~current[t]
    /\ pc' = [pc EXCEPT ![t] = "extract"]
    /\ UNCHANGED <<entries, latest_root_slot, loading, missing, current, batch, bankVars>>

\* A v3 program is deployed once, upgraded while deployed and closed for
\* good; a v4 program is retracted and deployed again.  Nothing is deployed
\* or closed in the slot of its deployment.
CanModify(b, k, what) ==
    LET account == AccountStatus(b, k)
    IN /\ LatestSlot(b, k, {"deploy"}) # b.slot
       /\ account.what \in (CASE what = "close"                         -> {"deploy"}
                              [] what = "deploy" /\ LoaderOf[k] = "v3"  -> {"none", "deploy"}
                              [] what = "deploy" /\ LoaderOf[k] = "v4"  -> {"none", "close"})

\* A transaction that deploys or closes a program succeeds: its modified
\* entries are drained and merged into the cache of the batch.
ModifyProgram(t, k, what) ==
    LET b == batch[t]
    IN /\ pc[t] = "run"
       /\ k \in b.writes \cap DOMAIN b.entries
       /\ Len(b.results) < MaxResults
       /\ CanModify(b, k, what)
       /\ batch' = [batch EXCEPT
            ![t].entries[k] = ModifiedEntry(b.slot, what),
            ![t].results    = Append(@, [key |-> k, what |-> what]),
            ![t].dirty      = TRUE]
       /\ UNCHANGED <<entries, latest_root_slot, loading, pc, missing, current, bankVars>>

\* The loaded entries of the whole cache.
get_flattened_entries(cache) ==
    {c \in UNION {{k} \X (1..Len(cache[k])) : k \in Keys} : cache[c[1]][c[2]].kind = "Loaded"}

\* A slip: the last program to go is spared.
NumToUnloadLess(count) == Max({0, count - ShrinkTo - 1})

NumToUnload(count) == Max({0, count - ShrinkTo})

\* evict_using_random_selection: sampling may pick any of the candidates.
EvictTo(chosen) ==
    entries' = [k \in Keys |->
        unload_program_entries(entries[k], {c[2] : c \in {c \in chosen : c[1] = k}})]

\* load_and_execute_sanitized_transactions returns.
FinishBatch(t, chosen) ==
    /\ pc[t] = "run"
    /\ chosen \subseteq get_flattened_entries(entries)
    /\ Cardinality(chosen) =
         IF batch[t].dirty THEN NumToUnload(Cardinality(get_flattened_entries(entries))) ELSE 0
    /\ EvictTo(chosen)
    /\ pc' = [pc EXCEPT ![t] = "commit"]
    /\ batch' = [batch EXCEPT ![t].entries = <<>>, ![t].dirty = FALSE]
    /\ UNCHANGED <<latest_root_slot, loading, missing, current, bankVars>>

\* The bank commits the accounts of a transaction and merges its modified
\* entries into the global cache; after the last one the locks are released.
Commit(t) ==
    LET b == batch[t]
    IN /\ pc[t] = "commit"
       /\ IF b.results = <<>>
          THEN /\ pc' = [pc EXCEPT ![t] = "idle"]
               /\ batch' = [batch EXCEPT ![t] = NoBatch]
               /\ UNCHANGED <<entries, ledger>>
          ELSE LET r == Head(b.results)
               IN /\ entries' = [entries EXCEPT ![r.key] =
                       assign_program(@, EnvOf(b.slot), ModifiedEntry(b.slot, r.what)).versions]
                  /\ ledger' = [ledger EXCEPT ![b.slot][r.key] = r.what]
                  /\ batch' = [batch EXCEPT ![t].results = Tail(@)]
                  /\ UNCHANGED pc
       /\ UNCHANGED <<latest_root_slot, loading, missing, current, status, fork_graph>>

-----------------------------------------------------------------------------
(***************************************************************************)
(* The validator around the batches.                                       *)
(***************************************************************************)

Idle(slot) == \A t \in Threads : pc[t] # "idle" => batch[t].slot # slot

Alive(slot) == status[slot] \in {"open", "frozen"}

\* A block starts when the block below it is complete.
OpenSlot(s) ==
    /\ status[s] = "unborn"
    /\ Alive(Parent(s)) /\ Idle(Parent(s))
    /\ status' = [status EXCEPT ![s] = "open", ![Parent(s)] = "frozen"]
    /\ UNCHANGED <<entries, latest_root_slot, loading, threadVars, ledger, fork_graph>>

\* The root moves.  No batch runs on a fork that this orphans: a load that
\* such a batch submitted later would pass for one of the rooted fork.  The
\* first root of the new epoch ends the preparation
\* (EpochBoundaryPreparation::reroot).
Prune(new_root) ==
    /\ status[new_root] = "frozen"
    /\ latest_root_slot < new_root
    /\ \A s \in Blocks : new_root \notin fork_graph[s] => Idle(s)
    /\ LET env == IF latest_root_slot < EpochStart /\ EpochStart <= new_root
                  THEN EnvOf(new_root) ELSE NoEnv
       IN entries' = [k \in Keys |-> prune(entries[k], latest_root_slot, new_root, env)]
    /\ latest_root_slot' = new_root
    /\ LET kept == fork_graph[new_root] \cup {s \in Blocks : new_root \in fork_graph[s]}
       IN /\ status' = [s \in Blocks |-> IF s \in kept THEN status[s] ELSE "dead"]
          /\ ledger' = [s \in Blocks |->
                IF s \in kept THEN ledger[s] ELSE [k \in Keys |-> "none"]]
    /\ UNCHANGED <<loading, threadVars, fork_graph>>

\* A block that turned out to be wrong is dropped, to be replayed again.
DumpSlot(s) ==
    /\ latest_root_slot < s
    /\ Alive(s) /\ Idle(s)
    /\ \A c \in Blocks : s \in fork_graph[c] /\ Alive(c) => c = s
    /\ entries' = [k \in Keys |-> prune_by_deployment_slot(entries[k], s)]
    /\ status' = [status EXCEPT ![s] = "unborn"]
    /\ ledger' = [ledger EXCEPT ![s] = [k \in Keys |-> "none"]]
    /\ UNCHANGED <<latest_root_slot, loading, threadVars, fork_graph>>

\* The caller removes only programs that no block above the root modified:
\* the entry of such a block is what hides older versions from its fork, and
\* another fork may load an older version again at any time.
remove_programs(k) ==
    /\ entries[k] # <<>>
    /\ \A s \in Blocks : s > latest_root_slot => ledger[s][k] = "none"
    /\ \A t \in Threads : \A i \in 1..Len(batch[t].results) : batch[t].results[i].key # k
    /\ entries' = [entries EXCEPT ![k] = <<>>]
    /\ UNCHANGED <<latest_root_slot, loading, threadVars, bankVars>>

-----------------------------------------------------------------------------
ThreadStep(t) ==
    \/ Extract(t)
    \/ \E k \in Keys : FinishLoading(t, k)
    \/ Wake(t)
    \/ \E chosen \in SUBSET get_flattened_entries(entries) : FinishBatch(t, chosen)
    \/ Commit(t)

ThreadInput(t) ==
    \/ \E s \in Blocks, locks \in SUBSET Keys \ {{}} : \E writes \in SUBSET locks :
          BeginBatch(t, s, locks, writes)
    \/ \E keys \in SUBSET batch[t].locks \ {{}} : NextTransaction(t, keys)
    \/ \E k \in Keys, what \in {"deploy", "close"} : ModifyProgram(t, k, what)

Validator ==
    \/ \E s \in Blocks \ {0} : OpenSlot(s) \/ Prune(s) \/ DumpSlot(s)
    \/ \E k \in Keys : remove_programs(k)

Next == Validator \/ \E t \in Threads : ThreadStep(t) \/ ThreadInput(t)

Spec == Init /\ [][Next]_vars

\* A thread inside replenish_program_cache keeps running: the steps of Next
\* that move pc[t] from here are Extract, FinishLoading and Wake.
Moves(t) ==
    /\ pc[t] \in {"extract", "load"} \/ (pc[t] = "wait" /\ ~current[t])
    /\ \E to \in {"idle", "run", "extract", "load", "wait"} \ {pc[t]} :
          pc' = [pc EXCEPT ![t] = to]

Fairness == \A t \in Threads : WF_pc(Moves(t))

FairSpec == Spec /\ Fairness

-----------------------------------------------------------------------------
(***************************************************************************)
(* Properties.                                                             *)
(***************************************************************************)

EntryType ==
    [kind : {"Loaded", "Unloaded", "FailedVerification", "Closed", "DelayVisibility"},
     env : {"old", "new", NoEnv}, deployment_slot : Blocks, effective_slot : 0..(MaxSlot + 1)]

\* Every variable keeps its type; in particular DelayVisibility is never
\* stored in the global cache (the debug_assert! of assign_program).
TypeOK ==
    /\ \A k \in Keys : \A i \in 1..Len(entries[k]) :
          entries[k][i] \in EntryType /\ entries[k][i].kind # "DelayVisibility"
    /\ latest_root_slot \in Blocks
    /\ loading \in [Keys -> Threads \cup {NoThread}]
    /\ pc \in [Threads -> {"idle", "run", "extract", "load", "wait", "commit"}]
    /\ missing \in [Threads -> SUBSET Keys]
    /\ current \in [Threads -> BOOLEAN]
    /\ \A t \in Threads :
          /\ batch[t].slot \in Blocks
          /\ DOMAIN batch[t].entries \subseteq batch[t].locks
          /\ \A k \in DOMAIN batch[t].entries : batch[t].entries[k] \in EntryType
    /\ status \in [Blocks -> {"unborn", "open", "frozen", "dead"}]
    /\ ledger \in [Blocks -> [Keys -> {"none", "deploy", "close"}]]

\* What a batch finds in its cache is what the accounts of its own fork say,
\* whatever other forks, evictions, rerooting and the epoch boundary did to
\* the global cache: a program runs exactly when its newest deployment on
\* the fork is older than the block and passes the verifier of the block's
\* environment, and then it runs in that version and environment.
FindAgreesWithAccounts ==
    \A t \in Threads : \A k \in DOMAIN batch[t].entries :
        LET b       == batch[t]
            account == AccountStatus(b, k)
            env     == EnvOf(b.slot)
        IN IF account.what = "deploy" /\ account.slot < b.slot /\ Verifies(account.slot, env)
           THEN find(b, k) = Loaded(env, account.slot)
           ELSE is_tombstone(find(b, k))

\* The versions of a program stay sorted by effective slot, then by
\* deployment slot, as the binary search of assign_program needs.
VersionsAreSorted ==
    \A k \in Keys : \A i, j \in 1..Len(entries[k]) : i < j =>
        LET a == entries[k][i]  b == entries[k][j]
        IN \/ a.effective_slot < b.effective_slot
           \/ a.effective_slot = b.effective_slot /\ a.deployment_slot <= b.deployment_slot

\* What was closed has one entry, and what was deployed has several only because
\* it was verified in several environments: a program that was closed and
\* deployed in one slot is not left with both entries.
OneEntryPerDeployment ==
    \A k \in Keys : \A i, j \in 1..Len(entries[k]) :
        i # j /\ entries[k][i].deployment_slot = entries[k][j].deployment_slot
            => has_environment(entries[k][i]) /\ has_environment(entries[k][j])

\* No load and no merge meets an entry it may not replace ("Unexpected
\* replacement of an entry" in assign_program): the cache never has to
\* refuse a program.
NoUnexpectedReplacement ==
    \A t \in Threads :
        LET b == batch[t]
        IN /\ pc[t] = "load" => \A k \in Keys : loading[k] = t =>
                ~assign_program(entries[k], EnvOf(b.slot),
                                load_program_with_pubkey(b, k, EnvOf(b.slot))).refused
           /\ pc[t] = "commit" /\ b.results # <<>> =>
                ~assign_program(entries[Head(b.results).key], EnvOf(b.slot),
                                ModifiedEntry(b.slot, Head(b.results).what)).refused

\* The index stays what its lookups and assignments rely on: typed, sorted,
\* without leftovers of a deployment, and never refusing a program
\* (loaded_programs.rs, assign_program).
IndexIsSound == TypeOK /\ VersionsAreSorted /\ OneEntryPerDeployment /\ NoUnexpectedReplacement

\* evict_using_random_selection unloads enough programs: a batch that added
\* some leaves at most ShrinkTo loaded ones behind.
EvictionReachesTarget ==
    [][\A t \in Threads : pc[t] = "run" /\ pc'[t] = "commit" /\ batch[t].dirty =>
          Cardinality(get_flattened_entries(entries')) <= ShrinkTo]_vars

\* Rerooting within an epoch removes nothing that a surviving block still
\* finds: for every block above the new root the lookup gives the same entry
\* before and after prune.
PruneKeepsWhatIsVisible ==
    [][latest_root_slot' # latest_root_slot /\ EnvOf(latest_root_slot) = EnvOf(latest_root_slot') =>
          \A s \in Blocks, k \in Keys :
             latest_root_slot' \in fork_graph[s] =>
                Lookup(latest_root_slot, entries[k], s, EnvOf(s), NoCriteria)
                  = Lookup(latest_root_slot', entries'[k], s, EnvOf(s), NoCriteria)]_vars

\* The cache loses what was loaded: it is evicted, pruned, removed or replaced.
LosesEntry ==
    \E k \in Keys : \E i \in 1..Len(entries[k]) :
        entries[k][i].kind # "Unloaded" /\ entries[k][i] \notin ToSet(entries'[k])

\* replenish_program_cache returns: a thread that looks for the programs of
\* a transaction finds or loads all of them and gets to run it, unless the
\* cache loses what was loaded again and again.
ReplenishReturns ==
    <>[][~LosesEntry]_vars => \A t \in Threads : pc[t] = "extract" ~> pc[t] = "run"

\* The protocol between the threads is that of CooperativeLoading.
CL == INSTANCE CooperativeLoading WITH
        pc <- [t \in Threads |-> IF pc[t] \in {"run", "commit"} THEN "idle" ELSE pc[t]]

CooperativeLoadingSpec == CL!Spec
=============================================================================
