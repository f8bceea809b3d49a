------------------------- MODULE ProgramCacheProofs -------------------------
(***************************************************************************)
(* The program cache implements the protocol of CooperativeLoading, for    *)
(* any sets of threads, programs and blocks: every step of a thread on the *)
(* contents of the cache is a step of the protocol or leaves it alone.     *)
(* With it the theorems about the protocol hold of the cache.              *)
(***************************************************************************)
EXTENDS ProgramCache, TLAPS

\* Where a thread is, as the protocol sees it.
ProtocolPc == [t \in Threads |-> IF pc[t] \in {"run", "commit"} THEN "idle" ELSE pc[t]]

BatchFields == {"slot", "locks", "writes", "entries", "results", "dirty"}

\* What the refinement needs to know of the threads.
ThreadInv ==
    /\ pc \in [Threads -> {"idle", "run", "extract", "load", "wait", "commit"}]
    /\ missing \in [Threads -> SUBSET Keys]
    /\ batch = [t \in Threads |-> batch[t]]
    /\ \A t \in Threads : BatchFields \subseteq DOMAIN batch[t] /\ batch[t].locks \subseteq Keys

\* The fields of a batch that has not begun.
LEMMA NoBatchFields ==
    NoBatch.locks = {} /\ BatchFields \subseteq DOMAIN NoBatch
BY DEF NoBatch, BatchFields

\* At first nobody has called replenish_program_cache.
LEMMA InitRefines == Init => CL!Init /\ ThreadInv
<1> SUFFICES ASSUME Init PROVE CL!Init /\ ThreadInv
  OBVIOUS
<1>1. CL!Init
  BY DEF Init, CL!Init
<1>2. /\ pc \in [Threads -> {"idle", "run", "extract", "load", "wait", "commit"}]
      /\ missing \in [Threads -> SUBSET Keys]
      /\ batch = [t \in Threads |-> NoBatch]
  BY DEF Init
<1> QED BY <1>1, <1>2, NoBatchFields DEF ThreadInv

\* Another record of a batch of one thread, with keys as its locks.
LEMMA BatchUpdate ==
    ASSUME ThreadInv, NEW t \in Threads, NEW b, batch' = [batch EXCEPT ![t] = b],
           BatchFields \subseteq DOMAIN b, b.locks \subseteq Keys
    PROVE  /\ batch' = [u \in Threads |-> batch'[u]]
           /\ \A u \in Threads : BatchFields \subseteq DOMAIN batch'[u] /\ batch'[u].locks \subseteq Keys
<1>1. /\ batch' = [u \in Threads |-> IF u = t THEN b ELSE batch[u]]
  BY DEF ThreadInv
<1>2. \A u \in Threads : batch'[u] = IF u = t THEN b ELSE batch[u]
  BY <1>1
<1>3. batch' = [u \in Threads |-> batch'[u]]
  BY <1>1, <1>2
<1> QED BY <1>2, <1>3 DEF ThreadInv

-----------------------------------------------------------------------------
\* The steps of a thread, one lemma for each

\* A step of a thread that the protocol does not see.
Unseen ==
    /\ ThreadInv'
    /\ UNCHANGED <<ProtocolPc, missing, loading, current>>

\* A thread begins a batch, outside the protocol.
LEMMA BeginBatchRefines ==
    ASSUME ThreadInv, NEW t \in Threads, NEW slot, NEW locks \in SUBSET Keys, NEW writes,
           BeginBatch(t, slot, locks, writes)
    PROVE  Unseen
<1> DEFINE b == [NoBatch EXCEPT !.slot = slot, !.locks = locks, !.writes = writes]
<1>1. /\ batch' = [batch EXCEPT ![t] = b]
      /\ pc[t] = "idle" /\ pc' = [pc EXCEPT ![t] = "run"]
      /\ UNCHANGED <<loading, missing, current>>
  BY DEF BeginBatch
<1>2. BatchFields \subseteq DOMAIN b /\ b.locks = locks
  BY NoBatchFields DEF NoBatch, BatchFields
<1> HIDE DEF b
<1>3. /\ batch' = [u \in Threads |-> batch'[u]]
      /\ \A u \in Threads : BatchFields \subseteq DOMAIN batch'[u] /\ batch'[u].locks \subseteq Keys
  BY <1>1, <1>2, BatchUpdate
<1> QED BY <1>1, <1>3 DEF ThreadInv, Unseen, ProtocolPc

\* The call of replenish_program_cache.
LEMMA NextTransactionRefines ==
    ASSUME ThreadInv, NEW t \in Threads, NEW keys, NextTransaction(t, keys)
    PROVE  ThreadInv' /\ CL!Next
<1> DEFINE called == keys \ DOMAIN batch[t].entries
<1>1. /\ pc[t] = "run" /\ pc' = [pc EXCEPT ![t] = "extract"]
      /\ missing' = [missing EXCEPT ![t] = called]
      /\ called \in SUBSET Keys
      /\ UNCHANGED <<loading, current, batch>>
  BY DEF NextTransaction, ThreadInv
<1> HIDE DEF called
<1>2. ThreadInv'
  BY <1>1 DEF ThreadInv
<1>3. PICK ks \in SUBSET Keys : ks = called
  BY <1>1
<1>4. CL!Call(t, ks)
  BY <1>1, <1>3 DEF CL!Call, ThreadInv
<1>5. \E asked \in SUBSET Keys : CL!Call(t, asked)
  BY <1>4
<1>6. CL!Next
  BY <1>5 DEF CL!Next
<1> QED BY <1>2, <1>6

\* An extraction finds what the lookups in the cache give.
LEMMA ExtractRefines ==
    ASSUME ThreadInv, NEW t \in Threads, Extract(t)
    PROVE  ThreadInv' /\ CL!Next
<1> DEFINE b       == batch[t]
           Found(k) == Lookup(latest_root_slot, entries[k], b.slot, EnvOf(b.slot), Criteria(b, k))
           hits    == {k \in missing[t] : Found(k) # Miss}
           rest    == missing[t] \ hits
           vacant  == {k \in rest : loading[k] = NoThread}
           new     == [b EXCEPT !.entries =
                         [k \in DOMAIN @ \cup hits |-> IF k \in hits THEN Found(k) ELSE @[k]]]
<1>1. /\ pc[t] = "extract"
      /\ missing' = [missing EXCEPT ![t] = rest]
      /\ batch' = [batch EXCEPT ![t] = new]
      /\ \/ \E k \in vacant :
               /\ loading' = [loading EXCEPT ![k] = t]
               /\ pc' = [pc EXCEPT ![t] = "load"]
         \/ /\ vacant = {}
            /\ pc' = [pc EXCEPT ![t] = IF rest = {} THEN "run" ELSE "wait"]
            /\ UNCHANGED loading
      /\ current' = [current EXCEPT ![t] = TRUE]
  BY DEF Extract
<1>2. BatchFields \subseteq DOMAIN new /\ new.locks = b.locks /\ b.locks \subseteq Keys
  BY DEF ThreadInv, BatchFields
<1>3. hits \in SUBSET missing[t] /\ missing[t] \subseteq Keys
  BY DEF ThreadInv
<1> HIDE DEF new, hits
<1>4. /\ batch' = [u \in Threads |-> batch'[u]]
      /\ \A u \in Threads : BatchFields \subseteq DOMAIN batch'[u] /\ batch'[u].locks \subseteq Keys
  BY <1>1, <1>2, BatchUpdate
<1>5. ThreadInv'
  BY <1>1, <1>3, <1>4 DEF ThreadInv
<1>6. \E found \in SUBSET missing[t] : CL!Extract(t, found)
  <2>1. PICK found \in SUBSET missing[t] : found = hits
    BY <1>3
  <2>2. CL!Extract(t, found)
    BY <1>1, <2>1 DEF CL!Extract, ThreadInv
  <2> QED BY <2>2
<1>7. CL!Step(t)
  BY <1>6 DEF CL!Step
<1>8. CL!Next
  BY <1>7 DEF CL!Next
<1> QED BY <1>5, <1>8
\* A finished load frees the program and moves the cookie, whether the cache takes it or not.
LEMMA FinishLoadingRefines ==
    ASSUME ThreadInv, NEW t \in Threads, NEW k \in Keys, FinishLoading(t, k)
    PROVE  ThreadInv' /\ CL!Next
<1> DEFINE new == [batch[t] EXCEPT !.dirty = TRUE]
<1>1. /\ pc[t] = "load" /\ loading[k] = t
      /\ loading' = [loading EXCEPT ![k] = NoThread]
      /\ \/ batch' = [batch EXCEPT ![t] = NoBatch] /\ pc' = [pc EXCEPT ![t] = "idle"]
         \/ batch' = [batch EXCEPT ![t] = new] /\ pc' = [pc EXCEPT ![t] = "extract"]
      /\ current' = [u \in Threads |-> FALSE]
      /\ UNCHANGED missing
  BY DEF FinishLoading
<1>2. /\ BatchFields \subseteq DOMAIN new /\ new.locks \subseteq Keys
      /\ BatchFields \subseteq DOMAIN NoBatch /\ NoBatch.locks \subseteq Keys
  BY NoBatchFields DEF ThreadInv, BatchFields
<1> HIDE DEF new
<1>3. /\ batch' = [u \in Threads |-> batch'[u]]
      /\ \A u \in Threads : BatchFields \subseteq DOMAIN batch'[u] /\ batch'[u].locks \subseteq Keys
  BY <1>1, <1>2, BatchUpdate
<1>4. ThreadInv'
  BY <1>1, <1>3 DEF ThreadInv
<1>5. CL!Finish(t, k)
  BY <1>1 DEF CL!Finish, ThreadInv
<1>6. CL!Step(t)
  BY <1>5 DEF CL!Step
<1>7. CL!Next
  BY <1>6 DEF CL!Next
<1> QED BY <1>4, <1>7

\* LoadingTaskWaiter::wait returns.
LEMMA WakeRefines ==
    ASSUME ThreadInv, NEW t \in Threads, Wake(t)
    PROVE  ThreadInv' /\ CL!Next
<1>1. ThreadInv'
  BY DEF Wake, ThreadInv
<1>2. CL!Wake(t)
  BY DEF Wake, CL!Wake, ThreadInv
<1>3. CL!Step(t)
  BY <1>2 DEF CL!Step
<1>4. CL!Next
  BY <1>3 DEF CL!Next
<1> QED BY <1>1, <1>4

\* A transaction that modifies a program.
LEMMA ModifyProgramRefines ==
    ASSUME ThreadInv, NEW t \in Threads, NEW k, NEW what, ModifyProgram(t, k, what)
    PROVE  Unseen
<1> DEFINE b   == batch[t]
           new == [b EXCEPT !.entries[k] = ModifiedEntry(b.slot, what),
                            !.results    = Append(@, [key |-> k, what |-> what]),
                            !.dirty      = TRUE]
<1>1. batch' = [batch EXCEPT ![t] = new] /\ UNCHANGED <<loading, pc, missing, current>>
  BY DEF ModifyProgram
<1>2. BatchFields \subseteq DOMAIN new /\ new.locks \subseteq Keys
  BY DEF ThreadInv, BatchFields
<1> HIDE DEF new
<1>3. /\ batch' = [u \in Threads |-> batch'[u]]
      /\ \A u \in Threads : BatchFields \subseteq DOMAIN batch'[u] /\ batch'[u].locks \subseteq Keys
  BY <1>1, <1>2, BatchUpdate
<1> QED BY <1>1, <1>3 DEF ThreadInv, Unseen, ProtocolPc

\* The end of a batch, and the eviction in it.
LEMMA FinishBatchRefines ==
    ASSUME ThreadInv, NEW t \in Threads, NEW chosen, FinishBatch(t, chosen)
    PROVE  Unseen
<1> DEFINE new == [batch[t] EXCEPT !.entries = <<>>, !.dirty = FALSE]
<1>1. /\ batch' = [batch EXCEPT ![t] = new]
      /\ pc[t] = "run" /\ pc' = [pc EXCEPT ![t] = "commit"]
      /\ UNCHANGED <<loading, missing, current>>
  BY DEF FinishBatch
<1>2. BatchFields \subseteq DOMAIN new /\ new.locks \subseteq Keys
  BY DEF ThreadInv, BatchFields
<1> HIDE DEF new
<1>3. /\ batch' = [u \in Threads |-> batch'[u]]
      /\ \A u \in Threads : BatchFields \subseteq DOMAIN batch'[u] /\ batch'[u].locks \subseteq Keys
  BY <1>1, <1>2, BatchUpdate
<1> QED BY <1>1, <1>3 DEF ThreadInv, Unseen, ProtocolPc

\* The commit of a transaction, or the end of the commit.
LEMMA CommitRefines ==
    ASSUME ThreadInv, NEW t \in Threads, Commit(t)
    PROVE  Unseen
<1> DEFINE new == [batch[t] EXCEPT !.results = Tail(@)]
<1>1. /\ \/ batch' = [batch EXCEPT ![t] = NoBatch] /\ pc' = [pc EXCEPT ![t] = "idle"]
         \/ batch' = [batch EXCEPT ![t] = new] /\ pc' = pc
      /\ pc[t] = "commit"
      /\ UNCHANGED <<loading, missing, current>>
  BY DEF Commit
<1>2. /\ BatchFields \subseteq DOMAIN new /\ new.locks \subseteq Keys
      /\ BatchFields \subseteq DOMAIN NoBatch /\ NoBatch.locks \subseteq Keys
  BY NoBatchFields DEF ThreadInv, BatchFields
<1> HIDE DEF new
<1>3. /\ batch' = [u \in Threads |-> batch'[u]]
      /\ \A u \in Threads : BatchFields \subseteq DOMAIN batch'[u] /\ batch'[u].locks \subseteq Keys
  BY <1>1, <1>2, BatchUpdate
<1> QED BY <1>1, <1>3 DEF ThreadInv, Unseen, ProtocolPc

\* The validator opens and drops blocks and programs around the threads.
LEMMA ValidatorRefines ==
    ASSUME ThreadInv, Validator \/ UNCHANGED vars
    PROVE  Unseen
<1>1. UNCHANGED <<loading, threadVars>>
  BY DEF Validator, OpenSlot, Prune, DumpSlot, remove_programs, vars
<1> QED BY <1>1 DEF ThreadInv, Unseen, ProtocolPc, threadVars

-----------------------------------------------------------------------------
\* The refinement

\* Every step of the cache is a step of the protocol or a stutter of it.
LEMMA NextRefines ==
    ThreadInv /\ [Next]_vars => ThreadInv' /\ [CL!Next]_(CL!vars)
<1> SUFFICES ASSUME ThreadInv, [Next]_vars PROVE ThreadInv' /\ [CL!Next]_(CL!vars)
  OBVIOUS
<1>1. ASSUME Unseen
      PROVE  ThreadInv' /\ UNCHANGED CL!vars
  BY <1>1 DEF Unseen, ProtocolPc, CL!vars
<1>2. CASE Validator \/ UNCHANGED vars
  BY <1>1, <1>2, ValidatorRefines
<1>3. ASSUME NEW t \in Threads, ThreadStep(t)
      PROVE  ThreadInv' /\ [CL!Next]_(CL!vars)
  BY <1>1, <1>3, ExtractRefines, FinishLoadingRefines, WakeRefines, FinishBatchRefines,
     CommitRefines DEF ThreadStep
<1>4. ASSUME NEW t \in Threads, ThreadInput(t)
      PROVE  ThreadInv' /\ [CL!Next]_(CL!vars)
  BY <1>1, <1>4, BeginBatchRefines, NextTransactionRefines, ModifyProgramRefines DEF ThreadInput
<1> QED BY <1>2, <1>3, <1>4 DEF Next

\* The program cache implements the protocol of CooperativeLoading, whatever it holds:
\* batches, evictions, deployments, rerooting and dropped blocks never take a step of
\* replenish_program_cache that the protocol does not have (transaction_processor.rs,
\* replenish_program_cache; loaded_programs.rs, extract and finish_cooperative_loading_task).
THEOREM ImplementsCooperativeLoading == Spec => CooperativeLoadingSpec
<1>1. Init => CL!Init /\ ThreadInv
  BY InitRefines
<1>2. ThreadInv /\ [Next]_vars => ThreadInv' /\ [CL!Next]_(CL!vars)
  BY NextRefines
<1> QED BY <1>1, <1>2, PTL DEF Spec, CooperativeLoadingSpec, CL!Spec
-----------------------------------------------------------------------------
\* What the protocol promises holds of the cache

Protocol == INSTANCE CooperativeLoadingProofs WITH pc <- ProtocolPc

\* The cache is a behaviour of the protocol that the theorems are about.
LEMMA SameProtocol == Spec => Protocol!Spec
<1>1. CL!Init => Protocol!Init
  BY DEF CL!Init, Protocol!Init, ProtocolPc
<1>2. CL!Next => Protocol!Next
  BY DEF CL!Next, CL!Step, CL!Call, CL!Extract, CL!Finish, CL!Wake, Protocol!Next, Protocol!Step,
         Protocol!Call, Protocol!Extract, Protocol!Finish, Protocol!Wake, ProtocolPc
<1>3. UNCHANGED CL!vars => UNCHANGED Protocol!vars
  BY DEF CL!vars, Protocol!vars, ProtocolPc
<1>4. [CL!Next]_(CL!vars) => [Protocol!Next]_(Protocol!vars)
  BY <1>2, <1>3
<1> QED BY <1>1, <1>4, ImplementsCooperativeLoading, PTL
        DEF CooperativeLoadingSpec, CL!Spec, Protocol!Spec

\* In the program cache no wake-up is lost: while a thread of any batch sleeps on the
\* current cookie, each program it misses is being loaded by somebody.
THEOREM CacheLosesNoWakeup == Spec => []Protocol!NoLostWakeup
<1>1. Protocol!Spec => []Protocol!NoLostWakeup
  BY CacheAssumption, Protocol!NoWakeupIsLost
<1> QED BY <1>1, SameProtocol, PTL

\* In the program cache no two threads load the same program, and whoever finishes a load
\* had reserved that program: the debug_assert_eq! of finish_cooperative_loading_task holds.
THEOREM CacheLoadsAreExclusive == Spec => []Protocol!LoadsAreExclusive
<1>1. Protocol!Spec => []Protocol!LoadsAreExclusive
  BY CacheAssumption, Protocol!ExclusiveLoading
<1> QED BY <1>1, SameProtocol, PTL
=============================================================================
