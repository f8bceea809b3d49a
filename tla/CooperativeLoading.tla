------------------------- MODULE CooperativeLoading -------------------------
(***************************************************************************)
(* The protocol by which the threads that execute transaction batches      *)
(* share the work of loading missing programs:                             *)
(* TransactionBatchProcessor::replenish_program_cache together with        *)
(* ProgramCache::extract, ProgramCache::finish_cooperative_loading_task    *)
(* and LoadingTaskWaiter.                                                  *)
(*                                                                         *)
(* What the cache holds is left out: an extraction may find any subset of  *)
(* the programs a thread still misses.  ProgramCache adds the contents of  *)
(* the cache and is shown to implement this module.                        *)
(***************************************************************************)
EXTENDS Naturals, FiniteSets

CONSTANTS Threads,      \* transaction processing threads
          Keys,         \* addresses of programs
          NoThread      \* the vacant entry of loading_entries

ASSUME ThreadsAssumption == NoThread \notin Threads

VARIABLES pc,        \* where each thread is in replenish_program_cache
          missing,   \* missing_programs of the call in progress
          loading,   \* loading_entries: the thread that loads each program
          current    \* whether the cookie a thread holds is the waiter's

vars == <<pc, missing, loading, current>>

PC == {"idle", "extract", "load", "wait"}

TypeOK ==
    /\ pc \in [Threads -> PC]
    /\ missing \in [Threads -> SUBSET Keys]
    /\ loading \in [Keys -> Threads \cup {NoThread}]
    /\ current \in [Threads -> BOOLEAN]

Init ==
    /\ pc = [t \in Threads |-> "idle"]
    /\ missing = [t \in Threads |-> {}]
    /\ loading = [k \in Keys |-> NoThread]
    /\ current = [t \in Threads |-> FALSE]

-----------------------------------------------------------------------------
(***************************************************************************)
(* Actions.  The global cache is behind a read-write lock: extract and the *)
(* reading of the cookie share one read guard, finishing a task holds the  *)
(* write guard.  Two extractions can overlap, but they only add to         *)
(* loading_entries, each at most one key and under its mutex, so each can  *)
(* be placed at the moment of its insertion and is one step here.          *)
(***************************************************************************)

\* replenish_program_cache is called with the programs of a transaction.
Call(t, keys) ==
    /\ pc[t] = "idle"
    /\ pc' = [pc EXCEPT ![t] = "extract"]
    /\ missing' = [missing EXCEPT ![t] = keys]
    /\ UNCHANGED <<loading, current>>

\* A slip in extract: the reservation of another thread is overwritten.
ExtractOverReservation(t, found) ==
    /\ pc[t] = "extract"
    /\ found \subseteq missing[t]
    /\ LET rest == missing[t] \ found
       IN /\ missing' = [missing EXCEPT ![t] = rest]
          /\ IF rest = {} THEN loading' = loading /\ pc' = [pc EXCEPT ![t] = "idle"]
             ELSE \E k \in rest : /\ loading' = [loading EXCEPT ![k] = t]
                                 /\ pc' = [pc EXCEPT ![t] = "load"]
    /\ current' = [current EXCEPT ![t] = TRUE]

\* ProgramCache::extract takes the found programs off the list and reserves
\* one program that is still missing and that nobody loads; the cookie of
\* the waiter is read before the read guard is dropped.  The call returns
\* when nothing is missing, and sleeps when others load all that is missing.
Extract(t, found) ==
    /\ pc[t] = "extract"
    /\ found \subseteq missing[t]
    /\ LET rest   == missing[t] \ found
           vacant == {k \in rest : loading[k] = NoThread}
       IN /\ missing' = [missing EXCEPT ![t] = rest]
          /\ \/ \E k \in vacant :
                   /\ loading' = [loading EXCEPT ![k] = t]
                   /\ pc' = [pc EXCEPT ![t] = "load"]
             \/ /\ vacant = {}
                /\ loading' = loading
                /\ pc' = [pc EXCEPT ![t] = IF rest = {} THEN "idle" ELSE "wait"]
    /\ current' = [current EXCEPT ![t] = TRUE]

\* Slips in finish_cooperative_loading_task: the waiters are not notified;
\* the reservation stays when the call gives up.
FinishWithoutNotify(t, k) ==
    /\ pc[t] = "load"
    /\ loading[k] = t
    /\ loading' = [loading EXCEPT ![k] = NoThread]
    /\ \E result \in {"extract", "idle"} : pc' = [pc EXCEPT ![t] = result]
    /\ UNCHANGED <<missing, current>>

FinishKeepsReservationAtLimit(t, k) ==
    /\ pc[t] = "load"
    /\ loading[k] = t
    /\ \/ /\ loading' = [loading EXCEPT ![k] = NoThread]
          /\ pc' = [pc EXCEPT ![t] = "extract"]
       \/ pc' = [pc EXCEPT ![t] = "idle"] /\ UNCHANGED loading
    /\ current' = [u \in Threads |-> FALSE]
    /\ UNCHANGED missing

\* finish_cooperative_loading_task: the reservation is removed, the program
\* is assigned, and LoadingTaskWaiter::notify moves the cookie on.  If the
\* assignment was refused and loading is limited, the call returns with
\* hit_max_limit.
Finish(t, k) ==
    /\ pc[t] = "load"
    /\ loading[k] = t
    /\ loading' = [loading EXCEPT ![k] = NoThread]
    /\ \/ pc' = [pc EXCEPT ![t] = "extract"]
       \/ pc' = [pc EXCEPT ![t] = "idle"]
    /\ current' = [u \in Threads |-> FALSE]
    /\ UNCHANGED missing

\* LoadingTaskWaiter::wait returns only when the cookie has moved on.
Wake(t) ==
    /\ pc[t] = "wait"
    /\ ~current[t]
    /\ pc' = [pc EXCEPT ![t] = "extract"]
    /\ UNCHANGED <<missing, loading, current>>

Step(t) ==
    \/ \E found \in SUBSET missing[t] : Extract(t, found)
    \/ \E k \in Keys : Finish(t, k)
    \/ Wake(t)

Next == \E t \in Threads : Step(t) \/ \E keys \in SUBSET Keys : Call(t, keys)

\* A thread inside replenish_program_cache keeps running: the operating
\* system schedules every runnable thread and every load terminates.
Fairness == \A t \in Threads : WF_vars(Step(t))

Spec == Init /\ [][Next]_vars

FairSpec == Spec /\ Fairness

-----------------------------------------------------------------------------
(***************************************************************************)
(* Properties.                                                             *)
(***************************************************************************)

Waits(t) == pc[t] = "wait" /\ current[t]

\* A program is loaded by at most one thread, that thread is inside its
\* loading step, and no thread holds two reservations: the entry
\* finish_cooperative_loading_task removes is the one its own thread made
\* (the debug_assert_eq! on loading_thread).
LoadsAreExclusive ==
    /\ \A k \in Keys : loading[k] # NoThread => pc[loading[k]] = "load"
    /\ \A t \in Threads : pc[t] = "load" =>
          \E k \in Keys : loading[k] = t /\ \A j \in Keys : loading[j] = t => j = k

\* No wake-up is lost: while a thread sleeps on the current cookie, each
\* program it misses is still being loaded by somebody, whose
\* finish_cooperative_loading_task will notify it.
NoLostWakeup ==
    \A t \in Threads : Waits(t) =>
        /\ missing[t] # {}
        /\ \A k \in missing[t] : loading[k] # NoThread

\* The threads never all sleep: somebody asleep means somebody loads.
NeverAllAsleep ==
    (\E t \in Threads : Waits(t)) => \E t \in Threads : pc[t] = "load"

\* A thread that goes to sleep in LoadingTaskWaiter::wait gets another turn
\* at extracting its programs.
SleepersWake == \A t \in Threads : pc[t] = "wait" ~> pc[t] = "extract"
=============================================================================
