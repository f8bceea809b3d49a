------------------------- MODULE ProgramStatistics --------------------------
(***************************************************************************)
(* What a cache entry remembers of its program (program_metrics.rs): how   *)
(* often it was compiled, executed and interpreted, for how long in all,   *)
(* and moving averages.  Threads record executions with relaxed atomic     *)
(* operations, one at a time, while a redeployment or a reload builds a    *)
(* new entry and merges the statistics of the old one into it.  The new    *)
(* entry belongs to one thread until it is in the cache.                   *)
(***************************************************************************)
EXTENDS Integers

CONSTANTS
    Executors,        \* threads that execute the program
    MaxObservations,  \* executions each of them records
    Durations         \* how long they may take, in whole microseconds: perhaps 0

VARIABLES
    stats,            \* the statistics of the old and of the new entry
    observers,        \* what each thread is recording
    merging,          \* how far merge_from has come and what it has read
    ledger            \* what was really observed, begun and recorded

statVars == <<stats, observers, merging, ledger>>

Kinds == {"compilation", "jit", "interpreted"}
Entries == {"old", "new"}
Builder == "builder"

EMA_SCALE == 1000
WindowSize(kind) == IF kind = "compilation" THEN 10 ELSE 500

Statistics == [uses |-> 0, count |-> [k \in Kinds |-> 0], total |-> [k \in Kinds |-> 0], ema |-> [k \in Kinds |-> 0]]

\* The sums stay far from the width of u64, so nothing saturates or wraps.
NextEma(kind, ema, duration_us) ==
    LET denom == 1 + WindowSize(kind)
        duration_ema == duration_us * EMA_SCALE
    IN IF ema = 0 THEN duration_ema ELSE (duration_ema * 2 + ema * (denom - 2)) \div denom

MaxOf(a, b) == IF a > b THEN a ELSE b

combined_ema(kind, into_ema, from_ema, into_observations, from_observations) ==
    LET other_ema_weight == MaxOf(WindowSize(kind), from_observations)
        this_ema_weight == MaxOf(WindowSize(kind), into_observations)
    IN (from_ema * other_ema_weight + into_ema * this_ema_weight) \div (other_ema_weight + this_ema_weight)

-----------------------------------------------------------------------------
Resting == [at |-> "idle", entry |-> "old", kind |-> "jit", duration_us |-> 0, left |-> 0]

None == [k \in Kinds |-> [count |-> 0, total |-> 0, longest |-> 0]]

Plus(l, kind, duration_us) ==
    [l EXCEPT ![kind] = [count |-> @.count + 1, total |-> @.total + duration_us, longest |-> MaxOf(@.longest, duration_us)]]

\* The old entry lives in the cache; the new one has only just been created.
StatInit ==
    /\ stats = [e \in Entries |-> Statistics]
    /\ observers = [t \in Executors \cup {Builder} |->
                      [Resting EXCEPT !.left = IF t = Builder THEN 1 ELSE MaxObservations]]
    /\ merging = [at |-> 0, this |-> [k \in Kinds |-> 0], other |-> [k \in Kinds |-> 0], low |-> None, high |-> None]
    /\ ledger = [e \in Entries |-> [begun |-> None, recorded |-> None]]

MergeSteps == 11

Merged == merging.at = MergeSteps

\* A thread has compiled or executed the program of an entry.  The builder
\* compiles the new entry before it merges; the others have the old entry,
\* and once the merge is done either, for they may have found the old one
\* before.  Extracting it from the cache has counted the use.
Observe(t, entry, kind, duration_us) ==
    /\ observers[t].at = "idle" /\ observers[t].left > 0
    /\ IF t = Builder THEN entry = "new" /\ kind = "compilation" /\ merging.at = 0
       ELSE kind # "compilation" /\ (entry = "old" \/ Merged)
    /\ observers' = [observers EXCEPT ![t] = [at |-> "count", entry |-> entry, kind |-> kind,
                                               duration_us |-> duration_us, left |-> @.left - 1]]
    /\ ledger' = [ledger EXCEPT ![entry].begun = Plus(@, kind, duration_us)]
    /\ stats' = [stats EXCEPT ![entry].uses = IF t = Builder THEN @ ELSE @ + 1]
    /\ UNCHANGED merging

AddCount(t) ==
    LET o == observers[t]
    IN /\ o.at = "count"
       /\ stats' = [stats EXCEPT ![o.entry].count[o.kind] = @ + 1]
       /\ observers' = [observers EXCEPT ![t].at = "total"]
       /\ UNCHANGED <<merging, ledger>>

AddTotal(t) ==
    LET o == observers[t]
    IN /\ o.at = "total"
       /\ stats' = [stats EXCEPT ![o.entry].total[o.kind] = @ + o.duration_us]
       /\ observers' = [observers EXCEPT ![t].at = "ema"]
       /\ UNCHANGED <<merging, ledger>>

\* fetch_update retries until nobody came in between: one step.
observe_ema(t) ==
    LET o == observers[t]
    IN /\ o.at = "ema"
       /\ stats' = [stats EXCEPT ![o.entry].ema[o.kind] = NextEma(o.kind, @, o.duration_us)]
       /\ observers' = [observers EXCEPT ![t] = [Resting EXCEPT !.left = o.left]]
       /\ ledger' = [ledger EXCEPT ![o.entry].recorded = Plus(@, o.kind, o.duration_us)]
       /\ UNCHANGED merging

-----------------------------------------------------------------------------
(* merge_from, one load of the old entry after another.                    *)

\* The step is MergeSteps' next, the old entry's value is read in it.
MergeAt(step, new, this, other) ==
    /\ merging.at = step - 1
    /\ stats' = [stats EXCEPT !["new"] = new]
    /\ merging' = [merging EXCEPT !.at = step, !.this = this, !.other = other,
                                  !.low = IF step = 1 THEN ledger["old"].recorded ELSE @,
                                  !.high = IF step = MergeSteps THEN ledger["old"].begun ELSE @]
    /\ UNCHANGED <<observers, ledger>>

MergeUses ==
    /\ observers[Builder].at = "idle"
    /\ MergeAt(1, [stats["new"] EXCEPT !.uses = @ + stats["old"].uses], merging.this, merging.other)

CountLost(this, other) == other

CountAdded(this, other) == this + other

MergeCount(step, kind) ==
    MergeAt(step, [stats["new"] EXCEPT !.count[kind] = CountAdded(@, stats["old"].count[kind])],
            [merging.this EXCEPT ![kind] = stats["new"].count[kind]],
            \* the weight of the interpreted average comes from an earlier load
            IF kind = "interpreted" THEN merging.other
            ELSE [merging.other EXCEPT ![kind] = stats["old"].count[kind]])

MergeTotal(step, kind) ==
    MergeAt(step, [stats["new"] EXCEPT !.total[kind] = @ + stats["old"].total[kind]], merging.this, merging.other)

LoadInterpretations ==
    MergeAt(6, stats["new"], merging.this, [merging.other EXCEPT !["interpreted"] = stats["old"].count["interpreted"]])

MergeEma(step, kind) ==
    MergeAt(step, [stats["new"] EXCEPT !.ema[kind] =
                       combined_ema(kind, @, stats["old"].ema[kind], merging.this[kind], merging.other[kind])],
            merging.this, merging.other)

merge_from ==
    \/ MergeUses
    \/ MergeCount(2, "compilation")
    \/ MergeTotal(3, "compilation")
    \/ MergeCount(4, "jit")
    \/ MergeTotal(5, "jit")
    \/ LoadInterpretations
    \/ MergeCount(7, "interpreted")
    \/ MergeTotal(8, "interpreted")
    \/ MergeEma(9, "compilation")
    \/ MergeEma(10, "jit")
    \/ MergeEma(11, "interpreted")

-----------------------------------------------------------------------------
StatNext ==
    \/ \E t \in Executors \cup {Builder} :
         \/ \E entry \in Entries, kind \in Kinds, duration_us \in Durations : Observe(t, entry, kind, duration_us)
         \/ AddCount(t)
         \/ AddTotal(t)
         \/ observe_ema(t)
    \/ merge_from

-----------------------------------------------------------------------------
Between(low, value, high) == low <= value /\ value <= high

(***************************************************************************)
(* No observation is lost or counted twice, whatever the order of the      *)
(* atomic operations: an entry's numbers lie between what was completely   *)
(* recorded and what was begun; after a merge the new entry has in         *)
(* addition at least what the old one had when the merge began and at most *)
(* what it had when it ended.  No average exceeds the longest observation  *)
(* of its kind that was begun, in the old entry too once it is merged: one *)
(* of a kind that was never observed is zero.                              *)
(***************************************************************************)
StatisticsAddUp ==
    \A e \in Entries, k \in Kinds :
        LET s == stats[e]
            l == ledger[e]
            low == IF e = "new" THEN merging.low[k] ELSE None[k]
            high == IF e = "new" THEN merging.high[k] ELSE None[k]
        IN /\ e = "old" \/ Merged \/ merging.at = 0 =>
                /\ Between(l.recorded[k].count + low.count, s.count[k], l.begun[k].count + high.count)
                /\ Between(l.recorded[k].total + low.total, s.total[k], l.begun[k].total + high.total)
                /\ s.ema[k] <= MaxOf(l.begun[k].longest, high.longest) * EMA_SCALE
=============================================================================
