---------------------- MODULE CooperativeLoadingProofs ----------------------
(***************************************************************************)
(* Proofs, for any sets of threads and programs, of the safety properties  *)
(* of CooperativeLoading.                                                  *)
(*                                                                         *)
(* NoLostWakeup is not inductive: that Finish cannot free a program while  *)
(* leaving a sleeper's cookie current is in the actions, but that a thread *)
(* which loads is never also asleep needs LoadsAreExclusive, and with it   *)
(* the type invariant.  IInv is the conjunction of the three.              *)
(***************************************************************************)
EXTENDS CooperativeLoading, TLAPS

IInv == TypeOK /\ LoadsAreExclusive /\ NoLostWakeup

\* The initial state of the protocol satisfies the inductive invariant.
LEMMA InitIInv == Init => IInv
BY ThreadsAssumption
   DEF Init, IInv, TypeOK, PC, LoadsAreExclusive, NoLostWakeup, Waits

\* Every step of replenish_program_cache by any thread preserves the
\* inductive invariant.
LEMMA NextIInv == IInv /\ [Next]_vars => IInv'
<1> SUFFICES ASSUME IInv, [Next]_vars
             PROVE  IInv'
  OBVIOUS
<1> USE ThreadsAssumption DEF IInv
<1>1. ASSUME NEW t \in Threads, NEW keys \in SUBSET Keys, Call(t, keys)
      PROVE  IInv'
  <2>1. TypeOK'
    BY <1>1 DEF TypeOK, PC, Call
  <2>2. LoadsAreExclusive'
    BY <1>1 DEF TypeOK, PC, Call, LoadsAreExclusive
  <2>3. NoLostWakeup'
    BY <1>1 DEF TypeOK, PC, Call, NoLostWakeup, Waits
  <2> QED
    BY <2>1, <2>2, <2>3
<1>2. ASSUME NEW t \in Threads, NEW found \in SUBSET missing[t], Extract(t, found)
      PROVE  IInv'
  <2> DEFINE rest   == missing[t] \ found
             vacant == {k \in rest : loading[k] = NoThread}
  <2>1. CASE \E k \in vacant :
                /\ loading' = [loading EXCEPT ![k] = t]
                /\ pc' = [pc EXCEPT ![t] = "load"]
    <3>1. PICK k \in vacant : /\ loading' = [loading EXCEPT ![k] = t]
                              /\ pc' = [pc EXCEPT ![t] = "load"]
      BY <2>1
    <3>2. k \in Keys /\ loading[k] = NoThread
      BY <3>1 DEF TypeOK
    <3>3. TypeOK'
      BY <1>2, <3>1, <3>2 DEF TypeOK, PC, Extract
    <3>4. \A j \in Keys : loading[j] # t
      BY <1>2 DEF Extract, LoadsAreExclusive, TypeOK
    <3>5. LoadsAreExclusive'
      <4>1. \A j \in Keys : loading'[j] # NoThread => pc'[loading'[j]] = "load"
        BY <1>2, <3>1, <3>2 DEF LoadsAreExclusive, TypeOK, Extract
      <4>2. ASSUME NEW u \in Threads, pc'[u] = "load"
            PROVE  \E i \in Keys : /\ loading'[i] = u
                                   /\ \A j \in Keys : loading'[j] = u => j = i
        <5>1. CASE u = t
          BY <5>1, <3>1, <3>2, <3>4 DEF TypeOK
        <5>2. CASE u # t
          <6>1. PICK i \in Keys : /\ loading[i] = u
                                  /\ \A j \in Keys : loading[j] = u => j = i
            BY <4>2, <5>2, <3>1 DEF LoadsAreExclusive, TypeOK
          <6> QED
            BY <6>1, <5>2, <3>1, <3>2 DEF TypeOK
        <5> QED
          BY <5>1, <5>2
      <4> QED
        BY <4>1, <4>2 DEF LoadsAreExclusive
    <3>6. NoLostWakeup'
      BY <1>2, <3>1, <3>2 DEF TypeOK, Extract, NoLostWakeup, Waits
    <3> QED
      BY <3>3, <3>5, <3>6
  <2>2. CASE /\ vacant = {}
             /\ loading' = loading
             /\ pc' = [pc EXCEPT ![t] = IF rest = {} THEN "idle" ELSE "wait"]
    <3>1. TypeOK'
      BY <1>2, <2>2 DEF TypeOK, PC, Extract
    <3>2. LoadsAreExclusive'
      BY <1>2, <2>2 DEF TypeOK, PC, Extract, LoadsAreExclusive
    <3>3. NoLostWakeup'
      BY <1>2, <2>2 DEF TypeOK, Extract, NoLostWakeup, Waits
    <3> QED
      BY <3>1, <3>2, <3>3
  <2> QED
    BY <1>2, <2>1, <2>2 DEF Extract
<1>3. ASSUME NEW t \in Threads, NEW k \in Keys, Finish(t, k)
      PROVE  IInv'
  <2>1. TypeOK'
    BY <1>3 DEF TypeOK, PC, Finish
  <2>2. \A j \in Keys : loading[j] = t => j = k
    BY <1>3 DEF Finish, LoadsAreExclusive
  <2>3. LoadsAreExclusive'
    <3>1. \A j \in Keys : loading'[j] # NoThread => pc'[loading'[j]] = "load"
      BY <1>3, <2>2 DEF LoadsAreExclusive, TypeOK, Finish
    <3>2. ASSUME NEW u \in Threads, pc'[u] = "load"
          PROVE  \E i \in Keys : /\ loading'[i] = u
                                 /\ \A j \in Keys : loading'[j] = u => j = i
      <4>1. u # t /\ pc[u] = "load"
        BY <1>3, <3>2 DEF Finish, TypeOK
      <4>2. PICK i \in Keys : /\ loading[i] = u
                              /\ \A j \in Keys : loading[j] = u => j = i
        BY <4>1 DEF LoadsAreExclusive
      <4> QED
        BY <1>3, <4>1, <4>2 DEF Finish, TypeOK
    <3> QED
      BY <3>1, <3>2 DEF LoadsAreExclusive
  <2>4. NoLostWakeup'
    BY <1>3 DEF Finish, NoLostWakeup, Waits
  <2> QED
    BY <2>1, <2>3, <2>4
<1>4. ASSUME NEW t \in Threads, Wake(t)
      PROVE  IInv'
  <2>1. TypeOK'
    BY <1>4 DEF TypeOK, PC, Wake
  <2>2. LoadsAreExclusive'
    BY <1>4 DEF TypeOK, PC, Wake, LoadsAreExclusive
  <2>3. NoLostWakeup'
    BY <1>4 DEF TypeOK, Wake, NoLostWakeup, Waits
  <2> QED
    BY <2>1, <2>2, <2>3
<1>5. CASE UNCHANGED vars
  BY <1>5 DEF vars, TypeOK, LoadsAreExclusive, NoLostWakeup, Waits
<1> QED
  BY <1>1, <1>2, <1>3, <1>4, <1>5 DEF Next, Step

\* The inductive invariant holds of every behaviour of the protocol.
LEMMA InductiveInvariant == Spec => []IInv
BY InitIInv, NextIInv, PTL DEF Spec

\* Every variable of the loading protocol keeps its type.
THEOREM TypeCorrect == Spec => []TypeOK
BY InductiveInvariant, PTL DEF IInv

\* At most one thread loads a program, and each loading thread owns exactly
\* one reservation, whatever the number of threads and programs.
THEOREM ExclusiveLoading == Spec => []LoadsAreExclusive
BY InductiveInvariant, PTL DEF IInv

\* A thread asleep in LoadingTaskWaiter::wait on the current cookie waits
\* for a load that is still in progress, for any number of threads and
\* programs.
THEOREM NoWakeupIsLost == Spec => []NoLostWakeup
BY InductiveInvariant, PTL DEF IInv

\* Whenever a thread sleeps, another is loading: replenish_program_cache
\* cannot deadlock.
THEOREM SomebodyLoads == Spec => []NeverAllAsleep
<1>1. IInv => NeverAllAsleep
  BY DEF IInv, TypeOK, LoadsAreExclusive, NoLostWakeup, NeverAllAsleep
<1> QED
  BY <1>1, InductiveInvariant, PTL
=============================================================================
