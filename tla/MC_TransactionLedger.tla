------------------------ MODULE MC_TransactionLedger ------------------------
(* The accounts of transactions: as batches load and commit them            *)
(* (TransactionBatch), or as the runtime holds those of one transaction in  *)
(* execution (TransactionAccounts).  A behaviour is of one kind.            *)
EXTENDS MC_TransactionBatch

VARIABLES
    side,       \* "batches" or "borrows"
    shared_account_fields, private_account_fields, borrow_counters, touched_flags, resize_delta, lamports_delta,
    heap, stored, refs, context, record, writes

borrowVars ==
    <<shared_account_fields, private_account_fields, borrow_counters, touched_flags, resize_delta, lamports_delta,
      heap, stored, refs, context, record, writes>>

(* A builtin P with the account "data", which it is given twice, and an     *)
(* sBPF program Q with the account "other".                                 *)
Entry(key, owner, data, executable, in_store) ==
    [key |-> key, owner |-> owner, lamports |-> 1, data |-> data, executable |-> executable, stored |-> in_store]
BorrowedAccounts ==
    <<Entry("P", "native", <<>>, TRUE, FALSE), Entry("Q", "loader", <<>>, TRUE, FALSE),
      Entry("data", "P", <<1>>, FALSE, TRUE), Entry("other", "Q", <<0>>, FALSE, TRUE),
      Entry("instructions", "sysvar", <<7, 0>>, FALSE, FALSE)>>
Uses(i, writable) == [i |-> i, writable |-> writable]
OfP(uses) == [program |-> 1, accounts |-> uses]
OfQ(uses) == [program |-> 2, accounts |-> uses]

Borrows == INSTANCE TransactionAccounts WITH
    Loaded <- BorrowedAccounts,
    TopLevel <- <<OfP(<<Uses(3, TRUE), Uses(4, TRUE), Uses(3, TRUE)>>), OfQ(<<Uses(4, TRUE), Uses(3, FALSE)>>)>>,
    Invocable <- {OfQ(<<Uses(4, TRUE), Uses(3, TRUE)>>)},
    Builtins <- {"P"}, InstructionsSysvar <- "instructions", SysvarOwner <- "sysvar",
    I8Max <- 2, MaxDataLen <- 3, MaxTransactionGrowth <- 2, MaxInstructionGrowth <- 2, MaxAccounts <- 5,
    StackCapacity <- 2, TraceCapacity <- 4,
    Slices <- {<<0>>, <<1, 1>>}, Owners <- {"Q"}, MaxRefs <- 3, MaxWrites <- 2

ASSUME BorrowsAssumption == Borrows!ConstantsAreRight

MCInit == Init /\ Borrows!Init /\ side \in {"batches", "borrows"}
MCNext ==
    \/ side = "batches" /\ Next /\ UNCHANGED <<side, borrowVars>>
    \/ side = "borrows" /\ Borrows!Next /\ UNCHANGED <<side, vars>>
    \/ record # Borrows!NoRecord /\ UNCHANGED <<side, vars, borrowVars>>
MCSpec == MCInit /\ [][MCNext]_<<side, vars, borrowVars>>

(* References, copies, deltas, touched flags and frames, whatever a program  *)
(* and its callees do with the accounts and whatever fails: see              *)
(* TransactionAccounts (transaction_accounts.rs, try_borrow_mut;             *)
(* transaction.rs, push).                                                    *)
AccountsAreGuarded ==
    side = "borrows" =>
        /\ Borrows!BorrowsAreExclusive
        /\ Borrows!StoreKeepsItsCopy
        /\ Borrows!ChangesAreAccounted
        /\ Borrows!FramesAreRight
=============================================================================
