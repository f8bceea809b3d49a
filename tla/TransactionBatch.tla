-------------------------- MODULE TransactionBatch --------------------------
(***************************************************************************)
(* The transaction batch pipeline: TransactionBatchProcessor::             *)
(* load_and_execute_sanitized_transactions (svm/src/                       *)
(* transaction_processor.rs) over the AccountLoader (account_loader.rs)    *)
(* and the RollbackAccounts (rollback_accounts.rs).                        *)
(*                                                                         *)
(* The transactions of a batch run in order, each on the accounts the      *)
(* earlier ones left: the nonce and the fee payer are validated, the       *)
(* accounts loaded, the instructions executed one by one, and the account  *)
(* loader updated.  The bank then commits the results.  Between batches a  *)
(* new block may begin, which gives every durable nonce a new value to     *)
(* advance to.                                                             *)
(*                                                                         *)
(* Nothing that happens to a transaction depends on the later ones of its  *)
(* batch, so each message m is chosen when its turn comes, and the batch   *)
(* ends when no further one is.  A message has fields fee_payer, fee,      *)
(* keys, writable, limit (on the loaded data), nonce (NoKey, or the        *)
(* account that its first instruction advances), blockhash (the nonce it   *)
(* was signed with) and instructions.  Instructions of programs other      *)
(* than the system program either fail, write the data of an account they  *)
(* own, give it away, or move or make lamports.                            *)
(* Balance recording is enabled: all accounts of a message are looked up   *)
(* in the account loader, whatever becomes of it.                          *)
(***************************************************************************)
EXTENDS SystemProgram, Sequences, FiniteSetsExt

CONSTANTS
  Messages,        \* the messages a batch is made of
  NoMessage,
  MaxBatch,        \* bound: transactions in a batch
  MaxSlot,         \* bound: the last block
  Genesis,         \* the accounts before the first batch
  BaseSize,        \* TRANSACTION_ACCOUNT_BASE_SIZE
  ProgramOwners    \* the owners of accounts that can be invoked

MessageInstruction ==
  [op : STRING, program : Keys, a : Keys, b : Keys, base : Keys \cup {NoKey}, lamports : Nat,
   size : Sizes, owner : Keys, authority : Keys \cup {NoKey}, signers : SUBSET Keys,
   tag : Tag, durable_nonce : Nat]

Message ==
  [fee_payer : Keys, fee : Nat, keys : SUBSET Keys, writable : SUBSET Keys, limit : Nat,
   nonce : Keys \cup {NoKey}, blockhash : Nat, instructions : Seq(MessageInstruction)]

\* Sanitized messages.  A nonce transaction begins by advancing its nonce
\* (SVMMessage::get_durable_nonce).
ASSUME MessagesAssumption ==
  \A msg \in Messages :
    /\ msg \in Message
    /\ msg.fee_payer \in msg.writable
    /\ msg.writable \subseteq msg.keys
    /\ \A i \in DOMAIN msg.instructions :
         LET ix == msg.instructions[i]
         IN  /\ {ix.program, ix.a, ix.b} \subseteq msg.keys
             /\ ix.program = System => ix.op \in Ops
    /\ msg.nonce # NoKey =>
         /\ msg.nonce \in msg.writable
         /\ Len(msg.instructions) > 0
         /\ msg.instructions[1].program = System
         /\ msg.instructions[1].op = "AdvanceNonceAccount"
         /\ msg.instructions[1].a = msg.nonce

ASSUME BatchAssumption ==
  /\ NoMessage \notin Messages
  /\ Genesis \in [Keys -> Account]
  /\ MaxBatch \in Nat /\ MaxSlot \in Nat /\ BaseSize \in Nat

\* The accounts at first are ones the program can have left behind: accounts
\* without data hold none, and the nonces of the system program are funded and
\* not of a later block.
ASSUME GenesisAssumption ==
  \A k \in Keys :
    LET account == Genesis[k]
    IN  /\ account.size = 0 => account.tag = "zeroed"
        /\ account.owner = System /\ account.tag \in {"initialized", "legacy"} =>
             /\ account.durable_nonce <= 1
             /\ account.size >= NonceSize => account.lamports >= MinimumBalance[account.size]

VARIABLES
  slot,             \* the block being built; also the next durable nonce
  db,               \* the accounts database the callbacks read
  loaded_accounts,  \* AccountLoader::loaded_accounts
  pc,               \* where the batch is: "idle", "load", "execute", "done"
  config,           \* [drop_on_failure, all_or_nothing]
  m,                \* the message at hand
  results,          \* processing_results
  balances,         \* the balance collector, one entry per transaction
  tx,               \* the transaction in execution, see AccountRules
  pre,              \* its accounts as loaded
  next_ix,          \* its next instruction
  rollback,         \* its RollbackAccounts
  used,             \* history: <<nonce account, nonce>> of committed transactions
  fees              \* history: fees of committed transactions

execution == <<tx, pre, next_ix, rollback>>
bank == <<slot, db, used, fees>>
vars == <<slot, db, loaded_accounts, pc, config, m, results, balances,
          tx, pre, next_ix, rollback, used, fees>>

Config == [drop_on_failure : BOOLEAN, all_or_nothing : BOOLEAN]
NoConfig == [drop_on_failure |-> FALSE, all_or_nothing |-> FALSE]

NoChanges == [k \in {} |-> DefaultAccount]

\* A processing result: what became of the message and what the bank stores.
Result(msg, status, changes) ==
  [status |-> status, changes |-> changes, nonce |-> <<msg.nonce, msg.blockhash>>, fee |-> msg.fee]
was_processed(result) == result.status \in {"Ok", "Failed", "FeesOnly"}

-----------------------------------------------------------------------------
\* AccountLoader

\* A cached account without lamports was deallocated: it reads as absent.
do_load(k) ==
  LET account == IF k \in DOMAIN loaded_accounts THEN loaded_accounts[k] ELSE db[k]
  IN  IF account.lamports = 0 THEN DefaultAccount ELSE account

\* The loader after load_account of keys, which caches what it finds, and
\* after changes have been inserted.
Insert(keys, changes) ==
  [k \in DOMAIN loaded_accounts \cup keys \cup DOMAIN changes |->
     IF k \in DOMAIN changes THEN changes[k]
     ELSE IF k \in DOMAIN loaded_accounts THEN loaded_accounts[k] ELSE do_load(k)]

is_invoked(msg, k) == \E i \in DOMAIN msg.instructions : msg.instructions[i].program = k

is_instruction_account(msg, k) ==
  \E i \in DOMAIN msg.instructions :
    k \in {msg.instructions[i].a, msg.instructions[i].b} \cup msg.instructions[i].signers

\* What a successful transaction stores.
update_accounts_for_successful_tx(msg, accounts) ==
  [k \in {k \in msg.writable : ~(is_invoked(msg, k) /\ ~is_instruction_account(msg, k))} |->
     accounts[k]]

load_transaction_account(msg, k) ==
  LET account == do_load(k)
  IN  IF account.lamports = 0 THEN [DefaultAccount EXCEPT !.rent_exempt_epoch = TRUE]
      ELSE IF k \in msg.writable THEN update_rent_exempt_status_for_account(account)
      ELSE account

loaded_size(account) == IF account.lamports = 0 THEN 0 ELSE BaseSize + account.size

\* load_transaction_accounts succeeds.  msg.limit is what the base size of the
\* message's lookup tables leaves for accounts, and no program of the batch is
\* one of the upgradeable loader, whose ProgramData would count too.
CanLoad(msg) ==
  /\ LET Size(k) == loaded_size(do_load(k))
     IN  MapThenSumSet(Size, msg.keys) <= msg.limit
  /\ \A i \in DOMAIN msg.instructions :
       LET program == do_load(msg.instructions[i].program)
       IN  program.lamports # 0 /\ program.owner \in ProgramOwners

-----------------------------------------------------------------------------
\* Validation of the nonce and the fee payer

\* solana_nonce_account::verify_nonce_account
verify_nonce_account(account, blockhash) ==
  /\ account.owner = System
  /\ get_state(account)
  /\ account.tag = "initialized"
  /\ account.durable_nonce = blockhash

validate_transaction_nonce(msg) ==
  LET account == do_load(msg.nonce)
  IN  /\ account.lamports # 0
      /\ verify_nonce_account(account, msg.blockhash)
      /\ account.durable_nonce # slot
      /\ account.authority \in msg.instructions[1].signers

\* solana_nonce_account::get_system_account_kind
get_system_account_kind(account) ==
  IF account.owner = System /\ account.size = 0 THEN "System"
  ELSE IF account.owner = System /\ account.size = NonceSize /\ Initialized(account)
       THEN "Nonce"
  ELSE "None"

Charged(account, fee) == [account EXCEPT !.lamports = @ - fee]

PayWithAnyBalance(account, fee, key) ==
  get_system_account_kind(account) # "None" /\ account.lamports >= fee
validate_fee_payer(account, fee, key) ==
  LET kind == get_system_account_kind(account)
      min_balance == IF kind = "Nonce" THEN MinimumBalance[NonceSize] ELSE 0
  IN  /\ account.lamports # 0
      /\ kind # "None"
      /\ account.lamports - min_balance >= fee
      /\ check_rent_state_with_account(account, Charged(account, fee), key)

loaded_fee_payer(msg) == update_rent_exempt_status_for_account(do_load(msg.fee_payer))

validate_transaction_nonce_and_fee_payer(msg) ==
  /\ msg.nonce # NoKey => validate_transaction_nonce(msg)
  /\ validate_fee_payer(loaded_fee_payer(msg), msg.fee, msg.fee_payer)

RollbackFeePayerOnly(msg) ==
  [k \in {msg.fee_payer} |->
     [Charged(loaded_fee_payer(msg), msg.fee)
        EXCEPT !.rent_exempt_epoch = do_load(k).rent_exempt_epoch]]
RollbackUncharged(msg) ==
  [k \in {msg.fee_payer, msg.nonce} \ {NoKey} |->
     IF k = msg.nonce THEN [do_load(k) EXCEPT !.durable_nonce = slot] ELSE do_load(k)]
RollbackRentEpoch(msg) ==
  [k \in {msg.fee_payer, msg.nonce} \ {NoKey} |->
     LET account == IF k = msg.fee_payer THEN Charged(loaded_fee_payer(msg), msg.fee)
                    ELSE do_load(k)
     IN  IF k = msg.nonce THEN [account EXCEPT !.durable_nonce = slot] ELSE account]
\* RollbackAccounts::new: what a failed transaction stores, the advanced nonce
\* and the charged fee payer.
RollbackAccounts(msg) ==
  LET payer == Charged(loaded_fee_payer(msg), msg.fee)
  IN  IF msg.nonce = NoKey
      THEN [k \in {msg.fee_payer} |->
              [payer EXCEPT !.rent_exempt_epoch = do_load(k).rent_exempt_epoch]]
      ELSE [k \in {msg.fee_payer, msg.nonce} |->
              IF k = msg.fee_payer /\ k = msg.nonce THEN [payer EXCEPT !.durable_nonce = slot]
              ELSE IF k = msg.nonce THEN [do_load(k) EXCEPT !.durable_nonce = slot]
              ELSE payer]

-----------------------------------------------------------------------------
\* Execution

\* Programs other than the system program, within the rules of AccountRules.
OtherProgram(c, x, ix) ==
  CASE ix.op = "Write" ->
         Store(Require(x, can_data_be_changed(c, x, ix.a) /\ x.accounts[ix.a].size > 0),
               ix.a, [x.accounts[ix.a] EXCEPT !.tag = ix.tag, !.authority = ix.authority,
                                              !.durable_nonce = ix.durable_nonce])
    [] ix.op = "GiveAway" -> set_owner(c, x, ix.a, ix.owner)
    [] ix.op = "Move" ->
         checked_add_lamports(c, checked_sub_lamports(c, x, ix.a, ix.lamports), ix.b, ix.lamports)
    [] ix.op = "Mint" -> checked_add_lamports(c, x, ix.a, ix.lamports)
    [] OTHER -> Require(x, FALSE)

\* push, the program, pop: an instruction must leave the lamports balanced.
process_instruction(x, ix) ==
  LET c == [program |-> ix.program, signers |-> ix.signers, writable |-> m.writable]
      y == IF ix.program = System THEN Entrypoint(c, x, ix, slot) ELSE OtherProgram(c, x, ix)
  IN  Require(y, y.lamports_delta = 0)

VerifyNothing(msg, before, after) == TRUE
\* TransactionAccountStateInfo::verify_changes
verify_changes(msg, before, after) ==
  \A k \in msg.writable : check_rent_state_with_account(before[k], after[k], k)

lamports_sum(accounts) ==
  LET Lamports(k) == accounts[k].lamports
  IN  MapThenSumSet(Lamports, DOMAIN accounts)

\* The native balances of the accounts of a message.
collect_balances(accounts) == [k \in m.keys |-> accounts[k].lamports]

collect_pre_balances == collect_balances([k \in m.keys |-> do_load(k)])

\* Every transaction adds one entry before and one after its execution.
CollectBalances(after) ==
  Append(balances, [pre |-> collect_pre_balances, post |-> collect_balances(after)])

ConcludeKeepingEarlier(result) ==
  LET aborted == config.all_or_nothing /\ ~was_processed(result)
      loaded  == Insert(m.keys, result.changes)
  IN  /\ loaded_accounts' = loaded
      /\ results' = Append(results, result)
      /\ balances' = IF aborted THEN <<>>
                     ELSE CollectBalances(loaded)
      /\ \/ pc' = "done" /\ m' = NoMessage
         \/ ~aborted /\ Len(results) + 1 < MaxBatch /\ pc' = "load" /\ m' \in Messages
      /\ UNCHANGED <<bank, config>>

\* The end of a transaction: its result is recorded and its changes are
\* inserted in the account loader.  In an all-or-nothing batch a transaction
\* that is not processed cancels the others, earlier and later.
Conclude(result) ==
  LET aborted == config.all_or_nothing /\ ~was_processed(result)
      loaded  == Insert(m.keys, result.changes)
      cancel(r) == [r EXCEPT !.status = "CommitCancelled", !.changes = NoChanges]
  IN  /\ loaded_accounts' = loaded
      /\ results' = Append(IF aborted THEN [i \in DOMAIN results |-> cancel(results[i])]
                           ELSE results, result)
      /\ balances' = IF aborted THEN <<>>
                     ELSE CollectBalances(loaded)
      /\ \/ pc' = "done" /\ m' = NoMessage
         \/ ~aborted /\ Len(results) + 1 < MaxBatch /\ pc' = "load" /\ m' \in Messages
      /\ UNCHANGED <<bank, config>>

-----------------------------------------------------------------------------
\* The batch

Init ==
  /\ slot = 1
  /\ db = Genesis
  /\ loaded_accounts = NoChanges
  /\ pc = "idle"
  /\ config = NoConfig
  /\ m = NoMessage /\ results = <<>> /\ balances = <<>>
  /\ tx = Start(NoChanges) /\ pre = NoChanges /\ next_ix = 0 /\ rollback = NoChanges
  /\ used = {}
  /\ fees = 0

BeginBatch ==
  /\ pc = "idle"
  /\ pc' = "load"
  /\ m' \in Messages
  /\ config' \in Config
  /\ UNCHANGED <<bank, loaded_accounts, results, balances, execution>>

NotLoaded ==
  /\ pc = "load"
  /\ ~validate_transaction_nonce_and_fee_payer(m)
  /\ Conclude(Result(m, "Err", NoChanges))
  /\ UNCHANGED execution

FeesOnly ==
  /\ pc = "load"
  /\ validate_transaction_nonce_and_fee_payer(m)
  /\ ~CanLoad(m)
  /\ Conclude(IF config.drop_on_failure THEN Result(m, "Err", NoChanges)
              ELSE Result(m, "FeesOnly", RollbackAccounts(m)))
  /\ UNCHANGED execution

Loaded ==
  /\ pc = "load"
  /\ validate_transaction_nonce_and_fee_payer(m)
  /\ CanLoad(m)
  /\ LET accounts == [k \in m.keys |-> IF k = m.fee_payer
                                       THEN Charged(loaded_fee_payer(m), m.fee)
                                       ELSE load_transaction_account(m, k)]
     IN  tx' = Start(accounts) /\ pre' = accounts
  /\ rollback' = RollbackAccounts(m)
  /\ next_ix' = 1
  /\ pc' = "execute"
  /\ UNCHANGED <<bank, loaded_accounts, config, m, results, balances>>

\* The program cache has no room for the programs of the transaction: the
\* whole batch is given up.
HitMaxLimit ==
  /\ pc = "load"
  /\ validate_transaction_nonce_and_fee_payer(m)
  /\ CanLoad(m)
  /\ results' = <<>>
  /\ balances' = <<>>
  /\ pc' = "done"
  /\ m' = NoMessage
  /\ UNCHANGED <<bank, loaded_accounts, config, execution>>

ExecuteInstruction ==
  /\ pc = "execute"
  /\ tx.ok
  /\ next_ix <= Len(m.instructions)
  /\ tx' = process_instruction(tx, m.instructions[next_ix])
  /\ next_ix' = next_ix + 1
  /\ UNCHANGED <<bank, loaded_accounts, pc, config, m, results, balances, pre, rollback>>

\* The rest of execute_loaded_transaction, and what becomes of its outcome.
FinishTransaction ==
  /\ pc = "execute"
  /\ ~tx.ok \/ next_ix > Len(m.instructions)
  /\ LET success == /\ tx.ok
                    /\ verify_changes(m, pre, tx.accounts)
                    /\ lamports_sum(pre) = lamports_sum(tx.accounts)
     IN  Conclude(
           IF success
           THEN Result(m, "Ok", update_accounts_for_successful_tx(m, tx.accounts))
           ELSE IF config.drop_on_failure THEN Result(m, "Err", NoChanges)
           ELSE Result(m, "Failed", rollback))
  /\ tx' = Start(NoChanges) /\ pre' = NoChanges /\ next_ix' = 0 /\ rollback' = NoChanges

\* What the bank stores: the changes of the processed transactions, in order.
Writers(k) == {i \in DOMAIN results : k \in DOMAIN results[i].changes}
Committed ==
  [k \in Keys |->
     LET account == IF Writers(k) = {} THEN db[k] ELSE results[Max(Writers(k))].changes[k]
     IN  IF account.lamports = 0 THEN DefaultAccount ELSE account]

Processed == {i \in DOMAIN results : was_processed(results[i])}
FeesOf(S) == LET Fee(i) == results[i].fee IN MapThenSumSet(Fee, S)
NonceProcessed == {i \in Processed : results[i].nonce[1] # NoKey}

EndBatch ==
  /\ pc = "done"
  /\ pc' = "idle"
  /\ m' = NoMessage /\ results' = <<>> /\ balances' = <<>>
  /\ loaded_accounts' = NoChanges
  /\ config' = NoConfig
  /\ UNCHANGED <<slot, execution>>

Commit ==
  /\ EndBatch
  /\ db' = Committed
  /\ used' = used \cup {results[i].nonce : i \in NonceProcessed}
  /\ fees' = fees + FeesOf(Processed)

\* A simulation, or a leader that could not record the batch.
Abandon ==
  /\ EndBatch
  /\ UNCHANGED <<db, used, fees>>

NewBlock ==
  /\ pc = "idle"
  /\ slot < MaxSlot
  /\ slot' = slot + 1
  /\ UNCHANGED <<db, used, fees, loaded_accounts, pc, config, m, results, balances, execution>>

Next ==
  \/ BeginBatch \/ NotLoaded \/ FeesOnly \/ Loaded \/ HitMaxLimit
  \/ ExecuteInstruction \/ FinishTransaction \/ Commit \/ Abandon \/ NewBlock

Spec == Init /\ [][Next]_vars

-----------------------------------------------------------------------------
\* Properties

\* The type invariant.
TypeOK ==
  /\ slot \in Nat
  /\ db \in [Keys -> Account]
  /\ DOMAIN loaded_accounts \subseteq Keys
  /\ \A k \in DOMAIN loaded_accounts : loaded_accounts[k] \in Account
  /\ pc \in {"idle", "load", "execute", "done"}
  /\ config \in Config
  /\ m \in Messages \cup {NoMessage}
  /\ pc \in {"load", "execute"} => m \in Messages
  /\ \A i \in DOMAIN results :
       /\ results[i].status \in {"Ok", "Failed", "FeesOnly", "Err", "CommitCancelled"}
       /\ DOMAIN results[i].changes \subseteq Keys
       /\ \A k \in DOMAIN results[i].changes : results[i].changes[k] \in Account
  /\ pc = "execute" => tx.accounts \in [m.keys -> Account]
  /\ next_ix \in Nat
  /\ used \subseteq Keys \X Nat

\* A durable nonce authorizes one committed transaction: of the processed
\* transactions of all batches, no two were signed with the same nonce of the
\* same account, whether they succeeded, failed or only paid their fees, and
\* whatever happened to the account in between (transaction_processor.rs,
\* validate_transaction_nonce and RollbackAccounts::new).
NonceUsedOnce ==
  \A i \in NonceProcessed :
    /\ results[i].nonce \notin used
    /\ \A j \in NonceProcessed : i # j => results[i].nonce # results[j].nonce

\* An initialized nonce account of the system program stays rent exempt as
\* long as it is initialized: neither a fee nor a withdrawal takes what keeps
\* it alive (validate_fee_payer, withdraw_nonce_account).
NonceStaysFunded ==
  \A k \in Keys :
    LET account == do_load(k)
    IN  account.owner = System /\ Initialized(account)
          => account.lamports >= MinimumBalance[account.size]

\* The account loader shows each transaction what committing the earlier ones
\* would show it: when the batch is over, what it holds is what the bank
\* stores, unless the batch was given up (account_loader.rs,
\* update_accounts_for_successful_tx and update_accounts_for_failed_tx).
CommitMatchesLoader ==
  pc = "done" /\ balances # <<>> => \A k \in Keys : do_load(k) = Committed[k]

\* Lamports are neither made nor lost by committing a batch: the balances and
\* the fees of the committed transactions add up to what there was at first
\* (execute_loaded_transaction, UnbalancedTransaction).
LamportsConserved ==
  pc \in {"idle", "done"} =>
    lamports_sum(Committed) + fees + FeesOf(Processed) = lamports_sum(Genesis)

\* No batch leaves an account rent paying that was not, or makes a rent paying
\* one larger or richer, the fee included (rent_calculator.rs,
\* transition_allowed; the incinerator is exempt).
NoNewRentPaying ==
  [][\A k \in Keys \ {Incinerator} :
       get_account_rent_state(db'[k]) = "RentPaying" =>
         /\ get_account_rent_state(db[k]) = "RentPaying"
         /\ db'[k].size = db[k].size
         /\ db'[k].lamports <= db[k].lamports]_db

\* A transaction that fails or only pays its fees changes two accounts: its fee
\* payer loses the fee and its nonce account gets the next nonce
\* (rollback_accounts.rs).
FailedOnlyPays ==
  [][Len(results') = Len(results) + 1 /\ results'[Len(results')].status \in {"Failed", "FeesOnly"}
     => \A k \in Keys :
          \E e \in BOOLEAN :
            /\ e => k = m.fee_payer /\ m.nonce # NoKey
            /\ do_load(k)' = IF do_load(k)'.lamports = 0 THEN DefaultAccount ELSE
                 [do_load(k) EXCEPT !.lamports = IF k = m.fee_payer THEN @ - m.fee ELSE @,
                                    !.durable_nonce = IF k = m.nonce THEN slot ELSE @,
                                    !.rent_exempt_epoch = @ \/ e]
            /\ do_load(k)'.lamports = do_load(k).lamports - (IF k = m.fee_payer THEN m.fee ELSE 0)
    ]_results

\* The flags of TransactionProcessingConfig (transaction_processor.rs): an
\* all-or-nothing batch is committed whole or not at all, and with
\* drop_on_failure only successful transactions are committed.
BatchFlags ==
  pc = "done" =>
    /\ config.all_or_nothing => Processed = DOMAIN results \/ Committed = db
    /\ config.drop_on_failure => \A i \in Processed : results[i].status = "Ok"

\* The recorded balances tell the whole story: for every transaction, those
\* before and after differ by the fee of a processed transaction and by nothing
\* otherwise, and each balance before is the one the last transaction with that
\* account left (transaction_balances.rs).
BalancesExplainFees ==
  pc = "done" =>
    \A i \in DOMAIN balances :
      LET Pre(k) == balances[i].pre[k]
          Post(k) == balances[i].post[k]
          keys == DOMAIN balances[i].pre
          earlier(k) == {j \in 1..(i - 1) : k \in DOMAIN balances[j].pre}
      IN  /\ MapThenSumSet(Pre, keys) - MapThenSumSet(Post, keys)
               = IF i \in Processed THEN results[i].fee ELSE 0
          /\ \A k \in keys :
               Pre(k) = IF earlier(k) = {} THEN db[k].lamports
                        ELSE balances[Max(earlier(k))].post[k]

\* What a batch commits, what the loader showed its transactions and the
\* balances it reports tell the same story, and the flags are respected
\* (transaction_processor.rs, load_and_execute_sanitized_transactions).
BatchIsExplained == CommitMatchesLoader /\ BatchFlags /\ BalancesExplainFees
=============================================================================
