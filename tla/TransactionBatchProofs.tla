----------------------- MODULE TransactionBatchProofs -----------------------
(***************************************************************************)
(* A durable nonce authorizes one committed transaction, and stays funded: *)
(* NonceUsedOnce and NonceStaysFunded of TransactionBatch, for any         *)
(* messages, any accounts, any number of transactions in a batch, of       *)
(* batches and of blocks.                                                  *)
(*                                                                         *)
(* First the inductive invariant IInv, and what the account loader, the    *)
(* results, the validation and the instructions do to it; then one lemma   *)
(* per action shows that it preserves the invariant.                       *)
(*                                                                         *)
(* The idea: the nonce that an account of the system program holds is      *)
(* never older than the ones it was used with, wherever it is read from    *)
(* (the database, the account loader, the results to be committed or the   *)
(* transaction in execution), and using it moves it to that of the block.  *)
(***************************************************************************)
EXTENDS TransactionBatch, SystemProgramProofs

\* The nonces that are spent if the batch is committed.
Spent == used \cup {results[i].nonce : i \in NonceProcessed}

\* An account as the transactions see it.
Shown(account) == IF account.lamports = 0 THEN DefaultAccount ELSE account

\* A nonce held at k is later than the ones in S that were held there, and not
\* later than block s.
Good(k, account, S, s) ==
  /\ Sound(account)
  /\ SystemNonce(account) =>
       /\ account.durable_nonce <= s
       /\ \A h \in Nat : <<k, h>> \in S => h < account.durable_nonce

Changes == UNION {[S -> Account] : S \in SUBSET Keys}

ResultRecord ==
  [status : {"Ok", "Failed", "FeesOnly", "Err", "CommitCancelled"}, changes : Changes,
   nonce : (Keys \cup {NoKey}) \X Nat, fee : Nat]

-----------------------------------------------------------------------------
\* Messages

\* The types of the fields of a sanitized message.
LEMMA MessageFacts ==
  ASSUME NEW msg \in Messages
  PROVE  /\ msg.fee_payer \in msg.keys /\ msg.fee \in Nat
         /\ msg.keys \subseteq Keys /\ msg.writable \subseteq msg.keys
         /\ msg.nonce \in msg.writable \cup {NoKey} /\ msg.blockhash \in Nat
         /\ Len(msg.instructions) \in Nat
         /\ DOMAIN msg.instructions = 1 .. Len(msg.instructions)
<1>1. /\ msg \in Message /\ msg.fee_payer \in msg.writable
      /\ msg.writable \subseteq msg.keys
      /\ msg.nonce # NoKey => msg.nonce \in msg.writable
  BY MessagesAssumption
<1> QED BY <1>1 DEF Message

\* The types of the fields of an instruction, whose accounts are the message's.
LEMMA InstructionFacts ==
  ASSUME NEW msg \in Messages, NEW i \in 1 .. Len(msg.instructions)
  PROVE  LET ix == msg.instructions[i]
         IN  /\ ix.program = System => ix.op \in Ops
             /\ ix.a \in msg.keys /\ ix.b \in msg.keys
             /\ ix.lamports \in Nat /\ ix.size \in Sizes /\ ix.owner \in Keys
             /\ ix.authority \in Keys \cup {NoKey}
             /\ ix.tag \in Tag /\ ix.durable_nonce \in Nat
<1>1. msg.instructions \in Seq(MessageInstruction)
  BY MessagesAssumption DEF Message
<1>2. msg.instructions[i] \in MessageInstruction /\ i \in DOMAIN msg.instructions
  BY <1>1
<1>3. /\ {msg.instructions[i].program, msg.instructions[i].a, msg.instructions[i].b}
           \subseteq msg.keys
      /\ msg.instructions[i].program = System => msg.instructions[i].op \in Ops
  BY <1>2, MessagesAssumption
<1> QED BY <1>2, <1>3 DEF MessageInstruction

\* A nonce transaction begins by advancing its nonce.
LEMMA NonceMessageFacts ==
  ASSUME NEW msg \in Messages, msg.nonce # NoKey
  PROVE  /\ 1 \in 1 .. Len(msg.instructions)
         /\ msg.instructions[1].program = System
         /\ msg.instructions[1].op = "AdvanceNonceAccount"
         /\ msg.instructions[1].a = msg.nonce
<1>1. /\ Len(msg.instructions) > 0
      /\ msg.instructions[1].program = System
      /\ msg.instructions[1].op = "AdvanceNonceAccount"
      /\ msg.instructions[1].a = msg.nonce
  BY MessagesAssumption
<1> QED BY <1>1, MessageFacts

-----------------------------------------------------------------------------
\* Accounts

\* The account that is read where there is none is an account and no nonce.
LEMMA DefaultAccountType ==
  /\ DefaultAccount \in Account
  /\ ~SystemNonce(DefaultAccount)
  /\ Sound(DefaultAccount)
<1>1. System \in Keys /\ 0 \in Sizes
  BY RulesAssumption
<1> QED BY <1>1 DEF DefaultAccount, Account, Tag, SystemNonce, Sound, Initialized

\* An account without lamports is shown as the default one, which is good.
LEMMA ShownAccount ==
  ASSUME NEW account \in Account, NEW k, NEW S, NEW s, Good(k, account, S, s)
  PROVE  Shown(account) \in Account /\ Good(k, Shown(account), S, s)
BY DefaultAccountType DEF Shown, Good

\* Showing an account twice changes nothing.
LEMMA ShownTwice ==
  ASSUME NEW account
  PROVE  Shown(Shown(account)) = Shown(account)
BY DEF Shown, DefaultAccount

\* Fewer nonces spent, a later block.
LEMMA GoodMonotone ==
  ASSUME NEW k, NEW account \in Account, NEW S, NEW T, NEW s \in Nat, NEW t \in Nat,
         Good(k, account, S, s), T \subseteq S, s <= t
  PROVE  Good(k, account, T, t)
<1>1. account.durable_nonce \in Nat
  BY AccountFields
<1> QED BY <1>1 DEF Good

\* One instruction keeps an account good.
LEMMA GoodEvolves ==
  ASSUME NEW k, NEW old \in Account, NEW new \in Account, NEW S, NEW s \in Nat,
         Good(k, old, S, s), Evolves(old, new, s),
         \A h \in Nat : <<k, h>> \in S => h < s
  PROVE  Good(k, new, S, s)
<1>1. old.durable_nonce \in Nat /\ new.durable_nonce \in Nat
  BY AccountFields
<1>2. Sound(new)
  BY DEF Good, Evolves
<1>3. ASSUME SystemNonce(new)
      PROVE  /\ new.durable_nonce <= s
             /\ \A h \in Nat : <<k, h>> \in S => h < new.durable_nonce
  BY <1>1, <1>3 DEF Good, Evolves
<1> QED BY <1>2, <1>3 DEF Good

-----------------------------------------------------------------------------
\* Instructions

\* A program other than the system program takes a permitted step: it cannot touch
\* a nonce of the system program.
LEMMA StepOtherProgram ==
  ASSUME NEW D, NEW x \in Execution(D), NEW c, NEW ix, NEW s, c.program # System,
         ix.a \in D, ix.b \in D, ix.lamports \in Nat, ix.owner \in Keys,
         ix.authority \in Keys \cup {NoKey}, ix.tag \in Tag, ix.durable_nonce \in Nat
  PROVE  Step(x, OtherProgram(c, x, ix), D, s)
<1>1. CASE ix.op = "Write"
  <2> DEFINE old == x.accounts[ix.a]
             new == [old EXCEPT !.tag = ix.tag, !.authority = ix.authority,
                                !.durable_nonce = ix.durable_nonce]
             p == can_data_be_changed(c, x, ix.a) /\ old.size > 0
  <2>1. ASSUME p
        PROVE  new \in Account /\ Evolves(old, new, s)
    <3>1. old \in Account
      BY DEF Execution
    <3>2. new \in Account /\ new.owner = old.owner /\ new.size = old.size
      BY <3>1 DEF Account
    <3>3. old.owner # System
      BY <2>1 DEF can_data_be_changed, is_owned_by_current_program
    <3>4. old.size # 0
      BY <2>1, <3>1, AccountFields
    <3>5. ~SystemNonce(new) /\ ~Advanced(old, s) /\ Sound(new)
      BY <3>2, <3>3, <3>4 DEF SystemNonce, Advanced, Sound
    <3> QED BY <3>2, <3>5 DEF Evolves
  <2>2. OtherProgram(c, x, ix) = Store(Require(x, p), ix.a, new)
    BY <1>1 DEF OtherProgram
  <2> HIDE DEF new, p
  <2>3. Step(x, Store(Require(x, p), ix.a, new), D, s)
    BY <2>1, StepStore
  <2> QED BY <2>2, <2>3
<1>2. CASE ix.op = "GiveAway"
  BY <1>2, StepSetOwner DEF OtherProgram
<1>3. CASE ix.op = "Move"
  BY <1>3, StepMove DEF OtherProgram
<1>4. CASE ix.op = "Mint"
  BY <1>4, StepAddLamports DEF OtherProgram
<1>5. CASE ix.op \notin {"Write", "GiveAway", "Move", "Mint"}
  BY <1>5, StepRequire DEF OtherProgram
<1> QED BY <1>1, <1>2, <1>3, <1>4, <1>5

\* Every instruction takes a permitted step.
LEMMA StepProcessInstruction ==
  ASSUME m \in Messages, NEW i \in 1 .. Len(m.instructions), slot \in Nat,
         NEW x \in Execution(m.keys)
  PROVE  LET y == process_instruction(x, m.instructions[i])
         IN  /\ Step(x, y, m.keys, slot)
             /\ y.ok /\ i = 1 /\ m.nonce # NoKey => Advanced(y.accounts[m.nonce], slot)
<1> DEFINE ix == m.instructions[i]
           c == [program |-> ix.program, signers |-> ix.signers, writable |-> m.writable]
           y == IF ix.program = System THEN Entrypoint(c, x, ix, slot) ELSE OtherProgram(c, x, ix)
           z == Require(y, y.lamports_delta = 0)
<1>1. /\ ix.program = System => ix.op \in Ops
      /\ ix.a \in m.keys /\ ix.b \in m.keys
      /\ ix.lamports \in Nat /\ ix.size \in Sizes /\ ix.owner \in Keys
      /\ ix.authority \in Keys \cup {NoKey}
      /\ ix.tag \in Tag /\ ix.durable_nonce \in Nat
  BY InstructionFacts
<1>2. process_instruction(x, m.instructions[i]) = z
  BY DEF process_instruction
<1>3. c.program = ix.program
  OBVIOUS
<1>4. ASSUME i = 1, m.nonce # NoKey
      PROVE  /\ ix.program = System /\ ix.op = "AdvanceNonceAccount"
             /\ ix.a = m.nonce
  BY <1>4, NonceMessageFacts
<1> HIDE DEF ix, c
<1>5. Step(x, y, m.keys, slot)
  <2>1. CASE ix.program = System
    BY <1>1, <2>1, StepEntrypoint
  <2>2. CASE ix.program # System
    BY <1>1, <1>3, <2>2, StepOtherProgram
  <2> QED BY <2>1, <2>2
<1>6. ASSUME y.ok, i = 1, m.nonce # NoKey
      PROVE  Advanced(y.accounts[m.nonce], slot)
  <2>1. y = advance_nonce_account(c, x, m.nonce, slot)
    BY <1>4, <1>6 DEF Entrypoint
  <2>2. c.program = System /\ m.nonce \in m.keys
    BY <1>1, <1>3, <1>4, <1>6
  <2> HIDE DEF y
  <2> QED BY <1>6, <2>1, <2>2, AdvanceAdvances
<1>7. y \in Execution(m.keys)
  BY <1>5 DEF Step
<1> HIDE DEF y
<1>8. /\ Step(y, z, m.keys, slot)
      /\ z.ok => y.ok
      /\ z.accounts = y.accounts
  BY <1>7, RequireType, StepRequire
<1> HIDE DEF z
<1>9. Step(x, z, m.keys, slot)
  BY <1>5, <1>8, StepTransitive
<1> QED BY <1>2, <1>6, <1>8, <1>9

-----------------------------------------------------------------------------
\* The inductive invariant

TypeInv ==
  /\ slot \in Nat
  /\ db \in [Keys -> Account]
  /\ loaded_accounts \in Changes
  /\ pc \in {"idle", "load", "execute", "done"}
  /\ config \in Config
  /\ m \in Messages \cup {NoMessage}
  /\ pc \in {"load", "execute"} => m \in Messages
  /\ results \in Seq(ResultRecord)
  /\ \A k \in Keys : Writers(k) # {} => Max(Writers(k)) \in Writers(k)
  /\ next_ix \in Nat
  /\ used \subseteq Keys \X Nat
  /\ pc = "execute" => tx \in Execution(m.keys) /\ rollback \in Changes

NonceInv ==
  /\ \A k \in Keys, h \in Nat : <<k, h>> \in Spent => h < slot
  /\ \A k \in Keys : Good(k, db[k], used, slot)
  /\ \A k \in Keys : Good(k, do_load(k), Spent, slot)
  /\ \A k \in Keys : Good(k, Committed[k], Spent, slot)
  /\ NonceUsedOnce

\* The nonce of the message at hand, if it has one.
OwnNonce(msg) == {p \in {<<msg.nonce, msg.blockhash>>} : msg.nonce # NoKey}

ExecutionInv ==
  pc = "execute" =>
    /\ next_ix > 0
    /\ tx.ok => /\ \A k \in m.keys : Good(k, tx.accounts[k], Spent, slot)
                /\ m.nonce # NoKey /\ next_ix > 1 => Advanced(tx.accounts[m.nonce], slot)
    /\ \A k \in DOMAIN rollback : Good(k, rollback[k], Spent \cup OwnNonce(m), slot)
    /\ m.nonce # NoKey =>
         /\ m.nonce \in DOMAIN rollback
         /\ <<m.nonce, m.blockhash>> \notin Spent
         /\ m.blockhash < slot

IInv == TypeInv /\ NonceInv /\ ExecutionInv

-----------------------------------------------------------------------------
\* Sets of changes, and the account loader

\* The changes of a result are accounts at keys.
LEMMA ChangesFacts ==
  ASSUME NEW f \in Changes
  PROVE  /\ DOMAIN f \subseteq Keys
         /\ \A k \in DOMAIN f : f[k] \in Account
         /\ f \in [DOMAIN f -> Account]
BY DEF Changes

\* A function from keys to accounts is a set of changes.
LEMMA ChangesIntro ==
  ASSUME NEW S, S \subseteq Keys, NEW f \in [S -> Account]
  PROVE  f \in Changes
BY DEF Changes

\* A result without changes.
LEMMA NoChangesType ==
  NoChanges \in Changes /\ DOMAIN NoChanges = {}
<1>1. NoChanges \in [{} -> Account]
  BY DEF NoChanges
<1> QED BY <1>1, ChangesIntro

\* do_load returns an account.
LEMMA DoLoadType ==
  ASSUME TypeInv, NEW k \in Keys
  PROVE  /\ do_load(k) \in Account
         /\ do_load(k) = Shown(IF k \in DOMAIN loaded_accounts THEN loaded_accounts[k] ELSE db[k])
         /\ Shown(do_load(k)) = do_load(k)
<1> DEFINE account == IF k \in DOMAIN loaded_accounts THEN loaded_accounts[k] ELSE db[k]
<1>1. account \in Account
  BY ChangesFacts DEF TypeInv
<1>2. do_load(k) = Shown(account)
  BY DEF do_load, Shown
<1> QED BY <1>1, <1>2, DefaultAccountType, ShownTwice DEF Shown

\* Inserting changes keeps the loader's accounts in their type.
LEMMA InsertType ==
  ASSUME TypeInv, NEW keys \in SUBSET Keys, NEW changes \in Changes
  PROVE  Insert(keys, changes) \in Changes
<1> DEFINE S == DOMAIN loaded_accounts \cup keys \cup DOMAIN changes
<1>1. loaded_accounts \in Changes
  BY DEF TypeInv
<1>2. S \subseteq Keys
  BY <1>1, ChangesFacts
<1>3. ASSUME NEW k \in S
      PROVE  (IF k \in DOMAIN changes THEN changes[k]
              ELSE IF k \in DOMAIN loaded_accounts THEN loaded_accounts[k]
              ELSE do_load(k)) \in Account
  BY <1>1, <1>2, ChangesFacts, DoLoadType
<1>4. Insert(keys, changes) \in [S -> Account]
  BY <1>3 DEF Insert
<1> QED BY <1>2, <1>4, ChangesIntro

\* do_load shows the changes that were inserted and the old accounts elsewhere.
LEMMA DoLoadAfterInsert ==
  ASSUME TypeInv, NEW keys \in SUBSET Keys, NEW changes \in Changes,
         loaded_accounts' = Insert(keys, changes), db' = db, NEW k \in Keys
  PROVE  do_load(k)' = IF k \in DOMAIN changes THEN Shown(changes[k]) ELSE do_load(k)
<1> DEFINE S == DOMAIN loaded_accounts \cup keys \cup DOMAIN changes
<1>1. do_load(k)' = Shown(IF k \in DOMAIN loaded_accounts' THEN loaded_accounts'[k] ELSE db[k])
  BY DEF do_load, Shown
<1>2. /\ DOMAIN loaded_accounts' = S
      /\ k \in S => loaded_accounts'[k] =
           IF k \in DOMAIN changes THEN changes[k]
           ELSE IF k \in DOMAIN loaded_accounts THEN loaded_accounts[k] ELSE do_load(k)
  BY DEF Insert
<1>3. /\ do_load(k) = Shown(IF k \in DOMAIN loaded_accounts THEN loaded_accounts[k] ELSE db[k])
      /\ Shown(do_load(k)) = do_load(k)
  BY DoLoadType
<1> HIDE DEF S
<1>4. CASE k \in DOMAIN changes
  BY <1>1, <1>2, <1>4 DEF S
<1>5. CASE k \notin DOMAIN changes /\ k \in DOMAIN loaded_accounts
  BY <1>1, <1>2, <1>3, <1>5 DEF S
<1>6. CASE k \notin DOMAIN changes /\ k \notin DOMAIN loaded_accounts
  BY <1>1, <1>2, <1>3, <1>6 DEF S
<1> QED BY <1>4, <1>5, <1>6

-----------------------------------------------------------------------------
\* The results and what committing them stores

\* The greatest element of a set of numbers up to n that contains n is n.
LEMMA MaxIsLast ==
  ASSUME NEW S, NEW n \in Nat, S \subseteq 1 .. n, n \in S
  PROVE  Max(S) = n
<1>1. \A x \in S : n >= x
  OBVIOUS
<1>2. \A x \in S : (\A y \in S : x >= y) => x = n
  OBVIOUS
<1> QED BY <1>1, <1>2 DEF Max

\* Committing the results leaves accounts.
LEMMA CommittedType ==
  ASSUME TypeInv, NEW k \in Keys
  PROVE  /\ Committed[k] \in Account
         /\ Committed[k] = Shown(IF Writers(k) = {} THEN db[k]
                                 ELSE results[Max(Writers(k))].changes[k])
<1> DEFINE i == Max(Writers(k))
           account == IF Writers(k) = {} THEN db[k] ELSE results[i].changes[k]
<1>1. db[k] \in Account
  BY DEF TypeInv
<1>2. ASSUME Writers(k) # {}
      PROVE  results[i].changes[k] \in Account
  <2>1. i \in DOMAIN results /\ k \in DOMAIN results[i].changes
    BY <1>2 DEF TypeInv, Writers
  <2>2. results[i] \in ResultRecord
    BY <2>1 DEF TypeInv
  <2>3. results[i].changes \in Changes
    BY <2>2 DEF ResultRecord
  <2> QED BY <2>1, <2>3, ChangesFacts
<1>3. account \in Account
  BY <1>1, <1>2
<1>4. Committed[k] = Shown(account)
  BY DEF Committed, Shown
<1> QED BY <1>3, <1>4, DefaultAccountType DEF Shown

\* A new result is the last one; the earlier ones stay.
LEMMA AppendResult ==
  ASSUME TypeInv, NEW r \in ResultRecord, results' = Append(results, r)
  PROVE  /\ results' \in Seq(ResultRecord)
         /\ Len(results) \in Nat
         /\ DOMAIN results = 1 .. Len(results)
         /\ DOMAIN results' = 1 .. (Len(results) + 1)
         /\ \A i \in DOMAIN results : results'[i] = results[i]
         /\ results'[Len(results) + 1] = r
<1>1. results \in Seq(ResultRecord)
  BY DEF TypeInv
<1> QED BY <1>1

\* The results that write an account, after a new result.
LEMMA WritersAppend ==
  ASSUME TypeInv, NEW r \in ResultRecord, results' = Append(results, r), NEW k \in Keys
  PROVE  /\ k \in DOMAIN r.changes =>
              Writers(k)' # {} /\ Max(Writers(k)') = Len(results) + 1 /\ Len(results) + 1 \in Writers(k)'
         /\ k \notin DOMAIN r.changes => Writers(k)' = Writers(k)
<1> DEFINE n == Len(results) + 1
<1>1. /\ n \in Nat /\ DOMAIN results = 1 .. (n - 1) /\ DOMAIN results' = 1 .. n
      /\ \A i \in DOMAIN results : results'[i] = results[i]
      /\ results'[n] = r
  BY AppendResult
<1>2. Writers(k)' = {i \in DOMAIN results' : k \in DOMAIN results'[i].changes}
  BY DEF Writers
<1> HIDE DEF n
<1>3. CASE k \in DOMAIN r.changes
  <2>1. n \in Writers(k)' /\ Writers(k)' \subseteq 1 .. n
    BY <1>1, <1>2, <1>3
  <2>2. Max(Writers(k)') = n
    BY <1>1, <2>1, MaxIsLast
  <2> QED BY <1>3, <2>1, <2>2 DEF n
<1>4. CASE k \notin DOMAIN r.changes
  <2>1. n \notin Writers(k)'
    BY <1>1, <1>2, <1>4
  <2>2. Writers(k)' = {i \in DOMAIN results : k \in DOMAIN results[i].changes}
    BY <1>1, <1>2, <2>1
  <2> QED BY <1>4, <2>2 DEF Writers
<1> QED BY <1>3, <1>4

\* What is committed after a new result: its changes if it is processed.
LEMMA CommittedAppend ==
  ASSUME TypeInv, NEW r \in ResultRecord, results' = Append(results, r), db' = db, NEW k \in Keys
  PROVE  /\ Committed[k]' = IF k \in DOMAIN r.changes THEN Shown(r.changes[k]) ELSE Committed[k]
         /\ Writers(k)' # {} => Max(Writers(k)') \in Writers(k)'
<1>1. Committed[k]' = Shown(IF Writers(k)' = {} THEN db'[k]
                            ELSE results'[Max(Writers(k)')].changes[k])
  BY DEF Committed, Shown
<1>2. CASE k \in DOMAIN r.changes
  <2>1. /\ Writers(k)' # {} /\ Max(Writers(k)') = Len(results) + 1
        /\ Len(results) + 1 \in Writers(k)'
    BY <1>2, WritersAppend
  <2>2. results'[Len(results) + 1] = r
    BY AppendResult
  <2> QED BY <1>1, <1>2, <2>1, <2>2
<1>3. CASE k \notin DOMAIN r.changes
  <2>1. Writers(k)' = Writers(k)
    BY <1>3, WritersAppend
  <2>2. Writers(k) # {} => Max(Writers(k)) \in Writers(k)
    BY DEF TypeInv
  <2>3. Writers(k) # {} => results'[Max(Writers(k))] = results[Max(Writers(k))]
    BY <2>2, AppendResult DEF Writers
  <2>4. Committed[k] = Shown(IF Writers(k) = {} THEN db[k]
                             ELSE results[Max(Writers(k))].changes[k])
    BY CommittedType
  <2> QED BY <1>1, <1>3, <2>1, <2>2, <2>3, <2>4
<1> QED BY <1>2, <1>3

\* The nonce that a result spends.
NonceOf(r) == {p \in {r.nonce} : was_processed(r) /\ r.nonce[1] # NoKey}

\* The spent nonces after a new result: its own is added if it is processed.
LEMMA SpentAppend ==
  ASSUME TypeInv, NEW r \in ResultRecord, results' = Append(results, r), used' = used
  PROVE  /\ Spent' = Spent \cup NonceOf(r)
         /\ NonceUsedOnce /\ NonceOf(r) \cap Spent = {} => NonceUsedOnce'
<1> DEFINE n == Len(results) + 1
<1>1. /\ n \in Nat /\ DOMAIN results = 1 .. (n - 1) /\ DOMAIN results' = 1 .. n
      /\ \A i \in DOMAIN results : results'[i] = results[i]
      /\ results'[n] = r
  BY AppendResult
<1> HIDE DEF n
<1>2. /\ NonceProcessed = {i \in DOMAIN results : was_processed(results[i])
                                                  /\ results[i].nonce[1] # NoKey}
      /\ NonceProcessed' = {i \in DOMAIN results' : was_processed(results'[i])
                                                    /\ results'[i].nonce[1] # NoKey}
  BY DEF NonceProcessed, Processed, was_processed
<1>3. NonceProcessed \subseteq DOMAIN results /\ n \notin DOMAIN results
  BY <1>1, <1>2
<1>4. DOMAIN results' = DOMAIN results \cup {n}
  BY <1>1
<1>5. /\ NonceProcessed' = NonceProcessed \cup {i \in {n} : was_processed(r) /\ r.nonce[1] # NoKey}
      /\ \A i \in NonceProcessed : results'[i] = results[i]
  BY <1>1, <1>2, <1>3, <1>4
<1>6. Spent' = used \cup {results'[i].nonce : i \in NonceProcessed'}
  BY DEF Spent
<1>7. Spent' = Spent \cup NonceOf(r)
  BY <1>1, <1>5, <1>6, ZenonT(60) DEF Spent, NonceOf
<1>8. ASSUME NonceUsedOnce, NonceOf(r) \cap Spent = {}
      PROVE  NonceUsedOnce'
  <2>1. SUFFICES ASSUME NEW i \in NonceProcessed'
                 PROVE  /\ results'[i].nonce \notin used
                        /\ \A j \in NonceProcessed' : i # j => results'[i].nonce # results'[j].nonce
    BY DEF NonceUsedOnce
  <2>2. \A j \in NonceProcessed : results[j].nonce \in Spent
    BY DEF Spent
  <2>3. used \subseteq Spent
    BY DEF Spent
  <2>4. CASE i = n
    <3>1. results'[i].nonce \in NonceOf(r)
      BY <1>1, <1>3, <1>5, <2>1, <2>4 DEF NonceOf
    <3> QED BY <1>5, <1>8, <2>2, <2>3, <2>4, <3>1
  <2>5. CASE i # n
    <3>1. i \in NonceProcessed /\ results'[i] = results[i]
      BY <1>5, <2>1, <2>5
    <3>2. ASSUME NEW j \in NonceProcessed', i # j
          PROVE  results'[i].nonce # results'[j].nonce
      <4>1. CASE j = n
        <5>1. results'[j].nonce \in NonceOf(r)
          BY <1>1, <1>3, <1>5, <3>2, <4>1 DEF NonceOf
        <5> QED BY <1>8, <2>2, <3>1, <5>1
      <4>2. CASE j # n
        <5>1. j \in NonceProcessed /\ results'[j] = results[j]
          BY <1>5, <3>2, <4>2
        <5> QED BY <1>8, <3>1, <3>2, <5>1 DEF NonceUsedOnce
      <4> QED BY <4>1, <4>2
    <3> QED BY <1>8, <3>1, <3>2 DEF NonceUsedOnce
  <2> QED BY <2>4, <2>5
<1> QED BY <1>7, <1>8

\* Cancelled results store and spend nothing.
LEMMA CancelledResults ==
  ASSUME results' \in Seq(ResultRecord),
         \A i \in DOMAIN results' : ~was_processed(results'[i]) /\ DOMAIN results'[i].changes = {}
  PROVE  /\ Spent' = used' /\ NonceUsedOnce'
         /\ \A k \in Keys : Committed[k]' = Shown(db'[k]) /\ Writers(k)' = {}
<1>1. NonceProcessed' = {}
  BY DEF NonceProcessed, Processed, was_processed
<1>2. Spent' = used' /\ NonceUsedOnce'
  BY <1>1 DEF Spent, NonceUsedOnce
<1>3. ASSUME NEW k \in Keys
      PROVE  Writers(k)' = {}
  BY DEF Writers
<1>4. ASSUME NEW k \in Keys
      PROVE  Committed[k]' = Shown(db'[k])
  BY <1>3 DEF Committed, Shown
<1> QED BY <1>2, <1>3, <1>4

\* Where a transaction that is not processed aborts the batch, all results are
\* cancelled.
LEMMA AbortedResults ==
  ASSUME TypeInv, NEW r \in ResultRecord, Conclude(r), config.all_or_nothing, ~was_processed(r),
         DOMAIN r.changes = {}
  PROVE  /\ results' \in Seq(ResultRecord) /\ results'[Len(results')] = r
         /\ \A i \in DOMAIN results' :
              ~was_processed(results'[i]) /\ DOMAIN results'[i].changes = {}
<1> DEFINE cancel(q) == [q EXCEPT !.status = "CommitCancelled", !.changes = NoChanges]
           cancelled == [i \in DOMAIN results |-> cancel(results[i])]
<1>1. results \in Seq(ResultRecord)
  BY DEF TypeInv
<1>2. results' = Append(cancelled, r)
  BY DEF Conclude
<1> HIDE DEF cancelled
<1>3. cancelled \in Seq(ResultRecord)
  <2>1. ASSUME NEW i \in DOMAIN results
        PROVE  cancel(results[i]) \in ResultRecord
    <3>1. results[i] \in ResultRecord
      BY <1>1
    <3> QED BY <3>1, NoChangesType DEF ResultRecord
  <2>2. Len(results) \in Nat /\ DOMAIN results = 1 .. Len(results)
    BY <1>1
  <2> HIDE DEF cancel
  <2>3. cancelled = [i \in 1 .. Len(results) |-> cancel(results[i])]
    BY <2>2 DEF cancelled
  <2> QED BY <2>1, <2>2, <2>3
<1>4. ASSUME NEW i \in DOMAIN results
      PROVE  ~was_processed(cancelled[i]) /\ DOMAIN cancelled[i].changes = {}
  <2>1. results[i] \in ResultRecord
    BY <1>1
  <2>2. cancelled[i].status = "CommitCancelled" /\ cancelled[i].changes = NoChanges
    BY <2>1 DEF ResultRecord, cancelled
  <2> QED BY <2>2, NoChangesType DEF was_processed
<1>5. DOMAIN cancelled = DOMAIN results
  BY DEF cancelled
<1>6. /\ results' \in Seq(ResultRecord) /\ results'[Len(results')] = r
      /\ \A i \in DOMAIN results' : results'[i] = r \/ (i \in DOMAIN results /\ results'[i] = cancelled[i])
  BY <1>2, <1>3, <1>5
<1> QED BY <1>4, <1>6

\* The end of a transaction preserves the invariant, if what it stores is good
\* once its own nonce is spent and its nonce was not spent before.
LEMMA ConcludeInv ==
  ASSUME TypeInv, NonceInv, m \in Messages, NEW r \in ResultRecord, Conclude(r),
         next_ix' \in Nat,
         ~was_processed(r) => DOMAIN r.changes = {},
         \A k \in DOMAIN r.changes : Good(k, r.changes[k], Spent \cup NonceOf(r), slot),
         \A p \in NonceOf(r) : p \notin Spent /\ p[2] < slot /\ p[1] \in DOMAIN r.changes
  PROVE  IInv'
<1> DEFINE aborted == config.all_or_nothing /\ ~was_processed(r)
           cancel(q) == [q EXCEPT !.status = "CommitCancelled", !.changes = NoChanges]
           cancelled == [i \in DOMAIN results |-> cancel(results[i])]
<1>1. /\ loaded_accounts' = Insert(m.keys, r.changes)
      /\ results' = Append(IF aborted THEN cancelled ELSE results, r)
      /\ \/ pc' = "done" /\ m' = NoMessage
         \/ pc' = "load" /\ m' \in Messages
      /\ slot' = slot /\ db' = db /\ used' = used /\ config' = config
  BY DEF Conclude, bank
<1> HIDE DEF aborted, cancelled
<1>2. r.changes \in Changes /\ m.keys \in SUBSET Keys /\ slot \in Nat /\ results \in Seq(ResultRecord)
  BY MessageFacts DEF ResultRecord, TypeInv
<1>3. loaded_accounts' \in Changes
  BY <1>1, <1>2, InsertType
<1>4. \A k \in Keys :
        do_load(k)' = IF k \in DOMAIN r.changes THEN Shown(r.changes[k]) ELSE do_load(k)
  BY <1>1, <1>2, DoLoadAfterInsert
<1>5. \A k \in DOMAIN r.changes : Good(k, Shown(r.changes[k]), Spent \cup NonceOf(r), slot)
  BY <1>2, ChangesFacts, ShownAccount
<1>6. ASSUME NEW k \in Keys \ DOMAIN r.changes, NEW account, Good(k, account, Spent, slot)
      PROVE  Good(k, account, Spent \cup NonceOf(r), slot)
  <2>1. \A h \in Nat : <<k, h>> \notin NonceOf(r)
    OBVIOUS
  <2> QED BY <1>6, <2>1 DEF Good
<1>7. \A k \in Keys : Good(k, do_load(k)', Spent \cup NonceOf(r), slot)
  BY <1>4, <1>5, <1>6 DEF NonceInv
<1>8. \A k \in Keys : do_load(k)' \in Account
  BY <1>2, <1>4, DoLoadType, ChangesFacts, DefaultAccountType DEF Shown
<1>9. /\ results' \in Seq(ResultRecord)
      /\ \A k \in Keys : Writers(k)' # {} => Max(Writers(k)') \in Writers(k)'
      /\ NonceInv'
  <2>1. CASE aborted
    <3>6. /\ results' \in Seq(ResultRecord)
          /\ \A i \in DOMAIN results' :
               ~was_processed(results'[i]) /\ DOMAIN results'[i].changes = {}
      BY <2>1, AbortedResults DEF aborted
    <3>7. /\ Spent' = used /\ NonceUsedOnce'
          /\ \A k \in Keys : Committed[k]' = Shown(db[k]) /\ Writers(k)' = {}
      BY <1>1, <3>6, CancelledResults
    <3>8. used \subseteq Spent
      BY DEF Spent
    <3>9. \A k \in Keys : Good(k, Shown(db[k]), used, slot)
      BY ShownAccount DEF NonceInv, TypeInv
    <3>10. \A k \in Keys : Good(k, do_load(k)', used, slot)
      BY <1>2, <1>7, <1>8, <3>8, GoodMonotone
    <3>11. \A k \in Keys, h \in Nat : <<k, h>> \in used => h < slot
      BY <3>8 DEF NonceInv
    <3>12. \A k \in Keys : Good(k, db'[k], used', slot')
      BY <1>1 DEF NonceInv
    <3> QED BY <1>1, <3>6, <3>7, <3>9, <3>10, <3>11, <3>12 DEF NonceInv
  <2>2. CASE ~aborted
    <3>1. results' = Append(results, r)
      BY <1>1, <2>2
    <3>2. /\ Spent' = Spent \cup NonceOf(r)
          /\ NonceUsedOnce'
      BY <1>1, <3>1, SpentAppend DEF NonceInv
    <3>3. \A k \in Keys :
            /\ Committed[k]' = IF k \in DOMAIN r.changes THEN Shown(r.changes[k]) ELSE Committed[k]
            /\ Writers(k)' # {} => Max(Writers(k)') \in Writers(k)'
      BY <1>1, <3>1, CommittedAppend
    <3>4. \A k \in Keys : Good(k, Committed[k]', Spent \cup NonceOf(r), slot)
      BY <1>5, <1>6, <3>3 DEF NonceInv
    <3>5. results' \in Seq(ResultRecord)
      BY <3>1, AppendResult
    <3>6. \A k \in Keys, h \in Nat : <<k, h>> \in Spent \cup NonceOf(r) => h < slot
      BY DEF NonceInv
    <3>7. \A k \in Keys : Good(k, db'[k], used', slot')
      BY <1>1 DEF NonceInv
    <3> QED BY <1>1, <1>7, <3>2, <3>3, <3>4, <3>5, <3>6, <3>7 DEF NonceInv
  <2> QED BY <2>1, <2>2
<1>10. TypeInv'
  BY <1>1, <1>3, <1>9 DEF TypeInv
<1>11. ExecutionInv'
  BY <1>1 DEF ExecutionInv
<1> QED BY <1>9, <1>10, <1>11 DEF IInv

-----------------------------------------------------------------------------
\* Validation, and what a failed transaction stores

\* The rent epoch plays no part.
LEMMA GoodRentEpoch ==
  ASSUME NEW account \in Account, NEW k, NEW S, NEW s, Good(k, account, S, s), NEW new,
         \E e \in BOOLEAN : new = [account EXCEPT !.rent_exempt_epoch = e]
  PROVE  /\ new \in Account /\ Good(k, new, S, s)
         /\ new.owner = account.owner /\ new.tag = account.tag
         /\ new.durable_nonce = account.durable_nonce
<1>1. /\ new \in Account /\ new.owner = account.owner /\ new.tag = account.tag
      /\ new.durable_nonce = account.durable_nonce /\ new.size = account.size
      /\ new.lamports = account.lamports
  BY DEF Account
<1>2. Good(k, new, S, s)
  BY <1>1 DEF Good, Sound, SystemNonce, Initialized, get_state
<1> QED BY <1>1, <1>2

\* Setting the rent epoch on loading keeps an account good.
LEMMA UpdatedRent ==
  ASSUME NEW account \in Account, NEW k, NEW S, NEW s, Good(k, account, S, s)
  PROVE  LET new == update_rent_exempt_status_for_account(account)
         IN  /\ new \in Account /\ Good(k, new, S, s)
             /\ new.owner = account.owner /\ new.tag = account.tag
             /\ new.durable_nonce = account.durable_nonce
<1> DEFINE new == update_rent_exempt_status_for_account(account)
<1>1. CASE is_exempt(account.lamports, account.size)
  <2>1. new = [account EXCEPT !.rent_exempt_epoch = TRUE]
    BY <1>1 DEF update_rent_exempt_status_for_account
  <2> HIDE DEF new
  <2>2. \E e \in BOOLEAN : new = [account EXCEPT !.rent_exempt_epoch = e]
    <3> WITNESS TRUE \in BOOLEAN
    <3> QED BY <2>1
  <2>3. /\ new \in Account /\ Good(k, new, S, s)
        /\ new.owner = account.owner /\ new.tag = account.tag
        /\ new.durable_nonce = account.durable_nonce
    BY <2>2, GoodRentEpoch
  <2> QED BY <2>3 DEF new
<1>2. CASE ~is_exempt(account.lamports, account.size)
  BY <1>2 DEF update_rent_exempt_status_for_account
<1> QED BY <1>1, <1>2

\* A fee never takes what keeps a nonce alive.
LEMMA ChargedIsGood ==
  ASSUME NEW account \in Account, NEW k, NEW S, NEW s, Good(k, account, S, s),
         NEW fee \in Nat, NEW key, validate_fee_payer(account, fee, key)
  PROVE  /\ Charged(account, fee) \in Account /\ Good(k, Charged(account, fee), S, s)
         /\ Charged(account, fee).owner = account.owner /\ Charged(account, fee).tag = account.tag
<1> DEFINE new == Charged(account, fee)
           kind == get_system_account_kind(account)
           min_balance == IF kind = "Nonce" THEN MinimumBalance[NonceSize] ELSE 0
<1>1. account.lamports \in Nat /\ account.size \in Nat /\ MinimumBalance[NonceSize] \in Nat
  BY AccountFields, SizesAreNumbers
<1>2. kind # "None" /\ account.lamports - min_balance >= fee
  BY DEF validate_fee_payer
<1>3. /\ \/ account.size = 0
         \/ account.size = NonceSize /\ kind = "Nonce"
  BY <1>2 DEF get_system_account_kind
<1> HIDE DEF kind
<1>4. account.lamports - fee \in Nat
  BY <1>1, <1>2
<1>5. /\ new \in Account /\ new.owner = account.owner /\ new.tag = account.tag
      /\ new.durable_nonce = account.durable_nonce /\ new.size = account.size
      /\ new.lamports = account.lamports - fee
  BY <1>4 DEF Charged, Account
<1> HIDE DEF new
<1>6. Sound(new)
  <2>1. CASE account.size = 0
    BY <1>5, <2>1 DEF Good, Sound, Initialized
  <2>2. CASE account.size = NonceSize /\ kind = "Nonce"
    <3>1. new.lamports >= MinimumBalance[new.size]
      BY <1>1, <1>2, <1>5, <2>2
    <3>2. new.size # 0
      BY <1>5, <2>2, SizesAreNumbers
    <3> QED BY <3>1, <3>2 DEF Sound
  <2> QED BY <1>3, <2>1, <2>2
<1>7. Good(k, new, S, s)
  BY <1>5, <1>6 DEF Good, SystemNonce
<1> QED BY <1>5, <1>7 DEF new

\* Advancing a nonce puts it after all that were used before the block.
LEMMA AdvancedIsGood ==
  ASSUME NEW account \in Account, NEW k, NEW S, NEW T, NEW s \in Nat, Good(k, account, S, s),
         account.tag = "initialized", \A h \in Nat : <<k, h>> \in T => h < s
  PROVE  LET new == [account EXCEPT !.durable_nonce = s]
         IN  new \in Account /\ Good(k, new, T, s)
<1> DEFINE new == [account EXCEPT !.durable_nonce = s]
<1>1. /\ new \in Account /\ new.owner = account.owner /\ new.tag = account.tag
      /\ new.durable_nonce = s /\ new.size = account.size
      /\ new.lamports = account.lamports
  BY DEF Account
<1> HIDE DEF new
<1>2. Sound(new)
  BY <1>1 DEF Good, Sound, Initialized, get_state
<1>3. Good(k, new, T, s)
  BY <1>1, <1>2 DEF Good
<1> QED BY <1>1, <1>3 DEF new

\* What the validation of the nonce and the fee payer establishes.
LEMMA ValidatedPayer ==
  ASSUME TypeInv, NonceInv, m \in Messages, validate_transaction_nonce_and_fee_payer(m)
  PROVE  LET payer == Charged(loaded_fee_payer(m), m.fee)
         IN  /\ payer \in Account /\ Good(m.fee_payer, payer, Spent, slot)
             /\ payer.tag = do_load(m.fee_payer).tag
<1> DEFINE account == do_load(m.fee_payer)
           loaded == loaded_fee_payer(m)
<1>1. m.fee_payer \in Keys /\ m.fee \in Nat
  BY MessageFacts
<1>2. account \in Account /\ Good(m.fee_payer, account, Spent, slot)
  BY <1>1, DoLoadType DEF NonceInv
<1>3. loaded = update_rent_exempt_status_for_account(account)
  BY DEF loaded_fee_payer
<1>4. validate_fee_payer(loaded, m.fee, m.fee_payer)
  BY DEF validate_transaction_nonce_and_fee_payer
<1> HIDE DEF account, loaded
<1>5. loaded \in Account /\ Good(m.fee_payer, loaded, Spent, slot) /\ loaded.tag = account.tag
  BY <1>2, <1>3, UpdatedRent
<1>6. /\ Charged(loaded, m.fee) \in Account /\ Good(m.fee_payer, Charged(loaded, m.fee), Spent, slot)
      /\ Charged(loaded, m.fee).tag = loaded.tag
  BY <1>1, <1>4, <1>5, ChargedIsGood
<1> QED BY <1>5, <1>6 DEF account, loaded

\* A validated nonce has not been spent and is older than the block.
LEMMA ValidatedNonce ==
  ASSUME TypeInv, NonceInv, m \in Messages, m.nonce # NoKey,
         validate_transaction_nonce_and_fee_payer(m)
  PROVE  /\ do_load(m.nonce).tag = "initialized"
         /\ m.blockhash < slot
         /\ <<m.nonce, m.blockhash>> \notin Spent
<1> DEFINE account == do_load(m.nonce)
<1>1. m.nonce \in Keys /\ m.blockhash \in Nat /\ slot \in Nat
  BY MessageFacts DEF TypeInv
<1>2. account.durable_nonce \in Nat /\ Good(m.nonce, account, Spent, slot)
  BY <1>1, DoLoadType, AccountFields DEF NonceInv
<1>3. /\ account.owner = System /\ account.tag = "initialized"
      /\ account.durable_nonce = m.blockhash /\ account.durable_nonce # slot
  BY DEF validate_transaction_nonce_and_fee_payer, validate_transaction_nonce, verify_nonce_account
<1> HIDE DEF account
<1>4. SystemNonce(account)
  BY <1>3 DEF SystemNonce
<1>5. account.durable_nonce <= slot
  BY <1>2, <1>4 DEF Good
<1>6. <<m.nonce, m.blockhash>> \in Spent => m.blockhash < account.durable_nonce
  BY <1>1, <1>2, <1>4 DEF Good
<1> QED BY <1>1, <1>2, <1>3, <1>5, <1>6 DEF account

\* After validation, the accounts to roll back to are good once the transaction's own
\* nonce is spent.
LEMMA ValidatedRollback ==
  ASSUME TypeInv, NonceInv, m \in Messages, validate_transaction_nonce_and_fee_payer(m)
  PROVE  /\ RollbackAccounts(m) \in Changes
         /\ \A k \in DOMAIN RollbackAccounts(m) :
              Good(k, RollbackAccounts(m)[k], Spent \cup OwnNonce(m), slot)
         /\ m.nonce # NoKey => m.nonce \in DOMAIN RollbackAccounts(m)
<1> DEFINE payer == Charged(loaded_fee_payer(m), m.fee)
           R == RollbackAccounts(m)
           S == Spent \cup OwnNonce(m)
<1>1. /\ payer \in Account /\ Good(m.fee_payer, payer, Spent, slot)
      /\ payer.tag = do_load(m.fee_payer).tag
  BY ValidatedPayer
<1>2. /\ m.fee_payer \in Keys /\ m.nonce \in Keys \cup {NoKey} /\ m.blockhash \in Nat
      /\ slot \in Nat
  BY MessageFacts DEF TypeInv
<1> HIDE DEF payer
<1>3. CASE m.nonce = NoKey
  <2> DEFINE new == [payer EXCEPT !.rent_exempt_epoch = do_load(m.fee_payer).rent_exempt_epoch]
  <2>1. R = [k \in {m.fee_payer} |-> [payer EXCEPT !.rent_exempt_epoch = do_load(k).rent_exempt_epoch]]
    BY <1>3 DEF RollbackAccounts, payer
  <2>2. DOMAIN R = {m.fee_payer} /\ R[m.fee_payer] = new /\ R \in [{m.fee_payer} -> {new}]
    BY <2>1
  <2>3. do_load(m.fee_payer) \in Account
    BY <1>2, DoLoadType
  <2>4. do_load(m.fee_payer).rent_exempt_epoch \in BOOLEAN
    BY <2>3 DEF Account
  <2>5. \E e \in BOOLEAN : new = [payer EXCEPT !.rent_exempt_epoch = e]
    BY <2>4
  <2> HIDE DEF new, R
  <2>6. new \in Account /\ Good(m.fee_payer, new, Spent, slot)
    BY <1>1, <2>5, GoodRentEpoch
  <2>7. S = Spent
    BY <1>3 DEF OwnNonce
  <2>8. R \in [{m.fee_payer} -> Account]
    BY <2>2, <2>6
  <2>9. R \in Changes
    BY <1>2, <2>8, ChangesIntro
  <2> QED BY <1>3, <2>2, <2>6, <2>7, <2>9 DEF R
<1>4. CASE m.nonce # NoKey
  <2> DEFINE account == do_load(m.nonce)
  <2>1. /\ account \in Account /\ Good(m.nonce, account, Spent, slot)
    BY <1>2, <1>4, DoLoadType DEF NonceInv
  <2>2. account.tag = "initialized" /\ m.blockhash < slot
    BY <1>4, ValidatedNonce
  <2>3. \A h \in Nat : <<m.nonce, h>> \in S => h < slot
    BY <1>2, <1>4, <2>2 DEF NonceInv, OwnNonce
  <2>4. m.fee_payer # m.nonce => \A h \in Nat : <<m.fee_payer, h>> \notin OwnNonce(m)
    BY DEF OwnNonce
  <2>5. m.fee_payer # m.nonce => Good(m.fee_payer, payer, S, slot)
    BY <1>1, <2>4 DEF Good
  <2>6. /\ [account EXCEPT !.durable_nonce = slot] \in Account
        /\ Good(m.nonce, [account EXCEPT !.durable_nonce = slot], S, slot)
    BY <1>2, <2>1, <2>2, <2>3, AdvancedIsGood
  <2>7. ASSUME m.fee_payer = m.nonce
        PROVE  /\ [payer EXCEPT !.durable_nonce = slot] \in Account
               /\ Good(m.nonce, [payer EXCEPT !.durable_nonce = slot], S, slot)
    <3>1. payer.tag = "initialized" /\ Good(m.nonce, payer, Spent, slot)
      BY <1>1, <2>2, <2>7
    <3> QED BY <1>1, <1>2, <2>3, <3>1, AdvancedIsGood
  <2>8. R = [k \in {m.fee_payer, m.nonce} |->
               IF k = m.fee_payer /\ k = m.nonce THEN [payer EXCEPT !.durable_nonce = slot]
               ELSE IF k = m.nonce THEN [do_load(k) EXCEPT !.durable_nonce = slot]
               ELSE payer]
    BY <1>4 DEF RollbackAccounts, payer
  <2> HIDE DEF R, S
  <2>9. DOMAIN R = {m.fee_payer, m.nonce} /\ {m.fee_payer, m.nonce} \subseteq Keys
    BY <1>2, <1>4, <2>8
  <2>10. ASSUME NEW k \in {m.fee_payer, m.nonce}
         PROVE  R[k] \in Account /\ Good(k, R[k], S, slot)
    <3>1. CASE k = m.fee_payer /\ k = m.nonce
      BY <2>7, <2>8, <3>1
    <3>2. CASE k # m.fee_payer /\ k = m.nonce
      BY <2>6, <2>8, <3>2
    <3>3. CASE k # m.nonce
      BY <1>1, <2>5, <2>8, <2>10, <3>3
    <3> QED BY <3>1, <3>2, <3>3
  <2>11. R \in [{m.fee_payer, m.nonce} -> Account]
    BY <2>8, <2>10
  <2>12. R \in Changes
    BY <2>9, <2>11, ChangesIntro
  <2> QED BY <2>9, <2>10, <2>12 DEF R, S
<1> QED BY <1>3, <1>4

------------------------------------------------------------------------------
-----------------------------------------------------------------------------
\* Init and the steps

\* No results: what is shown and committed is the database.
LEMMA NoResults ==
  ASSUME results' = <<>>
  PROVE  /\ results' \in Seq(ResultRecord)
         /\ Spent' = used' /\ NonceUsedOnce'
         /\ \A k \in Keys : Committed[k]' = Shown(db'[k]) /\ Writers(k)' = {}
<1>1. results' \in Seq(ResultRecord) /\ DOMAIN results' = {}
  OBVIOUS
<1> QED BY <1>1, CancelledResults

\* The invariant holds at first.
LEMMA InitInv ==
  Init => IInv
<1> SUFFICES ASSUME Init PROVE IInv
  OBVIOUS
<1>1. /\ slot = 1 /\ db = Genesis /\ loaded_accounts = NoChanges /\ pc = "idle"
      /\ config = NoConfig /\ m = NoMessage /\ results = <<>> /\ next_ix = 0 /\ used = {}
  BY DEF Init
<1>2. DOMAIN results = {} /\ results \in Seq(ResultRecord)
  BY <1>1
<1>3. NonceProcessed = {} /\ \A k \in Keys : Writers(k) = {}
  BY <1>2 DEF NonceProcessed, Processed, Writers
<1>4. Spent = {} /\ NonceUsedOnce
  BY <1>1, <1>3 DEF Spent, NonceUsedOnce
<1>5. TypeInv
  BY <1>1, <1>2, <1>3, NoChangesType, BatchAssumption DEF TypeInv, Config, NoConfig
<1>6. ASSUME NEW k \in Keys
      PROVE  /\ Good(k, db[k], {}, slot)
             /\ Good(k, do_load(k), {}, slot)
             /\ Good(k, Committed[k], {}, slot)
  <2>1. Genesis[k] \in Account
    BY BatchAssumption
  <2>2. /\ Genesis[k].size = 0 => Genesis[k].tag = "zeroed"
        /\ Genesis[k].owner = System /\ Genesis[k].tag \in {"initialized", "legacy"} =>
             /\ Genesis[k].durable_nonce <= 1
             /\ Genesis[k].size >= NonceSize =>
                  Genesis[k].lamports >= MinimumBalance[Genesis[k].size]
    BY GenesisAssumption
  <2>3. Good(k, Genesis[k], {}, 1)
    BY <2>1, <2>2 DEF Good, Sound, SystemNonce, Initialized, get_state
  <2>4. Good(k, Shown(Genesis[k]), {}, 1)
    BY <2>1, <2>3, ShownAccount
  <2>5. do_load(k) = Shown(Genesis[k])
    BY <1>1, NoChangesType DEF do_load, Shown
  <2>6. Committed[k] = Shown(Genesis[k])
    BY <1>1, <1>3 DEF Committed, Shown
  <2> QED BY <1>1, <2>3, <2>4, <2>5, <2>6
<1>7. NonceInv
  BY <1>1, <1>4, <1>6 DEF NonceInv
<1>8. ExecutionInv
  BY <1>1 DEF ExecutionInv
<1> QED BY <1>5, <1>7, <1>8 DEF IInv

\* Steps that leave the accounts and the results alone.
LEMMA Frame ==
  ASSUME slot' = slot, db' = db, loaded_accounts' = loaded_accounts, results' = results,
         used' = used
  PROVE  /\ Spent' = Spent
         /\ \A k \in Keys : Writers(k)' = Writers(k)
         /\ NonceInv => NonceInv'
<1>1. NonceProcessed' = NonceProcessed
  BY DEF NonceProcessed, Processed, was_processed
<1>2. Spent' = Spent /\ (NonceUsedOnce => NonceUsedOnce')
  BY <1>1 DEF Spent, NonceUsedOnce
<1>3. ASSUME NEW k \in Keys
      PROVE  Writers(k)' = Writers(k)
  BY DEF Writers
<1>4. ASSUME NEW k \in Keys
      PROVE  do_load(k)' = do_load(k) /\ Committed[k]' = Committed[k]
  BY <1>3 DEF do_load, Committed
<1>5. NonceInv => NonceInv'
  BY <1>2, <1>4 DEF NonceInv
<1> QED BY <1>2, <1>3, <1>5

\* The record of a result has its type.
LEMMA ResultType ==
  ASSUME NEW msg \in Messages, NEW changes \in Changes,
         NEW status \in {"Ok", "Failed", "FeesOnly", "Err", "CommitCancelled"}
  PROVE  /\ Result(msg, status, changes) \in ResultRecord
         /\ Result(msg, status, changes).changes = changes
         /\ was_processed(Result(msg, status, changes)) <=> status \in {"Ok", "Failed", "FeesOnly"}
         /\ NonceOf(Result(msg, status, changes)) \subseteq OwnNonce(msg)
         /\ status = "Err" => NonceOf(Result(msg, status, changes)) = {}
         /\ status \in {"Ok", "Failed", "FeesOnly"} =>
              NonceOf(Result(msg, status, changes)) = OwnNonce(msg)
<1> DEFINE r == Result(msg, status, changes)
<1>1. /\ r.status = status /\ r.changes = changes /\ r.nonce = <<msg.nonce, msg.blockhash>>
      /\ r.fee = msg.fee
      /\ r = [status |-> status, changes |-> changes, nonce |-> <<msg.nonce, msg.blockhash>>,
              fee |-> msg.fee]
  BY DEF Result
<1>2. msg.nonce \in Keys \cup {NoKey} /\ msg.blockhash \in Nat /\ msg.fee \in Nat
  BY MessageFacts
<1>3. r \in ResultRecord
  BY <1>1, <1>2 DEF ResultRecord
<1>4. was_processed(r) <=> status \in {"Ok", "Failed", "FeesOnly"}
  BY <1>1 DEF was_processed
<1>5. r.nonce[1] = msg.nonce
  BY <1>1
<1> HIDE DEF r
<1>6. /\ NonceOf(r) \subseteq OwnNonce(msg)
      /\ status = "Err" => NonceOf(r) = {}
      /\ status \in {"Ok", "Failed", "FeesOnly"} => NonceOf(r) = OwnNonce(msg)
  BY <1>1, <1>4, <1>5 DEF NonceOf, OwnNonce
<1> QED BY <1>1, <1>3, <1>4, <1>6 DEF r

\* A transaction that is not processed.
LEMMA ConcludeErr ==
  ASSUME TypeInv, NonceInv, m \in Messages, Conclude(Result(m, "Err", NoChanges)), next_ix' \in Nat
  PROVE  IInv'
<1> DEFINE r == Result(m, "Err", NoChanges)
<1>1. r \in ResultRecord /\ r.changes = NoChanges /\ NonceOf(r) = {}
  BY ResultType, NoChangesType
<1> HIDE DEF r
<1>2. DOMAIN r.changes = {} /\ Conclude(r)
  BY <1>1, NoChangesType DEF r
<1> QED BY <1>1, <1>2, ConcludeInv

\* A transaction that is processed, and stores changes that are good once its
\* nonce is spent.
LEMMA ConcludeProcessed ==
  ASSUME TypeInv, NonceInv, m \in Messages, NEW status \in {"Ok", "Failed", "FeesOnly"},
         NEW changes \in Changes, Conclude(Result(m, status, changes)), next_ix' \in Nat,
         \A k \in DOMAIN changes : Good(k, changes[k], Spent \cup OwnNonce(m), slot),
         m.nonce # NoKey => /\ m.nonce \in DOMAIN changes
                            /\ <<m.nonce, m.blockhash>> \notin Spent
                            /\ m.blockhash < slot
  PROVE  IInv'
<1> DEFINE r == Result(m, status, changes)
<1>1. r \in ResultRecord /\ r.changes = changes /\ NonceOf(r) = OwnNonce(m) /\ was_processed(r)
  BY ResultType, SMTT(40)
<1> HIDE DEF r
<1>2. Conclude(r)
  BY DEF r
<1>3. \A p \in NonceOf(r) : p \notin Spent /\ p[2] < slot /\ p[1] \in DOMAIN r.changes
  BY <1>1 DEF OwnNonce
<1>4. \A k \in DOMAIN r.changes : Good(k, r.changes[k], Spent \cup NonceOf(r), slot)
  BY <1>1
<1> QED BY <1>1, <1>2, <1>3, <1>4, ConcludeInv

\* A transaction that is not processed keeps the invariant.
LEMMA NotLoadedInv ==
  ASSUME IInv, NotLoaded
  PROVE  IInv'
<1>1. TypeInv /\ NonceInv /\ m \in Messages /\ next_ix' \in Nat
  BY DEF IInv, TypeInv, NotLoaded, execution
<1>2. Conclude(Result(m, "Err", NoChanges))
  BY DEF NotLoaded
<1> QED BY <1>1, <1>2, ConcludeErr

\* A transaction that only pays its fees keeps the invariant.
LEMMA FeesOnlyInv ==
  ASSUME IInv, FeesOnly
  PROVE  IInv'
<1>1. TypeInv /\ NonceInv /\ m \in Messages /\ next_ix' \in Nat
  BY DEF IInv, TypeInv, FeesOnly, execution
<1>2. validate_transaction_nonce_and_fee_payer(m)
  BY DEF FeesOnly
<1>3. \/ Conclude(Result(m, "Err", NoChanges))
      \/ Conclude(Result(m, "FeesOnly", RollbackAccounts(m)))
  BY DEF FeesOnly
<1>4. CASE Conclude(Result(m, "Err", NoChanges))
  BY <1>1, <1>4, ConcludeErr
<1>5. CASE Conclude(Result(m, "FeesOnly", RollbackAccounts(m)))
  <2>1. /\ RollbackAccounts(m) \in Changes
        /\ \A k \in DOMAIN RollbackAccounts(m) :
             Good(k, RollbackAccounts(m)[k], Spent \cup OwnNonce(m), slot)
        /\ m.nonce # NoKey => m.nonce \in DOMAIN RollbackAccounts(m)
    BY <1>1, <1>2, ValidatedRollback
  <2>2. m.nonce # NoKey => <<m.nonce, m.blockhash>> \notin Spent /\ m.blockhash < slot
    BY <1>1, <1>2, ValidatedNonce
  <2> QED BY <1>1, <1>5, <2>1, <2>2, ConcludeProcessed
<1> QED BY <1>3, <1>4, <1>5

\* The end of a transaction keeps the invariant, whether its changes or its rollback
\* accounts are kept.
LEMMA FinishTransactionInv ==
  ASSUME IInv, FinishTransaction
  PROVE  IInv'
<1> DEFINE changes == update_accounts_for_successful_tx(m, tx.accounts)
<1>1. /\ TypeInv /\ NonceInv /\ m \in Messages /\ next_ix' \in Nat /\ pc = "execute"
      /\ tx \in Execution(m.keys) /\ rollback \in Changes /\ slot \in Nat /\ next_ix \in Nat
  BY DEF IInv, TypeInv, FinishTransaction
<1>2. \/ tx.ok /\ next_ix > Len(m.instructions) /\ Conclude(Result(m, "Ok", changes))
      \/ Conclude(Result(m, "Err", NoChanges))
      \/ Conclude(Result(m, "Failed", rollback))
  BY DEF FinishTransaction
<1>3. /\ \A k \in DOMAIN rollback : Good(k, rollback[k], Spent \cup OwnNonce(m), slot)
      /\ m.nonce # NoKey => /\ m.nonce \in DOMAIN rollback
                            /\ <<m.nonce, m.blockhash>> \notin Spent
                            /\ m.blockhash < slot
  BY <1>1 DEF IInv, ExecutionInv
<1>4. CASE Conclude(Result(m, "Err", NoChanges))
  BY <1>1, <1>4, ConcludeErr
<1>5. CASE Conclude(Result(m, "Failed", rollback))
  BY <1>1, <1>3, <1>5, ConcludeProcessed
<1>6. CASE tx.ok /\ next_ix > Len(m.instructions) /\ Conclude(Result(m, "Ok", changes))
  <2>1. /\ m.writable \subseteq m.keys /\ m.keys \subseteq Keys
        /\ Len(m.instructions) \in Nat
        /\ DOMAIN m.instructions = 1 .. Len(m.instructions)
    BY <1>1, MessageFacts
  <2>2. tx.accounts \in [m.keys -> Account]
    BY <1>1 DEF Execution
  <2>3. /\ DOMAIN changes \subseteq m.keys
        /\ \A k \in DOMAIN changes : changes[k] = tx.accounts[k]
        /\ changes = [k \in DOMAIN changes |-> tx.accounts[k]]
    BY <2>1 DEF update_accounts_for_successful_tx
  <2>4. ASSUME m.nonce # NoKey
        PROVE  m.nonce \in DOMAIN changes
    <3>1. /\ 1 \in DOMAIN m.instructions /\ m.instructions[1].a = m.nonce
      BY <1>1, <2>1, <2>4, NonceMessageFacts
    <3>2. is_instruction_account(m, m.nonce)
      BY <3>1 DEF is_instruction_account
    <3>3. m.nonce \in m.writable
      BY <1>1, <2>4, MessageFacts
    <3> QED BY <3>2, <3>3 DEF update_accounts_for_successful_tx
  <2> HIDE DEF changes
  <2>5. changes \in [DOMAIN changes -> Account]
    BY <2>2, <2>3
  <2>6. changes \in Changes
    BY <2>1, <2>3, <2>5, ChangesIntro
  <2>7. ASSUME NEW k \in DOMAIN changes
        PROVE  Good(k, changes[k], Spent \cup OwnNonce(m), slot)
    <3>1. Good(k, tx.accounts[k], Spent, slot) /\ k \in m.keys
      BY <1>1, <1>6, <2>3, <2>7 DEF IInv, ExecutionInv
    <3>2. CASE k = m.nonce /\ m.nonce # NoKey
      <4>1. next_ix > 1
        BY <1>1, <1>6, <2>1, <3>2, NonceMessageFacts, SMTT(40)
      <4>2. Advanced(tx.accounts[k], slot)
        BY <1>1, <1>6, <3>2, <4>1 DEF IInv, ExecutionInv
      <4>3. \A h \in Nat : <<k, h>> \in Spent \cup OwnNonce(m) => h < slot
        BY <1>1, <1>3, <2>1, <3>1, <3>2 DEF NonceInv, OwnNonce
      <4> QED BY <1>1, <2>3, <2>7, <3>1, <4>2, <4>3 DEF Good, Advanced
    <3>3. CASE k # m.nonce \/ m.nonce = NoKey
      <4>1. \A h \in Nat : <<k, h>> \notin OwnNonce(m)
        BY <3>3 DEF OwnNonce
      <4> QED BY <2>3, <2>7, <3>1, <4>1 DEF Good
    <3> QED BY <3>2, <3>3
  <2> QED BY <1>1, <1>3, <1>6, <2>4, <2>6, <2>7, ConcludeProcessed
<1> QED BY <1>2, <1>4, <1>5, <1>6

\* The beginning of a batch keeps the invariant.
LEMMA BeginBatchInv ==
  ASSUME IInv, BeginBatch
  PROVE  IInv'
<1>1. /\ slot' = slot /\ db' = db /\ loaded_accounts' = loaded_accounts /\ results' = results
      /\ used' = used /\ next_ix' = next_ix /\ pc' = "load" /\ m' \in Messages /\ config' \in Config
  BY DEF BeginBatch, bank, execution
<1>2. NonceInv' /\ \A k \in Keys : Writers(k)' = Writers(k)
  BY <1>1, Frame DEF IInv
<1>3. TypeInv'
  BY <1>1, <1>2 DEF IInv, TypeInv
<1>4. ExecutionInv'
  BY <1>1 DEF ExecutionInv
<1> QED BY <1>2, <1>3, <1>4 DEF IInv

\* A validated and loaded transaction starts with good accounts.
LEMMA LoadedInv ==
  ASSUME IInv, Loaded
  PROVE  IInv'
<1> DEFINE payer == Charged(loaded_fee_payer(m), m.fee)
           accounts == [k \in m.keys |-> IF k = m.fee_payer THEN payer
                                         ELSE load_transaction_account(m, k)]
<1>1. /\ slot' = slot /\ db' = db /\ loaded_accounts' = loaded_accounts /\ results' = results
      /\ used' = used /\ next_ix' = 1 /\ pc' = "execute" /\ m' = m /\ config' = config
      /\ tx' = Start(accounts) /\ rollback' = RollbackAccounts(m)
      /\ validate_transaction_nonce_and_fee_payer(m)
  BY DEF Loaded, bank
<1> HIDE DEF payer, accounts
<1>2. TypeInv /\ NonceInv /\ m \in Messages /\ m.keys \subseteq Keys
  BY MessageFacts DEF IInv, TypeInv, Loaded
<1>3. NonceInv' /\ Spent' = Spent /\ \A k \in Keys : Writers(k)' = Writers(k)
  BY <1>1, <1>2, Frame
<1>4. /\ RollbackAccounts(m) \in Changes
      /\ \A k \in DOMAIN RollbackAccounts(m) :
           Good(k, RollbackAccounts(m)[k], Spent \cup OwnNonce(m), slot)
      /\ m.nonce # NoKey => m.nonce \in DOMAIN RollbackAccounts(m)
  BY <1>1, <1>2, ValidatedRollback
<1>5. m.nonce # NoKey => <<m.nonce, m.blockhash>> \notin Spent /\ m.blockhash < slot
  BY <1>1, <1>2, ValidatedNonce
<1>6. payer \in Account /\ Good(m.fee_payer, payer, Spent, slot)
  BY <1>1, <1>2, ValidatedPayer DEF payer
<1>7. ASSUME NEW k \in m.keys
      PROVE  /\ load_transaction_account(m, k) \in Account
             /\ Good(k, load_transaction_account(m, k), Spent, slot)
  <2> DEFINE account == do_load(k)
             fresh == [DefaultAccount EXCEPT !.rent_exempt_epoch = TRUE]
             updated == update_rent_exempt_status_for_account(account)
  <2>1. account \in Account /\ Good(k, account, Spent, slot)
    BY <1>2, DoLoadType DEF NonceInv
  <2>2. Good(k, DefaultAccount, Spent, slot)
    BY DefaultAccountType DEF Good
  <2>3. \E e \in BOOLEAN : fresh = [DefaultAccount EXCEPT !.rent_exempt_epoch = e]
    <3> WITNESS TRUE \in BOOLEAN
    <3> QED OBVIOUS
  <2> HIDE DEF fresh
  <2>4. fresh \in Account /\ Good(k, fresh, Spent, slot)
    BY <2>2, <2>3, DefaultAccountType, GoodRentEpoch
  <2> HIDE DEF account
  <2>5. updated \in Account /\ Good(k, updated, Spent, slot)
    BY <2>1, UpdatedRent
  <2> HIDE DEF updated
  <2>6. load_transaction_account(m, k) \in {fresh, updated, account}
    BY DEF load_transaction_account, fresh, updated, account
  <2> QED BY <2>1, <2>4, <2>5, <2>6
<1>8. /\ accounts \in [m.keys -> Account]
      /\ \A k \in m.keys : Good(k, accounts[k], Spent, slot)
  BY <1>6, <1>7 DEF accounts
<1>9. /\ tx' \in Execution(m.keys)
      /\ tx'.accounts = accounts
  BY <1>1, <1>8 DEF Start, Execution
<1>10. TypeInv'
  BY <1>1, <1>2, <1>3, <1>4, <1>9 DEF TypeInv
<1>11. OwnNonce(m)' = OwnNonce(m)
  BY <1>1 DEF OwnNonce
<1>12. next_ix' > 0 /\ ~(next_ix' > 1)
  BY <1>1
<1>13. \A k \in m'.keys : Good(k, tx'.accounts[k], Spent', slot')
  BY <1>1, <1>3, <1>8, <1>9
<1>14. \A k \in DOMAIN rollback' : Good(k, rollback'[k], Spent' \cup OwnNonce(m)', slot')
  BY <1>1, <1>3, <1>4, <1>11
<1>15. m'.nonce # NoKey =>
         /\ m'.nonce \in DOMAIN rollback'
         /\ <<m'.nonce, m'.blockhash>> \notin Spent'
         /\ m'.blockhash < slot'
  BY <1>1, <1>3, <1>4, <1>5
<1>16. ExecutionInv'
  BY <1>12, <1>13, <1>14, <1>15 DEF ExecutionInv
<1> QED BY <1>3, <1>10, <1>16 DEF IInv

\* Giving up a batch for want of programs keeps the invariant.
LEMMA HitMaxLimitInv ==
  ASSUME IInv, HitMaxLimit
  PROVE  IInv'
<1>1. /\ slot' = slot /\ db' = db /\ loaded_accounts' = loaded_accounts /\ results' = <<>>
      /\ used' = used /\ next_ix' = next_ix /\ pc' = "done" /\ m' = NoMessage /\ config' = config
  BY DEF HitMaxLimit, bank, execution
<1>2. TypeInv /\ NonceInv /\ slot \in Nat /\ used \subseteq Spent
  BY DEF IInv, TypeInv, Spent
<1>3. /\ results' \in Seq(ResultRecord)
      /\ Spent' = used /\ NonceUsedOnce'
      /\ \A k \in Keys : Committed[k]' = Shown(db[k]) /\ Writers(k)' = {}
  BY <1>1, NoResults
<1>4. ASSUME NEW k \in Keys
      PROVE  /\ Good(k, Shown(db[k]), used, slot)
             /\ Good(k, db[k], used, slot)
             /\ Good(k, do_load(k), used, slot)
             /\ do_load(k)' = do_load(k)
  <2>1. db[k] \in Account /\ Good(k, db[k], used, slot)
    BY <1>2 DEF TypeInv, NonceInv
  <2>2. do_load(k) \in Account /\ Good(k, do_load(k), Spent, slot)
    BY <1>2, DoLoadType DEF NonceInv
  <2>3. do_load(k)' = do_load(k)
    BY <1>1 DEF do_load
  <2>4. slot <= slot
    BY <1>2
  <2> QED BY <1>2, <2>1, <2>2, <2>3, <2>4, ShownAccount, GoodMonotone
<1>5. \A k \in Keys, h \in Nat : <<k, h>> \in used => h < slot
  BY <1>2 DEF NonceInv
<1>6. NonceInv'
  BY <1>1, <1>3, <1>4, <1>5 DEF NonceInv
<1>7. TypeInv'
  BY <1>1, <1>2, <1>3 DEF TypeInv
<1>8. ExecutionInv'
  BY <1>1 DEF ExecutionInv
<1> QED BY <1>6, <1>7, <1>8 DEF IInv

\* An instruction keeps the invariant; the first one advances the nonce.
LEMMA ExecuteInstructionInv ==
  ASSUME IInv, ExecuteInstruction
  PROVE  IInv'
<1> DEFINE y == process_instruction(tx, m.instructions[next_ix])
<1>1. /\ slot' = slot /\ db' = db /\ loaded_accounts' = loaded_accounts /\ results' = results
      /\ used' = used /\ next_ix' = next_ix + 1 /\ pc' = pc /\ pc = "execute" /\ m' = m
      /\ config' = config /\ rollback' = rollback /\ tx' = y
      /\ tx.ok /\ next_ix <= Len(m.instructions)
  BY DEF ExecuteInstruction, bank
<1>2. /\ TypeInv /\ NonceInv /\ m \in Messages /\ slot \in Nat /\ next_ix \in Nat
      /\ tx \in Execution(m.keys) /\ rollback \in Changes
  BY <1>1 DEF IInv, TypeInv
<1>3. next_ix > 0 /\ \A k \in m.keys : Good(k, tx.accounts[k], Spent, slot)
  BY <1>1 DEF IInv, ExecutionInv
<1>4. next_ix \in 1 .. Len(m.instructions) /\ m.keys \subseteq Keys
  BY <1>1, <1>2, <1>3, MessageFacts, SMTT(40)
<1>5. /\ Step(tx, y, m.keys, slot)
      /\ y.ok /\ next_ix = 1 /\ m.nonce # NoKey => Advanced(y.accounts[m.nonce], slot)
  BY <1>2, <1>4, StepProcessInstruction
<1> HIDE DEF y
<1>6. NonceInv' /\ Spent' = Spent /\ \A k \in Keys : Writers(k)' = Writers(k)
  BY <1>1, <1>2, Frame
<1>7. y \in Execution(m.keys) /\ (y.ok => \A k \in m.keys : Evolves(tx.accounts[k], y.accounts[k], slot))
  BY <1>5 DEF Step
<1>8. ASSUME y.ok, NEW k \in m.keys
      PROVE  Good(k, y.accounts[k], Spent, slot)
  <2>1. tx.accounts[k] \in Account /\ y.accounts[k] \in Account
    BY <1>2, <1>7 DEF Execution
  <2>2. \A h \in Nat : <<k, h>> \in Spent => h < slot
    BY <1>2, <1>4 DEF NonceInv
  <2> QED BY <1>2, <1>3, <1>7, <1>8, <2>1, <2>2, GoodEvolves
<1>9. ASSUME y.ok, m.nonce # NoKey
      PROVE  Advanced(y.accounts[m.nonce], slot)
  <2>1. CASE next_ix = 1
    BY <1>5, <1>9, <2>1
  <2>2. CASE next_ix # 1
    <3>1. Advanced(tx.accounts[m.nonce], slot)
      BY <1>1, <1>2, <1>3, <1>9, <2>2, SMTT(40) DEF IInv, ExecutionInv
    <3>2. m.nonce \in m.keys
      BY <1>2, <1>9, MessageFacts
    <3> QED BY <1>7, <1>9, <3>1, <3>2 DEF Evolves
  <2> QED BY <2>1, <2>2
<1>10. TypeInv'
  BY <1>1, <1>2, <1>6, <1>7, SMTT(40) DEF TypeInv
<1>11. OwnNonce(m)' = OwnNonce(m)
  BY <1>1 DEF OwnNonce
<1>12. /\ \A k \in DOMAIN rollback : Good(k, rollback[k], Spent \cup OwnNonce(m), slot)
       /\ m.nonce # NoKey => /\ m.nonce \in DOMAIN rollback
                             /\ <<m.nonce, m.blockhash>> \notin Spent
                             /\ m.blockhash < slot
  BY <1>1 DEF IInv, ExecutionInv
<1>13. next_ix' > 0
  BY <1>1, <1>2
<1>14. ExecutionInv'
  BY <1>1, <1>6, <1>8, <1>9, <1>11, <1>12, <1>13 DEF ExecutionInv
<1> QED BY <1>6, <1>10, <1>14 DEF IInv

\* The end of a batch, whatever is stored.
LEMMA EndBatchInv ==
  ASSUME IInv, EndBatch, db' \in [Keys -> Account], used' \subseteq Spent,
         \A k \in Keys : Good(k, db'[k], used', slot)
  PROVE  IInv'
<1>1. /\ slot' = slot /\ loaded_accounts' = NoChanges /\ results' = <<>> /\ next_ix' = next_ix
      /\ pc' = "idle" /\ m' = NoMessage /\ config' = NoConfig
  BY DEF EndBatch, execution
<1>2. TypeInv /\ NonceInv
  BY DEF IInv
<1>3. /\ results' \in Seq(ResultRecord)
      /\ Spent' = used' /\ NonceUsedOnce'
      /\ \A k \in Keys : Committed[k]' = Shown(db'[k]) /\ Writers(k)' = {}
  BY <1>1, NoResults
<1>4. ASSUME NEW k \in Keys
      PROVE  Good(k, Shown(db'[k]), used', slot) /\ do_load(k)' = Shown(db'[k])
  <2>1. do_load(k)' = Shown(db'[k])
    BY <1>1, NoChangesType DEF do_load, Shown
  <2>2. db'[k] \in Account /\ Good(k, db'[k], used', slot)
    OBVIOUS
  <2> QED BY <2>1, <2>2, ShownAccount
<1>5. \A k \in Keys, h \in Nat : <<k, h>> \in used' => h < slot
  BY <1>2 DEF NonceInv
<1>6. NonceInv'
  BY <1>1, <1>3, <1>4, <1>5 DEF NonceInv
<1>7. used' \subseteq Keys \X Nat
  <2>1. ASSUME NEW i \in NonceProcessed
        PROVE  results[i].nonce \in Keys \X Nat
    <3>1. i \in DOMAIN results /\ results[i].nonce[1] # NoKey /\ results \in Seq(ResultRecord)
      BY <1>2 DEF NonceProcessed, Processed, TypeInv
    <3>2. results[i] \in ResultRecord
      BY <3>1
    <3>3. results[i].nonce \in (Keys \cup {NoKey}) \X Nat
      BY <3>2 DEF ResultRecord
    <3> QED BY <3>1, <3>3
  <2>2. Spent \subseteq Keys \X Nat
    BY <1>2, <2>1 DEF Spent, TypeInv
  <2> QED BY <2>2
<1>8. TypeInv'
  BY <1>1, <1>2, <1>3, <1>7, NoChangesType DEF TypeInv, Config, NoConfig
<1>9. ExecutionInv'
  BY <1>1 DEF ExecutionInv
<1> QED BY <1>6, <1>8, <1>9 DEF IInv

\* The commit of a batch keeps the invariant.
LEMMA CommitInv ==
  ASSUME IInv, Commit
  PROVE  IInv'
<1>1. EndBatch /\ db' = Committed /\ used' = Spent
  BY DEF Commit, Spent
<1>2. TypeInv /\ NonceInv
  BY DEF IInv
<1>3. ASSUME NEW k \in Keys
      PROVE  Committed[k] \in Account /\ Good(k, Committed[k], Spent, slot)
  BY <1>2, CommittedType DEF NonceInv
<1>4. Committed \in [Keys -> Account]
  <2>1. Committed = [k \in Keys |-> Committed[k]]
    BY DEF Committed
  <2> QED BY <1>3, <2>1
<1> QED BY <1>1, <1>3, <1>4, EndBatchInv

\* Dropping a batch keeps the invariant.
LEMMA AbandonInv ==
  ASSUME IInv, Abandon
  PROVE  IInv'
<1>1. EndBatch /\ db' = db /\ used' = used
  BY DEF Abandon
<1>2. db \in [Keys -> Account] /\ used \subseteq Spent /\ \A k \in Keys : Good(k, db[k], used, slot)
  BY DEF IInv, TypeInv, NonceInv, Spent
<1> QED BY <1>1, <1>2, EndBatchInv

\* A new block keeps the invariant: its nonce is later than all spent ones.
LEMMA NewBlockInv ==
  ASSUME IInv, NewBlock
  PROVE  IInv'
<1>1. /\ slot' = slot + 1 /\ db' = db /\ loaded_accounts' = loaded_accounts /\ results' = results
      /\ used' = used /\ next_ix' = next_ix /\ pc' = "idle" /\ pc = "idle" /\ m' = m
      /\ config' = config
  BY DEF NewBlock, execution
<1>2. TypeInv /\ NonceInv /\ slot \in Nat /\ slot + 1 \in Nat /\ slot <= slot + 1
  BY DEF IInv, TypeInv
<1>3. NonceProcessed' = NonceProcessed
  BY <1>1 DEF NonceProcessed, Processed, was_processed
<1>4. Spent' = Spent /\ NonceUsedOnce'
  BY <1>1, <1>2, <1>3 DEF Spent, NonceUsedOnce, NonceInv
<1>5. ASSUME NEW k \in Keys
      PROVE  Writers(k)' = Writers(k)
  BY <1>1 DEF Writers
<1>6. ASSUME NEW k \in Keys
      PROVE  do_load(k)' = do_load(k) /\ Committed[k]' = Committed[k]
  BY <1>1, <1>5 DEF do_load, Committed
<1>7. ASSUME NEW k \in Keys
      PROVE  /\ Good(k, db[k], used, slot + 1)
             /\ Good(k, do_load(k), Spent, slot + 1)
             /\ Good(k, Committed[k], Spent, slot + 1)
  <2>1. db[k] \in Account /\ do_load(k) \in Account /\ Committed[k] \in Account
    BY <1>2, DoLoadType, CommittedType DEF TypeInv
  <2>2. /\ Good(k, db[k], used, slot) /\ Good(k, do_load(k), Spent, slot)
        /\ Good(k, Committed[k], Spent, slot)
    BY <1>2 DEF NonceInv
  <2> QED BY <1>2, <2>1, <2>2, GoodMonotone
<1>8. \A k \in Keys, h \in Nat : <<k, h>> \in Spent => h < slot + 1
  BY <1>2, SMTT(40) DEF NonceInv
<1>9. NonceInv'
  BY <1>1, <1>4, <1>6, <1>7, <1>8 DEF NonceInv
<1>10. TypeInv'
  BY <1>1, <1>2, <1>5 DEF TypeInv
<1>11. ExecutionInv'
  BY <1>1 DEF ExecutionInv
<1> QED BY <1>9, <1>10, <1>11 DEF IInv

-----------------------------------------------------------------------------
\* The theorems

\* A stuttering step keeps the invariant.
LEMMA StutterInv ==
  ASSUME IInv, UNCHANGED vars
  PROVE  IInv'
<1>1. /\ slot' = slot /\ db' = db /\ loaded_accounts' = loaded_accounts /\ results' = results
      /\ used' = used /\ next_ix' = next_ix /\ pc' = pc /\ m' = m
      /\ config' = config /\ rollback' = rollback /\ tx' = tx
  BY DEF vars
<1>2. NonceInv' /\ Spent' = Spent /\ \A k \in Keys : Writers(k)' = Writers(k)
  BY <1>1, Frame DEF IInv
<1>3. OwnNonce(m)' = OwnNonce(m)
  BY <1>1 DEF OwnNonce
<1>4. TypeInv'
  BY <1>1, <1>2 DEF IInv, TypeInv
<1>5. ExecutionInv'
  BY <1>1, <1>2, <1>3 DEF IInv, ExecutionInv
<1> QED BY <1>2, <1>4, <1>5 DEF IInv

\* Every step keeps the invariant.
LEMMA Inductive ==
  IInv /\ [Next]_vars => IInv'
<1> SUFFICES ASSUME IInv, [Next]_vars PROVE IInv'
  OBVIOUS
<1>1. CASE BeginBatch BY <1>1, BeginBatchInv
<1>2. CASE NotLoaded BY <1>2, NotLoadedInv
<1>3. CASE FeesOnly BY <1>3, FeesOnlyInv
<1>4. CASE Loaded BY <1>4, LoadedInv
<1>5. CASE HitMaxLimit BY <1>5, HitMaxLimitInv
<1>6. CASE ExecuteInstruction BY <1>6, ExecuteInstructionInv
<1>7. CASE FinishTransaction BY <1>7, FinishTransactionInv
<1>8. CASE Commit BY <1>8, CommitInv
<1>9. CASE Abandon BY <1>9, AbandonInv
<1>10. CASE NewBlock BY <1>10, NewBlockInv
<1>11. CASE UNCHANGED vars BY <1>11, StutterInv
<1> QED
  BY <1>1, <1>2, <1>3, <1>4, <1>5, <1>6, <1>7, <1>8, <1>9, <1>10, <1>11 DEF Next

\* The invariant always holds.
LEMMA Invariant ==
  Spec => []IInv
BY InitInv, Inductive, PTL DEF Spec

\* The state of the batch processor is well typed: in particular no balance
\* goes below zero, neither by fees nor by instructions.
THEOREM TypeCorrect ==
  Spec => []TypeOK
<1>1. IInv => TypeOK
  <2> SUFFICES ASSUME IInv PROVE TypeOK
    OBVIOUS
  <2>1. TypeInv
    BY DEF IInv
  <2>2. /\ DOMAIN loaded_accounts \subseteq Keys
        /\ \A k \in DOMAIN loaded_accounts : loaded_accounts[k] \in Account
    BY <2>1, ChangesFacts DEF TypeInv
  <2>3. ASSUME NEW i \in DOMAIN results
        PROVE  /\ results[i].status \in {"Ok", "Failed", "FeesOnly", "Err", "CommitCancelled"}
               /\ DOMAIN results[i].changes \subseteq Keys
               /\ \A k \in DOMAIN results[i].changes : results[i].changes[k] \in Account
    <3>1. results[i] \in ResultRecord
      BY <2>1 DEF TypeInv
    <3>2. results[i].changes \in Changes
      BY <3>1 DEF ResultRecord
    <3> QED BY <3>1, <3>2, ChangesFacts DEF ResultRecord
  <2>4. pc = "execute" => tx.accounts \in [m.keys -> Account]
    BY <2>1 DEF TypeInv, Execution
  <2> QED BY <2>1, <2>2, <2>3, <2>4 DEF TypeInv, TypeOK
<1> QED BY <1>1, Invariant, PTL

\* No durable nonce authorizes two committed transactions, whatever their
\* instructions do to the nonce accounts and in whatever batches and blocks
\* they are (validate_transaction_nonce, RollbackAccounts::new and the system
\* program's nonce instructions).
THEOREM NoncesAreUsedOnce ==
  Spec => []NonceUsedOnce
<1>1. IInv => NonceUsedOnce
  BY DEF IInv, NonceInv
<1> QED BY <1>1, Invariant, PTL

\* No fee and no withdrawal leaves an initialized nonce account below its
\* minimum balance (validate_fee_payer and withdraw_nonce_account).
THEOREM NoncesStayFunded ==
  Spec => []NonceStaysFunded
<1>1. IInv => NonceStaysFunded
  BY DEF IInv, NonceInv, Good, Sound, NonceStaysFunded
<1> QED BY <1>1, Invariant, PTL
=============================================================================
