---------------------- MODULE TransactionOutcomeProofs ----------------------
(***************************************************************************)
(* What a batch may do to the accounts: FailedOnlyPays, NoNewRentPaying    *)
(* and CommitMatchesLoader of TransactionBatch, for any messages and any   *)
(* accounts.                                                               *)
(*                                                                         *)
(* The idea: between validation and the end of a transaction nothing that  *)
(* the validation looked at changes, so what was computed then may be used *)
(* later; and the transitions of rent states compose, from the database    *)
(* over the account loader and the accounts as loaded to what is stored.   *)
(***************************************************************************)
EXTENDS TransactionBatchProofs

OutcomeInv ==
  /\ pc = "idle" => results = <<>> /\ loaded_accounts = NoChanges
  /\ pc \in {"load", "execute"} \/ (pc = "done" /\ balances # <<>>) =>
       \A k \in Keys : do_load(k) = Committed[k]
  /\ \A k \in Keys \ {Incinerator} : transition_allowed(db[k], Committed[k])
  /\ pc = "execute" =>
       /\ validate_transaction_nonce_and_fee_payer(m)
       /\ rollback = RollbackAccounts(m)
       /\ pre \in [m.keys -> Account]
       /\ \A k \in m.keys \ {Incinerator} : transition_allowed(do_load(k), pre[k])

-----------------------------------------------------------------------------
\* Rent states

\* A balance and a length decide the rent state.
LEMMA RentState ==
  ASSUME NEW a, NEW b, a.lamports = b.lamports, a.size = b.size
  PROVE  get_account_rent_state(a) = get_account_rent_state(b)
BY DEF get_account_rent_state

\* Nothing changes where balance and length stay.
LEMMA SameRent ==
  ASSUME NEW a \in Account, NEW b \in Account, a.lamports = b.lamports, a.size = b.size
  PROVE  transition_allowed(a, b)
<1>1. a.lamports \in Nat
  BY AccountFields
<1> QED BY <1>1, RentState DEF transition_allowed

\* Transitions compose.
LEMMA RentTransitive ==
  ASSUME NEW a \in Account, NEW b \in Account, NEW c \in Account,
         transition_allowed(a, b), transition_allowed(b, c)
  PROVE  transition_allowed(a, c)
<1>1. a.lamports \in Nat /\ b.lamports \in Nat /\ c.lamports \in Nat
  BY AccountFields
<1> QED BY <1>1 DEF transition_allowed

\* An account without lamports may be shown as absent.
LEMMA ShownRent ==
  ASSUME NEW a, NEW b, transition_allowed(a, b)
  PROVE  transition_allowed(a, Shown(b))
<1>1. get_account_rent_state(DefaultAccount) = "Uninitialized"
  BY DEF get_account_rent_state, DefaultAccount
<1> QED BY <1>1 DEF transition_allowed, Shown

-----------------------------------------------------------------------------
\* What validation establishes

\* Marking an account as rent exempt leaves the rest.
LEMMA MarkedExempt ==
  ASSUME NEW account \in Account
  PROVE  LET new == update_rent_exempt_status_for_account(account)
         IN  /\ new \in Account
             /\ \E e \in BOOLEAN : new = [account EXCEPT !.rent_exempt_epoch = account.rent_exempt_epoch \/ e]
             /\ new.lamports = account.lamports /\ new.size = account.size
<1> DEFINE new == update_rent_exempt_status_for_account(account)
<1>0. account.rent_exempt_epoch \in BOOLEAN
  BY DEF Account
<1>1. CASE is_exempt(account.lamports, account.size)
  <2>1. new = [account EXCEPT !.rent_exempt_epoch = TRUE]
    BY <1>1 DEF update_rent_exempt_status_for_account
  <2>2. (account.rent_exempt_epoch \/ TRUE) = TRUE
    OBVIOUS
  <2>3. \E e \in BOOLEAN : new = [account EXCEPT !.rent_exempt_epoch = account.rent_exempt_epoch \/ e]
    <3> WITNESS TRUE \in BOOLEAN
    <3> QED BY <2>1, <2>2
  <2> QED BY <2>1, <2>3 DEF Account
<1>2. CASE ~is_exempt(account.lamports, account.size)
  <2>1. new = account
    BY <1>2 DEF update_rent_exempt_status_for_account
  <2>2. (account.rent_exempt_epoch \/ FALSE) = account.rent_exempt_epoch
    BY <1>0
  <2>3. account = [account EXCEPT !.rent_exempt_epoch = account.rent_exempt_epoch]
    BY DEF Account
  <2>4. \E e \in BOOLEAN : new = [account EXCEPT !.rent_exempt_epoch = account.rent_exempt_epoch \/ e]
    <3> WITNESS FALSE \in BOOLEAN
    <3> QED BY <2>1, <2>2, <2>3
  <2> QED BY <2>1, <2>4
<1> QED BY <1>1, <1>2

\* Accounts with the same fields are the same.
LEMMA SameFields ==
  ASSUME NEW a \in Account, NEW b \in Account, a.lamports = b.lamports, a.owner = b.owner,
         a.size = b.size, a.tag = b.tag, a.authority = b.authority,
         a.durable_nonce = b.durable_nonce, a.rent_exempt_epoch = b.rent_exempt_epoch
  PROVE  a = b
BY DEF Account

\* An account with another balance, nonce and rent epoch.
Adjusted(account, lamports, nonce, epoch) ==
  [account EXCEPT !.lamports = lamports, !.durable_nonce = nonce, !.rent_exempt_epoch = epoch]

\* The charged fee payer: the fee is gone, and perhaps it is marked as exempt.
LEMMA PayerCharged ==
  ASSUME TypeInv, NonceInv, m \in Messages, validate_transaction_nonce_and_fee_payer(m)
  PROVE  LET old == do_load(m.fee_payer)
             payer == Charged(loaded_fee_payer(m), m.fee)
         IN  /\ old \in Account /\ payer \in Account
             /\ old.lamports - m.fee \in Nat
             /\ \E e \in BOOLEAN : payer = Adjusted(old, old.lamports - m.fee, old.durable_nonce,
                                                    old.rent_exempt_epoch \/ e)
             /\ m.fee_payer # Incinerator => transition_allowed(old, payer)
<1> DEFINE old == do_load(m.fee_payer)
           marked == loaded_fee_payer(m)
           payer == Charged(marked, m.fee)
<1>1. m.fee_payer \in Keys /\ m.fee \in Nat
  BY MessageFacts
<1>2. old \in Account
  BY <1>1, DoLoadType
<1>3. payer \in Account
  BY ValidatedPayer
<1>4. marked = update_rent_exempt_status_for_account(old)
  BY DEF loaded_fee_payer
<1>5. check_rent_state_with_account(marked, payer, m.fee_payer)
  BY DEF validate_transaction_nonce_and_fee_payer, validate_fee_payer
<1> HIDE DEF old
<1>6. /\ marked \in Account /\ marked.lamports = old.lamports /\ marked.size = old.size
      /\ \E e \in BOOLEAN : marked = [old EXCEPT !.rent_exempt_epoch = old.rent_exempt_epoch \/ e]
  BY <1>2, <1>4, MarkedExempt
<1> HIDE DEF marked
<1>7. PICK e \in BOOLEAN : marked = [old EXCEPT !.rent_exempt_epoch = old.rent_exempt_epoch \/ e]
  BY <1>6
<1>8. /\ payer.lamports = old.lamports - m.fee /\ payer.owner = marked.owner
      /\ payer.size = marked.size /\ payer.tag = marked.tag /\ payer.authority = marked.authority
      /\ payer.durable_nonce = marked.durable_nonce
      /\ payer.rent_exempt_epoch = marked.rent_exempt_epoch
  BY <1>6 DEF Charged, Account
<1> HIDE DEF payer
<1>9. old.lamports - m.fee \in Nat
  BY <1>3, <1>8, AccountFields
<1>10. /\ marked.owner = old.owner /\ marked.tag = old.tag /\ marked.authority = old.authority
       /\ marked.durable_nonce = old.durable_nonce
       /\ marked.rent_exempt_epoch = (old.rent_exempt_epoch \/ e)
  BY <1>2, <1>7 DEF Account
<1>11. old.durable_nonce \in Nat /\ (old.rent_exempt_epoch \/ e) \in BOOLEAN
  BY <1>2, <1>7 DEF Account
<1> DEFINE epoch == old.rent_exempt_epoch \/ e
           new == Adjusted(old, old.lamports - m.fee, old.durable_nonce, epoch)
<1>a. epoch \in BOOLEAN /\ marked.rent_exempt_epoch = epoch
  BY <1>10, <1>11
<1> HIDE DEF epoch
<1>12. /\ new \in Account /\ new.lamports = old.lamports - m.fee
       /\ new.durable_nonce = old.durable_nonce
       /\ new.rent_exempt_epoch = epoch
       /\ new.owner = old.owner /\ new.size = old.size /\ new.tag = old.tag
       /\ new.authority = old.authority
  BY <1>2, <1>9, <1>11, <1>a DEF Adjusted, Account
<1> HIDE DEF new
<1>13. payer = new
  BY <1>3, <1>6, <1>8, <1>10, <1>12, <1>a, SameFields
<1>14. m.fee_payer # Incinerator => transition_allowed(old, payer)
  <2>1. transition_allowed(old, marked)
    BY <1>2, <1>6, SameRent
  <2> QED BY <1>2, <1>3, <1>5, <1>6, <2>1, RentTransitive DEF check_rent_state_with_account
<1> QED BY <1>2, <1>3, <1>9, <1>13, <1>14 DEF old, marked, payer, new, epoch

\* What a failed transaction leaves at k.
RolledBack(k) == IF k \in DOMAIN RollbackAccounts(m) THEN RollbackAccounts(m)[k] ELSE do_load(k)

\* The account at k, but for the fee, the nonce and perhaps the rent epoch.
Paid(k, e) ==
  Adjusted(do_load(k), IF k = m.fee_payer THEN do_load(k).lamports - m.fee ELSE do_load(k).lamports,
           IF k = m.nonce THEN slot ELSE do_load(k).durable_nonce, do_load(k).rent_exempt_epoch \/ e)

\* A failed transaction leaves its accounts as they were, but for the fee, the nonce
\* and perhaps the mark of the fee payer.
LEMMA RolledBackIsPaid ==
  ASSUME TypeInv, NonceInv, m \in Messages, validate_transaction_nonce_and_fee_payer(m),
         NEW k \in Keys
  PROVE  /\ \E e \in BOOLEAN :
              /\ e => k = m.fee_payer /\ m.nonce # NoKey
              /\ RolledBack(k) = Paid(k, e)
         /\ RolledBack(k) \in Account
         /\ RolledBack(k).lamports
              = IF k = m.fee_payer THEN do_load(k).lamports - m.fee ELSE do_load(k).lamports
         /\ k # Incinerator => transition_allowed(do_load(k), RolledBack(k))
<1> DEFINE old == do_load(k)
           payer == Charged(loaded_fee_payer(m), m.fee)
           R == RollbackAccounts(m)
           l == IF k = m.fee_payer THEN old.lamports - m.fee ELSE old.lamports
           n == IF k = m.nonce THEN slot ELSE old.durable_nonce
<1>1. old \in Account /\ slot \in Nat
  BY DoLoadType DEF TypeInv
<1>2. /\ k = m.fee_payer =>
           /\ payer \in Account /\ old.lamports - m.fee \in Nat
           /\ \E e \in BOOLEAN : payer = Adjusted(old, old.lamports - m.fee, old.durable_nonce,
                                                  old.rent_exempt_epoch \/ e)
           /\ m.fee_payer # Incinerator => transition_allowed(old, payer)
  BY PayerCharged
<1>3. NoKey \notin Keys /\ m.fee_payer \in Keys
  BY RulesAssumption, MessageFacts
<1>4. /\ m.nonce = NoKey =>
           R = [j \in {m.fee_payer} |-> [payer EXCEPT !.rent_exempt_epoch = do_load(j).rent_exempt_epoch]]
      /\ m.nonce # NoKey =>
           R = [j \in {m.fee_payer, m.nonce} |->
                  IF j = m.fee_payer /\ j = m.nonce THEN [payer EXCEPT !.durable_nonce = slot]
                  ELSE IF j = m.nonce THEN [do_load(j) EXCEPT !.durable_nonce = slot]
                  ELSE payer]
  BY DEF RollbackAccounts
<1> HIDE DEF payer, R
<1>5. RolledBack(k) =
        IF k = m.fee_payer /\ m.nonce = NoKey
          THEN [payer EXCEPT !.rent_exempt_epoch = old.rent_exempt_epoch]
        ELSE IF k = m.fee_payer /\ k = m.nonce THEN [payer EXCEPT !.durable_nonce = slot]
        ELSE IF k = m.nonce THEN [old EXCEPT !.durable_nonce = slot]
        ELSE IF k = m.fee_payer THEN payer ELSE old
  BY <1>3, <1>4 DEF RolledBack, R
<1> HIDE DEF old
<1>6. l \in Nat /\ n \in Nat /\ old.lamports \in Nat /\ old.durable_nonce \in Nat
      /\ old.rent_exempt_epoch \in BOOLEAN
  BY <1>1, <1>2 DEF Account
<1>7. \A e \in BOOLEAN : (old.rent_exempt_epoch \/ e) \in BOOLEAN
  OBVIOUS
<1>8. (old.rent_exempt_epoch \/ FALSE) = old.rent_exempt_epoch
  BY <1>6
<1>9. \E e \in BOOLEAN :
        /\ e => k = m.fee_payer /\ m.nonce # NoKey
        /\ RolledBack(k) = Adjusted(old, l, n, old.rent_exempt_epoch \/ e)
  <2>1. CASE k = m.fee_payer /\ m.nonce = NoKey
    <3>1. PICK f \in BOOLEAN : payer = Adjusted(old, l, n, old.rent_exempt_epoch \/ f)
      BY <1>2, <1>3, <2>1
    <3>2. RolledBack(k) = [payer EXCEPT !.rent_exempt_epoch = old.rent_exempt_epoch]
      BY <1>5, <2>1
    <3> HIDE DEF l, n
    <3>3. RolledBack(k) = Adjusted(old, l, n, old.rent_exempt_epoch)
      BY <1>1, <1>6, <3>1, <3>2 DEF Adjusted, Account
    <3>4. WITNESS FALSE \in BOOLEAN
    <3> QED BY <1>8, <3>3
  <2>2. CASE k = m.fee_payer /\ m.nonce # NoKey
    <3>1. PICK f \in BOOLEAN : payer = Adjusted(old, l, old.durable_nonce, old.rent_exempt_epoch \/ f)
      BY <1>2, <2>2
    <3>2. RolledBack(k) = IF k = m.nonce THEN [payer EXCEPT !.durable_nonce = slot] ELSE payer
      BY <1>5, <2>2
    <3>3. n = IF k = m.nonce THEN slot ELSE old.durable_nonce
      OBVIOUS
    <3> HIDE DEF l, n
    <3>4. RolledBack(k) = Adjusted(old, l, n, old.rent_exempt_epoch \/ f)
      BY <1>1, <1>6, <3>1, <3>2, <3>3 DEF Adjusted, Account
    <3> WITNESS f \in BOOLEAN
    <3> QED BY <2>2, <3>4
  <2>3. CASE k # m.fee_payer
    <3>1. RolledBack(k) = IF k = m.nonce THEN [old EXCEPT !.durable_nonce = slot] ELSE old
      BY <1>5, <2>3
    <3>2. l = old.lamports /\ n = IF k = m.nonce THEN slot ELSE old.durable_nonce
      BY <2>3
    <3> HIDE DEF l, n
    <3>3. RolledBack(k) = Adjusted(old, l, n, old.rent_exempt_epoch)
      BY <1>1, <1>6, <3>1, <3>2 DEF Adjusted, Account
    <3>4. WITNESS FALSE \in BOOLEAN
    <3> QED BY <1>8, <3>3
  <2> QED BY <2>1, <2>2, <2>3
<1> HIDE DEF l, n
<1>10. \E f \in BOOLEAN : RolledBack(k) = Adjusted(old, l, n, f)
  BY <1>7, <1>9
<1>11. RolledBack(k) \in Account /\ RolledBack(k).lamports = l /\ RolledBack(k).size = old.size
  BY <1>1, <1>6, <1>10 DEF Adjusted, Account
<1>12. ASSUME k # Incinerator
       PROVE  transition_allowed(old, RolledBack(k))
  <2>1. CASE k = m.fee_payer
    <3>1. payer \in Account /\ transition_allowed(old, payer)
      BY <1>2, <1>12, <2>1
    <3>2. \E f \in BOOLEAN : payer = Adjusted(old, l, old.durable_nonce, f)
      BY <1>2, <1>7, <2>1 DEF l
    <3>3. payer.lamports = l /\ payer.size = old.size
      BY <1>1, <1>6, <3>2 DEF Adjusted, Account
    <3> QED BY <1>1, <1>11, <3>1, <3>3, SameRent, RentTransitive
  <2>2. CASE k # m.fee_payer
    BY <1>1, <1>11, <2>2, SameRent DEF l
  <2> QED BY <2>1, <2>2
<1> QED BY <1>9, <1>11, <1>12 DEF Paid, old, l, n
-----------------------------------------------------------------------------
\* The steps

\* The end of a transaction keeps the invariant, if what it stores is a permitted
\* transition of rent states.
LEMMA ConcludeOutcome ==
  ASSUME IInv, OutcomeInv, m \in Messages, pc \in {"load", "execute"},
         NEW r \in ResultRecord, Conclude(r), ~was_processed(r) => DOMAIN r.changes = {},
         \A k \in DOMAIN r.changes \ {Incinerator} : transition_allowed(do_load(k), r.changes[k])
  PROVE  OutcomeInv'
<1> DEFINE aborted == config.all_or_nothing /\ ~was_processed(r)
<1>1. /\ loaded_accounts' = Insert(m.keys, r.changes) /\ db' = db
      /\ aborted => pc' = "done" /\ balances' = <<>>
      /\ ~aborted => results' = Append(results, r)
      /\ pc' \in {"load", "done"}
  BY DEF Conclude, bank
<1>2. /\ TypeInv /\ r.changes \in Changes /\ m.keys \in SUBSET Keys
      /\ \A k \in Keys : do_load(k) = Committed[k]
      /\ \A k \in Keys \ {Incinerator} : transition_allowed(db[k], Committed[k])
  BY MessageFacts DEF ResultRecord, IInv, OutcomeInv
<1>3. CASE aborted
  <2>1. \A k \in Keys : Committed[k]' = Shown(db[k])
    BY <1>1, <1>2, <1>3, AbortedResults, CancelledResults
  <2>2. ASSUME NEW k \in Keys
        PROVE  transition_allowed(db[k], Shown(db[k]))
    <3>1. db[k] \in Account
      BY <1>2 DEF TypeInv
    <3> QED BY <3>1, SameRent, ShownRent
  <2>3. \A k \in Keys : transition_allowed(db[k], Committed[k])'
    BY <1>1, <2>1, <2>2
  <2> QED BY <1>1, <1>3, <2>3 DEF OutcomeInv
<1>4. CASE ~aborted
  <2>1. ASSUME NEW k \in Keys
        PROVE  /\ Committed[k]' = IF k \in DOMAIN r.changes THEN Shown(r.changes[k]) ELSE Committed[k]
               /\ do_load(k)' = IF k \in DOMAIN r.changes THEN Shown(r.changes[k]) ELSE do_load(k)
    BY <1>1, <1>2, <1>4, CommittedAppend, DoLoadAfterInsert
  <2>2. \A k \in Keys : (do_load(k) = Committed[k])'
    BY <1>2, <2>1
  <2>3. ASSUME NEW k \in Keys \ {Incinerator}
        PROVE  transition_allowed(db[k], Committed[k])'
    <3>1. CASE k \in DOMAIN r.changes
      <4>1. db[k] \in Account /\ Committed[k] \in Account /\ r.changes[k] \in Account
        BY <1>2, <3>1, CommittedType, ChangesFacts DEF TypeInv
      <4>2. transition_allowed(db[k], Committed[k]) /\ transition_allowed(Committed[k], r.changes[k])
        BY <1>2, <3>1
      <4>3. transition_allowed(db[k], Shown(r.changes[k]))
        BY <4>1, <4>2, RentTransitive, ShownRent
      <4> QED BY <1>1, <2>1, <3>1, <4>3
    <3>2. CASE k \notin DOMAIN r.changes
      BY <1>1, <1>2, <2>1, <3>2
    <3> QED BY <3>1, <3>2
  <2> QED BY <1>1, <2>2, <2>3 DEF OutcomeInv
<1> QED BY <1>3, <1>4

\* Steps that leave the accounts and the results alone.
LEMMA OutcomeFrame ==
  ASSUME db' = db, loaded_accounts' = loaded_accounts, results' = results
  PROVE  \A k \in Keys : do_load(k)' = do_load(k) /\ Committed[k]' = Committed[k]
<1>1. ASSUME NEW k \in Keys
      PROVE  Writers(k)' = Writers(k)
  BY DEF Writers
<1> QED BY <1>1 DEF do_load, Committed

\* What the validation of a message looks at.
LEMMA ValidationFrame ==
  ASSUME slot' = slot, db' = db, loaded_accounts' = loaded_accounts, m' = m
  PROVE  /\ RollbackAccounts(m)' = RollbackAccounts(m)
         /\ validate_transaction_nonce_and_fee_payer(m)' = validate_transaction_nonce_and_fee_payer(m)
<1>1. \A k : do_load(k)' = do_load(k)
  BY DEF do_load
<1>2. loaded_fee_payer(m)' = loaded_fee_payer(m)
  BY <1>1 DEF loaded_fee_payer
<1>3. RollbackAccounts(m)' = RollbackAccounts(m)
  BY <1>1, <1>2 DEF RollbackAccounts
<1>4. validate_transaction_nonce(m)' = validate_transaction_nonce(m)
  BY <1>1 DEF validate_transaction_nonce
<1>5. validate_transaction_nonce_and_fee_payer(m)' = validate_transaction_nonce_and_fee_payer(m)
  BY <1>2, <1>4 DEF validate_transaction_nonce_and_fee_payer
<1> QED BY <1>3, <1>5

\* The invariant holds at first: nothing has been loaded.
LEMMA OutcomeInit ==
  Init => OutcomeInv
<1> SUFFICES ASSUME Init PROVE OutcomeInv
  OBVIOUS
<1>1. pc = "idle" /\ results = <<>> /\ loaded_accounts = NoChanges /\ db = Genesis
  BY DEF Init
<1>2. ASSUME NEW k \in Keys
      PROVE  transition_allowed(db[k], Committed[k])
  <2>1. Writers(k) = {}
    BY <1>1 DEF Writers
  <2>2. Committed[k] = Shown(db[k]) /\ db[k] \in Account
    BY <1>1, <2>1, BatchAssumption DEF Committed, Shown
  <2> QED BY <2>2, SameRent, ShownRent
<1> QED BY <1>1, <1>2 DEF OutcomeInv

\* The accounts as loaded are a permitted transition from what the loader shows.
LEMMA LoadedOutcome ==
  ASSUME IInv, OutcomeInv, Loaded
  PROVE  OutcomeInv'
<1> DEFINE payer == Charged(loaded_fee_payer(m), m.fee)
<1>1. /\ slot' = slot /\ db' = db /\ loaded_accounts' = loaded_accounts /\ results' = results
      /\ pc = "load" /\ pc' = "execute" /\ m' = m
      /\ pre' = [k \in m.keys |-> IF k = m.fee_payer THEN payer ELSE load_transaction_account(m, k)]
      /\ rollback' = RollbackAccounts(m)
      /\ validate_transaction_nonce_and_fee_payer(m)
  BY DEF Loaded, bank
<1>2. TypeInv /\ NonceInv /\ m \in Messages /\ m.keys \subseteq Keys
  BY MessageFacts DEF IInv, TypeInv, Loaded
<1>3. payer \in Account /\ (m.fee_payer # Incinerator => transition_allowed(do_load(m.fee_payer), payer))
  BY <1>1, <1>2, PayerCharged
<1> HIDE DEF payer
<1>4. ASSUME NEW k \in m.keys
      PROVE  /\ load_transaction_account(m, k) \in Account
             /\ transition_allowed(do_load(k), load_transaction_account(m, k))
  <2> DEFINE account == do_load(k)
             fresh == [DefaultAccount EXCEPT !.rent_exempt_epoch = TRUE]
             updated == update_rent_exempt_status_for_account(account)
  <2>1. account \in Account
    BY <1>2, DoLoadType
  <2>2. /\ fresh \in Account /\ get_account_rent_state(fresh) = "Uninitialized"
    BY DefaultAccountType DEF Account, DefaultAccount, get_account_rent_state
  <2>3. load_transaction_account(m, k) \in {fresh, updated, account}
    BY DEF load_transaction_account
  <2> HIDE DEF account, fresh
  <2>4. updated \in Account /\ updated.lamports = account.lamports /\ updated.size = account.size
    BY <2>1, MarkedExempt
  <2> HIDE DEF updated
  <2>5. transition_allowed(account, fresh)
    BY <2>2 DEF transition_allowed
  <2>6. transition_allowed(account, updated) /\ transition_allowed(account, account)
    BY <2>1, <2>4, SameRent
  <2> QED BY <2>1, <2>2, <2>3, <2>4, <2>5, <2>6 DEF account
<1>5. /\ pre' \in [m.keys -> Account]
      /\ \A k \in m.keys \ {Incinerator} : transition_allowed(do_load(k), pre'[k])
  BY <1>1, <1>3, <1>4
<1>6. \A k \in Keys : do_load(k)' = do_load(k) /\ Committed[k]' = Committed[k]
  BY <1>1, OutcomeFrame
<1>7. rollback' = RollbackAccounts(m)' /\ validate_transaction_nonce_and_fee_payer(m)'
  BY <1>1, ValidationFrame
<1>8. /\ \A k \in Keys : do_load(k)' = Committed[k]'
      /\ \A k \in Keys \ {Incinerator} : transition_allowed(db[k], Committed[k])'
  BY <1>1, <1>6 DEF OutcomeInv
<1>9. /\ pre' \in [m'.keys -> Account]
      /\ \A k \in m'.keys \ {Incinerator} : transition_allowed(do_load(k), pre[k])'
  BY <1>1, <1>2, <1>5, <1>6
<1> QED BY <1>1, <1>7, <1>8, <1>9 DEF OutcomeInv
\* A transaction that is not processed stores nothing.
LEMMA ErrOutcome ==
  ASSUME IInv, OutcomeInv, m \in Messages, pc \in {"load", "execute"},
         Conclude(Result(m, "Err", NoChanges))
  PROVE  OutcomeInv'
<1> DEFINE r == Result(m, "Err", NoChanges)
<1>1. r \in ResultRecord /\ r.changes = NoChanges /\ Conclude(r)
  BY ResultType, NoChangesType
<1> HIDE DEF r
<1> QED BY <1>1, NoChangesType, ConcludeOutcome

\* A transaction that fails, or only pays its fees, stores its rollback accounts.
LEMMA FailedOutcome ==
  ASSUME IInv, OutcomeInv, m \in Messages, pc \in {"load", "execute"},
         validate_transaction_nonce_and_fee_payer(m), NEW status \in {"Failed", "FeesOnly"},
         Conclude(Result(m, status, RollbackAccounts(m)))
  PROVE  OutcomeInv'
<1> DEFINE R == RollbackAccounts(m)
           r == Result(m, status, R)
<1>1. TypeInv /\ NonceInv /\ R \in Changes /\ DOMAIN R \subseteq Keys
  BY ValidatedRollback, ChangesFacts DEF IInv
<1>2. ASSUME NEW k \in DOMAIN R \ {Incinerator}
      PROVE  transition_allowed(do_load(k), R[k])
  BY <1>1, RolledBackIsPaid DEF RolledBack
<1> HIDE DEF R
<1>3. r \in ResultRecord /\ r.changes = R /\ was_processed(r)
  BY <1>1, ResultType
<1>4. Conclude(r)
  BY DEF R
<1> HIDE DEF r
<1> QED BY <1>2, <1>3, <1>4, ConcludeOutcome

\* What a successful transaction stores has passed verify_changes.
LEMMA SuccessOutcome ==
  ASSUME IInv, OutcomeInv, pc = "execute", verify_changes(m, pre, tx.accounts),
         Conclude(Result(m, "Ok", update_accounts_for_successful_tx(m, tx.accounts)))
  PROVE  OutcomeInv'
<1> DEFINE changes == update_accounts_for_successful_tx(m, tx.accounts)
           r == Result(m, "Ok", changes)
<1>1. /\ TypeInv /\ m \in Messages /\ tx.accounts \in [m.keys -> Account]
      /\ pre \in [m.keys -> Account]
      /\ \A k \in m.keys \ {Incinerator} : transition_allowed(do_load(k), pre[k])
  BY DEF IInv, TypeInv, OutcomeInv, Execution
<1>2. m.writable \subseteq m.keys /\ m.keys \subseteq Keys
  BY <1>1, MessageFacts
<1>3. /\ DOMAIN changes \subseteq m.writable
      /\ \A k \in DOMAIN changes : changes[k] = tx.accounts[k]
      /\ changes = [k \in DOMAIN changes |-> tx.accounts[k]]
  BY DEF update_accounts_for_successful_tx
<1>4. Conclude(r)
  OBVIOUS
<1> HIDE DEF changes
<1>5. changes \in [DOMAIN changes -> Account] /\ DOMAIN changes \subseteq Keys
  BY <1>1, <1>2, <1>3
<1>6. changes \in Changes
  BY <1>5, ChangesIntro
<1>7. r \in ResultRecord /\ r.changes = changes /\ was_processed(r)
  BY <1>1, <1>6, ResultType
<1>8. ASSUME NEW k \in DOMAIN changes \ {Incinerator}
      PROVE  transition_allowed(do_load(k), changes[k])
  <2>1. k \in m.keys /\ do_load(k) \in Account /\ pre[k] \in Account /\ tx.accounts[k] \in Account
    BY <1>1, <1>2, <1>3, DoLoadType
  <2>2. transition_allowed(pre[k], tx.accounts[k])
    BY <1>3 DEF verify_changes, check_rent_state_with_account
  <2> QED BY <1>1, <1>3, <2>1, <2>2, RentTransitive
<1> HIDE DEF r
<1> QED BY <1>1, <1>4, <1>7, <1>8, ConcludeOutcome

\* The end of a batch, whatever is stored: all is as in the database again.
LEMMA EndBatchOutcome ==
  ASSUME EndBatch, db' \in [Keys -> Account]
  PROVE  OutcomeInv'
<1>1. results' = <<>> /\ loaded_accounts' = NoChanges /\ pc' = "idle"
  BY DEF EndBatch
<1>2. \A k \in Keys : Committed[k]' = Shown(db'[k])
  BY <1>1, NoResults
<1>3. \A k \in Keys : transition_allowed(db'[k], Shown(db'[k]))
  BY SameRent, ShownRent
<1>4. \A k \in Keys : transition_allowed(db[k], Committed[k])'
  BY <1>2, <1>3
<1> QED BY <1>1, <1>4 DEF OutcomeInv

\* Every step keeps the invariant.
LEMMA OutcomeStep ==
  IInv /\ OutcomeInv /\ [Next]_vars => OutcomeInv'
<1> SUFFICES ASSUME IInv, OutcomeInv, [Next]_vars PROVE OutcomeInv'
  OBVIOUS
<1>0. TypeInv /\ (pc \in {"load", "execute"} => m \in Messages) /\ db \in [Keys -> Account]
  BY DEF IInv, TypeInv
<1>1. CASE BeginBatch
  <2>1. /\ slot' = slot /\ db' = db /\ loaded_accounts' = loaded_accounts /\ results' = results
        /\ pc = "idle" /\ pc' = "load"
    BY <1>1 DEF BeginBatch, bank
  <2>2. \A k \in Keys : do_load(k)' = do_load(k) /\ Committed[k]' = Committed[k]
    BY <2>1, OutcomeFrame
  <2>3. loaded_accounts = NoChanges /\ results = <<>>
    BY <2>1 DEF OutcomeInv
  <2>4. ASSUME NEW k \in Keys
        PROVE  do_load(k) = Shown(db[k]) /\ Committed[k] = Shown(db[k])
    <3>1. Writers(k) = {}
      BY <2>3 DEF Writers
    <3> QED BY <2>3, <3>1, NoChangesType DEF do_load, Committed, Shown
  <2> QED BY <2>1, <2>2, <2>4 DEF OutcomeInv
<1>2. CASE NotLoaded
  BY <1>0, <1>2, ErrOutcome DEF NotLoaded
<1>3. CASE FeesOnly
  BY <1>0, <1>3, ErrOutcome, FailedOutcome DEF FeesOnly
<1>4. CASE Loaded
  BY <1>4, LoadedOutcome
<1>5. CASE HitMaxLimit
  <2>1. pc' = "done" /\ balances' = <<>> /\ results' = <<>> /\ db' = db
    BY <1>5 DEF HitMaxLimit, bank
  <2>2. \A k \in Keys : Committed[k]' = Shown(db[k])
    BY <2>1, NoResults
  <2>3. \A k \in Keys : transition_allowed(db[k], Shown(db[k]))
    BY <1>0, SameRent, ShownRent
  <2>4. \A k \in Keys : transition_allowed(db[k], Committed[k])'
    BY <2>1, <2>2, <2>3
  <2> QED BY <2>1, <2>4 DEF OutcomeInv
<1>6. CASE ExecuteInstruction \/ UNCHANGED vars
  <2>1. /\ slot' = slot /\ db' = db /\ loaded_accounts' = loaded_accounts /\ results' = results
        /\ pc' = pc /\ m' = m /\ balances' = balances /\ pre' = pre /\ rollback' = rollback
    BY <1>6 DEF ExecuteInstruction, bank, vars
  <2>2. \A k \in Keys : do_load(k)' = do_load(k) /\ Committed[k]' = Committed[k]
    BY <2>1, OutcomeFrame
  <2>3. /\ RollbackAccounts(m)' = RollbackAccounts(m)
        /\ validate_transaction_nonce_and_fee_payer(m)' = validate_transaction_nonce_and_fee_payer(m)
    BY <2>1, ValidationFrame
  <2>4. pc = "execute" => m.keys \subseteq Keys
    BY <1>0, MessageFacts
  <2>5. pc = "execute" =>
          \A k \in m.keys \ {Incinerator} : transition_allowed(do_load(k), pre[k])'
    BY <2>1, <2>2, <2>4 DEF OutcomeInv
  <2>6. \A k \in Keys \ {Incinerator} : transition_allowed(db[k], Committed[k])'
    BY <2>1, <2>2 DEF OutcomeInv
  <2> QED BY <2>1, <2>2, <2>3, <2>5, <2>6 DEF OutcomeInv
<1>7. CASE FinishTransaction
  <2>1. /\ pc = "execute" /\ m \in Messages
        /\ rollback = RollbackAccounts(m) /\ validate_transaction_nonce_and_fee_payer(m)
    BY <1>0, <1>7 DEF FinishTransaction, OutcomeInv
  <2>2. \/ /\ verify_changes(m, pre, tx.accounts)
           /\ Conclude(Result(m, "Ok", update_accounts_for_successful_tx(m, tx.accounts)))
        \/ Conclude(Result(m, "Err", NoChanges))
        \/ Conclude(Result(m, "Failed", RollbackAccounts(m)))
    BY <1>7, <2>1 DEF FinishTransaction
  <2> QED BY <2>1, <2>2, SuccessOutcome, ErrOutcome, FailedOutcome
<1>8. CASE Commit
  <2>1. EndBatch /\ db' = Committed
    BY <1>8 DEF Commit
  <2>2. Committed = [k \in Keys |-> Committed[k]]
    BY DEF Committed
  <2>3. \A k \in Keys : Committed[k] \in Account
    BY <1>0, CommittedType
  <2>4. db' \in [Keys -> Account]
    BY <2>1, <2>2, <2>3
  <2> QED BY <2>1, <2>4, EndBatchOutcome
<1>9. CASE Abandon
  BY <1>0, <1>9, EndBatchOutcome DEF Abandon
<1>10. CASE NewBlock
  <2>1. /\ db' = db /\ loaded_accounts' = loaded_accounts /\ results' = results /\ pc = "idle"
        /\ pc' = "idle"
    BY <1>10 DEF NewBlock
  <2>2. \A k \in Keys : Committed[k]' = Committed[k]
    BY <2>1, OutcomeFrame
  <2>3. \A k \in Keys \ {Incinerator} : transition_allowed(db[k], Committed[k])'
    BY <2>1, <2>2 DEF OutcomeInv
  <2> QED BY <2>1, <2>3 DEF OutcomeInv
<1> QED
  BY <1>1, <1>2, <1>3, <1>4, <1>5, <1>6, <1>7, <1>8, <1>9, <1>10 DEF Next

\* Both invariants always hold.
LEMMA OutcomeInvariant ==
  Spec => [](IInv /\ OutcomeInv)
BY InitInv, Inductive, OutcomeInit, OutcomeStep, PTL DEF Spec

-----------------------------------------------------------------------------
\* The theorems

\* When a batch is over, the account loader shows what the bank stores, unless the
\* batch was given up (update_accounts_for_successful_tx, update_accounts_for_failed_tx).
THEOREM LoaderShowsWhatIsStored ==
  Spec => []CommitMatchesLoader
<1>1. OutcomeInv => CommitMatchesLoader
  BY DEF OutcomeInv, CommitMatchesLoader
<1> QED BY <1>1, OutcomeInvariant, PTL

\* No sequence of batches makes an account rent paying that was not, or a rent paying one
\* larger or richer, whatever its transactions do (validate_fee_payer, verify_changes,
\* RollbackAccounts::new).
THEOREM RentPayingNeverBegins ==
  Spec => NoNewRentPaying
<1> DEFINE Kept == \A k \in Keys \ {Incinerator} :
                     get_account_rent_state(db'[k]) = "RentPaying" =>
                       /\ get_account_rent_state(db[k]) = "RentPaying"
                       /\ db'[k].size = db[k].size
                       /\ db'[k].lamports <= db[k].lamports
<1>1. OutcomeInv /\ [Next]_vars => [Kept]_db
  <2> SUFFICES ASSUME OutcomeInv, [Next]_vars, db' # db PROVE Kept
    OBVIOUS
  <2>1. Commit
    BY DEF Next, BeginBatch, NotLoaded, FeesOnly, Loaded, HitMaxLimit, ExecuteInstruction,
           FinishTransaction, Abandon, NewBlock, Conclude, bank, vars
  <2>2. db' = Committed
    BY <2>1 DEF Commit
  <2> QED BY <2>2 DEF OutcomeInv, transition_allowed
<1> QED BY <1>1, OutcomeInvariant, PTL DEF Spec, NoNewRentPaying
\* What FailedOnlyPays says of the account at k.
OnlyPays(k) ==
  \E e \in BOOLEAN :
    /\ e => k = m.fee_payer /\ m.nonce # NoKey
    /\ do_load(k)' = IF do_load(k)'.lamports = 0 THEN DefaultAccount ELSE
         [do_load(k) EXCEPT !.lamports = IF k = m.fee_payer THEN @ - m.fee ELSE @,
                            !.durable_nonce = IF k = m.nonce THEN slot ELSE @,
                            !.rent_exempt_epoch = @ \/ e]
    /\ do_load(k)'.lamports = do_load(k).lamports - (IF k = m.fee_payer THEN m.fee ELSE 0)

\* Storing the rollback accounts takes the fee, advances the nonce and does no more.
LEMMA FailedPays ==
  ASSUME IInv, m \in Messages, validate_transaction_nonce_and_fee_payer(m),
         NEW status \in {"Failed", "FeesOnly"},
         Conclude(Result(m, status, RollbackAccounts(m))), NEW k \in Keys
  PROVE  OnlyPays(k)
<1> DEFINE R == RollbackAccounts(m)
           old == do_load(k)
<1>1. TypeInv /\ NonceInv /\ R \in Changes /\ m.keys \in SUBSET Keys /\ old \in Account /\ m.fee \in Nat
  BY ValidatedRollback, DoLoadType, MessageFacts DEF IInv
<1>2. loaded_accounts' = Insert(m.keys, R) /\ db' = db
  BY DEF Conclude, Result, bank
<1>3. do_load(k)' = IF k \in DOMAIN R THEN Shown(R[k]) ELSE old
  BY <1>1, <1>2, DoLoadAfterInsert
<1>4. do_load(k)' = Shown(RolledBack(k))
  BY <1>1, <1>3, DoLoadType DEF RolledBack
<1>5. PICK e \in BOOLEAN : (e => k = m.fee_payer /\ m.nonce # NoKey) /\ RolledBack(k) = Paid(k, e)
  BY <1>1, RolledBackIsPaid
<1>6. RolledBack(k).lamports = IF k = m.fee_payer THEN old.lamports - m.fee ELSE old.lamports
  BY <1>1, RolledBackIsPaid
<1>7. Shown(RolledBack(k)).lamports = RolledBack(k).lamports
  BY DEF Shown, DefaultAccount
<1>8. do_load(k)' = IF do_load(k)'.lamports = 0 THEN DefaultAccount ELSE Paid(k, e)
  BY <1>4, <1>5, <1>7 DEF Shown
<1>9. Paid(k, e) =
        [do_load(k) EXCEPT !.lamports = IF k = m.fee_payer THEN @ - m.fee ELSE @,
                           !.durable_nonce = IF k = m.nonce THEN slot ELSE @,
                           !.rent_exempt_epoch = @ \/ e]
  BY DEF Paid, Adjusted
<1>10. do_load(k)'.lamports = do_load(k).lamports - (IF k = m.fee_payer THEN m.fee ELSE 0)
  BY <1>1, <1>4, <1>6, <1>7, AccountFields
<1> QED BY <1>5, <1>8, <1>9, <1>10 DEF OnlyPays

\* The last result after the end of a transaction is its own.
LEMMA LastResult ==
  ASSUME TypeInv, NEW r \in ResultRecord, Conclude(r), ~was_processed(r) => DOMAIN r.changes = {}
  PROVE  results'[Len(results')] = r
<1>1. CASE config.all_or_nothing /\ ~was_processed(r)
  BY <1>1, AbortedResults
<1>2. CASE ~(config.all_or_nothing /\ ~was_processed(r))
  <2>1. results' = Append(results, r)
    BY <1>2 DEF Conclude
  <2> QED BY <2>1 DEF TypeInv
<1> QED BY <1>1, <1>2

\* A transaction that fails, or is not executed, changes two accounts: its fee payer
\* loses the fee, whatever its instructions did before one of them failed, and its nonce
\* account gets the nonce of the block (RollbackAccounts::new).
THEOREM FailuresOnlyPay ==
  Spec => FailedOnlyPays
<1> DEFINE Failure == /\ Len(results') = Len(results) + 1
                      /\ results'[Len(results')].status \in {"Failed", "FeesOnly"}
           Pays == Failure => \A k \in Keys : OnlyPays(k)
<1>1. IInv /\ OutcomeInv /\ [Next]_vars => [Pays]_results
  <2> SUFFICES ASSUME IInv, OutcomeInv, [Next]_vars, results' # results, Failure
               PROVE  \A k \in Keys : OnlyPays(k)
    OBVIOUS
  <2>0. /\ TypeInv /\ Len(results) \in Nat /\ (pc \in {"load", "execute"} => m \in Messages)
    BY DEF IInv, TypeInv
  <2>1. results' # <<>>
    BY <2>0
  <2>2. NotLoaded \/ FeesOnly \/ FinishTransaction
    BY <2>1 DEF Next, BeginBatch, Loaded, HitMaxLimit, ExecuteInstruction, Commit, Abandon,
                EndBatch, NewBlock, bank, vars
  <2>3. m \in Messages
    BY <2>0, <2>2 DEF NotLoaded, FeesOnly, FinishTransaction
  <2>4. ASSUME NEW changes \in Changes, NEW status \in {"Ok", "Err"},
               Conclude(Result(m, status, changes)), status = "Err" => changes = NoChanges
        PROVE  FALSE
    <3> DEFINE r == Result(m, status, changes)
    <3>1. /\ r \in ResultRecord /\ r.changes = changes
          /\ was_processed(r) <=> status \in {"Ok", "Failed", "FeesOnly"}
      BY <2>3, ResultType, SMTT(40)
    <3>2. r.status = status
      BY DEF Result
    <3>3. Conclude(r)
      BY <2>4
    <3> HIDE DEF r
    <3>4. results'[Len(results')] = r
      BY <2>0, <2>4, <3>1, <3>3, LastResult, NoChangesType
    <3> QED BY <2>4, <3>2, <3>4
  <2>5. \/ \E status \in {"Failed", "FeesOnly"} :
             /\ Conclude(Result(m, status, RollbackAccounts(m)))
             /\ validate_transaction_nonce_and_fee_payer(m)
        \/ Conclude(Result(m, "Err", NoChanges))
        \/ /\ pc = "execute"
           /\ Conclude(Result(m, "Ok", update_accounts_for_successful_tx(m, tx.accounts)))
    BY <2>2 DEF NotLoaded, FeesOnly, FinishTransaction, OutcomeInv
  <2>6. ~Conclude(Result(m, "Err", NoChanges))
    BY <2>4, NoChangesType
  <2>7. ASSUME pc = "execute"
        PROVE  update_accounts_for_successful_tx(m, tx.accounts) \in Changes
    <3> DEFINE changes == update_accounts_for_successful_tx(m, tx.accounts)
    <3>1. m.writable \subseteq m.keys /\ m.keys \subseteq Keys /\ tx.accounts \in [m.keys -> Account]
      BY <2>0, <2>3, <2>7, MessageFacts DEF TypeInv, Execution
    <3>2. /\ DOMAIN changes \subseteq m.writable
          /\ changes = [k \in DOMAIN changes |-> tx.accounts[k]]
      BY DEF update_accounts_for_successful_tx
    <3> HIDE DEF changes
    <3>3. changes \in [DOMAIN changes -> Account] /\ DOMAIN changes \subseteq Keys
      BY <3>1, <3>2
    <3>4. changes \in Changes
      BY <3>3, ChangesIntro
    <3> QED BY <3>4 DEF changes
  <2>8. PICK status \in {"Failed", "FeesOnly"} :
          /\ Conclude(Result(m, status, RollbackAccounts(m)))
          /\ validate_transaction_nonce_and_fee_payer(m)
    BY <2>4, <2>5, <2>6, <2>7
  <2> QED BY <2>3, <2>8, FailedPays
<1>2. FailedOnlyPays <=> [][Pays]_results
  BY PTL DEF FailedOnlyPays, OnlyPays
<1> QED BY <1>1, <1>2, OutcomeInvariant, PTL DEF Spec
=============================================================================
