--------------------------- MODULE AccountRules ---------------------------
(***************************************************************************)
(* The accounts of a transaction and the rules under which an instruction  *)
(* may change them (transaction-context/src/instruction_accounts.rs and    *)
(* transaction_accounts.rs), with the rent states of svm/src/              *)
(* rent_calculator.rs.                                                     *)
(*                                                                         *)
(* Account data is abstracted to its length and to what the durable nonce  *)
(* code can tell apart in it:                                              *)
(*   "zeroed"         all bytes zero, Versions::Legacy(Uninitialized) if   *)
(*                    long enough to hold a nonce state                    *)
(*   "legacy"         Versions::Legacy(Initialized)                        *)
(*   "uninitialized"  Versions::Current(Uninitialized)                     *)
(*   "initialized"    Versions::Current(Initialized)                       *)
(*   "other"          anything that does not parse as a nonce state        *)
(*                                                                         *)
(* A transaction in execution is a record x with the accounts, the two     *)
(* running totals the TransactionContext keeps, and ok, which is FALSE     *)
(* once a call has returned an error: every operation leaves a failed      *)
(* transaction as it is, as the `?` of the code does.                      *)
(***************************************************************************)
EXTENDS Integers, FiniteSets

CONSTANTS
  Keys,            \* the addresses of accounts
  NoKey,           \* "no address"
  System,          \* the address of the system program
  Incinerator,     \* the address of the incinerator
  Sizes,           \* the data lengths an account may have
  NonceSize,       \* nonce::State::size()
  MinimumBalance,  \* Rent::minimum_balance, a function of the data length
  MaxDataLength,   \* MAX_ACCOUNT_DATA_LEN, MAX_PERMITTED_DATA_LENGTH
  MaxGrowth,       \* MAX_ACCOUNT_DATA_GROWTH_PER_TRANSACTION
  U64Max           \* the largest balance

ASSUME RulesAssumption ==
  /\ NoKey \notin Keys
  /\ System \in Keys
  /\ Sizes \subseteq Nat
  /\ NonceSize \in Sizes \ {0}
  /\ 0 \in Sizes
  /\ MinimumBalance \in [Sizes -> Nat \ {0}]
  /\ MaxDataLength \in Nat
  /\ MaxGrowth \in Nat
  /\ U64Max \in Nat

Tag == {"zeroed", "legacy", "uninitialized", "initialized", "other"}

Account ==
  [lamports : Nat, owner : Keys, size : Sizes, tag : Tag,
   authority : Keys \cup {NoKey}, durable_nonce : Nat, rent_exempt_epoch : BOOLEAN]

\* AccountSharedData::default(): what an address without an account reads as.
\* rent_exempt_epoch stands for rent_epoch = RENT_EXEMPT_RENT_EPOCH.
DefaultAccount ==
  [lamports |-> 0, owner |-> System, size |-> 0, tag |-> "zeroed",
   authority |-> NoKey, durable_nonce |-> 0, rent_exempt_epoch |-> FALSE]

-----------------------------------------------------------------------------
\* Rent

is_exempt(lamports, size) == lamports >= MinimumBalance[size]

get_account_rent_state(account) ==
  IF account.lamports = 0 THEN "Uninitialized"
  ELSE IF is_exempt(account.lamports, account.size) THEN "RentExempt" ELSE "RentPaying"

transition_allowed(pre, post) ==
  \/ get_account_rent_state(post) # "RentPaying"
  \/ /\ get_account_rent_state(pre) = "RentPaying"
     /\ post.size = pre.size
     /\ post.lamports <= pre.lamports

check_rent_state_with_account(pre, post, key) ==
  key = Incinerator \/ transition_allowed(pre, post)

update_rent_exempt_status_for_account(account) ==
  IF is_exempt(account.lamports, account.size)
  THEN [account EXCEPT !.rent_exempt_epoch = TRUE]
  ELSE account

-----------------------------------------------------------------------------
\* BorrowedInstructionAccount.  c is the instruction: the program that runs
\* and the privileges of its accounts.

Instruction == [program : Keys, signers : SUBSET Keys, writable : SUBSET Keys]

Start(accounts) ==
  [ok |-> TRUE, accounts |-> accounts, resize_delta |-> 0, lamports_delta |-> 0]

\* A check: the call that makes it returns an error if it does not hold.
Require(x, condition) == [x EXCEPT !.ok = x.ok /\ condition]

\* A change of one account, with add_lamports_delta and
\* update_accounts_resize_delta.
Store(x, k, account) ==
  IF x.ok
  THEN [ok             |-> TRUE,
        accounts       |-> [x.accounts EXCEPT ![k] = account],
        lamports_delta |-> x.lamports_delta + account.lamports - x.accounts[k].lamports,
        resize_delta   |-> x.resize_delta + account.size - x.accounts[k].size]
  ELSE x

is_owned_by_current_program(c, x, k) == x.accounts[k].owner = c.program

can_data_be_changed(c, x, k) ==
  k \in c.writable /\ is_owned_by_current_program(c, x, k)

can_data_be_resized(c, x, k, size) ==
  /\ size <= MaxDataLength
  /\ x.resize_delta + size - x.accounts[k].size <= MaxGrowth
  /\ can_data_be_changed(c, x, k)

set_lamports(c, x, k, lamports) ==
  LET account == x.accounts[k]
  IN  Store(Require(x, /\ is_owned_by_current_program(c, x, k) \/ lamports >= account.lamports
                       /\ k \in c.writable),
            k, [account EXCEPT !.lamports = lamports])

checked_add_lamports(c, x, k, lamports) ==
  LET sum == x.accounts[k].lamports + lamports
  IN  set_lamports(c, Require(x, sum <= U64Max), k, sum)

checked_sub_lamports(c, x, k, lamports) ==
  LET difference == x.accounts[k].lamports - lamports
  IN  set_lamports(c, Require(x, difference >= 0), k, difference)

\* Only zeroed data may change hands.
set_owner(c, x, k, owner) ==
  LET account == x.accounts[k]
  IN  Store(Require(x, can_data_be_changed(c, x, k) /\ account.tag = "zeroed"),
            k, [account EXCEPT !.owner = owner])

\* Growing fills with zeros, shrinking to nothing leaves nothing behind.
set_data_length(c, x, k, size) ==
  LET account == x.accounts[k]
  IN  Store(Require(x, can_data_be_resized(c, x, k, size)),
            k, [account EXCEPT !.size = size,
                               !.tag = IF size = 0 THEN "zeroed" ELSE account.tag])

\* get_state::<Versions>() succeeds.
get_state(account) == account.size >= NonceSize /\ account.tag # "other"

\* set_state(&Versions::new(State::Initialized(..))).
set_state_initialized(c, x, k, tag, authority, durable_nonce) ==
  LET account == x.accounts[k]
  IN  Store(Require(x, can_data_be_changed(c, x, k) /\ account.size >= NonceSize),
            k, [account EXCEPT !.tag = tag, !.authority = authority,
                               !.durable_nonce = durable_nonce])

\* set_state(&Versions::new(State::Uninitialized)).
set_state_uninitialized(c, x, k) ==
  LET account == x.accounts[k]
  IN  Store(Require(x, can_data_be_changed(c, x, k)),
            k, [account EXCEPT !.tag = "uninitialized", !.authority = NoKey,
                               !.durable_nonce = 0])
=============================================================================
