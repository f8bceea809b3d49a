--------------------------- MODULE SystemProgram ---------------------------
(***************************************************************************)
(* The system program (programs/system/src): creation, allocation,         *)
(* assignment and transfer of accounts, and the durable nonce accounts.    *)
(* An instruction is a function from the transaction in execution to the   *)
(* transaction in execution, see AccountRules.                             *)
(*                                                                         *)
(* An instruction ix has fields op, program, a, b (its first and second    *)
(* account), base (the address an account was derived from with a seed,    *)
(* NoKey for the variants without one), lamports, size, owner, authority,  *)
(* signers (those of its accounts that sign) and writable.  A durable      *)
(* nonce is named by the block whose hash it is derived from; slot is the  *)
(* block being built.  The sysvars an instruction reads are taken to be    *)
(* available, as in every block after the first.                           *)
(***************************************************************************)
EXTENDS AccountRules

CONSTANT CreateWithSeed   \* <<base, owner, address>>: some seed derives address from base

Ops ==
  {"CreateAccount", "CreateAccountAllowPrefund", "Assign", "Transfer", "TransferWithSeed",
   "Allocate", "AllocateWithSeed", "AdvanceNonceAccount", "WithdrawNonceAccount",
   "InitializeNonceAccount", "AuthorizeNonceAccount", "UpgradeNonceAccount"}

\* Address::create: a derived address must match its derivation.
create(address, base, owner) == base = NoKey \/ <<base, owner, address>> \in CreateWithSeed

\* Address::is_signer: the base signs for a derived address.
is_signer(address, base, signers) ==
  IF base = NoKey THEN address \in signers ELSE base \in signers

allocate(c, x, k, base, size) ==
  LET account == x.accounts[k]
      y == Require(x, /\ is_signer(k, base, c.signers)
                      /\ account.size = 0
                      /\ account.owner = System
                      /\ size <= MaxDataLength)
  IN  set_data_length(c, y, k, size)

assign(c, x, k, base, owner) ==
  IF x.accounts[k].owner = owner THEN x
  ELSE set_owner(c, Require(x, is_signer(k, base, c.signers)), k, owner)

allocate_and_assign(c, x, k, base, size, owner) ==
  assign(c, allocate(c, x, k, base, size), k, base, owner)

transfer_verified(c, x, from, to, lamports) ==
  LET y == Require(x, /\ x.accounts[from].size = 0
                      /\ lamports <= x.accounts[from].lamports)
  IN  checked_add_lamports(c, checked_sub_lamports(c, y, from, lamports), to, lamports)

transfer(c, x, from, to, lamports) ==
  transfer_verified(c, Require(x, from \in c.signers), from, to, lamports)

transfer_with_seed(c, x, from, base, owner, to, lamports) ==
  LET y == Require(x, base \in c.signers /\ <<base, owner, from>> \in CreateWithSeed)
  IN  transfer_verified(c, y, from, to, lamports)

create_account(c, x, from, to, base, lamports, size, owner) ==
  LET y == Require(x, x.accounts[to].lamports = 0)
  IN  transfer(c, allocate_and_assign(c, y, to, base, size, owner), from, to, lamports)

create_account_allow_prefund(c, x, from, to, lamports, size, owner) ==
  LET y == allocate_and_assign(c, x, to, NoKey, size, owner)
  IN  IF lamports > 0 THEN transfer(c, y, from, to, lamports) ELSE y

\* A legacy nonce is a block's hash itself, which no durable nonce equals.
NonceExpired(account, slot) == account.tag = "legacy" \/ account.durable_nonce # slot

Initialized(account) == get_state(account) /\ account.tag \in {"initialized", "legacy"}

advance_nonce_account(c, x, k, slot) ==
  LET account == x.accounts[k]
      y == Require(x, /\ k \in c.writable
                      /\ Initialized(account)
                      /\ account.authority \in c.signers
                      /\ NonceExpired(account, slot))
  IN  set_state_initialized(c, y, k, "initialized", account.authority, slot)

withdraw_nonce_account(c, x, from, to, lamports, slot) ==
  LET account == x.accounts[from]
      all     == Initialized(account) /\ lamports = account.lamports
      signer  == IF Initialized(account) THEN account.authority ELSE from
      y == Require(x, /\ from \in c.writable
                      /\ get_state(account)
                      /\ IF all THEN NonceExpired(account, slot)
                         ELSE lamports + (IF Initialized(account)
                                          THEN MinimumBalance[account.size] ELSE 0)
                              <= account.lamports
                      /\ signer \in c.signers)
      z == IF all THEN set_state_uninitialized(c, y, from) ELSE y
  IN  checked_add_lamports(c, checked_sub_lamports(c, z, from, lamports), to, lamports)

initialize_nonce_account(c, x, k, authority, slot) ==
  LET account == x.accounts[k]
      y == Require(x, /\ k \in c.writable
                      /\ get_state(account)
                      /\ account.tag \in {"zeroed", "uninitialized"}
                      /\ account.lamports >= MinimumBalance[account.size])
  IN  set_state_initialized(c, y, k, "initialized", authority, slot)

authorize_nonce_account(c, x, k, authority) ==
  LET account == x.accounts[k]
      y == Require(x, /\ k \in c.writable
                      /\ Initialized(account)
                      /\ account.authority \in c.signers)
  IN  set_state_initialized(c, y, k, account.tag, authority, account.durable_nonce)

\* UpgradeNonceAccount: the only way a legacy nonce becomes usable.
upgrade_nonce_account(c, x, k) ==
  LET account == x.accounts[k]
      y == Require(x, /\ account.owner = System
                      /\ k \in c.writable
                      /\ get_state(account)
                      /\ account.tag = "legacy")
  IN  set_state_initialized(c, y, k, "initialized", account.authority, account.durable_nonce)

\* The Entrypoint.  AllocateWithSeed always has a base; the
\* other WithSeed variants are the plain ones with a base.
Entrypoint(c, x, ix, slot) ==
  LET y == Require(x, create(IF ix.op = "CreateAccount" THEN ix.b ELSE ix.a, ix.base, ix.owner))
  IN  CASE ix.op = "CreateAccount" ->
             create_account(c, y, ix.a, ix.b, ix.base, ix.lamports, ix.size, ix.owner)
        [] ix.op = "CreateAccountAllowPrefund" ->
             create_account_allow_prefund(c, x, ix.b, ix.a, ix.lamports, ix.size, ix.owner)
        [] ix.op = "Assign" -> assign(c, y, ix.a, ix.base, ix.owner)
        [] ix.op = "Transfer" -> transfer(c, x, ix.a, ix.b, ix.lamports)
        [] ix.op = "TransferWithSeed" ->
             transfer_with_seed(c, x, ix.a, ix.base, ix.owner, ix.b, ix.lamports)
        [] ix.op = "Allocate" -> allocate(c, x, ix.a, NoKey, ix.size)
        [] ix.op = "AllocateWithSeed" ->
             allocate_and_assign(c, y, ix.a, ix.base, ix.size, ix.owner)
        [] ix.op = "AdvanceNonceAccount" -> advance_nonce_account(c, x, ix.a, slot)
        [] ix.op = "WithdrawNonceAccount" ->
             withdraw_nonce_account(c, x, ix.a, ix.b, ix.lamports, slot)
        [] ix.op = "InitializeNonceAccount" ->
             initialize_nonce_account(c, x, ix.a, ix.authority, slot)
        [] ix.op = "AuthorizeNonceAccount" ->
             authorize_nonce_account(c, x, ix.a, ix.authority)
        [] ix.op = "UpgradeNonceAccount" -> upgrade_nonce_account(c, x, ix.a)
=============================================================================
