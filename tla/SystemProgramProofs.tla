------------------------ MODULE SystemProgramProofs ------------------------
(***************************************************************************)
(* What the instructions of the system program can do to an account, as    *)
(* far as durable nonces are concerned: lemmas for TransactionBatchProofs. *)
(***************************************************************************)
EXTENDS SystemProgram, TLAPS

\* The transactions in execution over the accounts at D.
Execution(D) ==
  [ok : BOOLEAN, accounts : [D -> Account], resize_delta : Int, lamports_delta : Int]

\* An account of the system program that holds a nonce.
SystemNonce(account) ==
  account.owner = System /\ account.tag \in {"initialized", "legacy"}

\* A nonce that was advanced, or set, in block slot.
Advanced(account, slot) ==
  /\ account.owner = System
  /\ account.tag = "initialized"
  /\ account.durable_nonce = slot
  /\ account.size >= NonceSize

\* Accounts without data have none that parses as a nonce, and the system
\* program keeps its nonces funded.
Sound(account) ==
  /\ account.size = 0 => account.tag = "zeroed"
  /\ account.owner = System /\ Initialized(account)
       => account.lamports >= MinimumBalance[account.size]

\* What one instruction may make of an account: a nonce stays as it is or
\* becomes that of the block, in which case it stays.
Evolves(old, new, slot) ==
  /\ SystemNonce(new) =>
       new.durable_nonce = slot \/ (SystemNonce(old) /\ new.durable_nonce = old.durable_nonce)
  /\ Advanced(old, slot) => Advanced(new, slot)
  /\ Sound(old) => Sound(new)

Step(x, y, D, slot) ==
  /\ y \in Execution(D)
  /\ y.ok => x.ok /\ \A k \in D : Evolves(x.accounts[k], y.accounts[k], slot)

-----------------------------------------------------------------------------
\* Data lengths and minimum balances are numbers.
LEMMA SizesAreNumbers ==
  /\ \A s \in Sizes : s \in Nat /\ MinimumBalance[s] \in Nat \ {0}
  /\ NonceSize \in Sizes /\ NonceSize > 0
<1>1. Sizes \subseteq Nat /\ MinimumBalance \in [Sizes -> Nat \ {0}] /\ NonceSize \in Sizes \ {0}
  BY RulesAssumption
<1> QED BY <1>1

\* The fields of an account.
LEMMA AccountFields ==
  ASSUME NEW account \in Account
  PROVE  /\ account.lamports \in Nat /\ account.size \in Nat
         /\ account.size \in Sizes /\ account.durable_nonce \in Nat
<1>1. account.lamports \in Nat /\ account.size \in Sizes /\ account.durable_nonce \in Nat
  BY DEF Account
<1> QED BY <1>1, SizesAreNumbers

\* A failed check leaves everything but ok as it was.
LEMMA RequireType ==
  ASSUME NEW D, NEW x \in Execution(D), NEW p
  PROVE  /\ Require(x, p) \in Execution(D)
         /\ Require(x, p).ok <=> x.ok /\ p
         /\ Require(x, p).accounts = x.accounts
         /\ Require(x, p).resize_delta = x.resize_delta
         /\ Require(x, p).lamports_delta = x.lamports_delta
BY DEF Require, Execution

\* A change that is reached changes one account.
LEMMA StoreType ==
  ASSUME NEW D, NEW x \in Execution(D), NEW k \in D, NEW account, x.ok => account \in Account
  PROVE  /\ Store(x, k, account) \in Execution(D)
         /\ Store(x, k, account).ok <=> x.ok
         /\ x.ok => Store(x, k, account).accounts = [x.accounts EXCEPT ![k] = account]
<1>1. CASE x.ok
  <2>1. account \in Account /\ x.accounts \in [D -> Account]
    BY <1>1 DEF Execution
  <2>2. x.accounts[k] \in Account /\ [x.accounts EXCEPT ![k] = account] \in [D -> Account]
    BY <2>1
  <2>3. /\ account.lamports \in Nat /\ x.accounts[k].lamports \in Nat
        /\ account.size \in Nat /\ x.accounts[k].size \in Nat
    BY <2>1, <2>2, AccountFields
  <2>4. x.lamports_delta \in Int /\ x.resize_delta \in Int
    BY DEF Execution
  <2>5. /\ x.lamports_delta + account.lamports - x.accounts[k].lamports \in Int
        /\ x.resize_delta + account.size - x.accounts[k].size \in Int
    BY <2>3, <2>4
  <2> QED BY <1>1, <2>2, <2>5 DEF Store, Execution
<1>2. CASE ~x.ok
  BY <1>2 DEF Store
<1> QED BY <1>1, <1>2

\* A checked change, the shape of every operation on an account.
LEMMA CheckedStore ==
  ASSUME NEW D, NEW x \in Execution(D), NEW k \in D, NEW p, NEW account,
         x.ok /\ p => account \in Account
  PROVE  /\ Store(Require(x, p), k, account) \in Execution(D)
         /\ Store(Require(x, p), k, account).ok <=> x.ok /\ p
         /\ Store(Require(x, p), k, account).ok =>
              Store(Require(x, p), k, account).accounts = [x.accounts EXCEPT ![k] = account]
<1>1. /\ Require(x, p) \in Execution(D)
      /\ Require(x, p).ok <=> x.ok /\ p
      /\ Require(x, p).accounts = x.accounts
  BY RequireType
<1>2. Require(x, p).ok => account \in Account
  BY <1>1
<1>3. /\ Store(Require(x, p), k, account) \in Execution(D)
      /\ Store(Require(x, p), k, account).ok <=> Require(x, p).ok
      /\ Require(x, p).ok => Store(Require(x, p), k, account).accounts
                               = [Require(x, p).accounts EXCEPT ![k] = account]
  BY <1>1, <1>2, StoreType
<1> QED BY <1>1, <1>3

-----------------------------------------------------------------------------
\* Steps compose.

\* What an account may become in two steps it may become in one.
LEMMA EvolvesTransitive ==
  ASSUME NEW a, NEW b, NEW c, NEW slot, Evolves(a, b, slot), Evolves(b, c, slot)
  PROVE  Evolves(a, c, slot)
BY DEF Evolves

\* Two permitted changes of the accounts make a permitted change.
LEMMA StepTransitive ==
  ASSUME NEW D, NEW x, NEW y, NEW z, NEW slot, Step(x, y, D, slot), Step(y, z, D, slot)
  PROVE  Step(x, z, D, slot)
BY EvolvesTransitive DEF Step

\* A check alone.
LEMMA StepRequire ==
  ASSUME NEW D, NEW x \in Execution(D), NEW p, NEW slot
  PROVE  Step(x, Require(x, p), D, slot)
BY RequireType DEF Step, Evolves

\* A checked change of one account.
LEMMA StepStore ==
  ASSUME NEW D, NEW x \in Execution(D), NEW k \in D, NEW p, NEW account, NEW slot,
         x.ok /\ p => account \in Account /\ Evolves(x.accounts[k], account, slot)
  PROVE  Step(x, Store(Require(x, p), k, account), D, slot)
<1> DEFINE y == Store(Require(x, p), k, account)
<1>1. /\ y \in Execution(D)
      /\ y.ok <=> x.ok /\ p
      /\ y.ok => y.accounts = [x.accounts EXCEPT ![k] = account]
  BY CheckedStore
<1>2. x.accounts \in [D -> Account]
  BY DEF Execution
<1>3. ASSUME y.ok, NEW j \in D
      PROVE  Evolves(x.accounts[j], y.accounts[j], slot)
  <2>1. CASE j = k
    BY <1>1, <1>2, <1>3, <2>1
  <2>2. CASE j # k
    <3>1. y.accounts[j] = x.accounts[j]
      BY <1>1, <1>2, <1>3, <2>2
    <3> QED BY <3>1 DEF Evolves
  <2> QED BY <2>1, <2>2
<1> QED BY <1>1, <1>3 DEF Step

-----------------------------------------------------------------------------
\* The operations on an account.

\* A balance changes, and a nonce is left with what it needs.
LEMMA StepSetLamports ==
  ASSUME NEW D, NEW x \in Execution(D), NEW k \in D, NEW c, NEW lamports, NEW slot,
         x.ok => /\ lamports \in Nat
                 /\ x.accounts[k].owner = System /\ Initialized(x.accounts[k])
                      => \/ c.program # System
                         \/ lamports >= x.accounts[k].lamports
                         \/ lamports >= MinimumBalance[x.accounts[k].size]
  PROVE  Step(x, set_lamports(c, x, k, lamports), D, slot)
<1> DEFINE old == x.accounts[k]
           new == [old EXCEPT !.lamports = lamports]
           p == /\ is_owned_by_current_program(c, x, k) \/ lamports >= old.lamports
                /\ k \in c.writable
<1>1. ASSUME x.ok, p
      PROVE  new \in Account /\ Evolves(old, new, slot)
  <2>1. old \in Account
    BY DEF Execution
  <2>2. /\ new \in Account /\ new.lamports = lamports
        /\ new.owner = old.owner /\ new.tag = old.tag
        /\ new.size = old.size /\ new.durable_nonce = old.durable_nonce
    BY <1>1, <2>1 DEF Account
  <2>3. SystemNonce(new) <=> SystemNonce(old)
    BY <2>2 DEF SystemNonce
  <2>4. Advanced(new, slot) <=> Advanced(old, slot)
    BY <2>2 DEF Advanced
  <2>5. Initialized(new) <=> Initialized(old)
    BY <2>2 DEF Initialized, get_state
  <2>6. /\ old.lamports \in Nat /\ lamports \in Nat
        /\ MinimumBalance[old.size] \in Nat
    BY <1>1, <2>1, AccountFields, SizesAreNumbers
  <2>7. Sound(old) => Sound(new)
    BY <1>1, <2>2, <2>5, <2>6 DEF Sound, is_owned_by_current_program
  <2> QED BY <2>2, <2>3, <2>4, <2>7 DEF Evolves
<1> HIDE DEF new, p
<1>2. Step(x, Store(Require(x, p), k, new), D, slot)
  BY <1>1, StepStore
<1> QED BY <1>2 DEF set_lamports, new, p

\* Lamports received.
LEMMA StepAddLamports ==
  ASSUME NEW D, NEW x \in Execution(D), NEW k \in D, NEW c, NEW lamports \in Nat, NEW slot
  PROVE  Step(x, checked_add_lamports(c, x, k, lamports), D, slot)
<1> DEFINE sum == x.accounts[k].lamports + lamports
           y == Require(x, sum <= U64Max)
<1>1. x.accounts[k].lamports \in Nat
  <2>1. x.accounts[k] \in Account
    BY DEF Execution
  <2> QED BY <2>1, AccountFields
<1>2. sum \in Nat /\ sum >= x.accounts[k].lamports
  BY <1>1
<1>3. /\ y \in Execution(D) /\ y.accounts = x.accounts
      /\ Step(x, y, D, slot)
  BY RequireType, StepRequire
<1> HIDE DEF y, sum
<1>4. Step(y, set_lamports(c, y, k, sum), D, slot)
  BY <1>2, <1>3, StepSetLamports
<1>5. Step(x, set_lamports(c, y, k, sum), D, slot)
  BY <1>3, <1>4, StepTransitive
<1> QED BY <1>5 DEF checked_add_lamports, y, sum

\* Lamports spent: an initialized nonce keeps its minimum balance.
LEMMA StepSubLamports ==
  ASSUME NEW D, NEW x \in Execution(D), NEW k \in D, NEW c, NEW lamports \in Nat, NEW slot,
         /\ x.ok
         /\ c.program = System
         /\ x.accounts[k].owner = System
         /\ Initialized(x.accounts[k])
         => lamports + MinimumBalance[x.accounts[k].size] <= x.accounts[k].lamports
  PROVE  Step(x, checked_sub_lamports(c, x, k, lamports), D, slot)
<1> DEFINE difference == x.accounts[k].lamports - lamports
           p == difference >= 0
           y == Require(x, p)
<1>1. x.accounts[k].lamports \in Nat /\ MinimumBalance[x.accounts[k].size] \in Nat
  <2>1. x.accounts[k] \in Account
    BY DEF Execution
  <2> QED BY <2>1, AccountFields, SizesAreNumbers
<1>2. /\ difference >= 0 => difference \in Nat
      /\ lamports + MinimumBalance[x.accounts[k].size] <= x.accounts[k].lamports
           => difference >= MinimumBalance[x.accounts[k].size]
  BY <1>1
<1> HIDE DEF p
<1>3. /\ y \in Execution(D) /\ y.accounts = x.accounts
      /\ y.ok <=> x.ok /\ p
      /\ Step(x, y, D, slot)
  BY RequireType, StepRequire
<1> HIDE DEF y, difference
<1>4. Step(y, set_lamports(c, y, k, difference), D, slot)
  BY <1>2, <1>3, StepSetLamports DEF p
<1>5. Step(x, set_lamports(c, y, k, difference), D, slot)
  BY <1>3, <1>4, StepTransitive
<1> QED BY <1>5 DEF checked_sub_lamports, y, p, difference

\* Only zeroed data changes hands, so no nonce does.
LEMMA StepSetOwner ==
  ASSUME NEW D, NEW x \in Execution(D), NEW k \in D, NEW c, NEW owner \in Keys, NEW slot
  PROVE  Step(x, set_owner(c, x, k, owner), D, slot)
<1> DEFINE old == x.accounts[k]
           new == [old EXCEPT !.owner = owner]
           p == can_data_be_changed(c, x, k) /\ old.tag = "zeroed"
<1>1. ASSUME old.tag = "zeroed"
      PROVE  new \in Account /\ Evolves(old, new, slot)
  <2>1. old \in Account
    BY DEF Execution
  <2>2. new \in Account /\ new.tag = "zeroed"
    BY <1>1, <2>1 DEF Account
  <2>3. ~SystemNonce(new) /\ ~Advanced(old, slot) /\ Sound(new)
    BY <1>1, <2>2 DEF SystemNonce, Advanced, Sound, Initialized
  <2> QED BY <2>2, <2>3 DEF Evolves
<1>2. p => old.tag = "zeroed"
  OBVIOUS
<1> HIDE DEF new, p
<1>3. Step(x, Store(Require(x, p), k, new), D, slot)
  BY <1>1, <1>2, StepStore
<1> QED BY <1>3 DEF set_owner, new, p

\* Empty accounts grow.
LEMMA StepSetDataLength ==
  ASSUME NEW D, NEW x \in Execution(D), NEW k \in D, NEW c, NEW size \in Sizes, NEW slot,
         x.ok => x.accounts[k].size = 0
  PROVE  Step(x, set_data_length(c, x, k, size), D, slot)
<1> DEFINE old == x.accounts[k]
           new == [old EXCEPT !.size = size, !.tag = IF size = 0 THEN "zeroed" ELSE old.tag]
           p == can_data_be_resized(c, x, k, size)
<1>1. ASSUME old.size = 0
      PROVE  new \in Account /\ Evolves(old, new, slot)
  <2>1. old \in Account
    BY DEF Execution
  <2>2. /\ new \in Account /\ new.owner = old.owner /\ new.durable_nonce = old.durable_nonce
        /\ new.tag = IF size = 0 THEN "zeroed" ELSE old.tag
    BY <2>1 DEF Account, Tag
  <2>3. SystemNonce(new) => SystemNonce(old) /\ new.durable_nonce = old.durable_nonce
    BY <2>2 DEF SystemNonce
  <2>4. ~Advanced(old, slot)
    BY <1>1, SizesAreNumbers DEF Advanced
  <2>5. Sound(old) => Sound(new)
    BY <1>1, <2>2 DEF Sound, Initialized
  <2> QED BY <2>2, <2>3, <2>4, <2>5 DEF Evolves
<1> HIDE DEF new, p
<1>2. Step(x, Store(Require(x, p), k, new), D, slot)
  BY <1>1, StepStore
<1> QED BY <1>2 DEF set_data_length, new, p

\* A nonce state is written: that of the block, or the one that was there.
LEMMA StepSetStateInitialized ==
  ASSUME NEW D, NEW x \in Execution(D), NEW k \in D, NEW c, NEW slot,
         NEW tag, NEW authority, NEW durable_nonce,
         x.ok => /\ tag \in {"initialized", "legacy"}
                 /\ authority \in Keys \cup {NoKey}
                 /\ durable_nonce \in Nat
                 /\ \/ durable_nonce = slot
                    \/ /\ x.accounts[k].tag \in {"initialized", "legacy"}
                       /\ durable_nonce = x.accounts[k].durable_nonce
                 /\ Advanced(x.accounts[k], slot)
                      => tag = "initialized" /\ durable_nonce = slot
                 /\ \/ Initialized(x.accounts[k])
                    \/ x.accounts[k].lamports >= MinimumBalance[x.accounts[k].size]
  PROVE  Step(x, set_state_initialized(c, x, k, tag, authority, durable_nonce), D, slot)
<1> DEFINE old == x.accounts[k]
           new == [old EXCEPT !.tag = tag, !.authority = authority,
                              !.durable_nonce = durable_nonce]
           p == can_data_be_changed(c, x, k) /\ old.size >= NonceSize
<1>1. ASSUME x.ok, old.size >= NonceSize
      PROVE  new \in Account /\ Evolves(old, new, slot)
  <2>1. old \in Account
    BY DEF Execution
  <2>2. /\ new \in Account /\ new.owner = old.owner /\ new.durable_nonce = durable_nonce
        /\ new.tag = tag /\ new.size = old.size /\ new.lamports = old.lamports
    BY <1>1, <2>1 DEF Account, Tag
  <2>3. SystemNonce(new) =>
          new.durable_nonce = slot \/ (SystemNonce(old) /\ new.durable_nonce = old.durable_nonce)
    BY <1>1, <2>2 DEF SystemNonce
  <2>4. Advanced(old, slot) => Advanced(new, slot)
    BY <1>1, <2>2 DEF Advanced
  <2>5. Sound(old) => Sound(new)
    <3>1. old.size # 0
      BY <1>1, SizesAreNumbers
    <3> QED BY <1>1, <2>2, <3>1 DEF Sound
  <2> QED BY <2>2, <2>3, <2>4, <2>5 DEF Evolves
<1>2. p => old.size >= NonceSize
  OBVIOUS
<1> HIDE DEF new, p
<1>3. Step(x, Store(Require(x, p), k, new), D, slot)
  BY <1>1, <1>2, StepStore
<1> QED BY <1>3 DEF set_state_initialized, new, p

\* A nonce is given up, but not one of the block.
LEMMA StepSetStateUninitialized ==
  ASSUME NEW D, NEW x \in Execution(D), NEW k \in D, NEW c, NEW slot,
         x.ok => x.accounts[k].size >= NonceSize /\ ~Advanced(x.accounts[k], slot)
  PROVE  Step(x, set_state_uninitialized(c, x, k), D, slot)
<1> DEFINE old == x.accounts[k]
           new == [old EXCEPT !.tag = "uninitialized", !.authority = NoKey, !.durable_nonce = 0]
           p == can_data_be_changed(c, x, k)
<1>1. ASSUME x.ok
      PROVE  new \in Account /\ Evolves(old, new, slot)
  <2>1. old \in Account
    BY DEF Execution
  <2>2. new \in Account /\ new.tag = "uninitialized" /\ new.size = old.size
    BY <2>1 DEF Account, Tag
  <2>3. old.size # 0
    BY <1>1, SizesAreNumbers
  <2>4. ~SystemNonce(new) /\ Sound(new)
    BY <2>2, <2>3 DEF SystemNonce, Sound, Initialized
  <2> QED BY <1>1, <2>2, <2>4 DEF Evolves
<1> HIDE DEF new, p
<1>2. Step(x, Store(Require(x, p), k, new), D, slot)
  BY <1>1, StepStore
<1> QED BY <1>2 DEF set_state_uninitialized, new, p

-----------------------------------------------------------------------------
\* The system program.

\* allocate is a permitted step: it only sizes an empty account of the system program.
LEMMA StepAllocate ==
  ASSUME NEW D, NEW x \in Execution(D), NEW k \in D, NEW c, NEW base, NEW size \in Sizes, NEW slot
  PROVE  Step(x, allocate(c, x, k, base, size), D, slot)
<1> DEFINE account == x.accounts[k]
           p == /\ is_signer(k, base, c.signers)
                /\ account.size = 0
                /\ account.owner = System
                /\ size <= MaxDataLength
           y == Require(x, p)
<1>1. p => account.size = 0
  OBVIOUS
<1> HIDE DEF p
<1>2. /\ y \in Execution(D) /\ y.accounts = x.accounts /\ (y.ok => p)
      /\ Step(x, y, D, slot)
  BY RequireType, StepRequire
<1> HIDE DEF y
<1>3. Step(y, set_data_length(c, y, k, size), D, slot)
  BY <1>1, <1>2, StepSetDataLength
<1>4. Step(x, set_data_length(c, y, k, size), D, slot)
  BY <1>2, <1>3, StepTransitive
<1> QED BY <1>4 DEF allocate, y, p

\* assign is a permitted step: an initialized nonce cannot be given away.
LEMMA StepAssign ==
  ASSUME NEW D, NEW x \in Execution(D), NEW k \in D, NEW c, NEW base, NEW owner \in Keys, NEW slot
  PROVE  Step(x, assign(c, x, k, base, owner), D, slot)
<1>1. CASE x.accounts[k].owner = owner
  BY <1>1 DEF assign, Step, Evolves
<1>2. CASE x.accounts[k].owner # owner
  <2> DEFINE y == Require(x, is_signer(k, base, c.signers))
  <2>1. y \in Execution(D) /\ Step(x, y, D, slot)
    BY RequireType, StepRequire
  <2> HIDE DEF y
  <2>2. Step(y, set_owner(c, y, k, owner), D, slot)
    BY <2>1, StepSetOwner
  <2>3. Step(x, set_owner(c, y, k, owner), D, slot)
    BY <2>1, <2>2, StepTransitive
  <2> QED BY <1>2, <2>3 DEF assign, y
<1> QED BY <1>1, <1>2

\* allocate_and_assign is a permitted step.
LEMMA StepAllocateAndAssign ==
  ASSUME NEW D, NEW x \in Execution(D), NEW k \in D, NEW c, NEW base, NEW size \in Sizes,
         NEW owner \in Keys, NEW slot
  PROVE  Step(x, allocate_and_assign(c, x, k, base, size, owner), D, slot)
<1> DEFINE y == allocate(c, x, k, base, size)
<1>1. Step(x, y, D, slot) /\ y \in Execution(D)
  BY StepAllocate DEF Step
<1> HIDE DEF y
<1>2. Step(y, assign(c, y, k, base, owner), D, slot)
  BY <1>1, StepAssign
<1>3. Step(x, assign(c, y, k, base, owner), D, slot)
  BY <1>1, <1>2, StepTransitive
<1> QED BY <1>3 DEF allocate_and_assign, y

\* Lamports move from an account that may spend them.
LEMMA StepMove ==
  ASSUME NEW D, NEW x \in Execution(D), NEW from \in D, NEW to \in D, NEW c,
         NEW lamports \in Nat, NEW slot,
         /\ x.ok
         /\ c.program = System
         /\ x.accounts[from].owner = System
         /\ Initialized(x.accounts[from])
         => lamports + MinimumBalance[x.accounts[from].size] <= x.accounts[from].lamports
  PROVE  Step(x, checked_add_lamports(c, checked_sub_lamports(c, x, from, lamports), to, lamports),
              D, slot)
<1> DEFINE y == checked_sub_lamports(c, x, from, lamports)
<1>1. Step(x, y, D, slot) /\ y \in Execution(D)
  BY StepSubLamports DEF Step
<1> HIDE DEF y
<1>2. Step(y, checked_add_lamports(c, y, to, lamports), D, slot)
  BY <1>1, StepAddLamports
<1>3. Step(x, checked_add_lamports(c, y, to, lamports), D, slot)
  BY <1>1, <1>2, StepTransitive
<1> QED BY <1>3 DEF y

\* Transfers are from accounts without data, so never from a nonce.
LEMMA StepTransferVerified ==
  ASSUME NEW D, NEW x \in Execution(D), NEW from \in D, NEW to \in D, NEW c,
         NEW lamports \in Nat, NEW slot
  PROVE  Step(x, transfer_verified(c, x, from, to, lamports), D, slot)
<1> DEFINE p == /\ x.accounts[from].size = 0
                /\ lamports <= x.accounts[from].lamports
           y == Require(x, p)
<1>1. p => ~Initialized(x.accounts[from])
  BY SizesAreNumbers DEF Initialized, get_state
<1> HIDE DEF p
<1>2. /\ y \in Execution(D) /\ y.accounts = x.accounts /\ (y.ok => p)
      /\ Step(x, y, D, slot)
  BY RequireType, StepRequire
<1> HIDE DEF y
<1> DEFINE z == checked_add_lamports(c, checked_sub_lamports(c, y, from, lamports), to, lamports)
<1>3. Step(y, z, D, slot)
  BY <1>1, <1>2, StepMove
<1>4. Step(x, z, D, slot)
  BY <1>2, <1>3, StepTransitive
<1> QED BY <1>4 DEF transfer_verified, y, p

\* transfer is a permitted step: it takes nothing from an account with data.
LEMMA StepTransfer ==
  ASSUME NEW D, NEW x \in Execution(D), NEW from \in D, NEW to \in D, NEW c,
         NEW lamports \in Nat, NEW slot
  PROVE  /\ Step(x, transfer(c, x, from, to, lamports), D, slot)
         /\ \A base, owner :
              Step(x, transfer_with_seed(c, x, from, base, owner, to, lamports), D, slot)
<1>1. ASSUME NEW p
      PROVE  Step(x, transfer_verified(c, Require(x, p), from, to, lamports), D, slot)
  <2>1. Require(x, p) \in Execution(D) /\ Step(x, Require(x, p), D, slot)
    BY RequireType, StepRequire
  <2>2. Step(Require(x, p), transfer_verified(c, Require(x, p), from, to, lamports), D, slot)
    BY <2>1, StepTransferVerified
  <2> QED BY <2>1, <2>2, StepTransitive
<1> QED BY <1>1 DEF transfer, transfer_with_seed

\* create_account is a permitted step.
LEMMA StepCreateAccount ==
  ASSUME NEW D, NEW x \in Execution(D), NEW from \in D, NEW to \in D, NEW c, NEW base,
         NEW lamports \in Nat, NEW size \in Sizes, NEW owner \in Keys, NEW slot
  PROVE  Step(x, create_account(c, x, from, to, base, lamports, size, owner), D, slot)
<1> DEFINE y == Require(x, x.accounts[to].lamports = 0)
           z == allocate_and_assign(c, y, to, base, size, owner)
<1>1. y \in Execution(D) /\ Step(x, y, D, slot)
  BY RequireType, StepRequire
<1> HIDE DEF y
<1>2. Step(y, z, D, slot) /\ z \in Execution(D)
  BY <1>1, StepAllocateAndAssign DEF Step
<1> HIDE DEF z
<1>3. Step(z, transfer(c, z, from, to, lamports), D, slot)
  BY <1>2, StepTransfer
<1>4. Step(x, transfer(c, z, from, to, lamports), D, slot)
  BY <1>1, <1>2, <1>3, StepTransitive
<1> QED BY <1>4 DEF create_account, y, z

\* create_account_allow_prefund is a permitted step.
LEMMA StepCreateAccountAllowPrefund ==
  ASSUME NEW D, NEW x \in Execution(D), NEW from \in D, NEW to \in D, NEW c,
         NEW lamports \in Nat, NEW size \in Sizes, NEW owner \in Keys, NEW slot
  PROVE  Step(x, create_account_allow_prefund(c, x, from, to, lamports, size, owner), D, slot)
<1> DEFINE y == allocate_and_assign(c, x, to, NoKey, size, owner)
<1>1. Step(x, y, D, slot) /\ y \in Execution(D)
  BY StepAllocateAndAssign DEF Step
<1> HIDE DEF y
<1>2. Step(y, transfer(c, y, from, to, lamports), D, slot)
  BY <1>1, StepTransfer
<1>3. Step(x, transfer(c, y, from, to, lamports), D, slot)
  BY <1>1, <1>2, StepTransitive
<1> QED BY <1>1, <1>3 DEF create_account_allow_prefund, y

\* advance_nonce_account is a permitted step: the nonce becomes that of the block.
LEMMA StepAdvance ==
  ASSUME NEW D, NEW x \in Execution(D), NEW k \in D, NEW c, NEW slot \in Nat
  PROVE  Step(x, advance_nonce_account(c, x, k, slot), D, slot)
<1> DEFINE account == x.accounts[k]
           p == /\ k \in c.writable
                /\ Initialized(account)
                /\ account.authority \in c.signers
                /\ NonceExpired(account, slot)
           y == Require(x, p)
<1>1. p => Initialized(account)
  OBVIOUS
<1>2. account.authority \in Keys \cup {NoKey}
  BY DEF Execution, Account
<1> HIDE DEF p
<1>3. /\ y \in Execution(D) /\ y.accounts = x.accounts /\ (y.ok => p)
      /\ Step(x, y, D, slot)
  BY RequireType, StepRequire
<1> HIDE DEF y
<1> DEFINE z == set_state_initialized(c, y, k, "initialized", account.authority, slot)
<1>4. Step(y, z, D, slot)
  BY <1>1, <1>2, <1>3, StepSetStateInitialized
<1>5. Step(x, z, D, slot)
  BY <1>3, <1>4, StepTransitive
<1> QED BY <1>5 DEF advance_nonce_account, y, p

\* initialize_nonce_account is a permitted step: the new nonce is funded and that of
\* the block.
LEMMA StepInitialize ==
  ASSUME NEW D, NEW x \in Execution(D), NEW k \in D, NEW c, NEW slot \in Nat,
         NEW authority \in Keys \cup {NoKey}
  PROVE  Step(x, initialize_nonce_account(c, x, k, authority, slot), D, slot)
<1> DEFINE account == x.accounts[k]
           p == /\ k \in c.writable
                /\ get_state(account)
                /\ account.tag \in {"zeroed", "uninitialized"}
                /\ account.lamports >= MinimumBalance[account.size]
           y == Require(x, p)
<1>1. p => account.lamports >= MinimumBalance[account.size]
  OBVIOUS
<1> HIDE DEF p
<1>2. /\ y \in Execution(D) /\ y.accounts = x.accounts /\ (y.ok => p)
      /\ Step(x, y, D, slot)
  BY RequireType, StepRequire
<1> HIDE DEF y
<1> DEFINE z == set_state_initialized(c, y, k, "initialized", authority, slot)
<1>3. Step(y, z, D, slot)
  BY <1>1, <1>2, StepSetStateInitialized
<1>4. Step(x, z, D, slot)
  BY <1>2, <1>3, StepTransitive
<1> QED BY <1>4 DEF initialize_nonce_account, y, p

\* authorize_nonce_account is a permitted step: the nonce stays as it is.
LEMMA StepAuthorize ==
  ASSUME NEW D, NEW x \in Execution(D), NEW k \in D, NEW c, NEW slot \in Nat,
         NEW authority \in Keys \cup {NoKey}
  PROVE  Step(x, authorize_nonce_account(c, x, k, authority), D, slot)
<1> DEFINE account == x.accounts[k]
           p == /\ k \in c.writable
                /\ Initialized(account)
                /\ account.authority \in c.signers
           y == Require(x, p)
<1>1. p => Initialized(account)
  OBVIOUS
<1>2. /\ account.durable_nonce \in Nat
      /\ Initialized(account) => account.tag \in {"initialized", "legacy"}
      /\ Advanced(account, slot) => account.tag = "initialized" /\ account.durable_nonce = slot
  BY DEF Execution, Account, Initialized, Advanced
<1> HIDE DEF p
<1>3. /\ y \in Execution(D) /\ y.accounts = x.accounts /\ (y.ok => p)
      /\ Step(x, y, D, slot)
  BY RequireType, StepRequire
<1> HIDE DEF y
<1> DEFINE z == set_state_initialized(c, y, k, account.tag, authority, account.durable_nonce)
<1>4. Step(y, z, D, slot)
  BY <1>1, <1>2, <1>3, StepSetStateInitialized
<1>5. Step(x, z, D, slot)
  BY <1>3, <1>4, StepTransitive
<1> QED BY <1>5 DEF authorize_nonce_account, y, p

\* upgrade_nonce_account is a permitted step: the nonce keeps its value.
LEMMA StepUpgrade ==
  ASSUME NEW D, NEW x \in Execution(D), NEW k \in D, NEW c, NEW slot \in Nat
  PROVE  Step(x, upgrade_nonce_account(c, x, k), D, slot)
<1> DEFINE account == x.accounts[k]
           p == /\ account.owner = System
                /\ k \in c.writable
                /\ get_state(account)
                /\ account.tag = "legacy"
           y == Require(x, p)
<1>1. p => Initialized(account) /\ account.tag = "legacy" /\ ~Advanced(account, slot)
  BY DEF Initialized, Advanced
<1>2. account.durable_nonce \in Nat /\ account.authority \in Keys \cup {NoKey}
  BY DEF Execution, Account
<1> HIDE DEF p
<1>3. /\ y \in Execution(D) /\ y.accounts = x.accounts /\ (y.ok => p)
      /\ Step(x, y, D, slot)
  BY RequireType, StepRequire
<1> HIDE DEF y
<1> DEFINE z == set_state_initialized(c, y, k, "initialized", account.authority,
                                      account.durable_nonce)
<1>4. Step(y, z, D, slot)
  BY <1>1, <1>2, <1>3, StepSetStateInitialized
<1>5. Step(x, z, D, slot)
  BY <1>3, <1>4, StepTransitive
<1> QED BY <1>5 DEF upgrade_nonce_account, y, p

\* What is left after the whole balance was withdrawn is no nonce.
LEMMA UninitializedIsNoNonce ==
  ASSUME NEW D, NEW x \in Execution(D), NEW k \in D, NEW c,
         set_state_uninitialized(c, x, k).ok
  PROVE  ~Initialized(set_state_uninitialized(c, x, k).accounts[k])
<1> DEFINE old == x.accounts[k]
           new == [old EXCEPT !.tag = "uninitialized", !.authority = NoKey, !.durable_nonce = 0]
           p == can_data_be_changed(c, x, k)
           y == Store(Require(x, p), k, new)
<1>1. old \in Account /\ x.accounts \in [D -> Account]
  BY DEF Execution
<1>2. new \in Account /\ new.tag = "uninitialized"
  BY <1>1 DEF Account, Tag
<1> HIDE DEF new, p
<1>3. y = set_state_uninitialized(c, x, k)
  BY DEF set_state_uninitialized, new, p
<1>4. y.ok => y.accounts = [x.accounts EXCEPT ![k] = new]
  BY <1>2, CheckedStore
<1>5. y.ok => y.accounts[k].tag = "uninitialized"
  BY <1>1, <1>2, <1>4
<1> QED BY <1>3, <1>5 DEF Initialized

\* withdraw_nonce_account is a permitted step: a nonce keeps its rent minimum or ends.
LEMMA StepWithdraw ==
  ASSUME NEW D, NEW x \in Execution(D), NEW from \in D, NEW to \in D, NEW c,
         NEW lamports \in Nat, NEW slot \in Nat
  PROVE  Step(x, withdraw_nonce_account(c, x, from, to, lamports, slot), D, slot)
<1> DEFINE account == x.accounts[from]
           all     == Initialized(account) /\ lamports = account.lamports
           signer  == IF Initialized(account) THEN account.authority ELSE from
           p == /\ from \in c.writable
                /\ get_state(account)
                /\ IF all THEN NonceExpired(account, slot)
                   ELSE lamports + (IF Initialized(account)
                                    THEN MinimumBalance[account.size] ELSE 0)
                        <= account.lamports
                /\ signer \in c.signers
           y == Require(x, p)
           z == IF all THEN set_state_uninitialized(c, y, from) ELSE y
           result == checked_add_lamports(c, checked_sub_lamports(c, z, from, lamports),
                                          to, lamports)
<1>1. /\ p => account.size >= NonceSize
      /\ p /\ all => ~Advanced(account, slot)
      /\ p /\ ~all /\ Initialized(account)
           => lamports + MinimumBalance[account.size] <= account.lamports
  BY DEF get_state, NonceExpired, Advanced
<1> HIDE DEF p
<1>2. /\ y \in Execution(D) /\ y.accounts = x.accounts /\ (y.ok => p)
      /\ Step(x, y, D, slot)
  BY RequireType, StepRequire
<1> HIDE DEF y
<1>3. /\ z \in Execution(D) /\ Step(x, z, D, slot)
      /\ z.ok /\ Initialized(z.accounts[from])
           => lamports + MinimumBalance[z.accounts[from].size] <= z.accounts[from].lamports
  <2>1. CASE all
    <3> DEFINE u == set_state_uninitialized(c, y, from)
    <3>1. z = u
      BY <2>1
    <3>2. Step(y, u, D, slot)
      BY <1>1, <1>2, <2>1, StepSetStateUninitialized
    <3>3. u.ok => ~Initialized(u.accounts[from])
      BY <1>2, UninitializedIsNoNonce
    <3> HIDE DEF u
    <3>4. Step(x, u, D, slot) /\ u \in Execution(D)
      BY <1>2, <3>2, StepTransitive DEF Step
    <3> QED BY <3>1, <3>3, <3>4
  <2>2. CASE ~all
    BY <1>1, <1>2, <2>2
  <2> QED BY <2>1, <2>2
<1> HIDE DEF z
<1>4. Step(z, result, D, slot)
  BY <1>3, StepMove
<1>5. Step(x, result, D, slot)
  BY <1>3, <1>4, StepTransitive
<1> QED BY <1>5 DEF withdraw_nonce_account, z, y, p

\* Every instruction of the system program is such a step.
LEMMA StepEntrypoint ==
  ASSUME NEW D, NEW x \in Execution(D), NEW c, NEW ix, NEW slot \in Nat,
         ix.op \in Ops, ix.a \in D, ix.b \in D, ix.lamports \in Nat, ix.size \in Sizes,
         ix.owner \in Keys, ix.authority \in Keys \cup {NoKey}
  PROVE  Step(x, Entrypoint(c, x, ix, slot), D, slot)
<1> DEFINE y == Require(x, create(IF ix.op = "CreateAccount" THEN ix.b ELSE ix.a, ix.base, ix.owner))
           z == Entrypoint(c, x, ix, slot)
<1>1. y \in Execution(D) /\ Step(x, y, D, slot)
  BY RequireType, StepRequire
<1>2. CASE ix.op = "CreateAccount"
  <2>1. z = create_account(c, y, ix.a, ix.b, ix.base, ix.lamports, ix.size, ix.owner)
    BY <1>2 DEF Entrypoint
  <2> HIDE DEF y, z
  <2>2. Step(y, z, D, slot)
    BY <1>1, <2>1, StepCreateAccount
  <2>3. Step(x, z, D, slot)
    BY <1>1, <2>2, StepTransitive
  <2> QED BY <2>3 DEF z
<1>3. CASE ix.op = "Assign"
  <2>1. z = assign(c, y, ix.a, ix.base, ix.owner)
    BY <1>3 DEF Entrypoint
  <2> HIDE DEF y, z
  <2>2. Step(y, z, D, slot)
    BY <1>1, <2>1, StepAssign
  <2>3. Step(x, z, D, slot)
    BY <1>1, <2>2, StepTransitive
  <2> QED BY <2>3 DEF z
<1>4. CASE ix.op = "AllocateWithSeed"
  <2>1. z = allocate_and_assign(c, y, ix.a, ix.base, ix.size, ix.owner)
    BY <1>4 DEF Entrypoint
  <2> HIDE DEF y, z
  <2>2. Step(y, z, D, slot)
    BY <1>1, <2>1, StepAllocateAndAssign
  <2>3. Step(x, z, D, slot)
    BY <1>1, <2>2, StepTransitive
  <2> QED BY <2>3 DEF z
<1>5. CASE ix.op = "CreateAccountAllowPrefund"
  BY <1>5, StepCreateAccountAllowPrefund DEF Entrypoint
<1>6. CASE ix.op = "Transfer"
  BY <1>6, StepTransfer DEF Entrypoint
<1>7. CASE ix.op = "TransferWithSeed"
  BY <1>7, StepTransfer DEF Entrypoint
<1>8. CASE ix.op = "Allocate"
  BY <1>8, StepAllocate DEF Entrypoint
<1>9. CASE ix.op = "AdvanceNonceAccount"
  BY <1>9, StepAdvance DEF Entrypoint
<1>10. CASE ix.op = "WithdrawNonceAccount"
  BY <1>10, StepWithdraw DEF Entrypoint
<1>11. CASE ix.op = "InitializeNonceAccount"
  BY <1>11, StepInitialize DEF Entrypoint
<1>12. CASE ix.op = "AuthorizeNonceAccount"
  BY <1>12, StepAuthorize DEF Entrypoint
<1>13. CASE ix.op = "UpgradeNonceAccount"
  BY <1>13, StepUpgrade DEF Entrypoint
<1> QED
  BY <1>2, <1>3, <1>4, <1>5, <1>6, <1>7, <1>8, <1>9, <1>10, <1>11, <1>12, <1>13 DEF Ops

\* The first instruction of a nonce transaction advances its nonce.
LEMMA AdvanceAdvances ==
  ASSUME NEW D, NEW x \in Execution(D), NEW k \in D, NEW c, NEW slot \in Nat,
         c.program = System, advance_nonce_account(c, x, k, slot).ok
  PROVE  Advanced(advance_nonce_account(c, x, k, slot).accounts[k], slot)
<1> DEFINE account == x.accounts[k]
           p == /\ k \in c.writable
                /\ Initialized(account)
                /\ account.authority \in c.signers
                /\ NonceExpired(account, slot)
           y == Require(x, p)
           q == can_data_be_changed(c, y, k) /\ y.accounts[k].size >= NonceSize
           new == [y.accounts[k] EXCEPT !.tag = "initialized", !.authority = account.authority,
                                        !.durable_nonce = slot]
           z == Store(Require(y, q), k, new)
<1>1. account \in Account /\ x.accounts \in [D -> Account]
  BY DEF Execution
<1> HIDE DEF p
<1>2. y \in Execution(D) /\ y.accounts = x.accounts
  BY RequireType
<1>3. z = advance_nonce_account(c, x, k, slot)
  BY DEF advance_nonce_account, set_state_initialized, p
<1>4. /\ new \in Account /\ new.tag = "initialized" /\ new.durable_nonce = slot
      /\ new.owner = account.owner /\ new.size = account.size
  BY <1>1, <1>2 DEF Account, Tag
<1>5. q => account.owner = System /\ account.size >= NonceSize
  BY <1>2 DEF can_data_be_changed, is_owned_by_current_program
<1> HIDE DEF y, q, new
<1>6. /\ z.ok => q
      /\ z.ok => z.accounts = [y.accounts EXCEPT ![k] = new]
  BY <1>2, <1>4, CheckedStore
<1>7. z.accounts[k] = new
  BY <1>1, <1>2, <1>3, <1>6
<1>8. Advanced(new, slot)
  BY <1>3, <1>4, <1>5, <1>6 DEF Advanced
<1> HIDE DEF z
<1> QED BY <1>3, <1>7, <1>8
=============================================================================
