------------------------ MODULE MC_TransactionBatch ------------------------
(***************************************************************************)
(* Small instances of TransactionBatch: a payer a, a nonce account n with  *)
(* authority a, an account b, the system program and another program.      *)
(***************************************************************************)
EXTENDS TransactionBatch, TLC

CONSTANTS a, b, n, Prog, NativeLoader, Loader

MCKeys == {a, b, n, System, Prog, NativeLoader, Loader}
MCMinimumBalance == (0 :> 2) @@ (1 :> 3)

Acct(lamports, owner) == [DefaultAccount EXCEPT !.lamports = lamports, !.owner = owner]
NonceAcct(lamports, tag) ==
  [Acct(lamports, System) EXCEPT !.size = NonceSize, !.tag = tag, !.authority = a]

Programs(k) ==
  CASE k = System -> Acct(1, NativeLoader)
    [] k = Prog   -> Acct(3, Loader)
    [] OTHER      -> DefaultAccount

\* An instruction and its arguments; the ones it does not use are at rest.
Ix(op, program, x, y, lamports) ==
  [op |-> op, program |-> program, a |-> x, b |-> y, base |-> NoKey, lamports |-> lamports,
   size |-> 0, owner |-> System, authority |-> NoKey, signers |-> {a}, tag |-> "zeroed",
   durable_nonce |-> 0]

Msg(payer, nonce, hash, writable, limit, instructions) ==
  [fee_payer |-> payer, fee |-> 1, keys |-> {a, b, n, System, Prog},
   writable |-> writable \cup {payer}, limit |-> limit, nonce |-> nonce,
   blockhash |-> hash, instructions |-> instructions]

NoLimit == 100
Advance == Ix("AdvanceNonceAccount", System, n, a, 0)
Reopen ==
  <<[Ix("CreateAccount", System, a, n, 3) EXCEPT !.size = NonceSize, !.signers = {a, n}],
    [Ix("InitializeNonceAccount", System, n, a, 0) EXCEPT !.authority = a]>>

\* Everything that can happen to a nonce: it pays for itself or not, its
\* transaction succeeds, fails or cannot be loaded, it is withdrawn, closed,
\* reopened and given to another authority.
NonceBodies ==
  {<<>>, <<Ix("Fail", Prog, a, a, 0)>>,
   <<Ix("WithdrawNonceAccount", System, n, a, 3)>>,
   <<[Ix("AuthorizeNonceAccount", System, n, a, 0) EXCEPT !.authority = b]>>}
NonceMessages ==
  {Msg(payer, n, hash, {a, n}, limit, <<Advance>> \o body) :
     payer \in {a, n}, hash \in 0..1, limit \in {1, NoLimit}, body \in NonceBodies}
  \cup {Msg(a, NoKey, 0, {a, n}, NoLimit, body) : body \in NonceBodies \cup {Reopen, <<Advance>>}}
NonceGenesis ==
  [k \in MCKeys |-> CASE k = a -> Acct(9, System)
                      [] k = n -> NonceAcct(4, "initialized")
                      [] OTHER -> Programs(k)]

\* The system program's instructions and another program's on the account b,
\* which is derived from a, below the rent minimum at first, and after a while
\* holds what looks like a nonce; n holds a nonce of the old format.
OfB(ix) == [ix EXCEPT !.signers = {a, b}]
Spoof(tag) == [Ix("Write", Prog, b, a, 0) EXCEPT !.tag = tag, !.authority = a]
LedgerBodies ==
  {<<Ix("Transfer", System, a, b, l)>> : l \in {1, 3}}
  \cup {<<OfB(Ix("Transfer", System, b, a, 1))>>,
        <<[Ix("TransferWithSeed", System, b, a, 2) EXCEPT !.base = a, !.owner = Prog]>>,
        <<OfB([Ix("CreateAccount", System, a, b, 3) EXCEPT !.size = 1, !.owner = Prog])>>,
        <<OfB([Ix("CreateAccountAllowPrefund", System, b, a, 2) EXCEPT !.size = 1])>>,
        <<OfB([Ix("Allocate", System, b, a, 0) EXCEPT !.size = 1]),
          [Ix("InitializeNonceAccount", System, b, a, 0) EXCEPT !.authority = a]>>,
        <<[Ix("AllocateWithSeed", System, b, a, 0) EXCEPT !.size = 1, !.base = a, !.owner = Prog],
          Spoof("initialized")>>,
        <<[Ix("Assign", System, b, a, 0) EXCEPT !.base = a, !.owner = Prog]>>,
        <<Spoof("zeroed"), [Ix("GiveAway", Prog, b, a, 0) EXCEPT !.owner = System]>>,
        <<[Ix("GiveAway", Prog, b, a, 0) EXCEPT !.owner = System]>>,
        <<Ix("Move", Prog, b, a, 3)>>,
        <<Ix("Mint", Prog, b, a, 1)>>,
        <<Ix("UpgradeNonceAccount", System, n, a, 0)>>}
LedgerMessages ==
  {Msg(a, NoKey, 0, {a, b, n}, NoLimit, body) : body \in LedgerBodies}
  \cup {Msg(b, NoKey, 0, {a, b}, NoLimit, <<Ix("Fail", Prog, a, a, 0)>>),
        Msg(a, NoKey, 0, {a, b, Prog}, NoLimit, <<Ix("Transfer", Prog, a, b, 1)>>),
        Msg(a, NoKey, 0, {a}, NoLimit, <<Ix("Transfer", b, a, b, 1)>>)}
  \cup {Msg(a, nonce, 0, {a, n, b}, NoLimit, <<[Advance EXCEPT !.a = nonce]>>) : nonce \in {n, b}}
LedgerGenesis ==
  [k \in MCKeys |-> CASE k = a -> Acct(7, System)
                      [] k = b -> Acct(1, System)
                      [] k = n -> NonceAcct(3, "legacy")
                      [] OTHER -> Programs(k)]
Derived == {<<a, Prog, b>>}
=============================================================================
