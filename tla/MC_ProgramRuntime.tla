------------------------ MODULE MC_ProgramRuntime ------------------------
(***************************************************************************)
(* Small instances of ProgramRuntime: a payer a, an account d of program   *)
(* A, an address p of A, the programs A and B, the system program and a    *)
(* builtin that calls it.                                                  *)
(***************************************************************************)
EXTENDS ProgramRuntime

CONSTANTS a, d, p, A, B, Builtin, Native, Loader, OldLoader, PrecompiledProgram

MCKeys == {a, d, p, A, B, System, Builtin, Native, Loader, OldLoader, PrecompiledProgram}
MCMinimumBalance == [size \in Sizes |-> 1]

Acct(lamports, owner, size) ==
  [DefaultAccount EXCEPT !.lamports = lamports, !.owner = owner, !.size = size]
LoadedBy(loader_of_b) ==
  [k \in MCKeys |->
     CASE k = a -> Acct(2, System, 0)
       [] k = d -> Acct(1, A, 1)
       [] k = p -> Acct(1, System, 0)
       [] k = A -> Acct(1, Loader, 0)
       [] k = B -> Acct(1, loader_of_b, 0)
       [] k \in {System, Builtin} -> Acct(1, Native, 0)
       [] OTHER -> DefaultAccount]
NewPrograms == LoadedBy(Loader)
OldProgramB == LoadedBy(OldLoader)

Meta(key, signer, writable) == [key |-> key, signer |-> signer, writable |-> writable]
R(key) == Meta(key, FALSE, FALSE)
W(key) == Meta(key, FALSE, TRUE)
S(key) == Meta(key, TRUE, TRUE)

NoIx == [op |-> "None"]
Ix(op, from, to, lamports, owner, signers) ==
  [op |-> op, program |-> System, a |-> from, b |-> to, base |-> NoKey, lamports |-> lamports,
   size |-> 0, owner |-> owner, authority |-> NoKey, signers |-> signers]

Call(program, metas, seeds, ix) ==
  [program |-> program, metas |-> metas, seeds |-> seeds, ix |-> ix,
   infos |-> {metas[i].key : i \in DOMAIN metas}]

Tx(instructions, accounts, mode) ==
  [instructions |-> instructions, signers |-> {a}, writable |-> {a, d, p},
   accounts |-> accounts, mode |-> mode]
Instr(program, accounts, ix) == [program |-> program, accounts |-> accounts, ix |-> ix]

\* A shares its account d with B and with itself in every way, B having the old
\* ABI in one case.
SharingTxs ==
  {Tx(<<Instr(A, <<d, A, B>>, NoIx)>>, accounts, mode) :
     <<accounts, mode>> \in {<<NewPrograms, "copy">>, <<NewPrograms, "direct">>, <<OldProgramB, "regions">>}}
SharingCalls ==
  {Call(B, <<W(d), R(A)>>, {}, NoIx), Call(B, <<R(d)>>, {}, NoIx),
   Call(B, <<R(d), W(d), R(B)>>, {}, NoIx), Call(A, <<W(d), R(B)>>, {}, NoIx)}

\* A message of two instructions, whose programs call each other, themselves,
\* the system program with and without the signature of p, a precompile, and
\* with an account or an AccountInfo missing.
All == <<d, a, p, A, B, System, PrecompiledProgram>>
CallTxs ==
  {Tx(instructions, NewPrograms, "direct") : instructions \in
     {<<Instr(A, All, NoIx), Instr(PrecompiledProgram, <<>>, NoIx)>>,
      <<Instr(Builtin, <<a, p, System>>, NoIx), Instr(A, All, NoIx)>>}}
Transfer(from, to) == Call(System, <<S(from), W(to)>>, {}, Ix("Transfer", from, to, 1, System, {from}))
AssignP == Call(System, <<S(p)>>, {p}, Ix("Assign", p, p, 0, A, {p}))
AddressOfA == {<<A, p>>}
CallCalls ==
  {Transfer(a, d), Transfer(a, p), AssignP,
   Call(B, <<W(d), S(p), R(A), R(System)>>, {p}, NoIx), Call(B, <<W(d), R(p), R(System), R(A)>>, {}, NoIx),
   Call(A, <<W(d), W(a), R(A), R(B)>>, {}, NoIx),
   Call(PrecompiledProgram, <<>>, {}, NoIx),
   [Call(B, <<W(d)>>, {}, NoIx) EXCEPT !.infos = {}]}

\* A pays the executable account B through the system program.
PayTxs ==
  {[Tx(<<Instr(A, <<a, B, System>>, NoIx)>>, NewPrograms, "direct") EXCEPT !.writable = {a, B}]}
PayCalls == {Transfer(a, B)}
=============================================================================
