--------------------------- MODULE LoaderAccounts ---------------------------
(***************************************************************************)
(* The accounts of the program loaders, on top of AccountRules.  An        *)
(* account has, besides lamports, owner and size,                          *)
(*   tag         the state its data starts with, "zeroed" if it is zeroed  *)
(*   authority, slot, address                                              *)
(*               the fields of that state                                  *)
(*   code        what follows the state, a sequence of words without       *)
(*               trailing zeros: the data has zeros up to its size         *)
(*   executable  the executable flag                                       *)
(***************************************************************************)
EXTENDS SystemProgram, Sequences, FiniteSetsExt

CONSTANTS
  Words,      \* what a word of code may be; 0 is zero
  Verified,   \* the code that Executable::load and verify accept
  SizeOf      \* the size of each state, by its tag

States ==
  {"zeroed", "Buffer", "Program", "ProgramData", "Retracted", "Deployed", "Finalized"}

ASSUME LoadersAssumption ==
  /\ SizeOf \in [States -> Nat]
  /\ SizeOf["Retracted"] = SizeOf["Deployed"]
  /\ SizeOf["Deployed"] = SizeOf["Finalized"]

NewAccount(lamports, owner, size) ==
  [lamports |-> lamports, owner |-> owner, size |-> size, tag |-> "zeroed",
   authority |-> NoKey, slot |-> 0, address |-> NoKey, code |-> <<>>, executable |-> FALSE]

\* A sequence of words without its trailing zeros.
Strip(s) == SubSeq(s, 1, Max({0} \cup {i \in DOMAIN s : s[i] # 0}))

\* The word at an index of the code, and in the whole data of an account,
\* where those of the state are nothing a verifier accepts.
WordAt(code, i) == IF i \in DOMAIN code THEN code[i] ELSE 0
DataAt(account, i) ==
  IF i > SizeOf[account.tag] THEN WordAt(account.code, i - SizeOf[account.tag])
  ELSE IF account.tag = "zeroed" THEN 0 ELSE Max(Words)

\* get_data_mut and copy_from_slice: words are stored from offset on.
write_code(c, x, k, offset, words) ==
  LET account == x.accounts[k]
      end == offset + Len(words)
      Stored(i) == IF i > offset /\ i <= end THEN words[i - offset] ELSE WordAt(account.code, i)
  IN  Store(Require(x, /\ can_data_be_changed(c, x, k)
                       /\ SizeOf[account.tag] + end <= account.size),
            k, [account EXCEPT !.code =
                  Strip([i \in 1..Max({end, Len(account.code)}) |-> Stored(i)])])

\* set_state, and get_state_mut with its assignments: the state is replaced
\* and what follows it stays, if the state was of the same kind.
set_loader_state(c, x, k, tag, authority, slot, address) ==
  LET account == x.accounts[k]
  IN  Store(Require(x, can_data_be_changed(c, x, k) /\ SizeOf[tag] <= account.size),
            k, [account EXCEPT !.tag = tag, !.authority = authority, !.slot = slot,
                               !.address = address,
                               !.code = IF SizeOf[tag] = SizeOf[account.tag] THEN @ ELSE <<>>])

\* What is left of the code in a space of that length.
Truncate(code, length) == Strip(SubSeq(code, 1, Min({Len(code), Max({0, length})})))

\* set_data_length: code beyond the new length is lost, and so is the state
\* if there is no room for it.
set_length(c, x, k, size) ==
  LET y == set_data_length(c, x, k, size)
      account == y.accounts[k]
  IN  IF ~y.ok THEN y
      ELSE IF size = 0
      THEN [y EXCEPT !.accounts[k] = [NewAccount(account.lamports, account.owner, 0)
                                        EXCEPT !.executable = account.executable]]
      ELSE [y EXCEPT !.accounts[k].code =
              Truncate(@, size - SizeOf[account.tag])]

set_executable(c, x, k) ==
  LET account == x.accounts[k]
  IN  Store(Require(x, /\ is_exempt(account.lamports, account.size)
                       /\ can_data_be_changed(c, x, k)),
            k, [account EXCEPT !.executable = TRUE])

\* native_invoke_signed of the system program: it gets no privilege its
\* caller lacks, but for the signature of an address derived from the caller.
SystemContext(signers, writable) ==
  [program |-> System, signers |-> signers, writable |-> writable]

PrivilegesHeld(c, signers, writable) == signers \subseteq c.signers /\ writable \subseteq c.writable
=============================================================================
