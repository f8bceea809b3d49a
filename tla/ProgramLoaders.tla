--------------------------- MODULE ProgramLoaders ---------------------------
(***************************************************************************)
(* Transactions of the two loaders over several slots: what they leave in  *)
(* the accounts, and in the cache of programs as their modified entries    *)
(* (ProgramCacheForTxBatch::store_modified_entry).  A transaction is a     *)
(* list of instructions of the loaders and of the system program, with     *)
(* the signatures of some accounts; one that fails leaves nothing (its fee *)
(* is the subject of TransactionBatch).                                    *)
(***************************************************************************)
EXTENDS UpgradeableLoader, LoaderV4

CONSTANTS
  Genesis,           \* what accounts and feature_set may be at the start
  Instructions,      \* for each operation, the instructions: records of operands
  SignerSets,        \* the accounts that may sign a transaction
  MaxInstructions,   \* bound: instructions of a transaction
  MaxSlot            \* bound: slots

VARIABLES
  feature_set,   \* the features of the loaders that are active
  slot,       \* the slot of the block, Clock::slot
  accounts,   \* the accounts after the last transaction
  entries,    \* the newest entry of each program in the cache of the batch
  signers,    \* those of the transaction in execution, {} if there is none
  x,          \* its accounts, see AccountRules
  modified,   \* its modified entries
  count       \* its instructions so far

transaction == <<signers, x, modified, count>>
vars == <<feature_set, slot, accounts, entries, transaction>>

NoEntry == [kind |-> "None"]
Closed == [kind |-> "Closed"]
Loaded(deployment_slot, code) == [kind |-> "Loaded", slot |-> deployment_slot, code |-> code]

\* load_program_accounts and load_program_with_pubkey: the entry the accounts
\* call for.  The owner of the ProgramData account is not looked at.
load_program_with_pubkey(k) ==
  LET account == accounts[k]
  IN  CASE account.owner = LoaderV4Id ->
             IF v4_state(account) \in {"Deployed", "Finalized"}
             THEN Loaded(account.slot, account.code) ELSE Closed
        [] account.owner = UpgradeableLoaderId ->
             IF /\ loader_state(account) = "Program"
                /\ loader_state(accounts[account.address]) = "ProgramData"
             THEN Loaded(accounts[account.address].slot, accounts[account.address].code)
             ELSE Closed
        [] OTHER -> NoEntry

-----------------------------------------------------------------------------
Init ==
  /\ slot = 1
  /\ \E genesis \in Genesis : feature_set = genesis.feature_set /\ accounts = genesis.accounts
  /\ entries = [k \in Keys |-> load_program_with_pubkey(k)]
  /\ signers = {}
  /\ x = Start(accounts)
  /\ modified = [k \in Keys |-> NoEntry]
  /\ count = 0

\* The transaction is over, with the accounts as given.
End(after) ==
  /\ accounts' = after
  /\ x' = Start(after)
  /\ signers' = {}
  /\ modified' = [k \in Keys |-> NoEntry]
  /\ count' = 0

BeginTransaction ==
  /\ signers = {}
  /\ signers' \in SignerSets
  /\ UNCHANGED <<feature_set, slot, accounts, entries, x, modified, count>>

\* An instruction takes the accounts to y, and program's entry to entry if
\* that is not NoEntry.  It fails if lamports are not balanced after it.
Process(y, program, entry) ==
  /\ IF y.ok /\ y.lamports_delta = 0
     THEN /\ x' = y
          /\ modified' = IF entry = NoEntry THEN modified ELSE [modified EXCEPT ![program] = entry]
          /\ count' = count + 1
          /\ UNCHANGED <<signers, accounts>>
     ELSE End(accounts)
  /\ UNCHANGED <<feature_set, slot, entries>>

Running == signers # {} /\ count < MaxInstructions
Context(ix, program) ==
  [program |-> program, signers |-> signers, writable |-> Keys \ ix.readonly]
V3(ix) == Context(ix, UpgradeableLoaderId)
V4(ix) == Context(ix, LoaderV4Id)

-----------------------------------------------------------------------------
\* The system program

CreateAccount(ix) ==
  /\ Running
  /\ Process(create_account(Context(ix, System), x, ix.payer, ix.account, NoKey,
                            ix.lamports, ix.length, ix.owner), ix.account, NoEntry)

Transfer(ix) ==
  /\ Running
  /\ Process(transfer(Context(ix, System), x, ix.payer, ix.account, ix.lamports),
             ix.account, NoEntry)

\* Loader v3

InitializeBuffer(ix) ==
  /\ Running
  /\ Process(initialize_buffer(V3(ix), x, ix.account, ix.authority), ix.account, NoEntry)

Write(ix) ==
  /\ Running
  /\ Process(write(V3(ix), x, ix.account, ix.authority, ix.offset, ix.words), ix.account, NoEntry)

DeployWithMaxDataLen(ix) ==
  /\ Running
  /\ Process(deploy_with_max_data_len(V3(ix), x, ix.payer, ix.account, ix.program, ix.buffer,
                                      ix.authority, ix.length, slot),
             ix.program, Loaded(slot, x.accounts[ix.buffer].code))

Upgrade(ix) ==
  /\ Running
  /\ Process(upgrade(V3(ix), x, ix.account, ix.program, ix.buffer, ix.recipient,
                     ix.authority, slot),
             ix.program, Loaded(slot, x.accounts[ix.buffer].code))

\* SetAuthority, and SetAuthorityChecked with ix.checked
SetAuthority(ix) ==
  /\ Running
  /\ LET active == ix.checked => "enable_bpf_loader_set_authority_checked_ix" \in feature_set
     IN  Process(set_authority(V3(ix), Require(x, active), ix.account, ix.authority,
                               ix.new_authority, ix.checked),
                 ix.account, NoEntry)

Close(ix) ==
  /\ Running
  /\ Process(close(V3(ix), x, ix.account, ix.recipient, ix.authority, ix.program, slot),
             ix.program,
             IF loader_state(x.accounts[ix.account]) = "ProgramData" THEN Closed ELSE NoEntry)

\* ExtendProgram, which ExtendProgramChecked (ix.checked) supersedes
ExtendProgram(ix) ==
  /\ Running
  /\ LET active == ix.checked <=> "enable_extend_program_checked" \in feature_set
     IN  Process(common_extend_program(V3(ix), Require(x, active), ix.account, ix.program,
                                       ix.authority, ix.payer, ix.length, ix.checked, slot),
                 ix.program, Loaded(slot, x.accounts[ix.account].code))

\* Loader v4

WriteV4(ix) ==
  /\ Running
  /\ Process(process_instruction_write(V4(ix), x, ix.program, ix.authority, ix.offset, ix.words),
             ix.program, NoEntry)

Copy(ix) ==
  /\ Running
  /\ Process(process_instruction_copy(V4(ix), x, ix.program, ix.authority, ix.account,
                                      ix.offset, 0, ix.length),
             ix.program, NoEntry)

SetProgramLength(ix) ==
  /\ Running
  /\ Process(process_instruction_set_program_length(V4(ix), x, ix.program, ix.authority,
                                                    ix.length, ix.recipient),
             ix.program, NoEntry)

Deploy(ix) ==
  /\ Running
  /\ Process(process_instruction_deploy(V4(ix), x, ix.program, ix.authority, slot),
             ix.program, Loaded(slot, x.accounts[ix.program].code))

RetractWithoutTombstone(ix) ==
  /\ Running
  /\ Process(process_instruction_retract(V4(ix), x, ix.program, ix.authority, slot),
             ix.program, NoEntry)
Retract(ix) ==
  /\ Running
  /\ Process(process_instruction_retract(V4(ix), x, ix.program, ix.authority, slot),
             ix.program, Closed)

TransferAuthority(ix) ==
  /\ Running
  /\ Process(process_instruction_transfer_authority(V4(ix), x, ix.program, ix.authority,
                                                    ix.new_authority),
             ix.program, NoEntry)

Finalize(ix) ==
  /\ Running
  /\ Process(process_instruction_finalize(V4(ix), x, ix.program, ix.authority, ix.account),
             ix.program, NoEntry)

-----------------------------------------------------------------------------
\* The transaction succeeds if the rent states allow it; accounts without
\* lamports are gone after it (AccountLoader::do_load),
\* and its entries are merged (ProgramCacheForTxBatch::merge).
FinishTransaction ==
  /\ signers # {} /\ count > 0
  /\ IF \A k \in Keys : check_rent_state_with_account(accounts[k], x.accounts[k], k)
     THEN /\ End([k \in Keys |-> IF x.accounts[k].lamports = 0 THEN NewAccount(0, System, 0)
                                 ELSE x.accounts[k]])
          /\ entries' = [k \in Keys |-> IF modified[k] = NoEntry THEN entries[k] ELSE modified[k]]
     ELSE End(accounts) /\ UNCHANGED entries
  /\ UNCHANGED <<feature_set, slot>>

NextSlot ==
  /\ signers = {}
  /\ slot < MaxSlot
  /\ slot' = slot + 1
  /\ UNCHANGED <<feature_set, accounts, entries, transaction>>

Next ==
  \/ BeginTransaction
  \/ \E ix \in Instructions.CreateAccount : CreateAccount(ix)
  \/ \E ix \in Instructions.Transfer : Transfer(ix)
  \/ \E ix \in Instructions.InitializeBuffer : InitializeBuffer(ix)
  \/ \E ix \in Instructions.Write : Write(ix)
  \/ \E ix \in Instructions.DeployWithMaxDataLen : DeployWithMaxDataLen(ix)
  \/ \E ix \in Instructions.Upgrade : Upgrade(ix)
  \/ \E ix \in Instructions.SetAuthority : SetAuthority(ix)
  \/ \E ix \in Instructions.Close : Close(ix)
  \/ \E ix \in Instructions.ExtendProgram : ExtendProgram(ix)
  \/ \E ix \in Instructions.WriteV4 : WriteV4(ix)
  \/ \E ix \in Instructions.Copy : Copy(ix)
  \/ \E ix \in Instructions.SetProgramLength : SetProgramLength(ix)
  \/ \E ix \in Instructions.Deploy : Deploy(ix)
  \/ \E ix \in Instructions.Retract : Retract(ix)
  \/ \E ix \in Instructions.TransferAuthority : TransferAuthority(ix)
  \/ \E ix \in Instructions.Finalize : Finalize(ix)
  \/ FinishTransaction
  \/ NextSlot

Spec == Init /\ [][Next]_vars

-----------------------------------------------------------------------------
\* Properties

\* The type invariant.
TypeOK ==
  /\ slot \in 1..MaxSlot
  /\ accounts = x.accounts \/ signers # {}
  /\ \A k \in Keys :
       LET account == x.accounts[k]
       IN  /\ account.lamports \in 0..U64Max
           /\ account.owner \in {System, UpgradeableLoaderId, LoaderV4Id} \/ account = accounts[k]
           /\ account.size \in 0..MaxDataLength
           /\ account.tag \in States
           /\ account.tag # "zeroed" =>
                Len(account.code) + SizeOf[account.tag] <= account.size
           /\ account.slot \in 0..slot
           /\ account.authority \in Keys \cup {NoKey}
  /\ DOMAIN entries = Keys /\ DOMAIN modified = Keys
  /\ count \in 0..MaxInstructions

\* The cache follows the accounts: after every transaction the newest entry of
\* a program is what loading it from its accounts would give, and a program
\* that can be loaded passes verification (deploy_program, the tombstones of
\* Close and Retract; program_loader.rs, load_program_with_pubkey).  No
\* ProgramData account is left without a program: the executable account at
\* the address it is derived from refers to it.
EntriesMatchAccounts ==
  \A k \in Keys :
    LET loaded == load_program_with_pubkey(k)
    IN  /\ loaded.kind = "Loaded" \/ entries[k].kind = "Loaded" => entries[k] = loaded
        /\ loaded.kind = "Loaded" => loaded.code \in Verified
        /\ accounts[k].owner = UpgradeableLoaderId /\ accounts[k].tag = "ProgramData" =>
             \E p \in DOMAIN ProgramDataOf :
               /\ ProgramDataOf[p] = k
               /\ accounts[p].tag = "Program" /\ accounts[p].address = k
               /\ accounts[p].executable

\* A program that was deployed, upgraded or extended in a slot stays as it is
\* until the end of the slot, whatever transactions follow: its visibility is
\* delayed by a slot, so nothing may happen to it before (the checks of slot
\* in Upgrade, Close and common_extend_program; DEPLOYMENT_COOLDOWN_IN_SLOTS).
OneDeploymentPerSlot ==
  [][\A k \in Keys :
       LET loaded == load_program_with_pubkey(k)
       IN  loaded.kind = "Loaded" /\ loaded.slot = slot => load_program_with_pubkey(k)' = loaded
    ]_accounts

\* A program without upgrade authority and a finalized program never change
\* again, and nobody takes their lamports (Immutable).
ImmutableForever ==
  [][\A k \in Keys :
       LET before == accounts[k]
           after == accounts'[k]
       IN  \/ before.tag = "ProgramData" /\ before.authority = NoKey
           \/ before.tag = "Finalized"
           => /\ after = [before EXCEPT !.lamports = after.lamports]
              /\ after.lamports >= before.lamports]_accounts

\* What has an authority changes only with its signature: code, state,
\* authority and balance of buffers and programs.  The one exception is
\* ExtendProgram without check_authority, which adds zeros.
AuthoritySigns ==
  [][\A k \in Keys :
       LET before == accounts[k]
           after == accounts'[k]
       IN  /\ before.tag # "zeroed"
           /\ before.authority \in Keys
           /\ before.tag # "Finalized"
           /\ \/ after.lamports < before.lamports
              \/ after # [before EXCEPT !.lamports = after.lamports, !.size = after.size,
                                        !.slot = after.slot]
              \/ after.size < before.size
           => before.authority \in signers]_accounts

\* A closed program of loader v3 stays closed: its address can never be
\* deployed to again, although its ProgramData account is gone and may be
\* funded or initialized anew (Close; DeployWithMaxDataLen).
ClosedForever ==
  [][\A k \in Keys :
       /\ accounts[k].owner = UpgradeableLoaderId
       /\ accounts[k].tag = "Program"
       /\ load_program_with_pubkey(k) = Closed
       => /\ accounts'[k].tag = "Program"
          /\ load_program_with_pubkey(k)' = Closed]_accounts

\* Following the next versions of finalized programs comes to an end, at a
\* program that is not finalized or is its own next version: there is no
\* longer cycle (process_instruction_finalize).
NextVersionsEnd ==
  LET finalized == {k \in Keys : x.accounts[k].tag = "Finalized"}
      next(k) == x.accounts[k].authority
  IN  \A S \in SUBSET finalized \ {{}} :
        \E k \in S : next(k) \notin S \/ next(k) = k

\* Accounts, cache entries and what loading gives agree, and the chains of
\* next versions end (lib.rs of both loaders; program_loader.rs).
ProgramsAreConsistent == TypeOK /\ EntriesMatchAccounts /\ NextVersionsEnd

\* What was given up stays so: an immutable program is never changed and a
\* closed one never deployed again (bpf_loader/src/lib.rs, Close and
\* SetAuthority; loader-v4/src/lib.rs, process_instruction_finalize).
RetiredForever == ImmutableForever /\ ClosedForever
=============================================================================
