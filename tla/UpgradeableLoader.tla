------------------------- MODULE UpgradeableLoader -------------------------
(***************************************************************************)
(* The management instructions of the upgradeable loader, loader v3        *)
(* (programs/bpf_loader/src/lib.rs): a program is a Program account that   *)
(* refers to a ProgramData account, at an address derived from its own,    *)
(* which holds the code and the authority.  Code arrives in Buffer         *)
(* accounts.                                                               *)
(*                                                                         *)
(* As in SystemProgram an instruction is a function of the transaction in  *)
(* execution.  Borrowing one account twice is an error, so accounts that   *)
(* are borrowed together are different.  The sysvars are taken to be       *)
(* passed as they should be.                                               *)
(***************************************************************************)
EXTENDS LoaderAccounts

CONSTANT ProgramDataOf   \* find_program_address: derived from the address of a program

\* get_state::<UpgradeableLoaderState>(), whoever owns the account.
loader_state(account) ==
  IF account.size < SizeOf["zeroed"] THEN "invalid"
  ELSE IF account.tag = "zeroed" THEN "Uninitialized" ELSE account.tag

\* The authority of a Buffer or ProgramData account is given and has signed.
AuthorityNamed(c, account, authority) ==
  /\ account.authority # NoKey
  /\ account.authority = authority
AuthoritySigned(c, account, authority) ==
  /\ account.authority # NoKey
  /\ account.authority = authority
  /\ authority \in c.signers

\* A buffer from which a program may be deployed.
BufferVerified(c, account, authority) ==
  /\ loader_state(account) = "Buffer"
  /\ AuthoritySigned(c, account, authority)
  /\ account.size > SizeOf["Buffer"]

\* An account that may become a program.
ProgramLargeEnough(account) ==
  /\ account.size >= SizeOf["Program"]
  /\ account.lamports >= MinimumBalance[account.size]
ProgramUninitialized(account) ==
  /\ loader_state(account) = "Uninitialized"
  /\ account.size >= SizeOf["Program"]
  /\ account.lamports >= MinimumBalance[account.size]

\* "Program was deployed in this block already" does not hold.
EverySlotIsNew(account, slot) == TRUE
DeployedEarlier(account, slot) == account.slot # slot

\* A program account of the loader that refers to programdata.
RefersTo(c, x, program, programdata) ==
  LET account == x.accounts[program]
  IN  /\ program \in c.writable
      /\ account.owner = c.program
      /\ loader_state(account) = "Program"
      /\ account.address = programdata

initialize_buffer(c, x, buffer, authority) ==
  set_loader_state(c, Require(x, loader_state(x.accounts[buffer]) = "Uninitialized"),
                   buffer, "Buffer", authority, 0, NoKey)

write(c, x, buffer, authority, offset, words) ==
  LET account == x.accounts[buffer]
  IN  write_code(c, Require(x, /\ loader_state(account) = "Buffer"
                               /\ AuthoritySigned(c, account, authority)),
                 buffer, offset, words)

\* Update the Program account.
update_program(c, x, program, programdata) ==
  set_executable(c, set_loader_state(c, x, program, "Program", NoKey, 0, programdata), program)

\* The buffer is drained to the payer, who pays for the ProgramData account.
deploy_with_max_data_len(c, x, payer, programdata, program, buffer, authority, max_data_len, slot) ==
  LET source == x.accounts[buffer]
      size == SizeOf["ProgramData"] + max_data_len
      y == Require(x, /\ ProgramUninitialized(x.accounts[program])
                      /\ BufferVerified(c, source, authority)
                      /\ max_data_len >= source.size - SizeOf["Buffer"]
                      /\ size <= MaxDataLength
                      /\ programdata = ProgramDataOf[program]
                      /\ payer # buffer)
      drained == set_lamports(c, checked_add_lamports(c, y, payer, source.lamports), buffer, 0)
      created == create_account(
                   SystemContext({payer, programdata}, {payer, programdata, buffer}),
                   Require(drained, PrivilegesHeld(c, {payer}, {payer, programdata, buffer})),
                   payer, programdata, NoKey, MinimumBalance[size], size, c.program)
      verified == Require(created, source.code \in Verified /\ programdata # buffer)
      recorded == write_code(c, set_loader_state(c, verified, programdata, "ProgramData",
                                                 authority, slot, NoKey),
                             programdata, 0, source.code)
      emptied == set_length(c, recorded, buffer, SizeOf["Buffer"])
  IN  update_program(c, emptied, program, programdata)

\* The balance of the buffer funds the ProgramData account, the rest is spilled.
upgrade(c, x, programdata, program, buffer, spill, authority, slot) ==
  LET source == x.accounts[buffer]
      target == x.accounts[programdata]
      required == MinimumBalance[target.size]
      balance == target.lamports + source.lamports
      y == Require(x, /\ RefersTo(c, x, program, programdata)
                      /\ BufferVerified(c, source, authority)
                      /\ target.size >= SizeOf["ProgramData"] + source.size - SizeOf["Buffer"]
                      /\ balance >= required
                      /\ loader_state(target) = "ProgramData"
                      /\ DeployedEarlier(target, slot)
                      /\ AuthoritySigned(c, target, authority)
                      /\ source.code \in Verified
                      /\ Cardinality({programdata, buffer, spill}) = 3)
      z == set_loader_state(c, y, programdata, "ProgramData", authority, slot, NoKey)
      replaced == IF z.ok THEN [z EXCEPT !.accounts[programdata].code = source.code] ELSE z
      spilled == checked_add_lamports(c, replaced, spill, balance - required)
      funded == set_lamports(c, set_lamports(c, spilled, buffer, 0), programdata, required)
  IN  set_length(c, funded, buffer, SizeOf["Buffer"])

\* SetAuthority without (checked FALSE) and SetAuthorityChecked with a new
\* authority that signs; new_authority NoKey makes a program immutable.
set_authority(c, x, k, authority, new_authority, checked) ==
  LET account == x.accounts[k]
      y == Require(x, /\ loader_state(account) \in {"Buffer", "ProgramData"}
                      /\ loader_state(account) = "Buffer" => new_authority # NoKey
                      /\ AuthoritySigned(c, account, authority)
                      /\ checked => new_authority \in c.signers)
  IN  set_loader_state(c, y, k, account.tag, new_authority, account.slot, NoKey)

common_close_account(c, x, k, recipient, old, authority) ==
  LET y == Require(x, AuthoritySigned(c, old, authority))
      z == set_lamports(c, checked_add_lamports(c, y, recipient, old.lamports), k, 0)
  IN  set_loader_state(c, z, k, "zeroed", NoKey, 0, NoKey)

\* program is used for ProgramData accounts only.
close(c, x, k, recipient, authority, program, slot) ==
  LET old == x.accounts[k]
      state == loader_state(old)
      y == set_length(c, Require(x, /\ k # recipient
                                    /\ state \in {"Uninitialized", "Buffer", "ProgramData"}),
                      k, SizeOf["zeroed"])
      z == Require(y, state = "ProgramData" => /\ RefersTo(c, x, program, k)
                                               /\ DeployedEarlier(old, slot))
  IN  IF state = "Uninitialized"
      THEN set_lamports(c, checked_add_lamports(c, y, recipient, old.lamports), k, 0)
      ELSE common_close_account(c, z, k, recipient, old, authority)

\* The authority of the ProgramData account to be extended.
Extendable(c, account, authority, check_authority) ==
  /\ account.authority # NoKey
  /\ check_authority => AuthoritySigned(c, account, authority)

\* ExtendProgram without and ExtendProgramChecked with the authority.
common_extend_program(c, x, programdata, program, authority, payer, additional, check_authority, slot) ==
  LET old == x.accounts[programdata]
      size == old.size + additional
      y == Require(x, /\ additional > 0
                      /\ old.owner = c.program
                      /\ programdata \in c.writable
                      /\ programdata # program
                      /\ RefersTo(c, x, program, programdata)
                      /\ size <= MaxDataLength
                      /\ loader_state(old) = "ProgramData"
                      /\ DeployedEarlier(old, slot)
                      /\ Extendable(c, old, authority, check_authority))
      payment == Max({0, MinimumBalance[size] - old.lamports})
      paid == IF payment = 0 THEN y
              ELSE transfer(SystemContext({payer}, {payer, programdata}),
                            Require(y, PrivilegesHeld(c, {payer}, {payer, programdata})),
                            payer, programdata, payment)
      z == Require(set_length(c, paid, programdata, size), old.code \in Verified)
  IN  set_loader_state(c, z, programdata, "ProgramData", old.authority, slot, NoKey)
=============================================================================
