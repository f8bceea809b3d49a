------------------------------ MODULE LoaderV4 ------------------------------
(***************************************************************************)
(* The instructions of loader v4 (programs/loader-v4/src/lib.rs).  A       *)
(* program is one account: its state, "Retracted", "Deployed" or           *)
(* "Finalized", and its code.  The field authority of a finalized program  *)
(* is the next version of it (authority_address_or_next_version).          *)
(***************************************************************************)
EXTENDS LoaderAccounts

CONSTANTS
  LoaderV4Id,               \* the address of the loader
  UpgradeableLoaderId,      \* and that of loader v3
  DeploymentCooldown        \* DEPLOYMENT_COOLDOWN_IN_SLOTS

\* get_state: data that is long enough and zeroed is a retracted program of
\* nobody.
v4_state(account) ==
  IF account.size < SizeOf["Retracted"] THEN "none"
  ELSE IF account.tag = "zeroed" THEN "Retracted" ELSE account.tag

check_program_account(c, x, program, authority) ==
  LET account == x.accounts[program]
  IN  /\ account.owner = LoaderV4Id
      /\ v4_state(account) \notin {"none", "Finalized"}
      /\ program \in c.writable
      /\ authority \in c.signers
      /\ account.authority = authority

Retracted(x, program) == v4_state(x.accounts[program]) = "Retracted"

process_instruction_write(c, x, program, authority, offset, words) ==
  write_code(c, Require(x, /\ check_program_account(c, x, program, authority)
                           /\ Retracted(x, program)),
             program, offset, words)

\* Code of any loader may be copied, from wherever that loader keeps it; the
\* loaders v1 and v2 own no account here.
process_instruction_copy(c, x, program, authority, source, destination_offset, source_offset, length) ==
  LET from == x.accounts[source]
      first == source_offset + SizeOf[IF from.owner = LoaderV4Id THEN "Retracted" ELSE "ProgramData"]
      y == Require(x, /\ program # source
                      /\ check_program_account(c, x, program, authority)
                      /\ Retracted(x, program)
                      /\ from.owner \in {LoaderV4Id, UpgradeableLoaderId}
                      /\ first + length <= from.size)
  IN  write_code(c, y, program, destination_offset,
                 [i \in 1..length |-> DataAt(from, first + i)])

\* Length 0 closes the program; a recipient that cannot be borrowed, as the
\* program itself, counts as none.
process_instruction_set_program_length(c, x, program, authority, new_size, recipient) ==
  LET account == x.accounts[program]
      is_initialization == account.size < SizeOf["Retracted"]
      size == IF new_size = 0 THEN 0 ELSE SizeOf["Retracted"] + new_size
      required == IF new_size = 0 THEN 0 ELSE MinimumBalance[size]
      surplus == account.lamports - required
      y == Require(x, /\ IF is_initialization
                         THEN /\ account.owner = LoaderV4Id
                              /\ program \in c.writable
                              /\ authority \in c.signers
                         ELSE /\ check_program_account(c, x, program, authority)
                              /\ Retracted(x, program)
                      /\ surplus >= 0
                      /\ surplus > 0 /\ new_size = 0 => recipient \notin {NoKey, program})
      z == IF surplus <= 0 \/ recipient \in {NoKey, program} THEN y
           ELSE checked_add_lamports(
                  c, checked_sub_lamports(c, Require(y, recipient \in c.writable), program, surplus),
                  recipient, surplus)
      resized == set_length(c, z, program, size)
  IN  IF is_initialization /\ new_size > 0
      THEN set_loader_state(c, set_executable(c, resized, program),
                            program, "Retracted", authority, 0, NoKey)
      ELSE resized

process_instruction_deploy(c, x, program, authority, slot) ==
  LET account == x.accounts[program]
      y == Require(x, /\ check_program_account(c, x, program, authority)
                      /\ account.slot = 0 \/ account.slot + DeploymentCooldown <= slot
                      /\ Retracted(x, program)
                      /\ account.code \in Verified)
  IN  set_loader_state(c, y, program, "Deployed", authority, slot, NoKey)

process_instruction_retract(c, x, program, authority, slot) ==
  LET account == x.accounts[program]
      y == Require(x, /\ check_program_account(c, x, program, authority)
                      /\ account.slot + DeploymentCooldown <= slot
                      /\ v4_state(account) = "Deployed")
  IN  set_loader_state(c, y, program, "Retracted", authority, account.slot, NoKey)

process_instruction_transfer_authority(c, x, program, authority, new_authority) ==
  LET account == x.accounts[program]
      y == Require(x, /\ check_program_account(c, x, program, authority)
                      /\ new_authority \in c.signers
                      /\ new_authority # authority)
  IN  set_loader_state(c, y, program, account.tag, new_authority, account.slot, NoKey)

NextVersionAllowed(next, authority) ==
  /\ next.owner = LoaderV4Id
  /\ v4_state(next) \notin {"none", "Finalized"}
  /\ next.authority = authority

process_instruction_finalize(c, x, program, authority, next_version) ==
  LET account == x.accounts[program]
      y == Require(x, /\ check_program_account(c, x, program, authority)
                      /\ v4_state(account) = "Deployed"
                      /\ NextVersionAllowed(x.accounts[next_version], authority))
  IN  set_loader_state(c, y, program, "Finalized", next_version, account.slot, NoKey)
=============================================================================
