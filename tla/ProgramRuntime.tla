-------------------------- MODULE ProgramRuntime --------------------------
(***************************************************************************)
(* The execution of one transaction: the instruction stack and trace       *)
(* (transaction-context/src/transaction.rs), InvokeContext, the entry to   *)
(* and exit from programs (program-runtime/src/vm.rs, serialization.rs)    *)
(* and cross-program invocation (cpi.rs).                                  *)
(*                                                                         *)
(* A program does not see the accounts, it sees a serialized view of them  *)
(* in its memory and changes that.  The changes reach the accounts when    *)
(* the program returns (deserialize_parameters) or calls another program   *)
(* (update_callee_account); the callee's changes reach the caller's view   *)
(* when the callee returns (update_caller_account).  Mode says how the     *)
(* data of accounts is mapped, which depends on the features of the bank:  *)
(*   "copy"     a copy in a buffer the program may write freely            *)
(*   "regions"  a copy in a memory region per account, which is as long    *)
(*              as the data and writable only if the program may change    *)
(*              it (virtual_address_space_adjustments)                     *)
(*   "direct"   a region that maps the account's own data                  *)
(*              (account_data_direct_mapping)                              *)
(* in all of them syscall_parameter_address_restrictions is active, so     *)
(* that the pointers a program passes are the ones of its input.           *)
(*                                                                         *)
(* Of the data its length and its first byte are modelled: tag "zeroed" or *)
(* "other", a length of 0 reading as "zeroed".  Programs are arbitrary:    *)
(* they take any step their memory permits, one compute unit each.         *)
(***************************************************************************)
EXTENDS SystemProgram, Sequences, SequencesExt

CONSTANTS
  Transactions,       \* the transactions: [instructions, signers, writable, accounts, mode]
  Calls,              \* the cross-program invocations a program may ask for
  Executable,         \* the accounts with the executable flag
  NativeLoader,       \* the owner of builtin programs
  Loaders,            \* the owners of sBPF programs
  DeprecatedLoader,   \* the one of them whose programs use ABI v0
  Precompiles,        \* programs that are verified, not run
  Unauthorized,       \* programs check_authorized_program refuses
  ProgramAddress,     \* <<program, address>>: seeds derive address from program
  MaxIncrease,        \* MAX_PERMITTED_DATA_INCREASE
  StackCapacity,      \* instruction_stack_capacity
  TraceCapacity,      \* instruction_trace_capacity
  ComputeUnits,       \* the compute budget
  NewOwners,          \* the owners a program may write to an account
  Touched             \* bound: the accounts programs write to

ASSUME RuntimeAssumption ==
  /\ MaxIncrease \in Nat
  /\ StackCapacity \in Nat
  /\ TraceCapacity \in Nat
  /\ ComputeUnits \in Nat
  /\ \A tx \in Transactions :
       tx.accounts \in [Keys -> Account] /\ tx.mode \in {"copy", "regions", "direct"}

VARIABLES
  message,          \* the transaction, its accounts and the mapping of their data
  x,                \* TransactionAccounts: accounts, lamports_delta, resize_delta
  stack,            \* instruction_stack, each entry with its program's memory
  trace,            \* instruction_trace without the placeholder at its end
  prepared,         \* Len(instruction_accounts): the configured instructions
  next_top,         \* next_top_level_instruction_index
  syscall_context,  \* Len(syscall_context)
  meter,            \* the remaining compute units
  status            \* "running", "unwinding" (an error propagates), "ok", "err"

vars == <<message, x, stack, trace, prepared, next_top, syscall_context, meter, status>>

Mode == message.mode

AppendIfNew(s, e) == IF Contains(s, e) THEN s ELSE Append(s, e)
Deduplicate(s) == FoldLeft(AppendIfNew, <<>>, s)

Top == Last(stack)
TopLevel == Len(message.instructions)
number_of_cpis_in_trace == Len(trace) - TopLevel
number_of_called_instructions_in_trace == next_top + number_of_cpis_in_trace

\* The program's instruction as AccountRules takes it.
Context(f) == [program |-> f.program, signers |-> f.signers, writable |-> f.writable]

-----------------------------------------------------------------------------
\* Memory of a program: serialization.rs

Region == [len : Nat, writable : BOOLEAN]

\* address_space_reserved_for_account
Reserved(deprecated, original) == IF deprecated THEN original ELSE original + MaxIncrease

\* modify_memory_region_of_account and create_memory_region_of_account.  A
\* region that is read-only because the data is still shared becomes writable
\* at the first store, so writable stands for access_violation_handler_payload.
memory_region_of_account(c, y, k, reserved) ==
  IF Mode = "copy" \/ reserved = 0
  THEN [len |-> 0, writable |-> FALSE]
  ELSE [len |-> y.accounts[k].size, writable |-> can_data_be_changed(c, y, k)]

\* serialize_parameters: size is the length in the serialized parameters,
\* info_size the one in the AccountInfo the program makes of them.  dirty is
\* history: what the program wrote since the account was last synchronized.
write_account(c, y, deprecated, k) ==
  LET account == y.accounts[k]
  IN  [lamports  |-> account.lamports,
       owner     |-> account.owner,
       size      |-> account.size,
       info_size |-> account.size,
       tag       |-> IF Mode = "direct" THEN "zeroed" ELSE account.tag,
       original  |-> account.size,
       region    |-> memory_region_of_account(c, y, k, Reserved(deprecated, account.size)),
       dirty     |-> {}]

\* The two ways in which data is made to be of the given length and content.
set_data_from_slice(c, y, k, size, tag) ==
  LET account == y.accounts[k]
  IN  Store(Require(y, can_data_be_resized(c, y, k, size)),
            k, [account EXCEPT !.size = size, !.tag = IF size = 0 THEN "zeroed" ELSE tag])

SameData(account, size, tag) == account.size = size /\ (size = 0 \/ account.tag = tag)

SynchronizeData(c, y, k, size, tag) ==
  CASE Mode = "copy" ->
         IF can_data_be_resized(c, y, k, size)
         THEN set_data_from_slice(c, y, k, size, tag)
         ELSE Require(y, SameData(y.accounts[k], size, tag))
    [] Mode = "regions" /\ can_data_be_changed(c, y, k) ->
         set_data_from_slice(c, y, k, size, tag)
    [] OTHER ->
         IF y.accounts[k].size = size THEN y ELSE set_data_length(c, y, k, size)

SynchronizeLamports(c, y, k, lamports) ==
  IF y.accounts[k].lamports = lamports THEN y ELSE set_lamports(c, y, k, lamports)

\* The owner last, so that lamports and data may change before.
SynchronizeOwner(c, y, k, owner) ==
  IF y.accounts[k].owner = owner THEN y ELSE set_owner(c, y, k, owner)

deserialize_parameters_for_abiv0(f, y, k) ==
  LET c == Context(f)  v == f.view[k]
  IN  SynchronizeData(c, SynchronizeLamports(c, y, k, v.lamports), k, v.original, v.tag)

deserialize_parameters_for_abiv1(f, y, k) ==
  LET c == Context(f)
      v == f.view[k]
      z == Require(SynchronizeLamports(c, y, k, v.lamports),
                   v.size - v.original <= MaxIncrease /\ v.size <= MaxDataLength)
  IN  SynchronizeOwner(c, SynchronizeData(c, z, k, v.size, v.tag), k, v.owner)

\* What a program left in its memory reaches the accounts, one after the
\* other; a duplicate is the account it duplicates.
deserialize_parameters(f, y) ==
  LET One(z, k) == IF f.deprecated THEN deserialize_parameters_for_abiv0(f, z, k)
                   ELSE deserialize_parameters_for_abiv1(f, z, k)
  IN  FoldLeft(One, y, f.accounts)

-----------------------------------------------------------------------------
\* Cross-program invocation: cpi.rs

\* update_callee_account: the caller's changes reach the account.
update_callee_account(c, y, k, v) ==
  SynchronizeOwner(c,
    SynchronizeData(c, SynchronizeLamports(c, y, k, v.lamports), k, v.info_size, v.tag),
    k, v.owner)

MustUpdateForLengthOnly(y, k, v) == Mode # "copy" /\ y.accounts[k].size # v.info_size
\* What it returns: the memory region of the caller will need an update.
must_update_caller(y, k, v) ==
  \/ Mode # "copy" /\ y.accounts[k].size # v.info_size
  \/ y.accounts[k].owner # v.owner

\* A view after update_callee_account, which clears the part of a buffer that
\* is no longer in use.
Published(v) ==
  [v EXCEPT !.dirty = IF v.size = v.info_size THEN {} ELSE {"size"},
            !.tag = IF Mode = "regions" /\ v.info_size = 0 THEN "zeroed" ELSE @]

UpdateInfoLengthOnly(v, account) ==
  [v EXCEPT !.lamports = account.lamports,
            !.owner = account.owner,
            !.info_size = account.size,
            !.tag = account.tag,
            !.dirty = {}]
\* A view after update_caller_account.  The length in the serialized
\* parameters is written only if the one of the AccountInfo changes.
update_caller_account(v, account) ==
  LET size == IF v.info_size # account.size THEN account.size ELSE v.size
  IN  [v EXCEPT !.lamports = account.lamports,
                !.owner = account.owner,
                !.info_size = account.size,
                !.size = size,
                !.tag = IF Mode = "direct" THEN "zeroed"
                        ELSE IF account.size > 0 THEN account.tag
                        ELSE IF v.info_size > 0 THEN "zeroed" ELSE @,
                !.dirty = IF size = account.size THEN {} ELSE {"size"}]

\* The caller f after its callee returned; infos and regions are the accounts
\* with update_caller_account_info and update_caller_account_region.
CpiExit(f, y) ==
  LET Update(k) ==
        LET v == IF k \in f.infos THEN update_caller_account(f.view[k], y.accounts[k])
                 ELSE f.view[k]
        IN  IF k \in f.regions
            THEN [v EXCEPT !.region = memory_region_of_account(
                             Context(f), y, k, Reserved(f.deprecated, v.original))]
            ELSE v
  IN  [f EXCEPT !.view = [k \in DOMAIN f.view |-> Update(k)], !.infos = {}, !.regions = {}]

FitsCaller(f, y) ==
  \A k \in f.infos : y.accounts[k].size <= Reserved(f.deprecated, f.view[k].original)

\* The instruction an invocation asks for: the flags of a repeated account
\* are joined.
Callee(call) ==
  LET metas == ToSet(call.metas)
  IN  [program |-> call.program, ix |-> call.ix,
       accounts |-> Deduplicate([i \in DOMAIN call.metas |-> call.metas[i].key]),
       signers  |-> {meta.key : meta \in {meta \in metas : meta.signer}},
       writable |-> {meta.key : meta \in {meta \in metas : meta.writable}}]

PrepareWithAnySeeds(f, callee, seeds) ==
  /\ ToSet(callee.accounts) \cup {callee.program} \subseteq ToSet(f.accounts)
  /\ callee.writable \subseteq f.writable
  /\ callee.signers \subseteq f.signers \cup seeds
\* prepare_next_cpi_instruction succeeds: nothing the caller f does not have,
\* except the signatures of its own program addresses.
prepare_next_cpi_instruction(f, callee, seeds) ==
  /\ ToSet(callee.accounts) \cup {callee.program} \subseteq ToSet(f.accounts)
  /\ callee.writable \subseteq f.writable
  /\ callee.signers \subseteq
       f.signers \cup {k \in seeds : <<f.program, k>> \in ProgramAddress}

Translated(callee) ==
  LET Synchronized(k) == k \notin Executable
  IN  SelectSeq(callee.accounts, Synchronized)

\* translate_accounts succeeds: each account comes with an AccountInfo, whose
\* length the address space of the account can hold.
translate_accounts(f, callee, infos) ==
  \A k \in ToSet(Translated(callee)) :
    k \in infos /\ f.view[k].info_size <= Reserved(f.deprecated, f.view[k].original)

UpdateCallees(f, callee) ==
  LET One(y, k) == update_callee_account(Context(f), y, k, f.view[k])
  IN  FoldLeft(One, x, Translated(callee))

\* The caller f with its call under way.
Calling(f, callee) ==
  LET keys == ToSet(Translated(callee))
      infos == keys \cap callee.writable
  IN  [f EXCEPT !.infos = infos,
                !.regions = infos \cup {k \in keys : must_update_caller(x, k, f.view[k])},
                !.view = [k \in DOMAIN f.view |->
                            IF k \in keys THEN Published(f.view[k]) ELSE f.view[k]]]

-----------------------------------------------------------------------------
\* The stack: InvokeContext::push and pop, TransactionContext::push and pop

IndexOfLast(level) == IF level = 0 THEN next_top + 1 ELSE Len(trace)
index_in_trace(level) == IF level = 0 THEN next_top + 1 ELSE Len(trace) + 1

\* An instruction may not call with lamports_delta # 0.
is_unbalanced(level, y) == level > 0 /\ y.lamports_delta # 0

NewFrame(callee, y, index) ==
  LET owner == y.accounts[callee.program].owner
      deprecated == owner = DeprecatedLoader
  IN  [program |-> callee.program, accounts |-> callee.accounts, ix |-> callee.ix,
       signers |-> callee.signers, writable |-> callee.writable, index |-> index,
       bpf |-> owner \in Loaders, deprecated |-> deprecated, invoked |-> FALSE,
       view |-> IF owner \in Loaders
                THEN [k \in ToSet(callee.accounts) |->
                        write_account(Context(callee), y, deprecated, k)]
                ELSE <<>>,
       infos |-> {}, regions |-> {}]

\* push and the beginning of process_executable_chain.  Each error leaves
\* behind what was done before it was found.
Push(y, callers, callee) ==
  LET level == Len(callers)
      reentrant == /\ \E i \in DOMAIN callers : callers[i].program = callee.program
                   /\ Last(callers).program # callee.program
      refused == \/ is_unbalanced(level, y)
                 \/ number_of_called_instructions_in_trace >= TraceCapacity
      traced == ~reentrant /\ ~refused
      supported == IF callee.program \in Precompiles THEN level = 0
                   ELSE y.accounts[callee.program].owner \in Loaders \cup {NativeLoader}
  IN  /\ x' = y
      /\ syscall_context' = IF reentrant THEN syscall_context ELSE syscall_context + 1
      /\ next_top' = IF traced /\ level = 0 THEN next_top + 1 ELSE next_top
      /\ trace' = IF traced /\ level > 0
                  THEN Append(trace, [program |-> callee.program, nesting_level |-> level,
                                      caller |-> Last(callers).index, top |-> next_top])
                  ELSE trace
      /\ IF traced /\ level < StackCapacity
         THEN /\ stack' = Append(callers, NewFrame(callee, y, index_in_trace(level)))
              /\ status' = IF supported THEN "running" ELSE "unwinding"
         ELSE /\ stack' = callers
              /\ status' = "unwinding"

\* The end of an instruction whose program left the accounts as y: pop, and
\* the rest of cpi_common in the caller.
Finish(y) ==
  LET rest == Front(stack)
      caller == Last(rest)
      popped == y.ok /\ y.lamports_delta = 0
      synchronized == rest # <<>> /\ caller.bpf => FitsCaller(caller, y)
  IN  /\ x' = y
      /\ syscall_context' = syscall_context - 1
      /\ status' = IF popped /\ synchronized THEN "running" ELSE "unwinding"
      /\ stack' = IF popped /\ synchronized /\ rest # <<>> /\ caller.bpf
                  THEN Append(Front(rest), CpiExit(caller, y)) ELSE rest
      /\ UNCHANGED <<message, trace, prepared, next_top>>

-----------------------------------------------------------------------------
\* Steps

Running == status = "running"
RunningProgram == Running /\ stack # <<>> /\ Top.bpf /\ meter > 0
RunningBuiltin == Running /\ stack # <<>> /\ ~Top.bpf /\ meter > 0

Init ==
  /\ message \in Transactions
  /\ x = Start(message.accounts)
  /\ stack = <<>>
  /\ trace = [i \in DOMAIN message.instructions |->
                [program |-> message.instructions[i].program, nesting_level |-> 0,
                 caller |-> 0, top |-> i]]
  /\ prepared = Len(message.instructions)
  /\ next_top = 0
  /\ syscall_context = 0
  /\ meter = ComputeUnits
  /\ status = "running"

\* process_message: the next instruction of the message.
NextInstruction ==
  /\ Running /\ stack = <<>> /\ next_top < TopLevel
  /\ LET ix == message.instructions[next_top + 1]
         keys == ToSet(ix.accounts)
     IN  Push(x, <<>>, [program |-> ix.program, ix |-> ix.ix,
                        accounts |-> Deduplicate(ix.accounts),
                        signers  |-> keys \cap message.signers,
                        writable |-> keys \cap message.writable])
  /\ UNCHANGED <<message, prepared, meter>>

\* A program writes to its memory: the metadata of any account, ...
SetView(k, v) == stack' = Append(Front(stack), [Top EXCEPT !.view[k] = v])

WriteMetadata(k, v) ==
  /\ SetView(k, v)
  /\ meter' = meter - 1
  /\ UNCHANGED <<message, x, trace, prepared, next_top, syscall_context, status>>

WriteLamports ==
  /\ RunningProgram
  /\ \E k \in DOMAIN Top.view \cap Touched, step \in {-1, 1} :
       /\ Top.view[k].lamports + step \in 0..U64Max
       /\ WriteMetadata(k, [Top.view[k] EXCEPT !.lamports = @ + step,
                                               !.dirty = @ \cup {"lamports"}])

WriteOwner ==
  /\ RunningProgram
  /\ \E k \in DOMAIN Top.view \cap Touched, owner \in NewOwners :
       WriteMetadata(k, [Top.view[k] EXCEPT !.owner = owner, !.dirty = @ \cup {"owner"}])

\* both lengths, as AccountInfo::resize does, or one of them
WriteSize ==
  /\ RunningProgram
  /\ \E k \in DOMAIN Top.view \cap Touched, size \in Sizes, which \in {"both", "info", "serialized"} :
       WriteMetadata(k, [Top.view[k] EXCEPT !.size = IF which = "info" THEN @ ELSE size,
                                            !.info_size = IF which = "serialized" THEN @ ELSE size,
                                            !.dirty = @ \cup {"size"}])

\* ... and the data its memory lets it write.
WriteData ==
  /\ RunningProgram
  /\ meter' = meter - 1
  /\ \E k \in DOMAIN Top.view \cap Touched, tag \in {"zeroed", "other"} :
       LET v == Top.view[k]
       IN  /\ IF Mode = "copy" THEN Reserved(Top.deprecated, v.original) > 0
              ELSE v.region.writable /\ v.region.len > 0
           /\ IF Mode = "direct"
              THEN x' = [x EXCEPT !.accounts[k].tag = tag] /\ UNCHANGED stack
              ELSE /\ SetView(k, [v EXCEPT !.tag = tag, !.dirty = @ \cup {"tag"}])
                   /\ UNCHANGED x
  /\ UNCHANGED <<message, trace, prepared, next_top, syscall_context, status>>

GrownToReserved(size, reserved) == Min({reserved, MaxDataLength})
grown_size(size, reserved) ==
  Min({reserved, MaxDataLength, size + Max({0, MaxGrowth - x.resize_delta})})

\* access_violation_handler: a store beyond the data of an account the program
\* may change makes the account as large as it may get; a store that is still
\* beyond it is an access violation.
access_violation_handler ==
  /\ RunningProgram
  /\ Mode # "copy"
  /\ meter' = meter - 1
  /\ \E k \in DOMAIN Top.view \cap Touched, requested \in Sizes :
       LET v == Top.view[k]
           reserved == Reserved(Top.deprecated, v.original)
           new == grown_size(x.accounts[k].size, reserved)
       IN  /\ v.region.writable
           /\ v.region.len < requested /\ requested <= reserved
           /\ x' = Store(x, k, [x.accounts[k] EXCEPT !.size = new])
           /\ SetView(k, [v EXCEPT !.region.len = new, !.dirty = @ \cup {"size"}])
           /\ status' = IF requested <= new THEN "running" ELSE "unwinding"
  /\ UNCHANGED <<message, trace, prepared, next_top, syscall_context>>

\* cpi_common up to the start of the callee.
InvokeSigned ==
  /\ RunningProgram
  /\ meter' = meter - 1
  /\ \E call \in Calls :
       LET callee == Callee(call)
           allowed == /\ call.program \notin Unauthorized
                      /\ prepare_next_cpi_instruction(Top, callee, call.seeds)
           translated == allowed /\ translate_accounts(Top, callee, call.infos)
           y == IF translated THEN UpdateCallees(Top, callee) ELSE x
       IN  /\ prepared' = IF allowed THEN prepared + 1 ELSE prepared
           /\ IF translated /\ y.ok
              THEN Push(y, Append(Front(stack), Calling(Top, callee)), callee)
              ELSE /\ x' = y
                   /\ status' = "unwinding"
                   /\ UNCHANGED <<stack, trace, next_top, syscall_context>>
  /\ UNCHANGED message

\* A program returns 0.
Return ==
  /\ RunningProgram
  /\ meter' = meter - 1
  /\ Finish(deserialize_parameters(Top, x))

\* The system program.
RunSystemProgram ==
  /\ RunningBuiltin
  /\ Top.program = System
  /\ meter' = meter - 1
  /\ Finish(Entrypoint(Context(Top), x, Top.ix, 1))

\* native_invoke_signed, which the loaders use once in an instruction.
NativeInvoke ==
  /\ RunningBuiltin
  /\ Top.program \notin Precompiles \cup {System}
  /\ ~Top.invoked
  /\ meter' = meter - 1
  /\ \E call \in Calls :
       LET callee == Callee(call)
       IN  IF prepare_next_cpi_instruction(Top, callee, call.seeds)
           THEN /\ prepared' = prepared + 1
                /\ Push(x, Append(Front(stack), [Top EXCEPT !.invoked = TRUE]), callee)
           ELSE /\ status' = "unwinding"
                /\ UNCHANGED <<x, stack, trace, prepared, next_top, syscall_context>>
  /\ UNCHANGED message

\* Another builtin returns, or a precompile has been verified.
ReturnBuiltin ==
  /\ RunningBuiltin
  /\ Top.program # System
  /\ meter' = meter - 1
  /\ Finish(x)

\* A program fails, or exceeds its compute units; a fault in the virtual
\* machine uses all of them up.
Fail ==
  /\ Running /\ stack # <<>>
  /\ status' = "unwinding"
  /\ meter' \in {meter, 0}
  /\ UNCHANGED <<message, x, stack, trace, prepared, next_top, syscall_context>>

UnwindAndRetry ==
  /\ status = "unwinding"
  /\ IF stack = <<>>
     THEN status' = "running" /\ next_top' = Max({0, next_top - 1}) /\ UNCHANGED stack
     ELSE stack' = Front(stack) /\ UNCHANGED <<status, next_top>>
  /\ syscall_context' = Len(stack')
  /\ UNCHANGED <<message, x, trace, prepared, meter>>
\* An error propagates: each caller pops its instruction.
Unwind ==
  /\ status = "unwinding"
  /\ IF stack = <<>>
     THEN status' = "err" /\ UNCHANGED <<stack, syscall_context>>
     ELSE /\ stack' = Front(stack)
          /\ syscall_context' = syscall_context - 1
          /\ UNCHANGED status
  /\ UNCHANGED <<message, x, trace, prepared, next_top, meter>>

Complete ==
  /\ Running /\ stack = <<>> /\ next_top = TopLevel
  /\ status' = "ok"
  /\ UNCHANGED <<message, x, stack, trace, prepared, next_top, syscall_context, meter>>

Next ==
  \/ NextInstruction \/ WriteLamports \/ WriteOwner \/ WriteSize \/ WriteData
  \/ access_violation_handler \/ InvokeSigned \/ Return \/ RunSystemProgram
  \/ NativeInvoke \/ ReturnBuiltin \/ Fail \/ Unwind \/ Complete

Ended == status \in {"ok", "err"}
Terminated == Ended /\ UNCHANGED vars

Spec == Init /\ [][Next \/ Terminated]_vars

\* A transaction that has not ended goes on: one thread executes it, and as
\* long as it has not ended a step is possible (the runs check for deadlock).
\* This is weak fairness of Next without ENABLED.
FairSpec == Spec /\ ([]<>Ended \/ []<><<Next>>_vars)

-----------------------------------------------------------------------------
\* Properties

Sum(F(_)) == MapThenSumSet(F, Keys)
InProgram == Running /\ stack # <<>> /\ Top.bpf

\* deconstruct_transaction: the top-level instruction an instruction of the
\* trace is reported under, found along its callers.
outer_index ==
  LET outer[j \in DOMAIN trace] ==
        IF trace[j].caller <= TopLevel THEN trace[j].caller ELSE outer[trace[j].caller]
  IN  outer

\* The type invariant.
TypeOK ==
  /\ x.accounts \in [Keys -> Account]
  /\ x.ok \in BOOLEAN /\ x.lamports_delta \in Int /\ x.resize_delta \in Int
  /\ Len(stack) <= StackCapacity
  /\ \A i \in DOMAIN stack :
       /\ stack[i].index \in DOMAIN trace
       /\ DOMAIN stack[i].view = IF stack[i].bpf THEN ToSet(stack[i].accounts) ELSE {}
       /\ \A k \in DOMAIN stack[i].view : stack[i].view[k].region \in Region
  /\ next_top \in 0..TopLevel
  /\ prepared \in Nat /\ syscall_context \in Nat
  /\ meter \in 0..ComputeUnits
  /\ status \in {"running", "unwinding", "ok", "err"}
  /\ status = "ok" => x.ok /\ stack = <<>>

\* Only the program an account belongs to takes lamports from it, changes its
\* data or gives it away, and nobody changes an account it has no write access
\* to: whichever way the change takes, through the memory of a program, the
\* synchronization at a call or at the end, or a builtin
\* (instruction_accounts.rs; in "direct" mode the memory regions of cpi.rs and
\* serialization.rs are all that enforces it).
OwnersOnly ==
  [][\A k \in Keys :
       LET before == x.accounts[k]
           after  == x'.accounts[k]
       IN  before # after =>
             /\ stack # <<>> /\ k \in Top.writable
             /\ \/ before.owner = Top.program
                \/ after = [before EXCEPT !.lamports = after.lamports]
                   /\ after.lamports >= before.lamports]_x

\* Lamports are balanced whenever a program runs, not only at the end: a
\* program cannot be called while its caller has taken lamports from nowhere
\* (TransactionContext::push and pop, UnbalancedInstruction).
LamportsBalanced ==
  Running => LET Change(k) == x.accounts[k].lamports - message.accounts[k].lamports
             IN  Sum(Change) = 0

\* The data of all accounts together grows by at most MaxGrowth, also by stores
\* that grow an account in place, and the running total is the growth
\* (transaction_accounts.rs; transaction.rs, access_violation_handler).
GrowthBounded ==
  /\ LET Growth(k) == x.accounts[k].size - message.accounts[k].size
     IN  x.resize_delta = Sum(Growth)
  /\ x.resize_delta <= MaxGrowth

\* A running program sees the accounts as they are, up to what it wrote itself
\* since they were last synchronized: what its callees changed has reached its
\* memory (cpi.rs, update_caller_account).
NoStaleView ==
  InProgram =>
    \A k \in DOMAIN Top.view \ Executable :
      LET v == Top.view[k]
          account == x.accounts[k]
      IN  /\ "lamports" \notin v.dirty => v.lamports = account.lamports
          /\ "owner" \notin v.dirty => v.owner = account.owner
          /\ "size" \notin v.dirty =>
               /\ v.size = account.size
               /\ "tag" \in v.dirty \/ Mode = "direct" \/ SameData(account, v.size, v.tag)

\* The memory region of an account is as long as its data, and a program can
\* store to it exactly as long as it may change the account: not after it gave
\* the account away, again after it got it back (cpi.rs,
\* update_caller_account_region and must_update_caller).
RegionsMatchAccounts ==
  InProgram /\ Mode # "copy" =>
    \A k \in DOMAIN Top.view \ Executable :
      Top.view[k].region = memory_region_of_account(
                             Context(Top), x, k, Reserved(Top.deprecated, Top.view[k].original))

\* The data of an account fits in the address space a running program reserved
\* for it, whatever its callees did to it (cpi.rs, update_caller_account).
FitsReservedSpace ==
  InProgram => \A k \in DOMAIN Top.view \ Executable :
                 x.accounts[k].size <= Reserved(Top.deprecated, Top.view[k].original)

\* The memory of a program holds its accounts, however they grow: data fits
\* where it is mapped, regions follow the accounts, and all growth is counted
\* (cpi.rs, update_caller_account_region; transaction.rs,
\* access_violation_handler).
MemoryFits == FitsReservedSpace /\ GrowthBounded /\ RegionsMatchAccounts

\* Privileges come from the message or, for signatures, from a program further
\* down the stack whose address it is; and a program is on the stack again only
\* as its own caller (invoke_context.rs, prepare_next_cpi_instruction and push).
PrivilegesAreGranted ==
  \A i \in DOMAIN stack :
    /\ stack[i].writable \subseteq message.writable
    /\ \A k \in stack[i].signers \ message.signers :
         \E j \in 1..(i - 1) : <<stack[j].program, k>> \in ProgramAddress
    /\ \A j \in 1..(i - 1) : stack[j].program = stack[i].program =>
         \A between \in j..i : stack[between].program = stack[i].program

\* Each inner instruction is reported under the top-level instruction during
\* which it ran and at the height it ran at, and the instruction accounts are
\* recorded in the order of the trace, one entry more at most, of a call that
\* failed (transaction.rs, push; transaction_processor.rs,
\* deconstruct_transaction).  Each instruction on the stack has its syscall
\* context as long as programs run; after an error one may be left over, which
\* no program sees (invoke_context.rs, push and pop).
TraceTellsCalls ==
  /\ \A j \in (TopLevel + 1)..Len(trace) :
       /\ outer_index[j] = trace[j].top
       /\ trace[j].nesting_level = trace[trace[j].caller].nesting_level + 1
  /\ \A i \in DOMAIN stack :
       /\ trace[stack[i].index].nesting_level = i - 1
       /\ trace[stack[i].index].program = stack[i].program
  /\ prepared - Len(trace) \in IF Running THEN {0} ELSE {0, 1}
  /\ syscall_context - Len(stack) \in IF Running THEN {0} ELSE {0, 1}

\* Stack, trace and balances agree through calls that fail at any point
\* (invoke_context.rs, push; transaction.rs, push and pop).
CallsAreSound == TypeOK /\ LamportsBalanced /\ TraceTellsCalls

\* Every transaction ends: calls, returns and unwinding come to an end when the
\* compute units do.
Terminates == <>Ended
=============================================================================
