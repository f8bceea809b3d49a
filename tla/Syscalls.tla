------------------------------ MODULE Syscalls ------------------------------
(* A transaction's programs and the syscalls they make: instructions are    *)
(* pushed and popped (transaction-context/src/transaction.rs,               *)
(* program-runtime/src/invoke_context.rs), a machine is set up for each     *)
(* with memory from a pool and its parameters serialized                    *)
(* (program-runtime/src/vm.rs, mem_pool.rs), and the program calls what the *)
(* runtime has registered (syscalls/src/lib.rs).                            *)
(*                                                                          *)
(* An account a program may change is only used by programs that fail in    *)
(* the end, so that no change lasts: ProgramRuntime has the changes.        *)
EXTENDS CpiTranslation

CONSTANTS PoolSize,             \* MAX_INSTRUCTION_STACK_DEPTH_SIMD_0268
          StackBytes,           \* STACK_FRAME_SIZE * MAX_CALL_DEPTH
          StackGap,             \* log2 of the frame size, for gapped stacks
          MaxHeapBytes,         \* MAX_HEAP_FRAME_BYTES; a byte stands for a KiB
          TraceCapacity,        \* max_instruction_trace_length
          StackCapacity,        \* max_instruction_stack_depth
          Deprecated,           \* the programs of the deprecated loader
          Environments          \* what transactions run under: see Init

VARIABLES env,          \* what the transaction runs under; never changes
          tx,           \* the transaction's context, meter and log
          frames,       \* one machine per instruction on the stack
          pool,         \* MEMORY_POOL of the thread
          bank,         \* the sysvar accounts, and how often they changed
          last          \* the last call and its cost; not in the code

vars == <<env, tx, frames, pool, bank, last>>

------------------------------------------------------------------------------
(* create_program_runtime_environment: the names programs can call.         *)
AlwaysRegistered ==
    {"abort", "sol_panic_", "sol_log_", "sol_log_64_", "sol_log_pubkey", "sol_log_compute_units_", "sol_log_data",
     "sol_create_program_address", "sol_try_find_program_address", "sol_sha256", "sol_keccak256",
     "sol_secp256k1_recover", "sol_get_clock_sysvar", "sol_get_epoch_schedule_sysvar", "sol_get_rent_sysvar",
     "sol_get_epoch_rewards_sysvar", "sol_memcpy_", "sol_memmove_", "sol_memset_", "sol_memcmp_",
     "sol_get_processed_sibling_instruction", "sol_get_stack_height", "sol_set_return_data", "sol_get_return_data",
     "sol_invoke_signed_c", "sol_invoke_signed_rust"}
Gate ==
    ("sol_blake3" :> "blake3_syscall_enabled") @@ ("sol_curve_validate_point" :> "curve25519_syscall_enabled") @@
    ("sol_curve_group_op" :> "curve25519_syscall_enabled") @@
    ("sol_curve_multiscalar_mul" :> "curve25519_syscall_enabled") @@
    ("sol_curve_decompress" :> "enable_bls12_381_syscall") @@ ("sol_curve_pairing_map" :> "enable_bls12_381_syscall") @@
    ("sol_get_last_restart_slot" :> "last_restart_slot_sysvar") @@
    ("sol_alt_bn128_group_op" :> "enable_alt_bn128_syscall") @@
    ("sol_alt_bn128_compression" :> "enable_alt_bn128_compression_syscall") @@
    ("sol_big_mod_exp" :> "enable_big_mod_exp_syscall") @@ ("sol_poseidon" :> "enable_poseidon_syscall") @@
    ("sol_remaining_compute_units" :> "remaining_compute_units_syscall_enabled") @@
    ("sol_get_sysvar" :> "get_sysvar_syscall_enabled") @@ ("sol_get_epoch_stake" :> "enable_get_epoch_stake_syscall")
Registered(features, reject_deployment_of_broken_elfs) ==
    AlwaysRegistered \cup {name \in DOMAIN Gate : Gate[name] \in features}
                     \cup (IF "disable_fees_sysvar" \in features THEN {} ELSE {"sol_get_fees_sysvar"})
                     \cup (IF reject_deployment_of_broken_elfs THEN {} ELSE {"sol_alloc_free_"})

(* The machine's configuration that depends on features; versions is the    *)
(* range of SBPF versions that may run, empty when its bounds cross.        *)
Config(features) ==
    LET least == IF /\ "disable_sbpf_v0_execution" \in features
                    /\ "reenable_sbpf_v0_execution" \notin features THEN 3 ELSE 0
        most == CASE "enable_sbpf_v3_deployment_and_execution" \in features -> 3
                  [] "enable_sbpf_v2_deployment_and_execution" \in features -> 2
                  [] "enable_sbpf_v1_deployment_and_execution" \in features -> 1
                  [] OTHER -> 0
    IN  [enable_stack_frame_gaps |-> "virtual_address_space_adjustments" \notin features,
         versions |-> least..most]

(* The handlers by name; invoking another program is an action of its own.  *)
Handle(s, name, a) ==
    CASE name = "abort" -> SyscallAbort(s)
      [] name = "sol_panic_" -> SyscallPanic(s, a[1], a[2])
      [] name = "sol_log_" -> SyscallLog(s, a[1], a[2])
      [] name = "sol_log_64_" -> SyscallLogU64(s)
      [] name = "sol_log_pubkey" -> SyscallLogPubkey(s, a[1])
      [] name = "sol_log_compute_units_" -> SyscallLogBpfComputeUnits(s)
      [] name = "sol_log_data" -> SyscallLogData(s, a[1], a[2])
      [] name = "sol_create_program_address" -> SyscallCreateProgramAddress(s, a[1], a[2], a[3], a[4])
      [] name = "sol_try_find_program_address" -> SyscallTryFindProgramAddress(s, a[1], a[2], a[3], a[4], a[5])
      [] name = "sol_sha256" -> SyscallHash(s, "sha256", a[1], a[2], a[3])
      [] name = "sol_keccak256" -> SyscallHash(s, "keccak256", a[1], a[2], a[3])
      [] name = "sol_blake3" -> SyscallHash(s, "blake3", a[1], a[2], a[3])
      [] name = "sol_secp256k1_recover" -> SyscallSecp256k1Recover(s, a[1], a[2], a[3], a[4])
      [] name = "sol_get_clock_sysvar" -> get_sysvar(s, "clock", a[1])
      [] name = "sol_get_epoch_schedule_sysvar" -> get_sysvar(s, "epoch_schedule", a[1])
      [] name = "sol_get_rent_sysvar" -> get_sysvar(s, "rent", a[1])
      [] name = "sol_get_epoch_rewards_sysvar" -> get_sysvar(s, "epoch_rewards", a[1])
      [] name = "sol_get_last_restart_slot" -> get_sysvar(s, "last_restart_slot", a[1])
      [] name = "sol_get_fees_sysvar" -> get_sysvar(s, "fees", a[1])
      [] name = "sol_get_sysvar" -> SyscallGetSysvar(s, a[1], a[2], a[3], a[4])
      [] name = "sol_get_epoch_stake" -> SyscallGetEpochStake(s, a[1])
      [] name = "sol_memcpy_" -> SyscallMemcpy(s, a[1], a[2], a[3])
      [] name = "sol_memmove_" -> SyscallMemmove(s, a[1], a[2], a[3])
      [] name = "sol_memset_" -> SyscallMemset(s, a[1], a[2], a[3])
      [] name = "sol_memcmp_" -> SyscallMemcmp(s, a[1], a[2], a[3], a[4])
      [] name = "sol_alloc_free_" -> SyscallAllocFree(s, a[1], a[2])
      [] name = "sol_get_processed_sibling_instruction" ->
             SyscallGetProcessedSiblingInstruction(s, a[1], a[2], a[3], a[4], a[5])
      [] name = "sol_get_stack_height" -> SyscallGetStackHeight(s)
      [] name = "sol_set_return_data" -> SyscallSetReturnData(s, a[1], a[2])
      [] name = "sol_get_return_data" -> SyscallGetReturnData(s, a[1], a[2], a[3])
      [] name = "sol_remaining_compute_units" -> SyscallRemainingComputeUnits(s)
      [] name = "sol_curve_validate_point" -> SyscallCurvePointValidation(s, a[1], a[2])
      [] name = "sol_curve_decompress" -> SyscallCurveDecompress(s, a[1], a[2], a[3])
      [] name = "sol_curve_group_op" -> SyscallCurveGroupOps(s, a[1], a[2], a[3], a[4], a[5])
      [] name = "sol_curve_multiscalar_mul" -> SyscallCurveMultiscalarMultiplication(s, a[1], a[2], a[3], a[4], a[5])
      [] name = "sol_curve_pairing_map" -> SyscallCurvePairingMap(s, a[1], a[2], a[3], a[4], a[5])
      [] name = "sol_alt_bn128_group_op" -> SyscallAltBn128(s, a[1], a[2], a[3], a[4])
      [] name = "sol_alt_bn128_compression" -> SyscallAltBn128Compression(s, a[1], a[2], a[3], a[4])
      [] name = "sol_big_mod_exp" -> SyscallBigModExp(s, a[1], a[2])
      [] name = "sol_poseidon" -> SyscallPoseidon(s, a[1], a[2], a[3], a[4], a[5])

------------------------------------------------------------------------------
(* The transaction: instructions in a trace, top-level ones first.          *)
NoCaller == 0
NoSetter == 0
Zeros(n) == [i \in 1..n |-> 0]
Instr(program, accounts, data, caller, height) ==
    [program |-> program, accounts |-> accounts, data |-> data, caller |-> caller, height |-> height]
NewTransaction(top_level, units, sysvars) ==
    [meter |-> units, log |-> [messages |-> <<>>, bytes_written |-> 0, limit_warning |-> FALSE],
     return_data |-> [program |-> 0, data |-> <<>>], setter |-> NoSetter,
     trace |-> [i \in 1..Len(top_level) |-> Instr(top_level[i].program, top_level[i].accounts,
                                                 top_level[i].data, NoCaller, 1)],
     stack |-> <<>>, next_top_level |-> 0, cpis |-> 0, sysvars |-> sysvars,
     calls |-> <<>>, err |-> ""]
TopLevels(t) == Len(t.trace) - t.cpis

(* InvokeContext::push and TransactionContext::push.  A program may call    *)
(* itself, but not one that waits further up.  calls records who called     *)
(* what, in order; it is not in the code.                                   *)
Reenters(t, program) ==
    /\ \E i \in 1..Len(t.stack) : t.trace[t.stack[i]].program = program
    /\ t.trace[t.stack[Len(t.stack)]].program # program
Called(t) == t.next_top_level + t.cpis
push(t, next) ==
    LET top == t.stack = <<>>
        index == IF top THEN t.next_top_level + 1 ELSE Len(t.trace) + 1
        counted == IF top THEN [t EXCEPT !.next_top_level = @ + 1]
                   ELSE [t EXCEPT !.cpis = @ + 1, !.trace = Append(@, next)]
    IN  IF ~top /\ Reenters(t, next.program) THEN Fail(t, "ReentrancyNotAllowed")
        ELSE IF Called(t) >= TraceCapacity THEN Fail(t, "MaxInstructionTraceLengthExceeded")
        ELSE IF Len(t.stack) >= StackCapacity THEN Fail(counted, "CallDepth")
        ELSE [counted EXCEPT !.stack = Append(@, index),
                             !.calls = Append(@, <<IF top THEN NoCaller ELSE t.stack[Len(t.stack)], index>>)]
pop(t) == [t EXCEPT !.stack = SubSeq(@, 1, Len(@) - 1)]

(* process_executable_chain before the program runs, with stable_log's      *)
(* program_invoke; the lengths of the runtime's own messages are 2.         *)
StableLog == 2
Invoked(t) ==
    [t EXCEPT !.return_data = [program |-> t.trace[t.stack[Len(t.stack)]].program, data |-> <<>>],
              !.setter = NoSetter, !.log = LogTo(@, Message("invoke", StableLog))]

------------------------------------------------------------------------------
(* VmMemoryPool: buffers are zeroed when they come back, not when they are  *)
(* handed out; one that finds the pool full is dropped.                     *)
Take(buffers) == IF buffers = <<>> THEN buffers ELSE SubSeq(buffers, 1, Len(buffers) - 1)
Taken(buffers, size) == IF buffers = <<>> THEN Zeros(size) ELSE buffers[Len(buffers)]
PutAsIs(buffers, buffer) == IF Len(buffers) < PoolSize THEN Append(buffers, buffer) ELSE buffers
Put(buffers, buffer) == IF Len(buffers) < PoolSize THEN Append(buffers, Zeros(Len(buffer))) ELSE buffers
NewPool == [stack |-> [i \in 1..PoolSize |-> Zeros(StackBytes)], heap |-> [i \in 1..PoolSize |-> Zeros(MaxHeapBytes)]]

(* A machine's host memory: read-only data, stack, heap and input, one      *)
(* after the other, and with direct mapping the accounts' own vectors.      *)
RoBytes == [i \in 1..16 |-> (i % 3) + 1]
StackHost == 16
HeapHost == StackHost + StackBytes
InputHost == HeapHost + MaxHeapBytes
RoundUp16(n) == n + ((-n) % 16)

ModeOf(program) ==
    [v1 |-> program \in Deprecated, vas |-> "virtual_address_space_adjustments" \in env.features,
     direct |-> "account_data_direct_mapping" \in env.features,
     pointers |-> "direct_account_pointers_in_program_input" \in env.features]

(* The instruction's accounts: the transaction's, with the instruction's    *)
(* privileges; dup is the position of the first with the same key.          *)
FirstWith(metas, key) == CHOOSE i \in 1..Len(metas) : metas[i].key = key /\ \A j \in 1..(i - 1) : metas[j].key # key
AccountOf(key) == env.accounts[CHOOSE i \in 1..Len(env.accounts) : env.accounts[i].key = key]
DataBefore(metas, mode, i) ==
    FoldLeft(LAMBDA n, meta : n + RoundUp16(Reserved(mode, AccountOf(meta.key))), 0, SubSeq(metas, 1, i - 1))
InstructionAccount(program, meta, account, dup, host) ==
    [signer |-> meta.signer, writable |-> meta.writable, host |-> host,
     changeable |-> meta.writable /\ account.owner = program, dup |-> dup] @@ account
PlacedAccount(program, metas, mode, data_host, i, first) ==
    InstructionAccount(program, metas[i], AccountOf(metas[i].key), IF first = i THEN NoDup ELSE first - 1,
                       data_host + DataBefore(metas, mode, first))
AccountsOf(program, metas, mode, data_host) ==
    [i \in 1..Len(metas) |-> PlacedAccount(program, metas, mode, data_host, i, FirstWith(metas, metas[i].key))]
DirectData(accounts, mode) ==
    IF ~DirectMapping(mode) THEN <<>>
    ELSE FlattenSeq([i \in 1..Len(accounts) |->
             accounts[i].data \o Zeros(RoundUp16(Reserved(mode, accounts[i])) - Len(accounts[i].data))])

(* execute up to the first instruction: the parameters, the heap's price,   *)
(* memory from the pool, create_memory_mapping, a fresh syscall context.    *)
WithPointers(accounts, size, mode) == size + (IF mode.v1 THEN 0 ELSE PointersSize(accounts, size, mode))
SizeOfBuffer(accounts, data, mode) ==
    WithPointers(accounts, IF mode.v1 THEN SizeV0(accounts, data, mode) ELSE SizeV1(accounts, data, mode), mode)
BufferSize(ix, mode) == SizeOfBuffer(AccountsOf(ix.program, ix.accounts, mode, 0), ix.data, mode)
LayoutOf(accounts, ix, mode) ==
    [accounts |-> accounts, mode |-> mode,
     ser |-> serialize_parameters(accounts, ix.data, ix.program, mode, InputHost)]
LayoutIn(ix, mode) ==
    LayoutOf(AccountsOf(ix.program, ix.accounts, mode, InputHost + RoundUp16(BufferSize(ix, mode))), ix, mode)
Layout(ix) == LayoutIn(ix, ModeOf(ix.program))
create_memory_mapping(heap_size, regions) ==
    <<Region(0, MM_BYTECODE_START, Len(RoBytes), NoGap, FALSE, 0),
      Region(StackHost, MM_STACK_START, StackBytes,
             IF Config(env.features).enable_stack_frame_gaps THEN StackGap ELSE NoGap, TRUE, 0),
      Region(HeapHost, MM_HEAP_START, heap_size, NoGap, TRUE, 0)>> \o regions
NoFault == [store |-> FALSE, a |-> 0, n |-> 0]
FrameWith(layout, stack, heap) ==
    LET buffer == layout.ser.buffer
    IN  [mem |-> RoBytes \o stack \o heap \o buffer \o Zeros(RoundUp16(Len(buffer)) - Len(buffer))
                 \o DirectData(layout.accounts, layout.mode),
         regions |-> create_memory_mapping(env.heap, layout.ser.regions),
         allocator |-> [pos |-> 0, len |-> env.heap], allocs |-> {}, fault |-> NoFault, guest |-> FALSE, accounts |-> layout.accounts,
         metas |-> layout.ser.metas, mode |-> layout.mode, check_aligned |-> ~layout.mode.v1, err |-> "",
         r0 |-> 0, turns |-> 0, data_addr |-> layout.ser.data_offset,
         r2 |-> IF "provide_instruction_data_offset_in_vm_r2" \in env.features THEN layout.ser.data_offset ELSE 0]
NewFrame(ix, stack, heap) == FrameWith(Layout(ix), stack, heap)
HeapPrice == calculate_heap_cost(env.heap * KIBIBYTE, env.cost.heap_cost)

------------------------------------------------------------------------------
(* A call is the running machine and the transaction in one record.         *)
Running ==
    [cpi |-> NoCpi, touched |-> 0, cost |-> env.cost, budget |-> env.budget,
     features |-> env.features,
     known |-> {KeyBytes(env.accounts[i].key) : i \in 1..Len(env.accounts)}]
    @@ frames[Len(frames)] @@ tx
AtCall == [Running EXCEPT !.r0 = 0]     \* SUCCESS, unless the handler returns another value
FrameOf(s) == Fields(s, DOMAIN frames[Len(frames)])
TransactionOf(s) == [Fields(s, DOMAIN tx) EXCEPT !.err = ""]
CallersOf(fs) == SubSeq(fs, 1, Len(fs) - 1)
WithTop(frame) == Append(CallersOf(frames), frame)

NoCall == [name |-> "", args |-> <<>>, err |-> "", r0 |-> 0, charged |-> 0, touched |-> 0]
CallOf(name, args, s) ==
    [name |-> name, args |-> args, err |-> s.err, r0 |-> s.r0, charged |-> tx.meter - s.meter, touched |-> s.touched]

(* The instruction t is executing ends with the error e, "" for none, and   *)
(* fs are the machines that wait: the last is its caller's.                 *)
Ends(fs, t, e) ==
    /\ tx' = [pop(t) EXCEPT !.err = IF fs = <<>> THEN e ELSE ""]
    /\ frames' = IF fs = <<>> \/ e = "" THEN fs ELSE [fs EXCEPT ![Len(fs)].err = e]
Logged(t, e) == [t EXCEPT !.log = LogTo(@, Message(IF e = "" THEN "success" ELSE "failed", StableLog))]

(* process_executable_chain and execute until the program runs.             *)
Prepares(fs, paid) ==
    IF ~Ok(paid)
    THEN /\ Ends(fs, Logged([paid EXCEPT !.err = ""], paid.err), "ProgramEnvironmentSetupFailure")
         /\ UNCHANGED pool
    ELSE /\ tx' = paid
         /\ frames' = Append(fs, NewFrame(Current(paid), Taken(pool.stack, StackBytes), Taken(pool.heap, MaxHeapBytes)))
         /\ pool' = [stack |-> Take(pool.stack), heap |-> Take(pool.heap)]
Starts(fs, t) ==
    IF ~AccountOf(Current(t).program).executable
    THEN Ends(fs, t, "UnsupportedProgramId") /\ UNCHANGED pool
    ELSE Prepares(fs, Consume(Invoked(t), HeapPrice))

(* The next top-level instruction.                                          *)
Entered(t) == IF Ok(t) THEN Starts(frames, t) ELSE tx' = t /\ UNCHANGED <<frames, pool>>
Enter ==
    /\ tx.stack = <<>> /\ tx.err = "" /\ tx.next_top_level < TopLevels(tx)
    /\ Entered(push(tx, NoCall))
    /\ last' = NoCall
    /\ UNCHANGED <<env, bank>>

(* The program's own instructions: it reads and writes its memory, a unit   *)
(* for each access.  The machine's errors are not those of a syscall.       *)
Poke(s, p) ==
    IF ~Ok(s) THEN s
    ELSE IF s.meter = 0 THEN Fail(s, "ExceededMaxInstructions")
    ELSE Then(Access([s EXCEPT !.meter = @ - 1], p.store, p.a, Len(p.bytes)),
              LAMBDA t : IF p.store THEN Store(t, p.a, p.bytes) ELSE t)
Computed(s) ==
    /\ frames' = WithTop([FrameOf(s) EXCEPT !.turns = 1, !.guest = s.err # ""])
    /\ tx' = TransactionOf(s)
Compute ==
    /\ frames # <<>> /\ frames[Len(frames)].turns = 0
    /\ \E pokes \in env.pokes[Current(tx).program] :
         Computed(FoldLeft(Poke, Running, pokes))
    /\ last' = NoCall
    /\ UNCHANGED <<env, pool, bank>>

(* The program calls a syscall.  allocs and setter are not in the code: the *)
(* allocations so far, and the instruction that set the return data.        *)
CanCall == frames # <<>> /\ frames[Len(frames)].err = "" /\ frames[Len(frames)].turns \in 1..env.turns
Allocs(s, name, a) ==
    IF name = "sol_alloc_free_" /\ s.r0 # 0 THEN s.allocs \cup {<<s.r0, a[1]>>} ELSE s.allocs
Setter(s, name) == IF name = "sol_set_return_data" /\ Ok(s) THEN s.stack[Len(s.stack)] ELSE s.setter
Handled(s, name, a) ==
    /\ frames' = WithTop([FrameOf(s) EXCEPT !.turns = @ + 1, !.allocs = Allocs(s, name, a)])
    /\ tx' = [TransactionOf(s) EXCEPT !.setter = Setter(s, name)]
    /\ last' = CallOf(name, a, s)
Call(name, a) ==
    /\ CanCall
    /\ name \in Registered(env.features, FALSE)
    /\ Handled(Handle(AtCall, name, a), name, a)
    /\ UNCHANGED <<env, pool, bank>>

(* The program invokes another one.                                         *)
KeyOf(bytes) == Value(SubSeq(bytes, 1, 4))
InvokeSigned(s, name, a) ==
    IF name = "sol_invoke_signed_rust" THEN SyscallInvokeSignedRust(s, a[1], a[2], a[3], a[4], a[5])
    ELSE SyscallInvokeSignedC(s, a[1], a[2], a[3], a[4], a[5])
NextInstr(s) ==
    LET ix == s.cpi.instruction
        metas == [i \in 1..Len(ix.accounts) |-> [ix.accounts[i] EXCEPT !.key = KeyOf(@)]]
    IN  Instr(KeyOf(ix.program), metas, ix.data, s.stack[Len(s.stack)], Len(s.stack) + 1)
Pushed(turned, t) ==
    IF Ok(t) THEN Starts(turned, t)
    ELSE /\ frames' = [turned EXCEPT ![Len(turned)].err = t.err]
         /\ tx' = [t EXCEPT !.err = ""]
         /\ UNCHANGED pool
Passed(s, turned) ==
    IF Ok(s) THEN Pushed(turned, push(TransactionOf(s), NextInstr(s)))
    ELSE frames' = turned /\ tx' = TransactionOf(s) /\ UNCHANGED pool
Translated(s, name, a) ==
    /\ Passed(s, WithTop([FrameOf(s) EXCEPT !.turns = @ + 1]))
    /\ last' = CallOf(name, a, s)
Invoke(name, a) ==
    /\ CanCall
    /\ Translated(InvokeSigned(AtCall, name, a), name, a)
    /\ UNCHANGED <<env, bank>>

------------------------------------------------------------------------------
(* execute after the program.  With the adjusted address space an access    *)
(* that failed in the space of an account is reported as what it tried.     *)
AccountSpace(f, i) ==
    f.metas[i].vm_data_addr..(f.metas[i].vm_data_addr + Reserved(f.mode, f.accounts[i]) - 1)
DataLen(f, i) ==
    IF f.accounts[i].changeable THEN f.regions[RegionOf(f, f.metas[i].vm_data_addr)].len ELSE Len(f.accounts[i].data)
FaultAccounts(f) == {i \in 1..Len(f.accounts) : f.fault.a \in AccountSpace(f, i)}
WithinSpace(f, i) == f.fault.a + f.fault.n - f.metas[i].vm_data_addr <= Reserved(f.mode, f.accounts[i])
OutsideData(f, i) == f.fault.a + f.fault.n - f.metas[i].vm_data_addr > DataLen(f, i)
Explained(f, e) ==
    LET accounts == FaultAccounts(f)
        i == CHOOSE i \in accounts : \A j \in accounts : i <= j
    IN  IF ~f.mode.vas \/ e # "AccessViolation" \/ accounts = {} THEN e
        ELSE IF ~WithinSpace(f, i) THEN e
        ELSE IF f.accounts[i].changeable THEN "InvalidRealloc"
        ELSE IF ~f.fault.store THEN "AccountDataTooSmall"
        ELSE IF f.accounts[i].writable THEN "ExternalAccountDataModified" ELSE "ReadonlyDataModified"

(* deserialize_parameters for accounts that may not change.                 *)
InputOf(f) == SubSeq(f.mem, InputHost + 1, Len(f.mem))
Copied(f, i) == ReadBack(InputOf(f), DeserializeCursors(f.accounts, f.mode)[i], Len(f.accounts[i].data))
AlteredFrom(f, account, copy) ==
    \/ copy.lamports # account.lamports
    \/ ~f.mode.v1 /\ (copy.len # Len(account.data) \/ copy.owner # KeyBytes(account.owner))
    \/ ~f.mode.vas /\ copy.data # account.data
Altered(f, i) == AlteredFrom(f, f.accounts[i], Copied(f, i))
deserialize_parameters(f) ==
    IF \E i \in 1..Len(f.accounts) : ~IsDup(f.accounts[i]) /\ ~f.accounts[i].changeable /\ Altered(f, i)
    THEN "AccountModified" ELSE ""

(* What process_executable_chain makes of a program's error.                *)
InstructionErrors ==
    {"Custom", "AccountModified", "InvalidRealloc", "AccountDataTooSmall", "ExternalAccountDataModified",
     "ReadonlyDataModified", "MissingAccount", "PrivilegeEscalation", "ReentrancyNotAllowed", "CallDepth",
     "MaxInstructionTraceLengthExceeded", "ComputationalBudgetExceeded", "UnsupportedSysvar", "ArithmeticOverflow",
     "UnsupportedProgramId", "ProgramEnvironmentSetupFailure", "ProgramFailedToComplete"}
ResultOf(e) == IF e = "" \/ e \in InstructionErrors THEN e ELSE "ProgramFailedToComplete"

(* The buffers go back before anything else happens to the result.          *)
Stack(f) == SubSeq(f.mem, StackHost + 1, HeapHost)
Heap(f) == SubSeq(f.mem, HeapHost + 1, InputHost)
ReturnLog(t) ==
    IF t.return_data.data = <<>> THEN t
    ELSE [t EXCEPT !.log = LogTo(@, Message("return", StableLog + Len(t.return_data.data)))]
Depleted(t, f) ==
    IF f.guest /\ "deplete_cu_meter_on_vm_failure" \in env.features THEN [t EXCEPT !.meter = 0] ELSE t
Exit(status) ==
    /\ frames # <<>> /\ frames[Len(frames)].turns > 0
    /\ LET f == frames[Len(frames)]
           consumed == [tx EXCEPT !.log = LogTo(@, Message("consumed", StableLog))]
           result == IF f.err # "" THEN Explained(f, f.err)
                     ELSE IF status # 0 THEN "Custom" ELSE deserialize_parameters(f)
       IN  /\ pool' = [stack |-> Put(pool.stack, Stack(f)), heap |-> Put(pool.heap, Heap(f))]
           /\ Ends(CallersOf(frames), Logged(Depleted(ReturnLog(consumed), f), result), ResultOf(result))
    /\ last' = NoCall
    /\ UNCHANGED <<env, bank>>

(* Another transaction of the batch, on the same thread.                    *)
Over == tx.stack = <<>> /\ (tx.err # "" \/ tx.next_top_level = TopLevels(tx))
NextTransaction ==
    /\ Over /\ bank.left > 0
    /\ tx' = NewTransaction(env.instructions, env.units, tx.sysvars)
    /\ bank' = [bank EXCEPT !.left = @ - 1]
    /\ last' = NoCall
    /\ UNCHANGED <<env, frames, pool>>

(* The embedder, between transactions: sysvar accounts change, the cache is *)
(* filled from them, or emptied.                                            *)
SysvarsChange ==
    /\ tx.stack = <<>>
    /\ \E accounts \in env.sysvars : bank' = [bank EXCEPT !.accounts = accounts]
    /\ last' = NoCall
    /\ UNCHANGED <<env, tx, frames, pool>>
SysvarsFill ==
    /\ tx.stack = <<>> /\ env.sysvars # {}
    /\ tx' = [tx EXCEPT !.sysvars = SC!fill_missing_entries(@, bank.accounts)]
    /\ last' = NoCall
    /\ UNCHANGED <<env, frames, pool, bank>>
SysvarsReset ==
    /\ tx.stack = <<>> /\ env.sysvars # {}
    /\ tx' = [tx EXCEPT !.sysvars = SC!reset(@)]
    /\ last' = NoCall
    /\ UNCHANGED <<env, frames, pool, bank>>

Init ==
    /\ env \in Environments
    /\ bank = [left |-> env.transactions - 1, accounts |-> env.bank]
    /\ tx = NewTransaction(env.instructions, env.units, SC!fill_missing_entries(SC!Default, env.bank))
    /\ frames = <<>>
    /\ pool = NewPool
    /\ last = NoCall

Next ==
    \/ Enter
    \/ Compute
    \/ \E c \in env.calls : Call(c[1], c[2])
    \/ \E c \in env.invokes : Invoke(c[1], c[2])
    \/ \E status \in env.statuses : Exit(status)
    \/ NextTransaction
    \/ SysvarsChange
    \/ SysvarsFill
    \/ SysvarsReset

Spec == Init /\ [][Next]_vars

------------------------------------------------------------------------------
(* Properties.                                                              *)
Invokes == {"sol_invoke_signed_rust", "sol_invoke_signed_c"}
CallStep == last'.name # "" /\ last'.name \notin Invokes
Before == frames[Len(frames)]
After == frames'[Len(frames)]

(* The handlers that report a failure in r0, 0 being success.               *)
Reporters ==
    {"sol_create_program_address", "sol_try_find_program_address", "sol_secp256k1_recover", "sol_get_sysvar",
     "sol_curve_validate_point", "sol_curve_decompress", "sol_curve_group_op", "sol_curve_multiscalar_mul",
     "sol_curve_pairing_map", "sol_alt_bn128_group_op", "sol_alt_bn128_compression", "sol_poseidon"}

(* What the handlers with several outputs promise of all of them together.  *)
OutputsAreWhole ==
    LET a == last'.args
        n == Least(a[2], Len(tx.return_data.data))
    IN  CASE last'.name = "sol_get_return_data" ->
               n > 0 => /\ Load(After, a[1], n) = SubSeq(tx.return_data.data, 1, n)
                        /\ Load(After, a[3], 32) = KeyBytes(tx.return_data.program)
          [] last'.name = "sol_try_find_program_address" ->
               last'.r0 = 0 => Load(After, a[4], 32) =
                   create_program_address(Append(SeedsAt(Before, a[1], a[2]), Load(After, a[5], 1)), Load(Before, a[3], 32))
          [] OTHER -> TRUE

(* A syscall happens as a whole or not at all: one that ends the program    *)
(* with an error, or reports a failure to it, has written nothing, taken no *)
(* heap and set no return data; one that succeeds writes only memory its    *)
(* program may write, and no output of it spoils another.                   *)
CallsAreAtomic ==
    [][CallStep =>
          /\ last'.err # "" => /\ After.mem = Before.mem /\ After.allocator = Before.allocator
                               /\ tx'.return_data = tx.return_data
          /\ last'.name \in Reporters /\ last'.r0 # 0 => After.mem = Before.mem
          /\ \A i \in 1..Len(Before.mem) : After.mem[i] # Before.mem[i] =>
                \E j \in 1..Len(After.regions) : LET r == After.regions[j] IN
                    r.writable /\ r.host < i /\ i <= r.host + r.len
          /\ last'.err = "" => OutputsAreWhole]_vars

(* What a call costs by the lengths its program chose: a unit for so many   *)
(* bytes, beyond what every call of the name costs.  A copy is read and     *)
(* written; a slice to hash is sixteen bytes itself.                        *)
Price(base, bytes_per_unit) == [base |-> base, bytes_per_unit |-> bytes_per_unit]
Tariff ==
    LET c == env.cost
        per_unit == c.cpi_bytes_per_unit
    IN  [n \in {"sol_memcpy_", "sol_memmove_", "sol_memset_", "sol_memcmp_"} |-> Price(0, 2 * per_unit)]
        @@ [n \in {"sol_log_", "sol_log_data"} |-> Price(0, 1)]
        @@ [n \in {"sol_sha256", "sol_keccak256", "sol_blake3"} |->
              Price(c.sha256_base_cost, 4 + VmSlice.size \div c.mem_op_base_cost)]
        @@ [n \in {"sol_get_sysvar"} |-> Price(c.sysvar_base_cost, per_unit)]
        @@ [n \in {"sol_set_return_data", "sol_get_return_data"} |-> Price(c.syscall_base_cost, per_unit)]
        @@ [n \in {"sol_big_mod_exp"} |->
              Price(c.syscall_base_cost + c.big_modular_exponentiation_base_cost, per_unit)]

(* Work is paid for by its length: what a syscall of the tariff that        *)
(* succeeds has read and written, beyond structures of a fixed size, is     *)
(* within what its units buy beyond its base price.  The tariff leaves out  *)
(* what the code prices by the operation or by the item: inputs of any      *)
(* length to alt_bn128 and poseidon, the copy of a processed sibling, an    *)
(* invocation with its seeds, and points, pairs and seeds of a bounded size.*)
FreeBytes == 112
WorkIsPaid ==
    [][last'.name \in DOMAIN Tariff /\ last'.err = "" =>
          LET price == Tariff[last'.name]
          IN  /\ last'.charged >= price.base
              /\ last'.touched <= FreeBytes + price.bytes_per_unit * (last'.charged - price.base)]_vars

(* Memory is fresh and a program's own.  Buffers wait in the pool zeroed,   *)
(* so that a machine starts with nothing of another's; none is lost or held *)
(* twice; allocations lie in the heap, aligned, and never share a byte.     *)
AllZero(bytes) == \A i \in 1..Len(bytes) : bytes[i] = 0
FreshMemory ==
    /\ \A i \in 1..Len(pool.stack) : AllZero(pool.stack[i]) /\ AllZero(pool.heap[i])
    /\ Len(pool.stack) \in SatSub(PoolSize, Len(frames))..PoolSize /\ Len(pool.heap) = Len(pool.stack)
    /\ \A k \in 1..Len(frames) : LET f == frames[k] IN
         /\ f.turns = 0 => AllZero(Stack(f)) /\ AllZero(Heap(f))
         /\ \A x \in f.allocs :
              /\ f.check_aligned => x[1] % BPF_ALIGN_OF_U128 = 0
              /\ MM_HEAP_START <= x[1] /\ x[1] + x[2] <= MM_HEAP_START + env.heap
              /\ \A y \in f.allocs : x = y \/ x[1] + x[2] <= y[1] \/ y[1] + y[2] <= x[1]

(* The runtime's records tell what happened.  calls lists every call made,  *)
(* in order.  The k-th processed sibling is the k-th call before this one   *)
(* by the same caller; return data that a program sees was set by it or by  *)
(* a program called on its behalf since it began; the log's count is that   *)
(* of its messages, with one warning at most; what is cached of a sysvar    *)
(* twice is the same twice.                                                 *)
InstructionOf(t) == t.stack[Len(t.stack)]
ParentOf(t, i) == (CHOOSE p \in ToSet(t.calls) : p[2] = i)[1]
SiblingCalls(t) == SelectSeq(t.calls, LAMBDA p : p[1] = ParentOf(t, InstructionOf(t)))
SiblingIsRight(t, k) ==
    LET calls == SiblingCalls(t)
    IN  FindSibling(t, k) = IF Len(calls) > k + 1 THEN calls[Len(calls) - k - 1][2] ELSE NoSibling
OnBehalf(t, i) ==       \* i, or a call under it
    LET under[n \in 0..StackCapacity] ==
          IF n = 0 THEN {i} ELSE under[n - 1] \cup {p[2] : p \in {q \in ToSet(t.calls) : q[1] \in under[n - 1]}}
    IN  under[StackCapacity]
LogSum(log) == FoldLeft(LAMBDA n, m : n + m.len, 0, log.messages)
Warnings(log) == {i \in 1..Len(log.messages) : log.messages[i].kind = "Log truncated"}
RecordsAreRight ==
    /\ tx.stack # <<>> =>
         /\ \A k \in 0..2 : SiblingIsRight(tx, k)
         /\ tx.return_data.data # <<>> => tx.setter \in OnBehalf(tx, InstructionOf(tx))
    /\ tx.return_data.data # <<>> => tx.return_data.program = tx.trace[tx.setter].program
    /\ Len(frames) = Len(tx.stack)
    /\ \A i \in 1..Len(tx.stack) : tx.trace[tx.stack[i]].height = i
    /\ LogSum(tx.log) = tx.log.bytes_written /\ tx.log.bytes_written < LogBytesLimit
    /\ Cardinality(Warnings(tx.log)) = Flag(tx.log.limit_warning)
    /\ \A id \in SC!BufferedObjects :
         tx.sysvars.obj[id] = IF tx.sysvars.buffer[id] = SC!NoData THEN SC!NoData
                              ELSE SC!Deserialize(id, tx.sysvars.buffer[id])

(* An invocation starts with clean memory and leaves right records, whoever  *)
(* ran before it and however it ended (mem_pool.rs, put_stack; lib.rs,       *)
(* SyscallGetProcessedSiblingInstruction).                                   *)
InvocationsAreSeparate == FreshMemory /\ RecordsAreRight

(* Both ways of writing down an invocation mean the same: for one request,  *)
(* laid out as Rust structures and as C structures, the runtime translates  *)
(* the same instruction, signers and accounts at the same price, or refuses *)
(* both with the same error; a request without a fault is taken as written. *)
WithoutCell(accounts) == [i \in 1..Len(accounts) |-> [accounts[i] EXCEPT !.vm_len_addr = 0]]
RequestsAgree(rust, c, request) ==
    /\ rust.err = c.err /\ rust.err = request.error
    /\ rust.err = "" =>
         /\ rust.meter = c.meter
         /\ rust.cpi.instruction = request.instruction /\ c.cpi.instruction = request.instruction
         /\ rust.cpi.signers = c.cpi.signers
         /\ WithoutCell(rust.cpi.accounts) = WithoutCell(c.cpi.accounts)
BothAbisAgree ==
    Len(frames) = 1 =>
        (frames[1].err = "" /\ frames[1].turns = 1 =>
            \A q \in env.requests :
                RequestsAgree(InvokeSigned(Running, "sol_invoke_signed_rust", q.rust),
                              InvokeSigned(Running, "sol_invoke_signed_c", q.c), q))

(* A program finds its parameters where the runtime will look for them.     *)
(* The buffer has the size that was allocated; the guest addresses noted    *)
(* for an account lead, through the regions, to the host bytes that         *)
(* deserialization reads back, aligned where the layout says so; the regions*)
(* do not overlap; and a program that walks its input account by account    *)
(* meets every one of them, then the instruction data.                      *)
RegionEnd(r) == r.vm_addr + Most(r.len, r.grows)
RegionsApart(f) ==
    \A i, j \in 1..Len(f.regions) :
        i # j => LET r == f.regions[i] q == f.regions[j] IN
                 RegionEnd(r) <= q.vm_addr \/ RegionEnd(q) <= r.vm_addr
WalkTo(f, i) ==
    FoldLeft(LAMBDA a, j : GuestNext(f, f.mode, a, f.accounts[j]), MM_INPUT_START + 8, [j \in 1..(i - 1) |-> j])
AccountIsThere(f, i) ==
    LET account == f.accounts[i]
        meta == f.metas[i]
        at == DeserializeCursors(f.accounts, f.mode)[i]
        n == Len(account.data)
        host == HostOf(f, FALSE, meta.vm_data_addr, n)
    IN  /\ Load(f, meta.vm_key_addr, 32) = KeyBytes(account.key)
        /\ HostOf(f, TRUE, meta.vm_lamports_addr, 8) = InputHost + at.lamports
        /\ Value(Load(f, meta.vm_lamports_addr, 8)) = account.lamports
        /\ Load(f, meta.vm_owner_addr, 32) = KeyBytes(account.owner)
        /\ at.owner # NoOffset => HostOf(f, TRUE, meta.vm_owner_addr, 32) = InputHost + at.owner
        /\ n > 0 => /\ host = IF DirectMapping(f.mode) THEN account.host ELSE InputHost + at.data
                    /\ Load(f, meta.vm_data_addr, n) = account.data
                    /\ f.mode.vas /\ ~f.mode.direct => RawPointer(f, meta.vm_data_addr) = host
        /\ ~f.mode.v1 => meta.vm_lamports_addr % 8 = 0 /\ meta.vm_data_addr % 8 = 0
        /\ ~IsDup(account) => meta.vm_key_addr = WalkTo(f, i) + (IF f.mode.v1 THEN 3 ELSE 8)
InstructionIsThere(f, ix) ==
    LET a == WalkTo(f, Len(f.accounts) + 1)
        n == Len(ix.data)
        pointers == a + 8 + n + 32 + align_offset(a + 8 + n + 32)
    IN  /\ f.data_addr = a + 8 /\ Word(f, a) = n
        /\ Load(f, a + 8, n) = ix.data /\ Load(f, a + 8 + n, 32) = KeyBytes(ix.program)
        /\ f.mode.pointers /\ ~f.mode.v1 =>
             \A i \in 1..Len(f.accounts) : Word(f, pointers + 8 * (i - 1)) = f.metas[i].vm_data_addr

(* The assertions of execute: a load that failed in the space of an account *)
(* was beyond its data, and so was a store to one that may change.          *)
FaultIsOutside(f) ==
    f.err = "AccessViolation" /\ f.mode.vas =>
        \A i \in FaultAccounts(f) : WithinSpace(f, i) /\ (f.fault.store => f.accounts[i].changeable) => OutsideData(f, i)
ParametersAgree ==
    /\ frames # <<>> =>
         LET f == frames[Len(frames)]
             ix == Current(tx)
         IN  f.turns = 0 =>
             /\ Len(Layout(ix).ser.buffer) = BufferSize(ix, f.mode)
             /\ RegionsApart(f)
             /\ \A i \in 1..Len(f.accounts) : AccountIsThere(f, i)
             /\ InstructionIsThere(f, ix)
    /\ \A k \in 1..Len(frames) : FaultIsOutside(frames[k])

(* The layouts that programs rely on are read as they are written: both      *)
(* ABIs of an invocation, and the serialized parameters (cpi.rs,             *)
(* translate_instruction; serialization.rs).                                 *)
InterfacesAgree == BothAbisAgree /\ ParametersAgree
=============================================================================
