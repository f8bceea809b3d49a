# Verification of the SVM

TLA+ models of the Solana Virtual Machine in this repository, the TLC runs that check
them on small instances, and TLAPS proofs of the results that matter most.
`PROJECT.json` lists the components, the runs, the source lines behind every definition,
the hazards and the theorems. Paths below are relative to `src/`.

## The system

The SVM takes a batch of sanitized transactions from a bank and returns what each of
them did. A batch is processed by one thread; several threads process batches of
several forks at the same time and share one program cache.

| Part | Source | State | Operations | What is hard |
|---|---|---|---|---|
| transaction batch pipeline | `svm/src/transaction_processor.rs`, `account_loader.rs`, `rollback_accounts.rs`, `transaction_balances.rs` | accounts of the batch, results | validate nonce and fee payer, load, execute, roll back, record balances | a transaction sees the accounts the previous ones left, also of those that failed; nonces; batch flags |
| global program cache | `program-runtime/src/loaded_programs.rs` | entries per program, forks, epochs | extract, assign, merge, evict, prune, remove | entries of several forks and environments; visibility; replacement |
| cooperative loading | same, `LoadingTaskWaiter`; `replenish_program_cache` | reservations, condition variable | extract, finish, wait | lost wake-ups, everyone waiting for everyone |
| instruction stack and trace | `transaction-context/src/` | stack, trace, accounts, totals | push, pop, borrow, set | limits, lamport balance, who may change what |
| invoke context | `program-runtime/src/invoke_context.rs`, `vm.rs` | stack of syscall contexts, meter | process message, native invoke, run | reentrancy, privileges |
| program input and output | `program-runtime/src/serialization.rs` | memory regions | serialize, deserialize | three mappings of account data, two ABIs |
| cross-program invocation | `program-runtime/src/cpi.rs` | views of accounts of caller and callee | translate, update callee, update caller | stale views after a call |
| system program | `programs/system/src/` | lamports, data, owner, nonce | 13 instructions | nonce life cycle |
| upgradeable loader, loader v4 | `programs/bpf_loader/src/`, `programs/loader-v4/src/` | program and buffer accounts | deploy, upgrade, close, ... | authority, one action per slot |
| virtual machine | `sbpf/src/` | registers, frames, memory regions, meter | load, verify, interpret, compile, debug, analyse | two engines that must agree; region caches, widths, limits |
| syscalls | `syscalls/src/` | guest memory, heap | memory operations, sysvars, return data, crypto | overlaps, region boundaries, order of charging and writing |
| sysvar cache, memory pool, logs, budgets, statistics | `program-runtime/src/` and small crates | buffers and tables | fill, reset, reuse | reuse across nested calls, concurrent counters |

## The modules

| Module | Models |
|---|---|
| `CooperativeLoading` | the protocol by which threads share the loading of programs |
| `ProgramCacheIndex` | the entries of the program cache as pure operators: order, lookup, assignment, pruning |
| `ProgramCache` | the cache under banks on several forks and threads that run batches; implements `CooperativeLoading` |
| `AccountRules` | what a program may change of an account; rent states |
| `SystemProgram` | the system program, on top of `AccountRules` |
| `TransactionBatch` | the pipeline, on top of `SystemProgram` |
| `TransactionAccounts` | the accounts of one transaction in execution: borrow counters, copy on write, touched flags, frames and guest addresses of the instruction trace |
| `ProgramRuntime` | the execution of one transaction: stack, trace, calls between programs, memory views; also on top of `SystemProgram` |
| `LoaderAccounts` | program and buffer accounts, on top of `SystemProgram` |
| `UpgradeableLoader`, `LoaderV4` | the instructions of the two loaders as operators |
| `ProgramLoaders` | transactions of the loaders over several slots, with the cache entries they leave |
| `SbpfIsa` | the instruction set of every version with its widths, and the verifier |
| `MemoryMapping` | the guest's address space: regions, their search and its cache |
| `SbpfInterpreter`, `SbpfJit` | the two engines, as functions from a machine's state to the next |
| `SbpfVm` | both engines side by side on verified programs |
| `SbpfDebugger` | the interpreter under a debugger's session |
| `HostMemory`, `HostCalls` | pages and buffers taken from the host; calls of compiled code into it |
| `ProgramStatistics` | the counters and averages of a cache entry under concurrent recording |
| `ElfLoader` | both ELF parsers, relocation, read-only sections, the registry of functions |
| `SbpfAssembler`, `StaticAnalysis` | assembler, disassembler, instruction builder; control-flow and data-flow graphs |
| `SbpfTools` | a program on its way through assembler or loader, verifier and analysis, and a walk through it |
| `GuestMemory`, `SysvarCache` | translation of guest addresses for syscalls, budgets and costs; the sysvars of a batch |
| `RuntimeSyscalls`, `CpiTranslation`, `ParameterLayout` | the handlers of all syscalls; the arguments of invocations in both ABIs; the serialized parameters byte for byte |
| `Syscalls` | transactions whose programs make syscalls and invoke each other |
| `MC_*` and `*.cfg` | instances for TLC; `MC_TransactionLedger` and `MC_SbpfVm` run several small modules in one run, one in each behaviour |
| `CooperativeLoadingProofs`, `ProgramCacheProofs`, `SystemProgramProofs`, `TransactionBatchProofs`, `TransactionOutcomeProofs`, `TransactionAccountsProofs` | theorems and their proofs |

### CooperativeLoading

`replenish_program_cache` loops over `ProgramCache::extract`, which reserves at most one
missing program for the thread, `finish_cooperative_loading_task`, which releases it and
increments the waiter's cookie, and `LoadingTaskWaiter::wait`. `pc[t]` is where the thread
is, `missing[t]` the programs it still needs, `loading` the reservations
(`loading_entries`). The cookie is unbounded in the code; a thread only compares the one it
read with the present one, so `current[t]` says whether they agree. Reading the
cookie and extracting happen under one lock and are one step; sleeping is another.

### ProgramCacheIndex and ProgramCache

An entry is its deployment slot, effective slot, kind and environment. The ledger (which
program was deployed, closed or upgraded in which block) is the ground truth the cache is
compared with. Banks are frozen, forks are pruned and rerooted; threads start batches on a block,
extract, load, assign, execute deployments, merge what they modified. Which entry
an eviction picks depends on usage statistics and is left open: every choice is explored.
Two obligations of the caller are assumed and stand as guards: no batch runs on a fork
that is being pruned away, and `remove_programs` is called only for programs no
block above the root has modified.

### AccountRules and SystemProgram

An account is lamports, owner, data length, and of its data what the programs here tell
apart: the nonce state (`tag`, `authority`, `durable_nonce`). An `Execution` carries the
accounts of a transaction, the two running totals (`lamports_delta`, `resize_delta`) and
whether it succeeded so far; every operator returns the next `Execution`, and an error ends
it at the same check as in the code. A durable nonce is the number of the block whose hash it
derives from. Addresses derived from seeds are the relation `CreateWithSeed`.

### TransactionBatch

`db` are the bank's accounts, `loaded_accounts` the account loader's, `results` what the
batch returns. `BeginBatch` chooses the batch and its flags; `NotLoaded`, `FeesOnly`,
`HitMaxLimit` and `Loaded` are the outcomes of validating and loading a message;
`ExecuteInstruction` runs one instruction; `FinishTransaction` checks the result, saves
or rolls back, and records balances. `Commit` and `Abandon` are the bank's (external): it
commits all processed results or none. `used` is history: the nonces of committed
transactions. What the bank itself checks before (age, status cache) is not restricted:
the batch may hold any message. `limit` of a message is what the base size of its lookup tables leaves of the limit on loaded data; no program
of the model belongs to the upgradeable loader, whose program data would count as well (`svm/src/account_loader.rs:487-541`).

### TransactionAccounts

One transaction's accounts as `transaction-context` holds them. `borrow_counters` are the
counters of `TransactionAccounts`; `refs` is history: the references that are alive. `heap` are the
buffers of account data, `private_account_fields` says which buffer an account uses, and `stored` which accounts the
store still shares its buffer with. Programs borrow, change, drop and call each
other; the store may forget its buffer at any time; `Start`, `Invoke` and `Pop` move the frames of the trace, whose slices are addresses of guest memory. Every setter
of `BorrowedInstructionAccount` is part of `Write`; `access_violation_handler` grows an account on access.

### ProgramRuntime

`stack` and `trace` are `instruction_stack` and `instruction_trace`; an entry of the stack
also holds the memory of its program, a view of each account. Programs are arbitrary: they
write lamports, owner, length and data wherever their memory permits, return or call.
`Mode` (of the transaction, so that one run covers all) says how the data is mapped (copies, copies in regions, the account's own
data). Of data, the length and the first byte are modelled. Syscalls refuse pointers
that are not those of the input (`syscall_parameter_address_restrictions` is active).
`writable` of a region stands also for what `access_violation_handler` would permit.
Variables `dirty` and `top` are history. Return data, host pointers and the costs per byte are the subject of `Syscalls` and `CpiTranslation`,
the instructions sysvar that of `TransactionAccounts`.

### LoaderAccounts, UpgradeableLoader, LoaderV4 and ProgramLoaders

Account data is the loader's state at its start (`tag`, `authority`, `slot`, `address`) and
the code after it, a sequence of words without trailing zeros: growing an account adds zeros and
shrinking it cuts code. `Verified` is the code that loading and
verification accept. Each instruction is an operator on the transaction in execution, in the order of
the code's checks and calls; accounts that are borrowed together must differ. `Migrate` is refused by
the code and has no action; the features that switch `SetAuthorityChecked` and
`ExtendProgramChecked` are the variable `feature_set`.

In `ProgramLoaders`, `accounts` and `entries` are what the last successful transaction left, `x` and
`modified` belong to the one in execution. A transaction ends with the first instruction that
fails, and leaves nothing then; its fee is the subject of `TransactionBatch`.
`load_program_with_pubkey` says which entry the accounts call for. In the instance, `F` is an account of another
program that looks like a buffer.

### SbpfIsa, MemoryMapping, SbpfInterpreter, SbpfJit and SbpfVm

`ByteBits` scales every width: with one bit to the byte, `u32` has 4 bits, `u64` 8, and a region spans 16
addresses, so that overflow, sign extension and the ends of regions are a few values from each other. An opcode is decoded as
in the code, by version. A step of an engine is a function of the machine (registers, frames, meter, memory
mapping, result). `SbpfJit` emits the x86 instructions of each guest instruction and executes them on a model of
the processor as far as the compiler uses it (registers, flags, stack); each of the subroutines is one instruction there and is taken
apart in `HostCalls`. `key` is the random key that blinds constants: the code must mean the same for all of them. `SbpfVm` advances the engines
together; they share nothing. A program that the compiler
refuses (an instruction it has no arm for) ends in phase `uncompiled`. The handler of access violations grows the region of an account as that of
`transaction-context` does: on a store, up to the limit it is given.

### SbpfDebugger

`execute_program` with a debugger attached: the interpreter stops, steps, continues up to a breakpoint or an
interrupt, and registers and memory are read and written. `gdbstub` is external: it calls the handlers while the program is
stopped, in any order.

### HostMemory, HostCalls and ProgramStatistics

In `HostMemory` each compiler is a thread, and every try of a call to the operating system is a step that may fail. Machine code is only
its length. The aligned buffers are in the same module. `HostCalls` has the instructions around a call into the host on a stack of
words. In `ProgramStatistics` each atomic operation is a step; `ledger` is history: what has been begun and completed, and the longest run.

### ElfLoader, SbpfAssembler, StaticAnalysis and SbpfTools

A file is its structures (headers, tables, strings, words) at their offsets, with every bound the parsers check; names
are pairs of a kind and a number, and their hashes are a constant function with collisions to choose from. A source is a sequence of parsed statements. `SbpfTools` takes an input through
assembling or loading, verification and analysis; its walk then takes any path, remembering which instruction wrote each
register and memory last, so that the graphs can be compared with executions.

### GuestMemory, SysvarCache, RuntimeSyscalls, CpiTranslation, ParameterLayout and Syscalls

A call is a record that passes through charging, translation, checks and writes in the order of the code; the first error ends it. Bytes, lengths and
addresses are computed. What hashes, curves and big integers compute is an external function of the bytes. `Syscalls` pushes and pops
instructions, takes stacks and heaps from the pool, serializes the parameters and lets the program store, load and call. Programs that change accounts
fail in the end, because the synchronization of accounts is in `ProgramRuntime`. Of UTF-8 only "no byte with the top bit" is modelled.
The tags by which an invocation may call the upgradeable loader stand for themselves, but that of `ExtendProgramChecked` (9) is 6.

## The runs

| Run | Instance | Shows |
|---|---|---|
| `cooperative_loading` | 3 threads, 3 programs | `LoadsAreExclusive`, `NoLostWakeup`, `SleepersWake` |
| `program_cache_forks` | 2 threads, 1 program, 4 blocks in each of 3 trees of forks, the last of them in a new epoch, a program only one environment accepts | `FindAgreesWithAccounts`: a batch finds what the accounts of its fork say; `IndexIsSound`: sorted versions, one entry per deployment, no unexpected replacement; `PruneKeepsWhatIsVisible` |
| `program_cache_shared` | 2 threads, 2 programs, 2 blocks | `EvictionReachesTarget`; `CooperativeLoadingSpec`: the cache implements the protocol; `ReplenishReturns` |
| `transaction_batch_nonce` | 3 blocks, batches of 2, everything that happens to a nonce | `NonceUsedOnce`, `NonceStaysFunded`, `FailedOnlyPays` |
| `transaction_batch_ledger` | 2 blocks, batches of 2, all instructions; and 2 accounts under nested instructions | `LamportsConserved`; `BatchIsExplained`: what is committed is what the loader showed and the reported balances explain, and the flags are respected; `NoNewRentPaying`; `AccountsAreGuarded`: exclusive borrows, the store's copy, totals, touched flags and frames |
| `runtime_memory` | 2 programs, 6 compute units; direct mapping, copied regions with one program of the old ABI, plain copies | `OwnersOnly`, `NoStaleView`; `MemoryFits`: growth is bounded and counted, regions follow the accounts, data fits its space |
| `runtime_calls` | 2 instructions, all kinds of calls, 7 compute units | `CallsAreSound`: lamports balance at every return and the trace tells the calls; `PrivilegesAreGranted`, `Terminates` |
| `program_loaders` | three sets of accounts, transactions of 2 instructions, 3 slots | `ProgramsAreConsistent`: cache entries follow the accounts and chains of next versions end; `OneDeploymentPerSlot`; `RetiredForever`: finalized and closed programs stay so; `AuthoritySigns` |
| `sbpf_execution` | every arithmetic instruction and jump at the edges of its width, control flows of three instructions, straight code, memory accesses; two compilers and 5 pages; two recorders | `EnginesAgree`, `VmIsBounded`, `LookupsAreRight`, `DebuggerIsFaithful`, `HostIsSafe`, `StatisticsAddUp` |
| `sbpf_tools` | every mnemonic, sources with loops, calls and labels, files for both parsers, sound and with one thing wrong | `LoadedAsLinked`, `EncodersAgree`, `CfgCoversExecution`, `AnalysisIsSound` |
| `syscalls` | every handler with good and bad arguments, nested programs, layouts, invocations in both ABIs with at most one fault | `CallsAreAtomic`; `WorkIsPaid`: a call priced by length (`Tariff`) touches no more bytes than it paid for; `InvocationsAreSeparate`, `InterfacesAgree` |
| `program_cache_epoch_reroot` | 1 thread, 1 program, 5 blocks | a disagreement, see below |

Bounds, and why they are enough:

- Three threads are the fewest of which one loads, one waits and one arrives; a third
  program lets a thread need both reserved and free ones.
- Four blocks hold a deployment below and above a fork, a skipped slot, a rerooting past both
  and a block of the next epoch; the three trees are the chain and the two places of the fork.
  No block follows a root in the new epoch: `PruneKeepsWhatIsVisible` is about roots of one epoch, and
  `program_cache_epoch_reroot` shows what happens after a root that leaves it.
  `MaxResults` bounds what batches remember, `ShrinkTo` how far an eviction goes.
- A nonce is stored, used and reused in three blocks. Two messages in a batch suffice for a
  transaction that follows a failed or successful one; messages hold at most three instructions.
- Data lengths 0 to 4 with a permitted increase of 1 for each program and of 2 for the transaction reach
  every comparison of a length with the original length, its limit and the total. Three stack frames contain a reentrant call
  through another program; a trace of four instructions fills up before the stack does and
  the other way around.
- In three slots a program is deployed, changed and changed again; two instructions in a transaction
  reach an account that was emptied and refunded before the transaction ended. The sizes of the states are small numbers in the order of the real
  ones (4, 36, 37, 45 bytes); a buffer holds at most three words, and the highest length costs more rent, so that extending may
  need a payment. The three sets of accounts are a program yet to be deployed, a deployed one and, for loader v4, two
  empty programs with an immutable one to copy from; the second and third leave little to the instructions of the other loader, which keeps them small.
- Each arithmetic instruction depends on two operands; 0, the least signed values and -1 of both widths are where
  its cases meet. Three instructions with small budgets hold a loop, a call that returns and one that recurses to the
  greatest depth. The lookup cache has to be filled, hit and invalidated, which a store and two loads around the ends of regions do.
- A function in front of the entry point, a label and a call are in each source of the second family; four free instructions hold every
  shape of two nested or crossing loops. Each file differs from a sound one in one field;
  sections also lie at and around the end of a region, which is where the read-only parser changes its arms.
- A recorded run lasts 0 or 4 microseconds; 0 is a run shorter than the clock shows.
- Lengths up to 400 bytes touch more than the fixed structures of a call (`FreeBytes`) and its base price together buy, so that a call which did not charge for
  its length would break `WorkIsPaid`.
- One call decides whether that call is atomic and paid; what outlives it (return data, heap, pools, sibling records, sysvars) needs two
  programs, two calls and two transactions.

Deadlock is checked in `CooperativeLoading`, `TransactionBatch`, `ProgramLoaders` and `ProgramRuntime`, whose
`Next` lets what has come to an end rest (or start again). `ProgramCache` may end: its blocks and batches are bounded. So do the programs of `sbpf_execution`, `sbpf_tools` and `syscalls`.

Fairness. `CooperativeLoading` and `ProgramCache` assume weak fairness of each
thread's steps: the operating system runs a runnable thread, loading a program
terminates. `ReplenishReturns` is stated for behaviours in which the cache
loses entries only finitely often: evictions, dumps and removals could take away what
a thread has loaded each time before it looks, and nothing in the code prevents that, so of endless evictions the property says nothing. `ProgramRuntime` assumes only that the
transaction goes on as long as it has not ended; it is written without `ENABLED`, and
the deadlock check shows that there always is a step to take.

## What is proved

The proofs hold for every value of the constants under the named assumptions.

- `CooperativeLoadingProofs` (`ThreadsAssumption`: the placeholder for "nobody" is no thread):
  `TypeCorrect`, `ExclusiveLoading`, `NoWakeupIsLost`, `SomebodyLoads`. The first two
  safety properties and the types are inductive only together (`IInv`): exclusive loading
  needs that a thread holds a reservation exactly while it loads, and that no wake-up is lost needs
  both. `SomebodyLoads` follows from the last without another induction: a sleeper waits for a
  reservation, and whoever holds it is awake.
- `ProgramCacheProofs`: `ImplementsCooperativeLoading`, the refinement that `program_cache_shared` checks as
  `CooperativeLoadingSpec`, one lemma for each action. A thread that executes or commits is idle in the protocol; what `extract` finds in the cache is the set
  that the protocol leaves open. The mapping needs little of the cache (`ThreadInv`): where threads are, and that the programs they miss are
  programs. Through the refinement the theorems about the protocol hold of the cache (`CacheLosesNoWakeup`, `CacheLoadsAreExclusive`).
- `SystemProgramProofs`: each instruction of the system program takes a permitted
  step of every account (`Evolves`): a nonce stays or becomes that of the block, an
  advanced nonce stays advanced, an initialized nonce stays funded. It uses `RulesAssumption`.
- `TransactionBatchProofs` (also `MessagesAssumption`, `BatchAssumption`,
  `GenesisAssumption`): `TypeCorrect`, `NoncesAreUsedOnce`, `NoncesStayFunded`. That no two committed
  transactions used one nonce says nothing of the accounts, so the invariant `IInv`
  follows the nonce through every place it can be read from: the bank's accounts, the account
  loader, the results, the transaction in execution and its rollback accounts. There a nonce is at most the present
  block, later than all spent nonces of that account, and funded. While a nonce
  transaction executes its own nonce is unspent and older than the block; it has been advanced after the first instruction; and the
  rollback accounts are already good for the time when it is spent.
- `TransactionOutcomeProofs` (same assumptions): `FailuresOnlyPay`, `RentPayingNeverBegins`, `LoaderShowsWhatIsStored`. `OutcomeInv` says that between validation and
  the end of a transaction nothing changes that the validation looked at, that the account loader shows what the results so far would commit, and
  that rent states moved only along permitted transitions from the bank's accounts to the loader, to the accounts as loaded and to what is stored;
  permitted transitions compose (a lemma), which is why checking each transaction against what it loaded is enough.
- `TransactionAccountsProofs` (`ConstantsAreRight`): `BorrowsStayExclusive`, `StoreIsKept`. `ContextInv` follows the frames of the
  instruction trace through pushes that fail at any point, so that the running instruction's accounts are accounts of the transaction; `BorrowInv`
  relates each counter to the references alive; `StoreInv` says that an account uses the buffer it was loaded with or its own copy, and that what the store
  still holds has not been written.

Only model-checked, and why:

- liveness (`SleepersWake`, `ReplenishReturns`, `Terminates`): fairness and `ENABLED` are outside the prover;
- `LamportsConserved`, the balances in `BatchIsExplained` and the totals in `AccountsAreGuarded`: sums over the accounts need induction over data;
- `IndexIsSound`, `FindAgreesWithAccounts` and `PruneKeepsWhatIsVisible`: they rest on what a recursive binary search and filtered sequences compute, `EvictionReachesTarget` on cardinalities;
- everything about the virtual machine and the syscalls: recursion over programs and memory, and bitwise operators;
- `ProgramRuntime`, whose accounts and views change by folds over sequences.

## Disagreements between code and comments

- `program_cache_epoch_reroot`: when the root enters a new epoch, `prune` keeps an older deployment's entry because
  its environment differs from that of the newest one, and then drops the newest one because it is of the old environment.
  This takes a second fork that has used the older version in the new epoch. Blocks of the rooted fork
  then find the older version, against "handles the visibility rules of un/re/deployments".

## Observations

Met while modelling; the models follow the code in each case.

Program cache and batches
- `unload_program_entry` compares entries without their environment: around an epoch boundary an eviction may unload another
  entry than it chose, or nothing. `EvictionReachesTarget` is therefore checked within one epoch, with one environment, and says nothing of this case.
- `merge_from` of the statistics loads `interpreted_invocations` of the other entry twice; merging with an entry that has observed nothing halves the averages. A run shorter than a
  microsecond is recorded as 0, so an average can stay 0 after any number of runs.

Runtime and syscalls
- `translate_accounts_common` skips executable accounts, so a callee's payment to one stays invisible to the caller's memory.
- `InvokeContext::push` leaves an entry of `syscall_context` when the transaction's push fails, and a push that fails at the instructions sysvar
  leaves its frame on the stack; the transaction fails in both cases.
- `set_state` and `get_data_mut` touch the account before `AccountDataTooSmall` is returned, `set_data_from_slice` also when nothing changes.
- The scratch pad of a full trace (64 instructions) has the address at which the regions of instruction accounts begin.
- The log collector may append a short message after "Log truncated". "Program return" names the current program even if a callee set the data.
- Poseidon charges by the number of slices, `alt_bn128` group operations other than the pairing and compressions by the operation, a processed sibling and
  the seeds of an invocation's signers not by their lengths, whatever lengths are translated. `WorkIsPaid` is about the other calls. `sol_big_mod_exp` translates its parameters before it charges.
- The range of enabled SBPF versions can be empty when V0 is disabled and V3 is not enabled.

Virtual machine and tools
- `disassemble` and `split_into_basic_blocks` pass the index of an instruction where `calculate_call_imm_target_pc` expects its `ptr`; they agree except after `lddw`.
- The disassembler prints internal calls of V0 to V2 as "syscall".
- The first block of a registered function gets no fall-through edge out to the block behind it, for instance into a loop whose head follows
  (`sbpf/src/static_analysis.rs:401-405`); `CfgCoversExecution` allows exactly this step without an edge. Dominators are not immediate for loops entered elsewhere; the
  source of a cloned data-flow edge is stale; `callx` through r6 to r9 is not bound in the data flow.
- A symbol named "entrypoint" resolves to `e_entry`.
- The lenient parser places a section by its start alone, with `>` (`sbpf/src/elf.rs:687`, `894`), so a section at `MM_REGION_SIZE` passes. For a text section
  there `text_section_vaddr` is `MM_STACK_START`, while `parse_ro_sections` leaves its address as it is (`923-928`, `963-964`); with `optimize_rodata` and
  without `reject_broken_elfs`, `get_text_bytes` (`313-314`) then slices beyond the section. The files of `sbpf_tools` hold this case (`TextAtRegionEnd`);
  `LoadedAsLinked` excludes it and no other file with sections at the end of the region.
- `MemoryMapping::initialize` does not flush the cache of lookups (it is called once, on a new mapping).
- Debugger: a breakpoint at the program's end is reported as such in single-step mode, and stepping on executes the last instruction again; detaching in
  the middle makes `execute_program` return `Ok(0)`; reading `pc` gives an address and writing it sets an index; memory writes are ignored.
- With `enable_address_translation = false`, which nothing in the repository configures, the exchange around a store (`sbpf/src/jit.rs`) has its
  operands the other way around than its comment says; this path is not modelled.

## Not modelled

- The encoding of x86 instructions into bytes, noops and jump offsets; the AArch64 assembler, which is not used.
- Hashing, signatures, curves, pairings: pure functions over large fields.
- The text grammar of assembly, Graphviz output, register traces and `DynamicAnalysis`: they parse, format or count.
- Timings, metrics, log wording, fixtures and developer tools: no decision depends on them.
- The prioritization fee: one saturating expression over 128 bits, beyond TLC's integers, with unit tests of its own.
- Builtins in the cache and usage statistics as reasons for eviction; account overrides; token balances.
