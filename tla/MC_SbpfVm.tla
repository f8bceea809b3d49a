----------------------------- MODULE MC_SbpfVm -----------------------------
(* The engines that execute programs, under a debugger or not (SbpfVm,      *)
(* SbpfDebugger), the memory their host gives them (HostMemory), the calls  *)
(* of compiled code into the host (HostCalls) and the statistics of what    *)
(* they execute (ProgramStatistics).  A behaviour is of one kind.           *)
(*                                                                          *)
(* With one bit to the byte, u32 has 4 bits, u64 has 8 and a memory region  *)
(* spans 16 addresses, so the edges of every width are a few values away    *)
(* from each other.                                                         *)
EXTENDS SbpfDebugger


Keys == {90, 167}               \* random keys: positive and negative halves
Words == {0, 8, 15, 128, 255}   \* zero, i32::MIN, -1i32, i64::MIN, -1i64
Imms == {-8, -2, -1, 0, 1, 4}
ExitInsn == Insn(EXIT, 0, 0, 0, 0)
ArithmeticVersions == {2, 3}     \* version 3 has the arithmetic of 0 and 1, and 32-bit jumps

Opcodes(v, kinds, reg) == {o \in 0..255 : Decode(v, o).kind \in kinds /\ Decode(v, o).reg = reg}
(* Shifts and one-operand multiplications move registers around.            *)
MovesRegisters(v, o) == Decode(v, o).op \in DOMAIN ShiftCode \cup DOMAIN PqrCode

FillRegisters(dst, x, src, y) ==
    [i \in Registers |-> IF i = dst THEN x ELSE IF i = src THEN y ELSE 16 * i + 3]
WithoutMemory(v, prog, reg, units, key) ==
    Case(Executable(v, prog, 0, <<>>, <<>>), reg, units, FALSE, <<>>, <<>>, key)

(* One arithmetic instruction or jump with a register operand; rax, rdx and *)
(* rcx are the registers of guest registers 0, 2 and 3.                     *)
RegisterCases(v, o) ==
    {WithoutMemory(v, <<Insn(o, p[1], p[2], 1, 0), ExitInsn, ExitInsn>>, FillRegisters(p[1], x, p[2], y), 9, 90) :
       p \in IF MovesRegisters(v, o) THEN {<<0, 2>>, <<2, 0>>, <<1, 2>>, <<1, 0>>, <<1, 3>>, <<3, 1>>, <<3, 0>>, <<0, 0>>, <<2, 2>>, <<3, 3>>, <<1, 1>>}
             ELSE {<<1, 2>>},
       x \in Words, y \in Words}

(* The same with an immediate, and lddw with every constant.                *)
ImmediateCases(v, o) ==
    {WithoutMemory(v, <<Insn(o, dst, 0, 1, imm), ExitInsn, ExitInsn>>, FillRegisters(dst, x, dst, x), 9, key) :
       dst \in IF MovesRegisters(v, o) THEN 0..3 ELSE {1}, x \in Words,
       imm \in IF Decode(v, o).op \in {"le", "be"} THEN {0, W16, W32, W64} ELSE Imms, key \in Keys}
ConstantCases ==
    {WithoutMemory(0, <<Insn(LD_DW_IMM, 1, 0, 0, low), Insn(0, 0, 0, 0, high), ExitInsn>>,
                   FillRegisters(1, 0, 1, 0), 9, key) : low \in -8..7, high \in -8..7, key \in Keys}

(* Programs of four instructions over these, with every small budget: loops *)
(* that end or do not, calls and returns, recursion, callx, syscalls, a     *)
(* division by zero, code that runs off its end.                            *)
Control ==
    {Insn(ADD64_IMM, 6, 0, 0, 1), Insn(93, 6, 0, -2, 2), Insn(JA, 0, 0, 1, 0),
     Insn(CALL_IMM, 0, 1, 0, 1), Insn(CALL_IMM, 0, 1, 0, -2), Insn(CALL_IMM, 0, 0, 0, 5),
     Insn(CALL_REG, 1, 1, 0, 1), Insn(63, 6, 0, 0, 0), Insn(LD_DW_IMM, 7, 0, 0, 5), Insn(0, 0, 0, 0, 3), ExitInsn}
ControlRegisters == [i \in Registers |-> IF i = 1 THEN program_vm_addr + 2 * INSN_SIZE ELSE i]
ControlCases(v, first) ==
    {Case(Executable(v, <<first>> \o rest, 0, 1 :> 2 @@ 14 :> 0, 5 :> 1), ControlRegisters, units, FALSE, <<>>, <<>>, 90) :
       rest \in Control \X Control, units \in {1, 3, 6}}

(* Longer straight code, past the compiler's checkpoints.                   *)
AddInsn == Insn(ADD64_IMM, 6, 0, 0, 1)
Straight == {AddInsn, Insn(JA, 0, 0, 0, 0), Insn(CALL_IMM, 0, 0, 0, 5), Insn(63, 7, 0, 0, 0)}
StraightCases(v, first) ==
    {Case(Executable(v, <<first>> \o rest, 0, <<>>, 5 :> 1), [ControlRegisters EXCEPT ![7] = 0], units, FALSE, <<>>, <<>>, 90) :
       rest \in Straight \X Straight \X Straight \X {AddInsn} \X {AddInsn, ExitInsn}, units \in 0..7}

(* Memory: a store, then two loads, around the ends of the regions.         *)
Regions(v) ==
    <<Region(0, MM_BYTECODE_START, 3, NoGap, FALSE, 0),
      Region(3, MM_STACK_START, 6, IF stack_frame_gaps(v) THEN 1 ELSE NoGap, TRUE, 0),
      Region(9, MM_HEAP_START, 3, NoGap, TRUE, 0),
      Region(12, MM_INPUT_START, 2, NoGap, FALSE, 5)>>
    \o (IF v = 4 THEN <<>> ELSE <<Region(18, MM_INPUT_START + 5, 3, NoGap, TRUE, 0)>>)
HostMemory == [h \in 0..21 |-> h % 2]
Addresses == {15, 33, 35, 40, 50, 67, 68, 69, 71, 250}
MemoryCases(v, s, l) ==
    {Case(Executable(v, <<Insn(s, 1, 4, 0, -3), Insn(l, 0, 2, -1, 0), Insn(l, 3, 3, 0, 0), ExitInsn>>, 0, <<>>, <<>>),
          [i \in Registers |-> IF i = 1 THEN a ELSE IF i = 2 THEN b ELSE IF i = 3 THEN c ELSE 255],
          9, v = 4, Regions(v), HostMemory, 90) :
       a \in Addresses, b \in {34, 49, 65, 68}, c \in {16, 36, 70}}
StoreOps(v) == IF v = 2 THEN {47, 143} ELSE {115, 123, 122}
LoadOps(v) == IF v = 2 THEN {60, 156} ELSE {97, 113, 121}

MCFamilies ==
    [f \in UNION {{<<"reg", v, o>> : o \in Opcodes(v, {"alu", "jmp"}, TRUE)} : v \in ArithmeticVersions}
       |-> RegisterCases(f[2], f[3])]
    @@ [f \in UNION {{<<"imm", v, o>> : o \in Opcodes(v, {"alu", "jmp"}, FALSE)} : v \in ArithmeticVersions}
          |-> ImmediateCases(f[2], f[3])]
    @@ (<<"lddw">> :> ConstantCases)
    @@ [f \in {"control"} \X {0, 3} \X Control |-> ControlCases(f[2], f[3])]
    @@ [f \in {"straight"} \X {0, 3} \X Straight |-> StraightCases(f[2], f[3])]
    @@ [f \in UNION {{"memory"} \X {v} \X StoreOps(v) \X LoadOps(v) : v \in {0, 2, 4}} |-> MemoryCases(f[2], f[3], f[4])]

(* Under a debugger: a call and a syscall, a loop that exceeds its budget,  *)
(* and loads and stores, one of which faults.                               *)
DebugCase(prog, units) ==
    Case(Executable(0, prog, 0, 1 :> 2 @@ 14 :> 0, 5 :> 1), ControlRegisters, units, FALSE, <<>>, <<>>, 90)
MCDebugged ==
    {DebugCase(<<Insn(CALL_IMM, 0, 1, 0, 1), ExitInsn, Insn(CALL_IMM, 0, 0, 0, 5), ExitInsn>>, 7),
     DebugCase(<<AddInsn, Insn(93, 6, 0, -2, 2), ExitInsn>>, 4)}
    \cup {c \in MemoryCases(0, 115, 97) : c.reg[1] \in {35, 69} /\ c.reg[2] = 34 /\ c.reg[3] = 70}

------------------------------------------------------------------------------
VARIABLES
    side,       \* "engines", "pages", "buffers", "calls" or "statistics"
    pages, progs, buffer,
    stats, observers, merging, ledger,
    cpu

memoryVars == <<pages, progs, buffer>>
statisticVars == <<stats, observers, merging, ledger>>

(* Two programs of which the second fits only where the first has given     *)
(* pages back, and code that may fill its section.                          *)
Memory == INSTANCE HostMemory WITH
    Compilers <- {"first", "second"}, NPages <- 5, PageSize <- 8, EntrySize <- 4, ProgramSizes <- {1},
    NoopRate <- 8, CheckpointDistance <- 1,
    MAX_EMPTY_PROGRAM_MACHINE_CODE_LENGTH <- 8, MAX_START_PADDING_LENGTH <- 3,
    MAX_MACHINE_CODE_LENGTH_PER_INSTRUCTION <- 3, MACHINE_CODE_PER_INSTRUCTION_METER_CHECKPOINT <- 1,
    MaxCapacity <- 4, ByteValues <- {0, 1}

Metrics == INSTANCE ProgramStatistics WITH
    Executors <- {"first", "second"}, MaxObservations <- 1, Durations <- {0, 4}

(* Two pointers to the vm, of which one is not disguised, and two depths.   *)
Calls == INSTANCE HostCalls WITH RuntimeKeys <- {0, 40}, LowerKey <- 3, Depths <- {3, 5}

NoCall == [site |-> "none"]

MCInit ==
    /\ DebugInit /\ Memory!HostInit /\ Metrics!StatInit
    /\ \/ side \in {"engines", "pages", "buffers", "statistics"} /\ cpu = NoCall
       \/ side = "calls" /\ Calls!HostCallsInit
MCNext ==
    \/ side = "engines" /\ DebugNext /\ UNCHANGED <<side, memoryVars, statisticVars, cpu>>
    \/ side = "pages" /\ (\E c \in {"first", "second"} : Memory!PageStep(c))
         /\ UNCHANGED <<side, vars, session, statisticVars, cpu>>
    \/ side = "buffers" /\ Memory!BufferStep /\ UNCHANGED <<side, vars, session, statisticVars, cpu>>
    \/ side = "calls" /\ Calls!HostCallsNext /\ UNCHANGED <<side, vars, session, memoryVars, statisticVars>>
    \/ side = "statistics" /\ Metrics!StatNext /\ UNCHANGED <<side, vars, session, memoryVars, cpu>>
MCSpec == MCInit /\ [][MCNext]_<<side, vars, session, memoryVars, statisticVars, cpu>>

(* The host keeps its memory and its stack: pages and buffers whatever       *)
(* fails (jit.rs, seal; see HostMemory), and what compiled code hands over   *)
(* and gets back (jit.rs, emit_rust_call; see HostCalls).                    *)
HostIsSafe ==
    /\ side \in {"pages", "buffers"} => Memory!HostMemoryIsSafe
    /\ side = "calls" => Calls!HostCallsAreRight

(* Statistics under concurrent recording and merging: see ProgramStatistics. *)
StatisticsAddUp == side = "statistics" => Metrics!StatisticsAddUp
=============================================================================
