----------------------------- MODULE HostCalls ------------------------------
(***************************************************************************)
(* Compiled code calling the host (jit.rs): a memory access, a syscall or  *)
(* a trace of the registers goes through a subroutine that saves the       *)
(* registers, moves the arguments where the calling convention wants them  *)
(* and calls a Rust function, and an internal call builds a frame on the   *)
(* host's stack.  SbpfJit takes each of these as one step; here            *)
(* they are the instructions emitted, on a stack of words addressed from   *)
(* rsp.  Values are small integers; the words that the calls work with     *)
(* differ from each other.                                                 *)
(***************************************************************************)
EXTENDS Integers, Sequences, SequencesExt, TLC

CONSTANTS
    RuntimeKeys,    \* values of the key of the pointer to the vm
    LowerKey,       \* the half of the immediate key that is a 32 bit value
    Depths          \* how deep the stack is, in words, when guest code runs

VARIABLES cpu

-----------------------------------------------------------------------------
(* Registers, the vm's fields and the words of memory.                     *)

ARGUMENT_REGISTERS == <<"rdi", "rsi", "rdx", "rcx", "r8", "r9">>
CALLER_SAVED_REGISTERS == <<"rax", "rcx", "rdx", "rsi", "rdi", "r8", "r9", "r10", "r11">>
CALLEE_SAVED_REGISTERS == <<"rbp", "rbx", "r12", "r13", "r14", "r15">>
REGISTER_MAP == <<"rax", "rsi", "rdx", "rcx", "r8", "r9", "rbx", "r12", "r13", "r14", "r15">>
REGISTER_PTR_TO_VM == "rdi"
REGISTER_INSTRUCTION_METER == "r10"
REGISTER_SCRATCH == "r11"
FRAME_PTR_REG == "r15"
ScratchRegs == SubSeq(REGISTER_MAP, 7, 10)
SCRATCH_REGS == 4

Everything == CALLER_SAVED_REGISTERS \o CALLEE_SAVED_REGISTERS

\* RuntimeEnvironmentSlot, in words; the result is its discriminant and value.
Slot == "HostStackPointer" :> 0 @@ "CallDepth" :> 1 @@ "PreviousInstructionMeter" :> 3 @@ "DueInsnCount" :> 4
        @@ "ProgramResult" :> 8 @@ "MemoryMapping" :> 11 @@ "RegisterTrace" :> 12

VmAddress == 1000
StackBottom == -60
Words == (StackBottom .. -1) \cup (150 .. 161) \cup (VmAddress .. VmAddress + 14)

Clobbered == -99
OkDiscriminant == 0

encrypted_host_address(key) == VmAddress + key
slot_in_vm(key, slot) == Slot[slot] - key

-----------------------------------------------------------------------------
(* Instructions: op, source, destination (or base), offset, immediate.     *)

Ins(op, src, dst, off, imm) == [op |-> op, src |-> src, dst |-> dst, off |-> off, imm |-> imm]
push(src) == Ins("push", src, "", 0, 0)
push_indirect(base, off) == Ins("push indirect", base, "", off, 0)
push_immediate(imm) == Ins("push immediate", "", "", 0, imm)
pop(dst) == Ins("pop", "", dst, 0, 0)
mov(src, dst) == Ins("mov", src, dst, 0, 0)
load(base, dst, off) == Ins("load", base, dst, off, 0)
store(src, base, off) == Ins("store", src, base, off, 0)
store_immediate(base, off, imm) == Ins("store immediate", "", base, off, imm)
lea(base, dst, off) == Ins("lea", base, dst, off, 0)
load_immediate(dst, imm) == Ins("load immediate", "", dst, 0, imm)
add_immediate(dst, imm) == Ins("add immediate", "", dst, 0, imm)
add_indirect(base, off, imm) == Ins("add indirect", "", base, off, imm)
add(src, dst) == Ins("add", src, dst, 0, 0)
xchg_indirect(src, base, off) == Ins("xchg indirect", src, base, off, 0)
cmp_indirect(base, off, imm) == Ins("cmp indirect", "", base, off, imm)
call_reg(src) == Ins("call rust", src, "", 0, 0)
jump_unless_equal(anchor) == Ins("jne", anchor, "", 0, 0)
call_label(label) == Ins("call", "", "", 0, label)
call_indirect(base, off, label) == Ins("call indirect", base, "", off, label)
sub_indirect(src, base, off) == Ins("sub indirect", src, base, off, 0)
return_near(label) == Ins("ret", "", "", 0, label)
guest_code == Ins("guest code", "", "", 0, 0)

-----------------------------------------------------------------------------
(* emit_rust_call                                                          *)

Register(reg) == [kind |-> "Register", reg |-> reg, c |-> 0]
RegisterIndirect(reg, off) == [kind |-> "RegisterIndirect", reg |-> reg, c |-> off]
RegisterPlusConstant(reg, off) == [kind |-> "RegisterPlusConstant", reg |-> reg, c |-> off]
RegisterPlusConstant64(reg, off) == [kind |-> "RegisterPlusConstant64", reg |-> reg, c |-> off]
Constant64(value) == [kind |-> "Constant64", reg |-> "", c |-> value]

Argument(index, value) == [index |-> index, value |-> value]

EmitArgument(argument) ==
    LET v == argument.value
        onStack == argument.index >= Len(ARGUMENT_REGISTERS)
        dst == IF onStack THEN "rsp" ELSE ARGUMENT_REGISTERS[argument.index + 1]
    IN CASE v.kind = "Register" -> IF onStack THEN <<push(v.reg)>> ELSE IF v.reg = dst THEN <<>> ELSE <<mov(v.reg, dst)>>
         [] v.kind = "RegisterIndirect" -> IF onStack THEN <<push_indirect(v.reg, v.c)>> ELSE <<load(v.reg, dst, v.c)>>
         [] v.kind = "RegisterPlusConstant64" ->
              IF onStack THEN <<push(v.reg), add_indirect("rsp", 0, v.c)>> ELSE <<load_immediate(dst, v.c), add(v.reg, dst)>>
         [] v.kind = "RegisterPlusConstant" ->
              IF onStack THEN <<push(v.reg), add_indirect("rsp", 0, v.c)>> ELSE <<lea(v.reg, dst, v.c)>>
         [] v.kind = "Constant64" -> <<load_immediate(dst, v.c)>>

\* No caller asks for a result in a register, so all of them are saved.
emit_rust_call(target, arguments) ==
    LET excess == Len(arguments) - Len(ARGUMENT_REGISTERS)
        stack_arguments == IF excess > 0 THEN excess ELSE 0
        padding == stack_arguments % 2
    IN [i \in DOMAIN CALLER_SAVED_REGISTERS |-> push(CALLER_SAVED_REGISTERS[i])]
       \o (IF padding = 1 THEN <<add_immediate("rsp", -1)>> ELSE <<>>)
       \o FlattenSeq([i \in DOMAIN arguments |-> EmitArgument(arguments[i])])
       \o (IF target.kind = "Register" THEN <<call_reg(target.reg)>>
           ELSE <<load_immediate("rax", target.c), call_reg("rax")>>)
       \o <<add_immediate("rsp", stack_arguments + padding)>>
       \o Reverse([i \in DOMAIN CALLER_SAVED_REGISTERS |-> pop(CALLER_SAVED_REGISTERS[i])])

emit_result_is_err(key, dst) ==
    <<lea(REGISTER_PTR_TO_VM, dst, slot_in_vm(key, "ProgramResult")), cmp_indirect(dst, 0, OkDiscriminant)>>

-----------------------------------------------------------------------------
(* The subroutines, each with the code that leads to it.  A label stands   *)
(* for the address of the instruction after a call.                        *)

LoadFunction == 701
StoreFunction == 702
TraceFunction == 703
SyscallFunction == 704
CurrentPc == 21
Immediate == 33
AddressOffset == 5
AfterAccess == 801
AfterTrace == 802
AfterSyscall == 803
AfterPrologue == 804
AfterCallee == 805
AfterProgram == 806
TargetPc == 29
TargetAddress == 901
RegistersAddress == 150
FrameSize == 7
ResultValue == 55
MeterAfterwards == 77

\* A slip: the arguments in the order of the parameters.
MappingInParameterOrder(key) ==
    <<Argument(0, RegisterPlusConstant(REGISTER_PTR_TO_VM, slot_in_vm(key, "ProgramResult"))),
      Argument(1, RegisterIndirect(REGISTER_PTR_TO_VM, slot_in_vm(key, "MemoryMapping")))>>

\* The last arguments of an access, the one that replaces the vm's pointer
\* after the one that needs it.
MappingAndResult(key) ==
    <<Argument(1, RegisterIndirect(REGISTER_PTR_TO_VM, slot_in_vm(key, "MemoryMapping"))),
      Argument(0, RegisterPlusConstant(REGISTER_PTR_TO_VM, slot_in_vm(key, "ProgramResult")))>>

\* emit_address_translation: the value waits in a slot that the pushes of
\* the call to come do not reach.
emit_address_translation(s) ==
    (CASE s.kind = "store" -> <<store(s.value, "rsp", -12)>>
       [] s.kind = "store immediate" ->
            <<load_immediate(REGISTER_SCRATCH, Immediate - LowerKey), store(REGISTER_SCRATCH, "rsp", -12)>>
       [] OTHER -> <<>>)
    \o <<load_immediate(REGISTER_SCRATCH, AddressOffset), add(s.reg, REGISTER_SCRATCH),
         store_immediate("rsp", -2, CurrentPc), call_label(AfterAccess)>>

\* ANCHOR_TRANSLATE_MEMORY_ADDRESS
TranslateMemoryAddress(s, key) ==
    <<add_immediate("rsp", -1)>>
    \o (IF s.kind = "load"
        THEN emit_rust_call(Constant64(LoadFunction),
               <<Argument(2, Register(REGISTER_SCRATCH)), Argument(3, Constant64(0))>> \o MappingAndResult(key))
        ELSE (IF s.kind = "store immediate" THEN <<add_indirect("rsp", -10, LowerKey)>> ELSE <<>>)
             \o emit_rust_call(Constant64(StoreFunction),
               <<Argument(3, Register(REGISTER_SCRATCH)), Argument(2, RegisterIndirect("rsp", -1)),
                 Argument(4, Constant64(0))>> \o MappingAndResult(key)))
    \o emit_result_is_err(key, REGISTER_SCRATCH)
    \o <<pop(REGISTER_SCRATCH), jump_unless_equal("THROW_EXCEPTION")>>
    \o (IF s.kind = "load"
        THEN <<load(REGISTER_PTR_TO_VM, REGISTER_SCRATCH, slot_in_vm(key, "ProgramResult") + 1)>> ELSE <<>>)
    \o <<return_near(AfterAccess)>>

\* ANCHOR_EXTERNAL_FUNCTION_CALL
ExternalFunctionCall(key) ==
    <<load_immediate(REGISTER_SCRATCH, SyscallFunction), call_label(AfterSyscall), push_immediate(-1),
      store(REGISTER_INSTRUCTION_METER, REGISTER_PTR_TO_VM, slot_in_vm(key, "DueInsnCount"))>>
    \o emit_rust_call(Register(REGISTER_SCRATCH),
         <<Argument(5, Register("r9")), Argument(4, Register("r8")), Argument(3, Register("rcx")),
           Argument(2, Register("rdx")), Argument(1, Register("rsi")), Argument(0, Register(REGISTER_PTR_TO_VM))>>)
    \o <<load(REGISTER_PTR_TO_VM, REGISTER_INSTRUCTION_METER, slot_in_vm(key, "PreviousInstructionMeter"))>>
    \o emit_result_is_err(key, REGISTER_SCRATCH)
    \o <<pop(REGISTER_SCRATCH), jump_unless_equal("EPILOGUE"),
         lea(REGISTER_PTR_TO_VM, REGISTER_SCRATCH, slot_in_vm(key, "ProgramResult")),
         load(REGISTER_SCRATCH, "rax", 1), return_near(AfterSyscall)>>

\* ANCHOR_TRACE
Trace(key) ==
    <<load_immediate(REGISTER_SCRATCH, CurrentPc), call_label(AfterTrace), push(REGISTER_SCRATCH)>>
    \o Reverse([i \in DOMAIN REGISTER_MAP |-> push(REGISTER_MAP[i])])
    \o <<mov("rsp", "rax"), add_immediate("rsp", -3)>>
    \o emit_rust_call(Constant64(TraceFunction),
         <<Argument(1, Register("rax")),
           Argument(0, RegisterPlusConstant(REGISTER_PTR_TO_VM, slot_in_vm(key, "RegisterTrace")))>>)
    \o <<add_immediate("rsp", 3), pop("rax"), add_immediate("rsp", Len(REGISTER_MAP) - 1), pop(REGISTER_SCRATCH),
         return_near(AfterTrace), load_immediate(REGISTER_SCRATCH, 0)>>

\* JitProgram::invoke, and ANCHOR_EPILOGUE, which may be reached at any
\* depth of the stack.  The stop watch's report is never emitted.
invoke(key) ==
    <<push("rbx"), push("rbp"), store("rsp", "rsi", 0), add_indirect("rsi", 0, -1),
      load_immediate("rbp", 0), store("rax", "rsp", -1)>>
    \o [i \in DOMAIN REGISTER_MAP |-> load(REGISTER_SCRATCH, REGISTER_MAP[i], i - 1)]
    \o <<load(REGISTER_SCRATCH, REGISTER_SCRATCH, Len(REGISTER_MAP)), call_indirect("rsp", -1, AfterProgram),
         guest_code, add_immediate("rsp", -7),
         load(REGISTER_PTR_TO_VM, "rsp", slot_in_vm(key, "HostStackPointer")), return_near(AfterProgram),
         pop("rbp"), pop("rbx")>>

\* ANCHOR_INTERNAL_FUNCTION_CALL_PROLOGUE: the frame is built above the
\* return address, which moves below it.
FunctionCallPrologue(key) ==
    <<add_immediate("rsp", -(SCRATCH_REGS + 1)), store(REGISTER_SCRATCH, "rsp", 0),
      load("rsp", REGISTER_SCRATCH, SCRATCH_REGS + 1)>>
    \o [i \in 1 .. SCRATCH_REGS |-> store(ScratchRegs[i], "rsp", SCRATCH_REGS - (i - 1) + 1)]
    \o <<store(FRAME_PTR_REG, "rsp", 1), xchg_indirect(REGISTER_SCRATCH, "rsp", 0),
         add_indirect(REGISTER_PTR_TO_VM, slot_in_vm(key, "CallDepth"), 1),
         add_immediate(FRAME_PTR_REG, FrameSize), return_near(AfterPrologue)>>

\* ANCHOR_INTERNAL_FUNCTION_CALL_REG, for a target inside the text: the
\* target's address takes the place of the saved register, and is returned to.
InternalFunctionCallReg ==
    <<push("rax"), load_immediate(REGISTER_SCRATCH, TargetPc), sub_indirect(REGISTER_INSTRUCTION_METER, "rsp", -1),
      add_immediate(REGISTER_INSTRUCTION_METER, -1), add(REGISTER_SCRATCH, REGISTER_INSTRUCTION_METER),
      load_immediate("rax", TargetAddress), xchg_indirect("rax", "rsp", 0), return_near(TargetAddress)>>

\* The counting of a direct call's instructions is SbpfJit's.
emit_internal_call(s) ==
    <<load_immediate(REGISTER_SCRATCH, CurrentPc), call_label(AfterPrologue)>>
    \o FunctionCallPrologue(s.key)
    \o (IF s.kind = "callx"
        THEN <<store(REGISTER_SCRATCH, "rsp", -3), mov(s.reg, REGISTER_SCRATCH), call_label(AfterCallee)>>
             \o InternalFunctionCallReg
        ELSE <<load_immediate(REGISTER_SCRATCH, TargetPc), call_label(AfterCallee)>>)
    \o <<guest_code, return_near(AfterCallee), pop(FRAME_PTR_REG)>>
    \o Reverse([i \in 1 .. SCRATCH_REGS |-> pop(ScratchRegs[i])])

Accesses == {"load", "store", "store immediate"}

Code(s) ==
    CASE s.kind \in Accesses -> emit_address_translation(s) \o TranslateMemoryAddress(s, s.key)
      [] s.kind = "syscall" -> ExternalFunctionCall(s.key)
      [] s.kind = "trace" -> Trace(s.key)
      [] s.kind \in {"call", "callx"} -> emit_internal_call(s)
      [] s.kind = "invoke" -> invoke(s.key)

-----------------------------------------------------------------------------
(* The processor.  A run is one of the sequences above, on registers that  *)
(* hold different words.                                                   *)

AnyRegister == {REGISTER_MAP[i] : i \in DOMAIN REGISTER_MAP}
Sites ==
    [kind : Accesses, key : RuntimeKeys, depth : Depths, reg : AnyRegister, value : AnyRegister]
    \cup [kind : {"syscall", "trace", "call", "callx", "invoke"}, key : RuntimeKeys, depth : Depths,
          reg : AnyRegister, value : {"rax"}]

Number(reg) == CHOOSE i \in DOMAIN Everything : Everything[i] = reg
StartRegister(s, reg) ==
    CASE reg = "rsp" -> IF s.kind = "invoke" THEN -(s.depth - 1) ELSE -s.depth
      [] reg = REGISTER_PTR_TO_VM -> encrypted_host_address(s.key)
      [] s.kind = "invoke" /\ reg = "rsi" -> VmAddress + Slot["HostStackPointer"]
      [] s.kind = "invoke" /\ reg = "rax" -> TargetAddress
      [] s.kind = "invoke" /\ reg = "r11" -> RegistersAddress
      [] OTHER -> 100 + Number(reg)
StartRegisters(s) == [reg \in ToSet(Everything) \cup {"rsp"} |-> StartRegister(s, reg)]

Start(s) ==
    [site |-> s, code |-> Code(s), at |-> "code", r |-> StartRegisters(s), equal |-> TRUE, seen |-> <<>>,
     mem |-> [a \in Words |-> IF a >= 0 THEN a + 500 ELSE 0]]

HostCallsInit == \E s \in Sites : cpu = Start(s)

Fetch == cpu.code[1]

Advance(r, mem) == cpu' = [cpu EXCEPT !.code = Tail(@), !.r = r, !.mem = mem]

Next1(r) == Advance(r, cpu.mem)

\* The registers and the words of memory after an instruction of the
\* straight line.
Compute(ins) ==
    LET r == cpu.r
        mem == cpu.mem
        at(base) == r[base] + ins.off
        Read(a) == IF a \in Words THEN mem[a] ELSE Clobbered
        Put(reg, v) == Next1([r EXCEPT ![reg] = v])
        Write(a, v) == Advance(r, [mem EXCEPT ![a] = v])
        Push(v) == Advance([r EXCEPT !.rsp = @ - 1], [mem EXCEPT ![r.rsp - 1] = v])
    IN CASE ins.op = "push" -> Push(r[ins.src])
         [] ins.op = "push indirect" -> Push(Read(at(ins.src)))
         [] ins.op = "push immediate" -> Push(ins.imm)
         [] ins.op \in {"call", "call indirect"} -> Push(ins.imm)
         [] ins.op = "pop" -> Next1([r EXCEPT !.rsp = @ + 1, ![ins.dst] = Read(r.rsp)])
         [] ins.op = "mov" -> Put(ins.dst, r[ins.src])
         [] ins.op = "load" -> Put(ins.dst, Read(at(ins.src)))
         [] ins.op = "lea" -> Put(ins.dst, at(ins.src))
         [] ins.op = "load immediate" -> Put(ins.dst, ins.imm)
         [] ins.op = "add immediate" -> Put(ins.dst, r[ins.dst] + ins.imm)
         [] ins.op = "add" -> Put(ins.dst, r[ins.dst] + r[ins.src])
         [] ins.op = "sub indirect" -> Put(ins.src, r[ins.src] - Read(at(ins.dst)))
         [] ins.op = "store" -> Write(at(ins.dst), r[ins.src])
         [] ins.op = "store immediate" -> Write(at(ins.dst), ins.imm)
         [] ins.op = "add indirect" -> Write(at(ins.dst), Read(at(ins.dst)) + ins.imm)
         [] ins.op = "xchg indirect" ->
              Advance([r EXCEPT ![ins.src] = Read(at(ins.dst))], [mem EXCEPT ![at(ins.dst)] = r[ins.src]])
         [] ins.op = "cmp indirect" -> cpu' = [cpu EXCEPT !.code = Tail(@), !.equal = Read(at(ins.dst)) = ins.imm]

Straight ==
    /\ cpu.at = "code" /\ cpu.code # <<>>
    /\ Fetch.op \notin {"call rust", "jne", "ret", "guest code"}
    /\ Compute(Fetch)

\* A return goes to the word on top of the stack.
Return ==
    /\ cpu.at = "code" /\ cpu.code # <<>>
    /\ Fetch.op = "ret"
    /\ IF cpu.mem[cpu.r.rsp] = Fetch.imm THEN Next1([cpu.r EXCEPT !.rsp = @ + 1])
       ELSE cpu' = [cpu EXCEPT !.at = "lost"]

JumpIfErr ==
    /\ cpu.at = "code" /\ cpu.code # <<>>
    /\ Fetch.op = "jne"
    /\ IF cpu.equal THEN Next1(cpu.r) ELSE cpu' = [cpu EXCEPT !.at = Fetch.src]

\* Guest code changes every register but the stack pointer and the vm's.
GuestCode ==
    /\ cpu.at = "code" /\ cpu.code # <<>>
    /\ Fetch.op = "guest code"
    /\ cpu' = [cpu EXCEPT !.code = Tail(@),
                          !.seen = [entry |-> cpu.r],
                          !.r = [reg \in DOMAIN cpu.r |-> IF reg \in {"rsp", REGISTER_PTR_TO_VM} THEN cpu.r[reg] ELSE Clobbered]]

\* A Rust function sees its arguments, may use any word below the stack
\* pointer and any register it need not preserve, and leaves its result.
\* with_vm finds the vm from the address that a syscall is given.
RustCall(ok) ==
    LET r == cpu.r
        vm == r.rdi - cpu.site.key
        result == IF r[Fetch.src] = SyscallFunction THEN vm + Slot["ProgramResult"] ELSE r.rdi
        fresh == (result :> (IF ok THEN OkDiscriminant ELSE 1)) @@ (result + 1 :> ResultValue)
        written == IF r[Fetch.src] = TraceFunction THEN <<>>
                   ELSE IF r[Fetch.src] = SyscallFunction THEN fresh @@ (vm + Slot["PreviousInstructionMeter"] :> MeterAfterwards)
                   ELSE fresh
    IN /\ cpu.at = "code" /\ cpu.code # <<>>
       /\ Fetch.op = "call rust"
       /\ cpu' = [cpu EXCEPT
            !.code = Tail(@),
            !.seen = [function |-> r[Fetch.src], rsp |-> r.rsp,
                      arguments |-> [i \in DOMAIN ARGUMENT_REGISTERS |-> r[ARGUMENT_REGISTERS[i]]],
                      words |-> IF r[Fetch.src] = TraceFunction THEN [i \in 1 .. 12 |-> cpu.mem[r.rsi + i - 1]] ELSE <<>>],
            !.r = [reg \in DOMAIN r |-> IF reg \in ToSet(CALLER_SAVED_REGISTERS) THEN Clobbered ELSE r[reg]],
            !.mem = [a \in Words |-> IF a \in DOMAIN written THEN written[a] ELSE IF a < r.rsp THEN Clobbered ELSE cpu.mem[a]]]

HostCallsNext == Straight \/ Return \/ JumpIfErr \/ GuestCode \/ \E ok \in BOOLEAN : RustCall(ok)
hostCallsVars == cpu

-----------------------------------------------------------------------------
(* What is promised.                                                       *)

InVm(slot) == VmAddress + Slot[slot]
VmWord(slot) == InVm(slot) + 500

\* What each function must be given: the parameters of MemoryMapping::load
\* and store after the place for the result, the vm and r1 to r5 of a
\* syscall, and the trace with the registers and the pc.
Delivered(s, seen) ==
    LET start == StartRegisters(s)
        a == seen.arguments
        address == start[s.reg] + AddressOffset
        value == IF s.kind = "store" THEN start[s.value] ELSE Immediate
    IN /\ seen.rsp % 2 = 0
       /\ CASE s.kind = "load" ->
                 seen.function = LoadFunction /\ SubSeq(a, 1, 4) = <<InVm("ProgramResult"), VmWord("MemoryMapping"), address, 0>>
            [] s.kind \in {"store", "store immediate"} ->
                 seen.function = StoreFunction
                 /\ SubSeq(a, 1, 5) = <<InVm("ProgramResult"), VmWord("MemoryMapping"), value, address, 0>>
            [] s.kind = "syscall" ->
                 seen.function = SyscallFunction
                 /\ a = <<encrypted_host_address(s.key)>> \o [i \in 1 .. 5 |-> start[REGISTER_MAP[i + 1]]]
            [] s.kind = "trace" ->
                 seen.function = TraceFunction /\ a[1] = InVm("RegisterTrace")
                 /\ seen.words = [i \in DOMAIN REGISTER_MAP |-> start[REGISTER_MAP[i]]] \o <<CurrentPc>>

\* What a function of the program must be entered with.
Entered(s, entry) ==
    LET start == StartRegisters(s)
    IN /\ entry.rsp % 2 = 1
       /\ entry.rdi = start.rdi
       /\ IF s.kind = "invoke"
          THEN /\ \A i \in DOMAIN REGISTER_MAP : entry[REGISTER_MAP[i]] = RegistersAddress + 500 + i - 1
               /\ entry.r11 = RegistersAddress + 500 + 11 /\ entry.r10 = start.r10 /\ entry.rbp = 0
          ELSE /\ \A reg \in AnyRegister \ {FRAME_PTR_REG} : entry[reg] = start[reg]
               /\ entry[FRAME_PTR_REG] = start[FRAME_PTR_REG] + FrameSize
               /\ entry[REGISTER_SCRATCH] = TargetPc
               /\ s.kind = "callx" => entry.r10 = start.r10 - CurrentPc - 1 + TargetPc

\* The registers that the guest (or the host that invoked it) finds changed.
Outputs(s) ==
    CASE s.kind = "syscall" -> {"rax", REGISTER_INSTRUCTION_METER, REGISTER_SCRATCH}
      [] s.kind \in {"call", "callx"} ->
           DOMAIN StartRegisters(s) \ (ToSet(ScratchRegs) \cup {FRAME_PTR_REG, REGISTER_PTR_TO_VM, "rsp"})
      [] s.kind = "invoke" -> DOMAIN StartRegisters(s) \ {"rsp", "rbx", "rbp"}
      [] OTHER -> {REGISTER_SCRATCH}

Restored(s, kept) == \A reg \in kept \ Outputs(s) : cpu.r[reg] = StartRegisters(s)[reg]

\* Whatever registers an access, a syscall, a trace or a call uses, the Rust
\* function receives what the guest meant, on an aligned stack, with the
\* stored value not overwritten on its way; every return finds its address;
\* and guest code goes on with its registers, its result and, on an error,
\* the place to report.  (jit.rs:1024, jit.rs:1176, jit.rs:1408)
HostCallsAreRight ==
    LET s == cpu.site
    IN /\ cpu.at # "lost"
       /\ cpu.seen # <<>> => IF s.kind \in {"call", "callx", "invoke"} THEN Entered(s, cpu.seen.entry) ELSE Delivered(s, cpu.seen)
       /\ cpu.at = "code" /\ cpu.code = <<>> =>
            /\ Restored(s, DOMAIN cpu.r)
            /\ s.kind = "load" => cpu.r[REGISTER_SCRATCH] = ResultValue
            /\ s.kind = "syscall" => cpu.r.rax = ResultValue /\ cpu.r[REGISTER_INSTRUCTION_METER] = MeterAfterwards
       /\ cpu.at = "THROW_EXCEPTION" => cpu.r[REGISTER_SCRATCH] = CurrentPc /\ Restored(s, DOMAIN cpu.r \ {"rsp"})
       /\ cpu.at = "EPILOGUE" => cpu.r[REGISTER_SCRATCH] = -1 /\ cpu.r[REGISTER_INSTRUCTION_METER] = MeterAfterwards
=============================================================================
