-------------------------- MODULE SbpfInterpreter --------------------------
(* The interpreter (sbpf/src/interpreter.rs) and the part of the virtual    *)
(* machine it shares with compiled code (sbpf/src/vm.rs, the calling        *)
(* wrapper of built-in functions in sbpf/src/program.rs).  A step is a      *)
(* function of the machine's state.                                         *)
EXTENDS MemoryMapping

CONSTANTS
    MaxCallDepth,       \* config.max_call_depth
    StackFrameSize      \* config.stack_frame_size

ASSUME CallAssumption == MaxCallDepth \in Nat \ {0} /\ StackFrameSize \in Nat \ {0}

(* An executable: version, instructions, entry point, internal functions    *)
(* and syscalls by call key, the latter with the units they cost.           *)
Executable(v, prog, entry, functions, syscalls) ==
    [v |-> v, prog |-> prog, entry |-> entry, functions |-> functions, syscalls |-> syscalls]

Running == [t |-> "running", v |-> 0, e |-> ""]
ResultOk(v) == [t |-> "ok", v |-> v, e |-> ""]
ResultErr(e) == [t |-> "err", v |-> 0, e |-> e]

Registers == 0..10
program_vm_addr == MM_BYTECODE_START

(* EbpfVm::new and the start of execute_program.  rem is what the context's *)
(* meter has left; prev and due are previous_instruction_meter and          *)
(* due_insn_count.                                                          *)
NewVm(x, regs, mm, host, units, stack_len) ==
    [reg |-> [regs EXCEPT ![FRAME_PTR_REG] =
                MM_STACK_START + (IF manual_stack_frame_bump(x.v) THEN stack_len ELSE StackFrameSize)],
     pc |-> x.entry, prev |-> units, due |-> 0, rem |-> units, depth |-> 0, frames |-> <<>>,
     mm |-> mm, host |-> host, res |-> Running]

(* Interpreter::sign_extension, of a 32-bit result.                         *)
sign_extension(v, x) == IF explicit_sign_extension_of_results(v) THEN U(W32, x) ELSE SignExtend(W32, x)

Val(x) == [err |-> "", val |-> x]
Fault(e) == [err |-> e, val |-> 0]

Endian(n, x) == IF n \in {W16, W32, W64} THEN Val(x) ELSE Fault("InvalidInstruction")

(* Divisions by a register check it; those by an immediate rely on the      *)
(* verifier, and Rust's own check panics.                                   *)
DivGuard(d, y, res) ==
    IF U(d.width, y) = 0 THEN Fault(IF d.reg THEN "DivideByZero" ELSE "panic") ELSE res
OverflowGuard(d, x, y, res) ==
    IF S(d.width, x) = -(2^(d.width - 1)) /\ S(d.width, y) = -1 THEN Fault("DivideOverflow") ELSE res

(* The result of an arithmetic instruction with arm d on the destination x  *)
(* and the operand y; imm is the instruction's immediate.  First the class  *)
(* of products, quotients and remainders, which extends its immediate.      *)
Pqr(d, x, y) ==
    LET w == d.width
        a == U(w, x)
        z == IF d.reg THEN y ELSE U(W32, y)                    \* imm as u32 as u64
        low(r) == Val(U(w, r))
    IN  CASE d.op = "lmul" -> low(a * U(w, y))
          [] d.op = "uhmul" -> Val((x * z) \div 2^W64)
          [] d.op = "shmul" -> Val(U(W64, (S(W64, x) * S(W64, y)) \div 2^W64))
          [] d.op = "udiv" -> DivGuard(d, y, low(a \div U(w, z)))
          [] d.op = "urem" -> DivGuard(d, y, low(a % U(w, z)))
          [] d.op = "sdiv" -> DivGuard(d, y, OverflowGuard(d, x, y, low(Quotient(S(w, x), S(w, y)))))
          [] d.op = "srem" -> DivGuard(d, y, OverflowGuard(d, x, y, low(Remainder(S(w, x), S(w, y)))))

Alu(v, d, x, y, imm) ==
    LET w == d.width
        a == U(w, x)
        b == U(w, y)
        ext(r) == Val(IF w = W32 THEN sign_extension(v, r) ELSE U(W64, r))
        zext(r) == Val(U(w, r))
    IN  CASE d.op = "add" -> ext(a + b)
          [] d.op = "sub" -> ext(IF ~d.reg /\ swap_sub_reg_imm_operands(v) THEN b - a ELSE a - b)
          [] d.op = "mul" -> ext(a * b)
          [] d.op = "div" -> DivGuard(d, y, zext(a \div b))
          [] d.op = "mod" -> DivGuard(d, y, zext(a % b))
          [] d.op = "or" -> zext(a | b)
          [] d.op = "and" -> zext(a & b)
          [] d.op = "xor" -> zext(a ^^ b)
          [] d.op = "lsh" -> zext(Shl(w, a, U(W32, y)))
          [] d.op = "rsh" -> zext(Shr(w, a, U(W32, y)))
          [] d.op = "arsh" -> zext(Sar(w, a, U(W32, y)))
          [] d.op = "neg" -> zext(-a)
          [] d.op = "mov" -> Val(IF w = W32 /\ d.reg /\ explicit_sign_extension_of_results(v)
                                 THEN SignExtend(W32, y) ELSE b)
          [] d.op = "le" -> Endian(imm, U(imm, x))
          [] d.op = "be" -> Endian(imm, SwapBytes(imm \div W8, x))
          [] d.op = "hor" -> Val(x | Shl(W64, y, W32))
          [] OTHER -> Pqr(d, x, y)

(* Whether a conditional jump with arm d is taken.                          *)
Taken(d, x, y) ==
    LET w == d.width
        a == U(w, x)
        b == U(w, y)
    IN  CASE d.op = "jeq" -> a = b
          [] d.op = "jne" -> a # b
          [] d.op = "jgt" -> a > b
          [] d.op = "jge" -> a >= b
          [] d.op = "jlt" -> a < b
          [] d.op = "jle" -> a <= b
          [] d.op = "jset" -> (a & b) # 0
          [] d.op = "jsgt" -> S(w, x) > S(w, y)
          [] d.op = "jsge" -> S(w, x) >= S(w, y)
          [] d.op = "jslt" -> S(w, x) < S(w, y)
          [] d.op = "jsle" -> S(w, x) <= S(w, y)

------------------------------------------------------------------------------
(* Host memory is a function of host addresses; MemoryMapping::load, store. *)
ReadHost(host, at, n) == Value([i \in 1..n |-> host[at + i - 1]])
WriteHost(host, at, n, x) ==
    [h \in DOMAIN host |-> IF h \in at..(at + n - 1) THEN Byte(x, h - at) ELSE host[h]]

Translate(s, v, store, a, len) == map(s.mm, v, MaxCallDepth, StackFrameSize, store, a, len)

Throw(s, e) == [s EXCEPT !.res = ResultErr(e)]
Goto(s, pc) == [s EXCEPT !.pc = pc]

UnlessDenied(s, t, then) == IF t.err # "" THEN Throw([s EXCEPT !.mm = t.mm], t.err) ELSE then

LoadFrom(s, t, n, dst) ==
    UnlessDenied(s, t, [s EXCEPT !.mm = t.mm, !.reg[dst] = ReadHost(s.host, t.host, n), !.pc = @ + 1])
load(s, v, a, n, dst) == LoadFrom(s, Translate(s, v, FALSE, a, n), n, dst)

StoreTo(s, t, n, x) == UnlessDenied(s, t, [s EXCEPT !.mm = t.mm, !.host = WriteHost(@, t.host, n, x), !.pc = @ + 1])
store(s, v, a, n, x) == StoreTo(s, Translate(s, v, TRUE, a, n), n, x)

------------------------------------------------------------------------------
FrameStep(v) ==
    IF manual_stack_frame_bump(v) THEN 0
    ELSE IF stack_frame_gaps(v) THEN 2 * StackFrameSize ELSE StackFrameSize

(* push_frame saves the scratch registers, the frame pointer and where to   *)
(* return to, and fails when the new depth is the limit.                    *)
push_frame(s, v) ==
    LET frame == [saved |-> [i \in SCRATCH_REGS |-> s.reg[i]], fp |-> s.reg[FRAME_PTR_REG], target |-> s.pc + 1]
        pushed == [s EXCEPT !.frames = Append(@, frame), !.depth = @ + 1]
    IN  IF s.depth + 1 = MaxCallDepth THEN Throw(pushed, "CallDepthExceeded")
        ELSE [pushed EXCEPT !.reg[FRAME_PTR_REG] = U(W64, @ + FrameStep(v))]

(* A pushed frame, then check_pc!.                                          *)
CallTo(s, x, pc) ==
    LET pushed == push_frame(s, x.v)
    IN  IF pushed.res # Running THEN pushed
        ELSE IF is_pc_in_program(x.prog, pc) THEN Goto(pushed, pc)
        ELSE Throw(pushed, "CallOutsideTextSegment")

(* Where callx finds its target, and the instruction the address is of.     *)
CallxRegister(v, insn) ==
    IF callx_uses_src_reg(v) THEN insn.src ELSE IF callx_uses_dst_reg(v) THEN insn.dst ELSE insn.imm
CallxPc(target) == U(W64, target - program_vm_addr) \div INSN_SIZE

(* A syscall costs its units, or fails when they are not there, and returns *)
(* its first argument.  The context's consume saturates.                    *)
Consume(rem, n) == IF rem < n THEN 0 ELSE rem - n
Syscall(rem, cost, arg) ==
    [ok |-> rem >= cost, val |-> arg, rem |-> Consume(rem, cost)]

(* dispatch_syscall and BuiltinFunctionDefinition::vm: what is due is       *)
(* charged before the call and the meter is read again after it.            *)
dispatch_syscall(s, cost) ==
    LET due == s.prev - s.due
        call == Syscall(Consume(s.rem, s.prev - due), cost, s.reg[1])
        after == [s EXCEPT !.rem = call.rem, !.prev = call.rem, !.due = 0]
    IN  IF call.ok THEN [after EXCEPT !.reg[0] = call.val, !.pc = @ + 1]
        ELSE Throw(after, "SyscallError")

CallKey(insn) == U(W32, insn.imm)

(* How an immediate call resolves.  Versions with static syscalls tell the  *)
(* two kinds apart by the source field, the others by the registries.       *)
IsExternal(x, insn) == (~static_syscalls(x.v) \/ insn.src = 0) /\ CallKey(insn) \in DOMAIN x.syscalls
IsInternal(x, pc, insn) ==
    IF static_syscalls(x.v) THEN insn.src = 1 /\ is_pc_in_program(x.prog, pc + 1 + insn.imm)
    ELSE CallKey(insn) \in DOMAIN x.functions
CallTarget(x, pc, insn) == IF static_syscalls(x.v) THEN pc + 1 + insn.imm ELSE x.functions[CallKey(insn)]

CallImm(s, x, insn) ==
    LET called == IF IsExternal(x, insn) THEN dispatch_syscall(s, x.syscalls[CallKey(insn)]) ELSE s
    IN  IF called.res # Running THEN called
        ELSE IF IsInternal(x, s.pc, insn) THEN CallTo([called EXCEPT !.pc = s.pc], x, CallTarget(x, s.pc, insn))
        ELSE IF IsExternal(x, insn) THEN called
        ELSE Throw(s, "UnsupportedInstruction")

Exit(s) ==
    LET frame == s.frames[s.depth]
    IN  IF s.depth = 0
        THEN IF s.due > s.prev THEN Throw(s, "ExceededMaxInstructions")
             ELSE [s EXCEPT !.res = ResultOk(s.reg[0])]
        ELSE [s EXCEPT !.depth = @ - 1, !.frames = SubSeq(@, 1, s.depth - 1), !.pc = frame.target,
                       !.reg = [i \in Registers |-> IF i = FRAME_PTR_REG THEN frame.fp
                                                    ELSE IF i \in SCRATCH_REGS THEN frame.saved[i] ELSE @[i]]]

(* One instruction of a program, the meter already charged.                 *)
Result(s, dst, result) == IF result.err # "" THEN Throw(s, result.err) ELSE [s EXCEPT !.reg[dst] = result.val, !.pc = @ + 1]
ExecuteArm(s, x, insn, d) ==
    LET operand == IF d.reg THEN s.reg[insn.src] ELSE U(W64, insn.imm)
    IN  CASE d.kind = "lddw" -> [s EXCEPT !.reg[insn.dst] = augment_lddw(x.prog, s.pc), !.pc = @ + 2]
          [] d.kind = "load" -> load(s, x.v, U(W64, s.reg[insn.src] + insn.off), d.width, insn.dst)
          [] d.kind = "store" -> store(s, x.v, U(W64, s.reg[insn.dst] + insn.off), d.width, operand)
          [] d.kind = "alu" -> Result(s, insn.dst, Alu(x.v, d, s.reg[insn.dst], operand, insn.imm))
          [] d.kind = "jmp" -> Goto(s, s.pc + 1 + (IF Taken(d, s.reg[insn.dst], operand) THEN insn.off ELSE 0))
          [] d.kind = "ja" -> Goto(s, s.pc + 1 + insn.off)
          [] d.kind = "callx" -> CallTo(s, x, CallxPc(s.reg[CallxRegister(x.v, insn)]))
          [] d.kind = "call" -> CallImm(s, x, insn)
          [] d.kind = "exit" -> Exit(s)
          [] d.kind = "none" -> Throw(s, "UnsupportedInstruction")

ExecuteInsn(s, x, insn) == ExecuteArm(s, x, insn, Decode(x.v, insn.opc))
Execute(s, x) == ExecuteInsn(s, x, get_insn(x.prog, s.pc))

(* Interpreter::step: the meter first, then the end of the program.         *)
step(s, x) ==
    IF s.due >= s.prev THEN Throw(s, "ExceededMaxInstructions")
    ELSE IF s.pc >= Len(x.prog) THEN Throw([s EXCEPT !.due = @ + 1], "ExecutionOverrun")
    ELSE Execute([s EXCEPT !.due = @ + 1], x)

(* The end of execute_program: what is due is charged to the context.       *)
Settle(s) == [s EXCEPT !.rem = Consume(@, s.due)]
=============================================================================
