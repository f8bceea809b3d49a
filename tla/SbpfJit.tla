------------------------------ MODULE SbpfJit ------------------------------
(* The compiler (sbpf/src/jit.rs): the x86 instructions of every guest      *)
(* instruction, and the execution of compiled code one guest instruction at *)
(* a time.  key is the random key that hides immediates; the code must mean *)
(* the same for every key.                                                  *)
(*                                                                          *)
(* First the processor that compiled code runs on, as far as the compiler   *)
(* uses it (sbpf/src/x86.rs), and the subroutines every compiled program    *)
(* starts with (emit_subroutines).  Instructions are named by the opcode    *)
(* bytes the compiler passes to X86Instruction.  Each subroutine (an        *)
(* anchor) is one instruction here; HostCalls has their instructions.  Host *)
(* addresses, noops and the layout of the machine code have no effect and   *)
(* are left out.                                                            *)
EXTENDS SbpfInterpreter


REGISTER_MAP == 0 :> "rax" @@ 1 :> "rsi" @@ 2 :> "rdx" @@ 3 :> "rcx" @@ 4 :> "r8" @@ 5 :> "r9"
                @@ 6 :> "rbx" @@ 7 :> "r12" @@ 8 :> "r13" @@ 9 :> "r14" @@ 10 :> "r15"
METER == "r10"                  \* REGISTER_INSTRUCTION_METER
SCRATCH == "r11"                \* REGISTER_SCRATCH
X86Registers == {REGISTER_MAP[i] : i \in Registers} \cup {METER, SCRATCH}

------------------------------------------------------------------------------
(* X86Instruction: the mnemonic i, the operand size, the opcode (with its   *)
(* extension where the byte has one), source, destination and immediate.    *)
Ins(i, size, op, src, dst, imm) ==
    [i |-> i, size |-> size, op |-> op, src |-> src, dst |-> dst, imm |-> imm]
alu(size, op, src, dst) == Ins("alu", size, op, src, dst, 0)
alu_immediate(size, op, ext, dst, imm) == Ins("alui", size, <<op, ext>>, dst, dst, imm)
alu_escaped(size, op, dst, src) == Ins("imul", size, op, src, dst, 0)
mov(size, src, dst) == Ins("mov", size, 0, src, dst, 0)
mov_with_sign_extension(src, dst) == alu(W64, 99, src, dst)
cmov(size, op, src, dst) == Ins("cmov", size, op, src, dst, 0)
xchg(src, dst) == Ins("xchg", W64, 0, src, dst, 0)
bswap(size, dst) == Ins("bswap", size, 0, dst, dst, 0)
test(size, src, dst) == Ins("test", size, 0, src, dst, 0)
test_immediate(size, dst, imm) == Ins("testi", size, 0, dst, dst, imm)
cmp(size, src, dst) == Ins("cmp", size, 0, src, dst, 0)
cmp_immediate(size, dst, imm) == Ins("cmpi", size, 0, dst, dst, imm)
sign_extend_rax_rdx(size) == Ins("cdq", size, 0, "rax", "rdx", 0)
load_immediate(dst, imm) == Ins("li", W64, 0, dst, dst, imm)
push(src) == Ins("push", W64, 0, src, src, 0)
pop(dst) == Ins("pop", W64, 0, dst, dst, 0)
conditional_jump(op, anchor, pc) == Ins("jcc", W64, op, anchor, "", pc)
jump_anchor(anchor, pc) == Ins("jmp", W64, 0, anchor, "", pc)
jump_pc(pc) == Ins("jmp", W64, 0, "pc", "", pc)
subroutine(name, op, imm) == Ins(name, W64, op, "", "", imm)

(* Flags after dst - src, and after dst & src.                              *)
CmpFlags(w, dst, src) ==
    [z |-> U(w, dst) = U(w, src), c |-> U(w, dst) < U(w, src), l |-> S(w, dst) < S(w, src)]
TestFlags(w, x) == [z |-> U(w, x) = 0, c |-> FALSE, l |-> S(w, x) < 0]

(* The condition code of 0F 8x and 0F 4x.                                   *)
Condition(op, f) ==
    CASE op % 16 = 2 -> f.c
      [] op % 16 = 3 -> ~f.c
      [] op % 16 = 4 -> f.z
      [] op % 16 = 5 -> ~f.z
      [] op % 16 = 6 -> f.c \/ f.z
      [] op % 16 = 7 -> ~(f.c \/ f.z)
      [] op % 16 = 12 -> f.l
      [] op % 16 = 13 -> ~f.l
      [] op % 16 = 14 -> f.l \/ f.z
      [] op % 16 = 15 -> ~(f.l \/ f.z)

(* alu: the two-operand opcodes; 0x63 sign-extends.                         *)
X86Alu(op, w, dst, src) ==
    CASE op = 1 -> U(w, dst + src)
      [] op = 9 -> U(w, dst) | U(w, src)
      [] op = 33 -> U(w, dst) & U(w, src)
      [] op = 41 -> U(w, dst - src)
      [] op = 49 -> U(w, dst) ^^ U(w, src)
      [] op = 99 -> SignExtend(W32, src)

(* alu_immediate: 0x81 with its extension, the shifts 0xc1 and 0xd3 (their  *)
(* count in the immediate or in cl) and 0xf7 / 3.                           *)
X86AluImm(op, w, dst, imm, cl) ==
    LET n == IF op[1] = 211 THEN cl ELSE imm
    IN  CASE op[1] = 129 /\ op[2] = 0 -> U(w, dst + imm)
          [] op[1] = 129 /\ op[2] = 1 -> U(w, dst) | U(w, imm)
          [] op[1] = 129 /\ op[2] = 4 -> U(w, dst) & U(w, imm)
          [] op[1] = 129 /\ op[2] = 5 -> U(w, dst - imm)
          [] op[1] = 129 /\ op[2] = 6 -> U(w, dst) ^^ U(w, imm)
          [] op[1] \in {193, 211} /\ op[2] = 1 -> RotateRight(w, U(w, dst), n % w)
          [] op[1] \in {193, 211} /\ op[2] = 4 -> Shl(w, dst, n)
          [] op[1] \in {193, 211} /\ op[2] = 5 -> Shr(w, dst, n)
          [] op[1] \in {193, 211} /\ op[2] = 7 -> Sar(w, dst, n)
          [] op = <<247, 3>> -> U(w, -dst)

(* 0xf7 / 4, 5, 6, 7 on rdx:rax: the pair it leaves in rax and rdx, or the  *)
(* processor's divide fault.                                                *)
MulDiv(ext, w, rax, rdx, src) ==
    LET product == IF ext = 4 THEN U(w, rax) * U(w, src) ELSE S(w, rax) * S(w, src)
        dividend == IF ext = 6 THEN U(w, rdx) * 2^w + U(w, rax) ELSE S(w, rdx) * 2^w + U(w, rax)
        divisor == IF ext = 6 THEN U(w, src) ELSE S(w, src)
        q == Quotient(dividend, divisor)
        fits == IF ext = 6 THEN q < 2^w ELSE q \in -(2^(w - 1))..(2^(w - 1) - 1)
    IN  IF ext \in {4, 5} THEN [fault |-> FALSE, rax |-> U(w, product), rdx |-> U(w, product \div 2^w)]
        ELSE IF divisor = 0 THEN [fault |-> TRUE, rax |-> 0, rdx |-> 0]
        ELSE [fault |-> ~fits, rax |-> U(w, q), rdx |-> U(w, Remainder(dividend, divisor))]

(* The state of compiled code.  stack is the host stack, slot the stack     *)
(* slot of the value to store, out where the sequence was left to, err the  *)
(* exception kind, pc the guest instruction; the rest is the machine's.     *)
NewJit(x, s) ==
    [r |-> [n \in X86Registers |->
              IF n = METER THEN U(W64, s.prev + x.entry)
              ELSE IF n = SCRATCH THEN x.entry
              ELSE s.reg[CHOOSE i \in Registers : REGISTER_MAP[i] = n]],
     f |-> [z |-> FALSE, c |-> FALSE, l |-> FALSE], stack |-> <<>>, slot |-> 0, out |-> "", err |-> "",
     pc |-> x.entry, prev |-> s.prev, due |-> 0, rem |-> s.rem, depth |-> 0, mm |-> s.mm, host |-> s.host,
     res |-> Running]

Guest(m) == [i \in Registers |-> m.r[REGISTER_MAP[i]]]
Top(stack) == stack[Len(stack)]
Leave(m, anchor, err) == [m EXCEPT !.out = anchor, !.err = err]

lower_key(key) == S(W32, key)
upper_key(key) == S(W32, key \div 2^W32)

------------------------------------------------------------------------------
(* The subroutines.  ANCHOR_TRANSLATE_MEMORY_ADDRESS: op is the access, imm *)
(* its length; an immediate's key is only taken off here.                   *)
AccessHost(m, t, op, len, key) ==
    LET value == IF op = "storei" THEN U(W64, m.slot + lower_key(key)) ELSE m.slot
        at == [m EXCEPT !.mm = t.mm, !.r[SCRATCH] = m.pc]
    IN  IF t.err # "" THEN Leave(at, "THROW", t.err)
        ELSE IF op = "load" THEN [at EXCEPT !.r[SCRATCH] = ReadHost(m.host, t.host, len)]
        ELSE [at EXCEPT !.host = WriteHost(@, t.host, len, value)]
Translated(m, x, op, len, key) == AccessHost(m, Translate(m, x.v, op # "load", m.r[SCRATCH], len), op, len, key)

(* ANCHOR_EXTERNAL_FUNCTION_CALL: the meter is what remains, becomes        *)
(* due_insn_count, and is read back after the call; an error leaves with    *)
(* pc -1, which makes nothing due.                                          *)
External(m, cost) ==
    LET due == m.r[METER]
        call == Syscall(Consume(m.rem, U(W64, m.prev - due)), cost, m.r["rsi"])
        after == [m EXCEPT !.rem = call.rem, !.prev = call.rem, !.due = due, !.r[METER] = call.rem,
                           !.r[SCRATCH] = U(W64, -1)]
    IN  IF call.ok THEN [after EXCEPT !.r["rax"] = call.val] ELSE Leave(after, "EPILOGUE", "SyscallError")

(* ANCHOR_INTERNAL_FUNCTION_CALL_PROLOGUE, after its check of the meter.    *)
Prologue(m, v) ==
    LET saved == <<m.r["rbx"], m.r["r12"], m.r["r13"], m.r["r14"], m.r["r15"]>>
        deeper == [m EXCEPT !.stack = @ \o saved, !.depth = @ + 1]
    IN  IF deeper.depth >= MaxCallDepth THEN Leave(deeper, "THROW", "CallDepthExceeded")
        ELSE [deeper EXCEPT !.r["r15"] = U(W64, @ + FrameStep(v))]

(* ANCHOR_INTERNAL_FUNCTION_CALL_REG: align, check, look the target up in   *)
(* pc_section and charge.                                                   *)
CallReg(m, n) ==
    LET offset == U(W64, m.r[SCRATCH] - program_vm_addr)
        target == offset \div INSN_SIZE
    IN  IF target >= n THEN Leave([m EXCEPT !.r[SCRATCH] = m.pc], "THROW", "CallOutsideTextSegment")
        ELSE Leave([m EXCEPT !.r[SCRATCH] = target, !.r[METER] = U(W64, @ - m.pc - 1 + target),
                             !.stack = Append(@, m.pc), !.pc = target], "pc", "")

MulDivided(m, md) ==
    IF md.fault THEN Leave(m, "THROW", "panic") ELSE [m EXCEPT !.r["rax"] = md.rax, !.r["rdx"] = md.rdx]

(* One x86 instruction.  A 32-bit result clears the upper half.             *)
Exec(m, i, x, key) ==
    LET w == i.size
        dst == m.r[i.dst]
        src == m.r[i.src]
        write(val) == [m EXCEPT !.r[i.dst] = val]
    IN  CASE m.out # "" -> m
          [] m.out = "" /\ i.i = "alu" -> write(X86Alu(i.op, w, dst, src))
          [] m.out = "" /\ i.i = "alui" ->
               IF i.op[1] = 247 /\ i.op[2] > 3
               THEN MulDivided(m, MulDiv(i.op[2], w, m.r["rax"], m.r["rdx"], dst))
               ELSE write(X86AluImm(i.op, w, dst, i.imm, m.r["rcx"]))
          [] m.out = "" /\ i.i = "imul" -> write(U(w, dst * src))
          [] m.out = "" /\ i.i = "mov" -> write(U(w, src))
          [] m.out = "" /\ i.i = "cmov" -> write(U(w, IF Condition(i.op, m.f) THEN src ELSE dst))
          [] m.out = "" /\ i.i = "xchg" -> [m EXCEPT !.r[i.dst] = src, !.r[i.src] = dst]
          [] m.out = "" /\ i.i = "bswap" ->
               write((IF w = W16 THEN dst - U(W16, dst) ELSE 0) + SwapBytes(w \div W8, dst))
          [] m.out = "" /\ i.i = "test" -> [m EXCEPT !.f = TestFlags(w, dst & src)]
          [] m.out = "" /\ i.i = "testi" -> [m EXCEPT !.f = TestFlags(w, dst & U(W64, i.imm))]
          [] m.out = "" /\ i.i = "cmp" -> [m EXCEPT !.f = CmpFlags(w, dst, src)]
          [] m.out = "" /\ i.i = "cmpi" -> [m EXCEPT !.f = CmpFlags(w, dst, i.imm)]
          [] m.out = "" /\ i.i = "cdq" -> write(U(w, IF S(w, src) < 0 THEN -1 ELSE 0))
          [] m.out = "" /\ i.i = "li" -> write(U(W64, i.imm))
          [] m.out = "" /\ i.i = "push" -> [m EXCEPT !.stack = Append(@, src)]
          [] m.out = "" /\ i.i = "pop" ->
               [m EXCEPT !.r[i.dst] = Top(m.stack), !.stack = SubSeq(@, 1, Len(@) - 1)]
          [] m.out = "" /\ i.i = "jcc" ->
               IF Condition(i.op, m.f) THEN [m EXCEPT !.out = i.src, !.pc = i.imm] ELSE m
          [] m.out = "" /\ i.i = "jmp" -> [m EXCEPT !.out = i.src, !.pc = i.imm]
          [] m.out = "" /\ i.i = "slot" -> [m EXCEPT !.slot = src]
          [] m.out = "" /\ i.i = "translate" -> Translated(m, x, i.op, i.imm, key)
          [] m.out = "" /\ i.i = "external" -> External(m, i.imm)
          [] m.out = "" /\ i.i = "prologue" -> Prologue(m, x.v)
          [] m.out = "" /\ i.i = "callreg" -> CallReg(m, Len(x.prog))
          [] m.out = "" /\ i.i = "call" ->
               [m EXCEPT !.out = "pc", !.stack = Append(@, m.pc), !.pc = i.imm]
          [] m.out = "" /\ i.i = "exit" ->
               IF m.depth = 0 THEN Leave(m, "EXIT", "") ELSE [m EXCEPT !.depth = @ - 1, !.out = "ret"]

------------------------------------------------------------------------------
CONSTANT CheckpointDistance     \* config.instruction_meter_checkpoint_distance

ASSUME CheckpointAssumption == CheckpointDistance \in Nat \ {0}

IsI32(x) == x \in -(2^(W32 - 1))..(2^(W32 - 1) - 1)

(* Constants that are small, or all ones from some byte down, stay readable. *)
should_sanitize_constant(value) ==
    LET v == U(W64, value)
    IN  /\ v \notin {2^(k * W8) - 1 : k \in 2..8}
        /\ v > 2^W8 - 1
        /\ 2^W64 - 1 - v > 2^W8 - 1

emit_sanitized_load_immediate(key, dst, value) ==
    LET v == S(W64, value)
        low == lower_key(key)
    IN  IF IsI32(v)
        THEN <<load_immediate(dst, v - low), alu_immediate(W64, 129, 0, dst, low)>>
        ELSE IF U(W32, v) = 0
        THEN <<load_immediate(dst, S(W64, RotateRight(W64, U(W64, v), W32)) - low),
               alu_immediate(W64, 129, 0, dst, low), alu_immediate(W64, 193, 4, dst, W32)>>
        ELSE IF dst # SCRATCH
        THEN <<load_immediate(dst, v - key), load_immediate(SCRATCH, key), alu(W64, 1, SCRATCH, dst)>>
        ELSE <<load_immediate(dst, RotateRight(W64, U(W64, v - low), W32) - upper_key(key)),
               alu_immediate(W64, 129, 0, dst, upper_key(key)), alu_immediate(W64, 193, 1, dst, W32),
               alu_immediate(W64, 129, 0, dst, low)>>

LoadConstant(key, dst, value) ==
    IF should_sanitize_constant(value) THEN emit_sanitized_load_immediate(key, dst, value)
    ELSE <<load_immediate(dst, value)>>

emit_sanitized_alu(key, size, op, ext, dst, imm) ==
    IF should_sanitize_constant(imm)
    THEN Append(emit_sanitized_load_immediate(key, SCRATCH, imm), alu(size, op, SCRATCH, dst))
    ELSE IF IsI32(S(W64, imm)) THEN <<alu_immediate(size, 129, ext, dst, S(W64, imm))>>
    ELSE <<load_immediate(SCRATCH, imm), alu(size, op, SCRATCH, dst)>>

------------------------------------------------------------------------------
(* The meter register holds what remains plus the guest pc, so that running *)
(* straight on costs nothing; only jumps adjust it.                         *)
CheckMeter(pc) == <<cmp(W64, SCRATCH, METER), conditional_jump(134, "EXCEEDED", pc)>>
emit_validate_instruction_count(key, pc) ==
    emit_sanitized_load_immediate(key, SCRATCH, pc) \o CheckMeter(pc)
emit_profile_instruction_count(key, pc, target) ==
    emit_sanitized_alu(key, W64, 1, 0, METER, target - pc - 1)
emit_undo_profile_instruction_count(key, pc, target) ==
    emit_sanitized_alu(key, W64, 1, 0, METER, pc + 1 - target)
emit_validate_and_profile_instruction_count(key, pc, target) ==
    emit_validate_instruction_count(key, pc) \o emit_profile_instruction_count(key, pc, target)

------------------------------------------------------------------------------
ShiftKeepingCount(size, ext, src, dst, reg, imm) ==
    LET truncate == IF size = W32 THEN <<mov(W32, dst, dst)>> ELSE <<>>
    IN  IF ~reg THEN <<alu_immediate(size, 193, ext, dst, imm)>>
        ELSE truncate \o <<push("rcx"), mov(W64, src, "rcx"), alu_immediate(size, 211, ext, dst, 0), pop("rcx")>>
emit_shift(size, ext, src, dst, reg, imm) ==
    LET by_cl(d) == alu_immediate(size, 211, ext, d, 0)
        truncate == IF size = W32 THEN <<mov(W32, dst, dst)>> ELSE <<>>
    IN  IF ~reg THEN <<alu_immediate(size, 193, ext, dst, imm)>>
        ELSE truncate \o
             (IF src = "rcx" THEN <<by_cl(dst)>>
              ELSE IF dst = "rcx"
              THEN <<push(src), xchg(src, "rcx"), by_cl(src), mov(W64, src, "rcx"), pop(src)>>
              ELSE <<push("rcx"), mov(W64, src, "rcx"), by_cl(dst), pop("rcx")>>)

(* A division by a register must not fault, a signed one must not overflow. *)
DivideChecks(pc, size, signed, src, dst, reg, imm) ==
    LET zero == <<load_immediate(SCRATCH, pc), test(size, src, src), conditional_jump(132, "DIV_BY_ZERO", pc)>>
        is_min == <<load_immediate(SCRATCH, -(2^(size - 1))), cmp(size, dst, SCRATCH)>>
        is_min_by_minus_one ==
          <<load_immediate(SCRATCH, 0), cmov(size, 69, src, SCRATCH), cmp_immediate(size, src, -1),
            cmov(size, 69, src, SCRATCH), test(size, SCRATCH, SCRATCH)>>
        overflow == <<load_immediate(SCRATCH, pc), conditional_jump(132, "DIV_OVERFLOW", pc)>>
    IN  (IF reg THEN zero ELSE <<>>) \o
        (IF signed /\ (reg \/ imm = -1)
         THEN is_min \o (IF reg THEN is_min_by_minus_one ELSE <<>>) \o overflow ELSE <<>>)

(* One-operand multiplication and division work on rdx:rax.                 *)
emit_product_quotient_remainder(key, v, pc, size, alt_dst, division, signed, src, dst, reg, imm) ==
    LET ext == 4 + (IF division THEN 2 ELSE 0) + (IF signed THEN 1 ELSE 0)
        when(b, code) == IF b THEN code ELSE <<>>
    IN  when(division, DivideChecks(pc, size, signed, src, dst, reg, imm))
        \o (IF reg THEN <<mov(W64, src, SCRATCH)>> ELSE LoadConstant(key, SCRATCH, imm))
        \o when(dst # "rax", <<push("rax"), mov(W64, dst, "rax")>>)
        \o when(dst # "rdx", <<push("rdx")>>)
        \o when(division, IF signed THEN <<sign_extend_rax_rdx(size)>> ELSE <<alu(size, 49, "rdx", "rdx")>>)
        \o <<alu_immediate(size, 247, ext, SCRATCH, 0)>>
        \o when(dst # "rdx", when(alt_dst, <<mov(W64, "rdx", dst)>>) \o <<pop("rdx")>>)
        \o when(dst # "rax", when(~alt_dst, <<mov(W64, "rax", dst)>>) \o <<pop("rax")>>)
        \o when(size = W32 /\ signed /\ ~explicit_sign_extension_of_results(v), <<alu(W64, 99, dst, dst)>>)

(* The opcodes of the plain two-operand instructions.                       *)
AluCode == "add" :> <<1, 0>> @@ "sub" :> <<41, 5>> @@ "or" :> <<9, 1>> @@ "and" :> <<33, 4>> @@ "xor" :> <<49, 6>>
ShiftCode == "lsh" :> 4 @@ "rsh" :> 5 @@ "arsh" :> 7
(* emit_product_quotient_remainder's alt_dst, division and signed.          *)
PqrCode == "div" :> <<FALSE, TRUE, FALSE>> @@ "mod" :> <<TRUE, TRUE, FALSE>>
           @@ "lmul" :> <<FALSE, FALSE, TRUE>> @@ "uhmul" :> <<TRUE, FALSE, FALSE>>
           @@ "shmul" :> <<TRUE, FALSE, TRUE>> @@ "udiv" :> <<FALSE, TRUE, FALSE>>
           @@ "urem" :> <<TRUE, TRUE, FALSE>> @@ "sdiv" :> <<FALSE, TRUE, TRUE>>
           @@ "srem" :> <<TRUE, TRUE, TRUE>>

(* An arithmetic instruction with arm d.                                    *)
CompileAlu(key, v, pc, d, src, dst, imm) ==
    LET w == d.width
        extend == IF w = W32 /\ ~explicit_sign_extension_of_results(v) THEN <<alu(W64, 99, dst, dst)>> ELSE <<>>
        c == AluCode[d.op]
        p == PqrCode[d.op]
        plain == IF d.reg THEN <<alu(w, c[1], src, dst)>> ELSE emit_sanitized_alu(key, w, c[1], c[2], dst, imm)
        masked(n) == <<alu_immediate(W32, 129, 4, dst, n)>>
    IN  CASE d.op = "add" -> plain \o extend
          [] d.op = "sub" ->
               (IF ~d.reg /\ swap_sub_reg_imm_operands(v)
                THEN <<alu_immediate(w, 247, 3, dst, 0)>> \o
                     (IF imm # 0 THEN emit_sanitized_alu(key, w, 1, 0, dst, imm) ELSE <<>>)
                ELSE plain) \o extend
          [] d.op \in {"or", "and", "xor"} -> plain
          [] d.op = "mul" ->
               (IF d.reg THEN <<alu_escaped(w, 175, dst, src)>>
                ELSE Append(LoadConstant(key, SCRATCH, imm), alu_escaped(w, 175, dst, SCRATCH))) \o extend
          [] d.op \in DOMAIN PqrCode ->
               emit_product_quotient_remainder(key, v, pc, w, p[1], p[2], p[3], IF d.reg THEN src ELSE dst, dst, d.reg,
                 IF d.op \in {"uhmul", "udiv", "urem"} THEN U(W32, imm) ELSE imm)
          [] d.op \in DOMAIN ShiftCode -> emit_shift(w, ShiftCode[d.op], src, dst, d.reg, imm)
          [] d.op = "neg" -> <<alu_immediate(w, 247, 3, dst, 0)>>
          [] d.op = "mov" ->
               IF ~d.reg
               THEN LET value == IF w = W32 THEN U(W32, imm) ELSE imm
                    IN  IF should_sanitize_constant(imm) THEN emit_sanitized_load_immediate(key, dst, value)
                        ELSE <<load_immediate(dst, value)>>
               ELSE IF w = W32 /\ explicit_sign_extension_of_results(v) THEN <<mov_with_sign_extension(src, dst)>>
               ELSE <<mov(w, src, dst)>>
          [] d.op = "le" -> IF imm = W16 THEN masked(2^W16 - 1) ELSE IF imm = W32 THEN masked(-1) ELSE <<>>
          [] d.op = "be" -> <<bswap(imm, dst)>> \o (IF imm = W16 THEN masked(2^W16 - 1) ELSE <<>>)
          [] d.op = "hor" -> emit_sanitized_alu(key, W64, 9, 1, dst, S(W64, Shl(W64, U(W64, imm), W32)))

------------------------------------------------------------------------------
emit_address_translation(key, op, src, dst, base, off, len, imm) ==
    (CASE op = "store" -> <<Ins("slot", W64, 0, src, "", 0)>>
       [] op = "storei" -> <<load_immediate(SCRATCH, imm - lower_key(key)), Ins("slot", W64, 0, SCRATCH, "", 0)>>
       [] op = "load" -> <<>>)
    \o LoadConstant(key, SCRATCH, off) \o <<alu(W64, 1, base, SCRATCH), subroutine("translate", op, len)>>
    \o (IF op = "load" THEN <<mov(W64, SCRATCH, dst)>> ELSE <<>>)

(* The condition codes of the jumps; jset tests, the others compare.        *)
JumpCode == "jeq" :> 132 @@ "jne" :> 133 @@ "jset" :> 133 @@ "jgt" :> 135 @@ "jge" :> 131 @@ "jlt" :> 130
            @@ "jle" :> 134 @@ "jsgt" :> 143 @@ "jsge" :> 141 @@ "jslt" :> 140 @@ "jsle" :> 142

emit_conditional_branch(key, pc, d, src, dst, imm, target) ==
    LET bitwise == d.op = "jset"
        against(r) == IF bitwise THEN test(d.width, r, dst) ELSE cmp(d.width, r, dst)
        compare == IF d.reg THEN <<against(src)>>
                   ELSE IF should_sanitize_constant(imm)
                   THEN Append(emit_sanitized_load_immediate(key, SCRATCH, imm), against(SCRATCH))
                   ELSE IF bitwise THEN <<test_immediate(d.width, dst, imm)>>
                   ELSE <<cmp_immediate(d.width, dst, imm)>>
    IN  emit_validate_and_profile_instruction_count(key, pc, target) \o compare
        \o <<conditional_jump(JumpCode[d.op], "pc", target)>> \o emit_undo_profile_instruction_count(key, pc, target)

(* emit_internal_call up to the call; AfterCall is what follows the return. *)
emit_internal_call(key, pc, reg, target) ==
    <<load_immediate(SCRATCH, pc)>> \o CheckMeter(pc) \o <<subroutine("prologue", 0, 0)>>
    \o (IF reg # "" THEN <<mov(W64, reg, SCRATCH), subroutine("callreg", 0, 0)>>
        ELSE emit_profile_instruction_count(key, pc, target) \o LoadConstant(key, SCRATCH, target)
             \o <<subroutine("call", 0, target)>>)
AfterCall(key, pc) ==
    emit_undo_profile_instruction_count(key, pc, 0) \o <<pop("r15"), pop("r14"), pop("r13"), pop("r12"), pop("rbx")>>

emit_external_call(key, pc, cost) ==
    emit_validate_and_profile_instruction_count(key, pc, 0) \o <<subroutine("external", 0, cost)>>
    \o emit_undo_profile_instruction_count(key, pc, 0)

CompileCall(key, x, pc, insn) ==
    (IF IsExternal(x, insn) THEN emit_external_call(key, pc, x.syscalls[CallKey(insn)]) ELSE <<>>)
    \o (IF IsInternal(x, pc, insn) THEN emit_internal_call(key, pc, "", CallTarget(x, pc, insn)) ELSE <<>>)
    \o (IF ~IsExternal(x, insn) /\ ~IsInternal(x, pc, insn)
        THEN <<load_immediate(SCRATCH, pc), jump_anchor("UNSUPPORTED", pc)>> ELSE <<>>)

(* The code of the instruction at pc, whose arm is d.                       *)
CompileArm(key, x, pc, insn, d) ==
    LET dst == REGISTER_MAP[insn.dst]
        src == REGISTER_MAP[insn.src]
        target == pc + 1 + insn.off
    IN  CASE d.kind = "lddw" ->
               emit_validate_and_profile_instruction_count(key, pc, pc + 2)
               \o LoadConstant(key, dst, augment_lddw(x.prog, pc))
          [] d.kind = "load" -> emit_address_translation(key, "load", src, dst, src, insn.off, d.width, 0)
          [] d.kind = "store" ->
               emit_address_translation(key, IF d.reg THEN "store" ELSE "storei", src, dst, dst, insn.off, d.width, insn.imm)
          [] d.kind = "alu" -> CompileAlu(key, x.v, pc, d, src, dst, insn.imm)
          [] d.kind = "jmp" -> emit_conditional_branch(key, pc, d, src, dst, insn.imm, target)
          [] d.kind = "ja" -> Append(emit_validate_and_profile_instruction_count(key, pc, target), jump_pc(target))
          [] d.kind = "call" -> CompileCall(key, x, pc, insn)
          [] d.kind = "callx" -> emit_internal_call(key, pc, REGISTER_MAP[CallxRegister(x.v, insn)], 0)
          [] d.kind = "exit" ->
               Append(emit_validate_and_profile_instruction_count(key, pc, 0), subroutine("exit", 0, 0))

CompileInsn(key, x, pc) ==
    LET insn == get_insn(x.prog, pc) IN CompileArm(key, x, pc, insn, Decode(x.v, insn.opc))

(* Whether the code of the instruction at pc checks the meter itself.       *)
Validates(x, pc) ==
    LET insn == get_insn(x.prog, pc)
        kind == Decode(x.v, insn.opc).kind
    IN  \/ kind \in {"lddw", "jmp", "ja", "callx", "exit"}
        \/ kind = "call" /\ (IsExternal(x, insn) \/ IsInternal(x, pc, insn))
(* The second half of lddw is no instruction of its own; compile gives up   *)
(* at an instruction that has no arm.                                       *)
IsSlot(x, pc) == pc > 0 /\ get_insn(x.prog, pc).opc = 0 /\ Decode(x.v, get_insn(x.prog, pc - 1).opc).kind = "lddw"
compile(x) ==
    IF \E pc \in 0..(Len(x.prog) - 1) : ~IsSlot(x, pc) /\ Decode(x.v, get_insn(x.prog, pc).opc).kind = "none"
    THEN "UnsupportedInstruction" ELSE ""

(* Where the last check before pc was, last_instruction_meter_validation_pc *)
(* when the compiler arrives there.  Far from the last one a check is put   *)
(* before the instruction.                                                  *)
LastValidation(x, pc) ==
    LET last[i \in 0..pc] ==
          IF i = 0 THEN 0
          ELSE IF IsSlot(x, i - 1) THEN last[i - 1]
          ELSE IF Validates(x, i - 1) \/ last[i - 1] + CheckpointDistance <= i - 1 THEN i - 1
          ELSE last[i - 1]
    IN  last[pc]
NoCheckpoint(key, x, pc) == <<>>
Checkpoint(key, x, pc) ==
    IF LastValidation(x, pc) + CheckpointDistance <= pc THEN emit_validate_instruction_count(key, pc) ELSE <<>>

(* What pc_section leads to: an instruction, the middle of lddw, or the     *)
(* bumper behind the last instruction.                                      *)
CodeAt(key, x, pc) ==
    IF pc = Len(x.prog)
    THEN emit_validate_and_profile_instruction_count(key, pc, pc + 1)
         \o <<load_immediate(SCRATCH, pc), jump_anchor("OVERRUN", pc)>>
    ELSE IF IsSlot(x, pc) THEN <<jump_anchor("UNSUPPORTED", pc)>>
    ELSE Checkpoint(key, x, pc) \o CompileInsn(key, x, pc)

------------------------------------------------------------------------------
(* ANCHOR_EPILOGUE: what is due follows from the meter and the pc in the    *)
(* scratch register.                                                        *)
Epilogue(m, res) == [m EXCEPT !.due = U(W64, m.prev - (m.r[METER] - 1 - m.r[SCRATCH])), !.res = res, !.out = ""]
ThrowExceeded(m) == Epilogue([m EXCEPT !.r[SCRATCH] = m.r[METER]], ResultErr("ExceededMaxInstructions"))

(* ANCHOR_THROW_EXCEPTION checks the meter first: the instruction that      *)
(* failed may be one that was no longer paid for.                           *)
ThrowException(m, err) == IF m.r[METER] <= m.r[SCRATCH] THEN ThrowExceeded(m) ELSE Epilogue(m, ResultErr(err))

AnchorError == "DIV_BY_ZERO" :> "DivideByZero" @@ "DIV_OVERFLOW" :> "DivideOverflow"
               @@ "UNSUPPORTED" :> "UnsupportedInstruction" @@ "OVERRUN" :> "ExecutionOverrun"

Run(m, code, x, key) == FoldLeft(LAMBDA st, i : Exec(st, i, x, key), m, code)
Continue(m, pc) == [m EXCEPT !.out = "", !.pc = pc]

(* Compiled code from one guest instruction to the next.                    *)
Return(n, x, key, caller) ==
    Continue(Run([n EXCEPT !.stack = SubSeq(@, 1, Len(@) - 1), !.out = ""], AfterCall(key, caller), x, key), caller + 1)
JitStepped(m, x, key, n) ==
    LET width == IF Decode(x.v, get_insn(x.prog, m.pc).opc).kind = "lddw" THEN 2 ELSE 1
    IN  CASE n.out = "" -> Continue(n, m.pc + width)
          [] n.out = "pc" -> Continue(n, n.pc)
          [] n.out = "ret" -> Return(n, x, key, Top(n.stack))
          [] n.out = "EXIT" ->
               Epilogue([n EXCEPT !.r[METER] = U(W64, @ + 1), !.r[SCRATCH] = 0], ResultOk(n.r["rax"]))
          [] n.out = "EXCEEDED" -> ThrowExceeded(n)
          [] n.out = "EPILOGUE" -> Epilogue(n, ResultErr(n.err))
          [] n.out = "THROW" -> ThrowException(n, n.err)
          [] n.out \in DOMAIN AnchorError -> ThrowException(n, AnchorError[n.out])
jit_step(m, x, key) == JitStepped(m, x, key, Run(m, CodeAt(key, x, m.pc), x, key))
=============================================================================
