------------------------------ MODULE SbpfIsa ------------------------------
(* Machine words, the instruction set (sbpf/src/ebpf.rs), what each version *)
(* of it enables (sbpf/src/program.rs), and RequisiteVerifier::verify       *)
(* (sbpf/src/verifier.rs), the one pass over a program that both engines    *)
(* rely on.                                                                 *)
(*                                                                          *)
(* The width of a byte is a parameter: the code's is 8, the checks use      *)
(* less, and every width, shift mask, address field and byte swap scales    *)
(* with it.  A word is the natural number of its bits; signed readings are  *)
(* taken where the code casts.                                              *)
(*                                                                          *)
(* An opcode byte means different things in different versions; Decode says *)
(* which match arm of the interpreter, the verifier and the compiler it     *)
(* selects, the guards of the three being the same.                         *)
EXTENDS Integers, Sequences, Bitwise, TLC

CONSTANT ByteBits       \* bits in a byte

ASSUME ByteBitsAssumption == ByteBits \in Nat \ {0}

W8 == ByteBits
W16 == 2 * ByteBits
W32 == 4 * ByteBits
W64 == 8 * ByteBits

(* x as uN and x as iN.                                                     *)
U(w, x) == x % 2^w
S(w, x) == U(w, x + 2^(w - 1)) - 2^(w - 1)

(* Sign extension of the low w bits to a full word.                         *)
SignExtend(w, x) == U(W64, S(w, x))

(* wrapping_shl, wrapping_shr on uN and on iN: the amount wraps at N.        *)
Shl(w, x, n) == U(w, x * 2^(n % w))
Shr(w, x, n) == U(w, x) \div 2^(n % w)
Sar(w, x, n) == U(w, S(w, x) \div 2^(n % w))
RotateRight(w, x, n) == U(w, Shr(w, x, n) + x * 2^((w - n) % w))

(* Rust's signed division truncates and its remainder has the sign of the   *)
(* dividend; TLA+'s rounds down.                                            *)
Abs(x) == IF x < 0 THEN -x ELSE x
Quotient(x, y) == IF (x < 0) = (y < 0) THEN Abs(x) \div Abs(y) ELSE -(Abs(x) \div Abs(y))
Remainder(x, y) == x - y * Quotient(x, y)

(* Byte i of x, least significant first, and the value of a byte sequence.  *)
Byte(x, i) == (x \div 2^(i * W8)) % 2^W8
Bytes(n, x) == [i \in 1..n |-> Byte(x, i - 1)]
Value(bs) == LET v[i \in 0..Len(bs)] == IF i = 0 THEN 0 ELSE v[i - 1] + bs[i] * 2^((i - 1) * W8)
             IN  v[Len(bs)]
SwapBytes(n, x) == Value([i \in 1..n |-> Byte(x, n - i)])

------------------------------------------------------------------------------
Versions == 0..4

manual_stack_frame_bump(v) == v \in {1, 2}
stack_frame_gaps(v) == v = 0
enable_pqr(v) == v = 2
explicit_sign_extension_of_results(v) == v = 2
swap_sub_reg_imm_operands(v) == v = 2
disable_neg(v) == v = 2
callx_uses_src_reg(v) == v = 2
disable_lddw(v) == v = 2
disable_le(v) == v = 2
move_memory_instruction_classes(v) == v = 2
static_syscalls(v) == v >= 3
enable_jmp32(v) == v >= 3
callx_uses_dst_reg(v) == v >= 3

INSN_SIZE == 8          \* bytes of an instruction
FRAME_PTR_REG == 10
SCRATCH_REGS == 6..9
MM_REGION_SIZE == 2^W32
MM_BYTECODE_START == MM_REGION_SIZE
MM_STACK_START == 2 * MM_REGION_SIZE
MM_HEAP_START == 3 * MM_REGION_SIZE
MM_INPUT_START == 4 * MM_REGION_SIZE

(* The three class bits, the source bit and the operation bits.             *)
BPF_LD == 0
BPF_LDX == 1
BPF_ST == 2
BPF_STX == 3
BPF_ALU32_LOAD == 4
BPF_JMP64 == 5
BPF_JMP32 == 6
BPF_PQR == 6
BPF_ALU64_STORE == 7
BPF_X == 8
BPF_MEM == 96
MemSizes == 16 :> 1 @@ 8 :> 2 @@ 0 :> 4 @@ 24 :> 8            \* BPF_B, H, W, DW
MovedSizes == 32 :> 1 @@ 48 :> 2 @@ 128 :> 4 @@ 144 :> 8      \* BPF_1B, 2B, 4B, 8B
AluOps == 0 :> "add" @@ 16 :> "sub" @@ 64 :> "or" @@ 80 :> "and" @@ 96 :> "lsh" @@ 112 :> "rsh"
          @@ 160 :> "xor" @@ 176 :> "mov" @@ 192 :> "arsh"
MulOps == 32 :> "mul" @@ 48 :> "div" @@ 144 :> "mod"
PqrOps == 32 :> "uhmul" @@ 64 :> "udiv" @@ 96 :> "urem" @@ 128 :> "lmul" @@ 160 :> "shmul"
          @@ 192 :> "sdiv" @@ 224 :> "srem"
JmpOps == 16 :> "jeq" @@ 32 :> "jgt" @@ 48 :> "jge" @@ 64 :> "jset" @@ 80 :> "jne" @@ 96 :> "jsgt"
          @@ 112 :> "jsge" @@ 160 :> "jlt" @@ 176 :> "jle" @@ 192 :> "jslt" @@ 208 :> "jsle"
BPF_B == 16             \* marks the 64-bit operations of the PQR class
LD_DW_IMM == 24
NEG32 == 132
NEG64 == 135
LE == 212
BE == 220
HOR64_IMM == 247
JA == 5
CALL_IMM == 133
CALL_REG == 141
EXIT == 149
ADD64_IMM == 7

Arm(kind, op, width, reg) == [kind |-> kind, op |-> op, width |-> width, reg |-> reg]
NoArm == Arm("none", "", 0, FALSE)

(* The match arm that opcode o selects in version v, class by class.  width *)
(* is in bytes for memory accesses and in bits otherwise; reg says that the *)
(* operand is a register and not the immediate.                             *)
Class(o) == o % 8
UsesRegister(o) == (o \div 8) % 2 = 1
Operation(o) == (o \div 16) * 16
Width(o) == IF Class(o) \in {BPF_ALU32_LOAD, BPF_JMP32} THEN W32 ELSE W64

MemoryArm(v, o) ==
    LET size == (o \div 8) * 8 - BPF_MEM
    IN  CASE o = LD_DW_IMM /\ ~disable_lddw(v) -> Arm("lddw", "", W64, FALSE)
          [] Class(o) = BPF_LDX /\ size \in DOMAIN MemSizes /\ ~move_memory_instruction_classes(v)
               -> Arm("load", "", MemSizes[size], TRUE)
          [] Class(o) \in {BPF_ST, BPF_STX} /\ size \in DOMAIN MemSizes
             /\ ~move_memory_instruction_classes(v)
               -> Arm("store", "", MemSizes[size], Class(o) = BPF_STX)
          [] Class(o) = BPF_ALU32_LOAD /\ UsesRegister(o) /\ Operation(o) \in DOMAIN MovedSizes
             /\ move_memory_instruction_classes(v) -> Arm("load", "", MovedSizes[Operation(o)], TRUE)
          [] Class(o) = BPF_ALU64_STORE /\ Operation(o) \in DOMAIN MovedSizes
             /\ move_memory_instruction_classes(v)
               -> Arm("store", "", MovedSizes[Operation(o)], UsesRegister(o))
          [] OTHER -> NoArm

ArithmeticArm(v, o) ==
    LET arithmetic == Class(o) \in {BPF_ALU32_LOAD, BPF_ALU64_STORE}
    IN  CASE arithmetic /\ Operation(o) \in DOMAIN AluOps
               -> Arm("alu", AluOps[Operation(o)], Width(o), UsesRegister(o))
          [] arithmetic /\ Operation(o) \in DOMAIN MulOps /\ ~enable_pqr(v)
               -> Arm("alu", MulOps[Operation(o)], Width(o), UsesRegister(o))
          [] o \in {NEG32, NEG64} /\ ~disable_neg(v) -> Arm("alu", "neg", Width(o), FALSE)
          [] o = LE /\ ~disable_le(v) -> Arm("alu", "le", W32, FALSE)
          [] o = BE -> Arm("alu", "be", W32, FALSE)
          [] o = HOR64_IMM /\ disable_lddw(v) -> Arm("alu", "hor", W64, FALSE)
          [] OTHER -> NoArm

(* Products, quotients and remainders; upper halves only exist for 64 bits. *)
PqrArm(v, o) ==
    LET op == (o \div 32) * 32
        long == Operation(o) - op = BPF_B
    IN  IF /\ Class(o) = BPF_PQR /\ op \in DOMAIN PqrOps /\ enable_pqr(v)
           /\ long \/ PqrOps[op] \notin {"uhmul", "shmul"}
        THEN Arm("alu", PqrOps[op], IF long THEN W64 ELSE W32, UsesRegister(o))
        ELSE NoArm

JumpArm(v, o) ==
    CASE \/ Class(o) = BPF_JMP32 /\ Operation(o) \in DOMAIN JmpOps /\ enable_jmp32(v)
         \/ Class(o) = BPF_JMP64 /\ Operation(o) \in DOMAIN JmpOps
           -> Arm("jmp", JmpOps[Operation(o)], Width(o), UsesRegister(o))
      [] o = JA -> Arm("ja", "", W64, FALSE)
      [] o = CALL_IMM -> Arm("call", "", W64, FALSE)
      [] o = CALL_REG -> Arm("callx", "", W64, TRUE)
      [] o = EXIT -> Arm("exit", "", W64, FALSE)
      [] OTHER -> NoArm

(* At most one class claims an opcode.                                      *)
TheArm(arms) == IF arms = {} THEN NoArm ELSE CHOOSE arm \in arms : TRUE
Arms == [v \in Versions |-> [o \in 0..255 |->
            TheArm({MemoryArm(v, o), ArithmeticArm(v, o), PqrArm(v, o), JumpArm(v, o)} \ {NoArm})]]
Decode(v, o) == Arms[v][o]

(* An instruction.  imm is the sign-extended immediate; opcode 0 is the     *)
(* second slot of lddw.                                                     *)
Insn(opc, dst, src, off, imm) == [opc |-> opc, dst |-> dst, src |-> src, off |-> off, imm |-> imm]
is_pc_in_program(prog, pc) == pc \in 0..(Len(prog) - 1)
get_insn(prog, pc) == prog[pc + 1]
augment_lddw(prog, pc) == U(W32, get_insn(prog, pc).imm) + U(W32, get_insn(prog, pc + 1).imm) * 2^W32

------------------------------------------------------------------------------
FrameAlignment == W64           \* 64, scaled with the byte

check_imm_nonzero(insn) == insn.imm # 0
check_imm_endian(insn) == insn.imm \in {W16, W32, W64}
check_imm_aligned(insn, alignment) == insn.imm % alignment = 0
check_imm_shift(insn, bits) == insn.imm \in 0..(bits - 1)

(* lddw needs its second slot; the error says which part is missing.        *)
check_load_dw(prog, i) ==
    IF i + 1 >= Len(prog) THEN "LDDWCannotBeLast"
    ELSE IF get_insn(prog, i + 1).opc # 0 THEN "IncompleteLDDW" ELSE ""

check_jmp_offset(prog, i) ==
    LET target == i + 1 + get_insn(prog, i).off
    IN  IF ~is_pc_in_program(prog, target) THEN "JumpOutOfCode"
        ELSE IF get_insn(prog, target).opc = 0 THEN "JumpToMiddleOfLDDW" ELSE ""

check_callx_register(insn, v) ==
    (IF callx_uses_src_reg(v) THEN insn.src ELSE IF callx_uses_dst_reg(v) THEN insn.dst ELSE insn.imm) \in 0..9

check_registers(insn, store, v) ==
    CASE insn.src > 10 -> "InvalidSourceRegister"
      [] insn.src <= 10 /\ (insn.dst \in 0..9 \/ (insn.dst = 10 /\ store)) -> ""
      [] insn.src <= 10 /\ insn.dst = 10 /\ ~store ->
           IF manual_stack_frame_bump(v) /\ insn.opc = ADD64_IMM THEN "" ELSE "CannotWriteR10"
      [] OTHER -> "InvalidDestinationRegister"

CheckThat(ok, err) == IF ok THEN "" ELSE err

(* What the match arm of instruction i checks beyond its registers.         *)
CheckArm(prog, v, i, insn, d) ==
    CASE d.kind = "none" -> "UnknownOpCode"
      [] d.kind = "lddw" -> check_load_dw(prog, i)
      [] d.kind \in {"jmp", "ja"} -> check_jmp_offset(prog, i)
      [] d.kind = "callx" -> CheckThat(check_callx_register(insn, v), "InvalidRegister")
      [] d.kind = "alu" /\ ~d.reg /\ d.op \in {"div", "mod", "udiv", "urem", "sdiv", "srem"} ->
           CheckThat(check_imm_nonzero(insn), "DivisionByZero")
      [] d.kind = "alu" /\ ~d.reg /\ d.op \in {"lsh", "rsh", "arsh"} ->
           CheckThat(check_imm_shift(insn, d.width), "ShiftWithOverflow")
      [] d.kind = "alu" /\ d.op \in {"le", "be"} ->
           CheckThat(check_imm_endian(insn), "UnsupportedLEBEArgument")
      [] insn.opc = ADD64_IMM /\ insn.dst = FRAME_PTR_REG /\ manual_stack_frame_bump(v) ->
           CheckThat(check_imm_aligned(insn, FrameAlignment), "UnalignedImmediate")
      [] OTHER -> ""

(* The first error of the pass, or the empty string.                        *)
OrElse(err, next) == IF err # "" THEN err ELSE next
CheckInsn(prog, v, i, insn, d) == OrElse(CheckArm(prog, v, i, insn, d), check_registers(insn, d.kind = "store", v))
verify(prog, v) ==
    LET arm(i) == Decode(v, get_insn(prog, i).opc)
        pass[i \in 0..(Len(prog) + 1)] ==
          IF i >= Len(prog) THEN ""
          ELSE OrElse(CheckInsn(prog, v, i, get_insn(prog, i), arm(i)), pass[IF arm(i).kind = "lddw" THEN i + 2 ELSE i + 1])
    IN  IF prog = <<>> THEN "NoProgram" ELSE pass[0]
=============================================================================
