--------------------------- MODULE SbpfAssembler ---------------------------
(* The assembler (sbpf/src/assembler.rs), the disassembler                  *)
(* (sbpf/src/disassembler.rs) and the instruction builder                   *)
(* (sbpf/src/insn_builder.rs).  A source is a sequence of parsed            *)
(* statements; a mnemonic is the pair of its stem and its suffix.           *)
EXTENDS ElfLoader

Reg(r) == <<"reg", r>>
Num(n) == <<"int", n>>
Mem(r, off) == <<"mem", r, off>>
Lab(name) == <<"label", name>>

LabelStatement(name) == [t |-> "label", name |-> name, operands |-> <<>>]
Fill(repeat, word) == [t |-> "fill", name |-> <<repeat>>, operands |-> <<word>>]
Statement(stem, suffix, operands) == [t |-> "insn", name |-> <<stem, suffix>>, operands |-> operands]

Opcode(ops, op) == CHOOSE o \in DOMAIN ops : ops[o] = op
Names(ops) == {ops[o] : o \in DOMAIN ops}
WidthSuffixes == {"", "32", "64"}
BPF_HOR == 240
BinaryOps == AluOps @@ MulOps @@ (BPF_HOR :> "hor")
SizeNames == "b" :> 1 @@ "h" :> 2 @@ "w" :> 4 @@ "dw" :> 8
SwapSizes == "16" :> W16 @@ "32" :> W32 @@ "64" :> W64

(* The type and the opcode of a mnemonic, <<"", 0>> if there is none.       *)
MemoryMnemonic(v, stem, size) ==
    LET moved == move_memory_instruction_classes(v)
        bits == IF moved THEN Opcode(MovedSizes, size) ELSE BPF_MEM + Opcode(MemSizes, size)
    IN  CASE stem = "ldx" -> <<"LoadReg", bits + (IF moved THEN BPF_ALU32_LOAD + BPF_X ELSE BPF_LDX)>>
          [] stem = "st" -> <<"StoreImm", bits + (IF moved THEN BPF_ALU64_STORE ELSE BPF_ST)>>
          [] stem = "stx" -> <<"StoreReg", bits + (IF moved THEN BPF_ALU64_STORE + BPF_X ELSE BPF_STX)>>

make_instruction_map(v, name) ==
    LET stem == name[1]
        suffix == name[2]
        short == suffix = "32"
    IN  CASE stem \in Names(BinaryOps) /\ suffix \in WidthSuffixes ->
               <<"AluBinary", Opcode(BinaryOps, stem) + (IF short THEN BPF_ALU32_LOAD ELSE BPF_ALU64_STORE)>>
          [] stem \in Names(PqrOps) /\ (suffix \in {"", "64"} \/ (short /\ stem \notin {"uhmul", "shmul"})) ->
               <<"AluBinary", BPF_PQR + Opcode(PqrOps, stem) + (IF short THEN 0 ELSE BPF_B)>>
          [] stem = "neg" /\ suffix \in WidthSuffixes -> <<"AluUnary", IF short THEN NEG32 ELSE NEG64>>
          [] stem \in {"ldx", "st", "stx"} /\ suffix \in DOMAIN SizeNames ->
               MemoryMnemonic(v, stem, SizeNames[suffix])
          [] stem \in Names(JmpOps) /\ suffix \in WidthSuffixes ->
               <<"JumpConditional", Opcode(JmpOps, stem) + (IF short THEN BPF_JMP32 ELSE BPF_JMP64)>>
          [] stem \in {"be", "le"} /\ suffix \in DOMAIN SwapSizes ->
               <<"Endian", IF stem = "be" THEN BE ELSE LE>>
          [] name = <<"lddw", "">> -> <<"LoadDwImm", LD_DW_IMM>>
          [] name = <<"ja", "">> -> <<"JumpUnconditional", JA>>
          [] name = <<"syscall", "">> -> <<"Syscall", CALL_IMM>>
          [] name = <<"call", "">> -> <<"CallImm", CALL_IMM>>
          [] name = <<"callx", "">> -> <<"CallReg", CALL_REG>>
          [] name = <<"exit", "">> -> <<"NoOperand", EXIT>>
          [] OTHER -> <<"", 0>>

(* insn: the fields must fit.                                               *)
Fits(w, x) == x \in (-(2^(w - 1)))..(2^(w - 1) - 1)
Encoded(opc, dst, src, off, imm) ==
    CASE dst \notin 0..15 -> [err |-> "Invalid destination register", insn |-> Insn(0, 0, 0, 0, 0)]
      [] dst \in 0..15 /\ src \notin 0..15 -> [err |-> "Invalid source register", insn |-> Insn(0, 0, 0, 0, 0)]
      [] dst \in 0..15 /\ src \in 0..15 /\ ~Fits(W16, off) -> [err |-> "Invalid offset", insn |-> Insn(0, 0, 0, 0, 0)]
      [] dst \in 0..15 /\ src \in 0..15 /\ Fits(W16, off) /\ ~Fits(W32, imm) ->
           [err |-> "Invalid immediate", insn |-> Insn(0, 0, 0, 0, 0)]
      [] OTHER -> [err |-> "", insn |-> Insn(opc, dst, src, off, imm)]
Unexpected(what) == [err |-> what, insn |-> Insn(0, 0, 0, 0, 0)]

------------------------------------------------------------------------------
(* The first pass finds the labels and the functions they start.            *)
IsFunctionLabel(name) == name[1] \in {"function", "entrypoint"}

Located(s) == IF s.name = <<"lddw", "">> THEN 2 ELSE 1

FirstPass(statements) ==
    LET see(a, s) ==
          CASE s.t = "label" ->
                 [a EXCEPT !.labels = (s.name :> a.ptr) @@ @,
                           !.reg = IF IsFunctionLabel(s.name)
                                   THEN register_function(@, a.ptr, s.name, a.ptr).reg ELSE @]
            [] s.t = "fill" -> [a EXCEPT !.ptr = @ + s.name[1]]
            [] s.t = "insn" -> [a EXCEPT !.ptr = @ + Located(s)]
    IN  FoldLeft(see, [ptr |-> 0, reg |-> EmptyRegistry, labels |-> (EntrypointName :> 0)], statements)

(* Where a jump or a call operand leads, relative to the next instruction.  *)
resolve_label(ptr, labels, operand) ==
    CASE operand[1] = "int" -> [err |-> "", off |-> operand[2]]
      [] operand[1] = "label" /\ operand[2] \in DOMAIN labels -> [err |-> "", off |-> labels[operand[2]] - ptr - 1]
      [] OTHER -> [err |-> "Label not found", off |-> 0]

(* The encoding of one instruction by type and kinds of operands.           *)
EncodeJump(kind, opc, ops, ptr, labels) ==
    LET to == resolve_label(ptr, labels, ops[Len(ops)])
    IN  IF to.err # "" THEN Unexpected(to.err)
        ELSE CASE kind = "JumpUnconditional" -> Encoded(opc, 0, 0, to.off, 0)
               [] kind = "JumpConditional" /\ ops[2][1] = "reg" ->
                    Encoded(opc + BPF_X, ops[1][2], ops[2][2], to.off, 0)
               [] OTHER -> Encoded(opc, ops[1][2], 0, to.off, ops[2][2])

(* A call names its target by the distance in the versions with static      *)
(* syscalls and by the target's pc in the others.                           *)
EncodeCall(v, opc, op, ptr, labels) ==
    LET to == resolve_label(ptr, labels, op)
        static == IF static_syscalls(v) THEN 1 ELSE 0
    IN  IF to.err # "" THEN Unexpected(to.err)
        ELSE Encoded(opc, 0, static, 0, IF static_syscalls(v) THEN to.off ELSE to.off + ptr + 1)

EncodeCallx(v, opc, r) ==
    IF callx_uses_src_reg(v) THEN Encoded(opc, 0, r, 0, 0)
    ELSE IF callx_uses_dst_reg(v) THEN Encoded(opc, r, 0, 0, 0) ELSE Encoded(opc, 0, 0, 0, r)

EncodeAs(v, insn, s, ptr, labels) ==
    LET kind == insn[1]
        opc == insn[2]
        ops == s.operands
        shape == [i \in 1..Len(ops) |-> ops[i][1]]
    IN  CASE kind = "" -> Unexpected("Invalid instruction")
          [] kind = "AluBinary" /\ shape = <<"reg", "reg">> -> Encoded(opc + BPF_X, ops[1][2], ops[2][2], 0, 0)
          [] kind = "AluBinary" /\ shape = <<"reg", "int">> ->
               IF ops[1][2] = FRAME_PTR_REG /\ opc = ADD64_IMM /\ ~manual_stack_frame_bump(v)
               THEN Encoded(Opcode(AluOps, "or") + BPF_ALU64_STORE, 0, 0, 0, 0)
               ELSE Encoded(opc, ops[1][2], 0, 0, ops[2][2])
          [] kind = "AluUnary" /\ shape = <<"reg">> -> Encoded(opc, ops[1][2], 0, 0, 0)
          [] kind = "LoadReg" /\ shape = <<"reg", "mem">> -> Encoded(opc, ops[1][2], ops[2][2], ops[2][3], 0)
          [] kind = "StoreReg" /\ shape = <<"mem", "reg">> -> Encoded(opc, ops[1][2], ops[2][2], ops[1][3], 0)
          [] kind = "StoreImm" /\ shape = <<"mem", "int">> -> Encoded(opc, ops[1][2], 0, ops[1][3], ops[2][2])
          [] kind = "NoOperand" /\ shape = <<>> -> Encoded(opc, 0, 0, 0, 0)
          [] kind = "JumpUnconditional" /\ Len(shape) = 1 -> EncodeJump(kind, opc, ops, ptr, labels)
          [] kind = "JumpConditional" /\ Len(shape) = 3 -> EncodeJump(kind, opc, ops, ptr, labels)
          [] kind = "CallImm" /\ Len(shape) = 1 -> EncodeCall(v, opc, ops[1], ptr, labels)
          [] kind = "Syscall" /\ shape = <<"label">> -> Encoded(opc, 0, 0, 0, S(W32, hash_symbol_name(ops[1][2])))
          [] kind = "Syscall" /\ shape = <<"int">> -> Encoded(opc, 0, 0, 0, ops[1][2])
          [] kind = "CallReg" /\ shape = <<"reg">> -> EncodeCallx(v, opc, ops[1][2])
          [] kind = "Endian" /\ shape = <<"reg">> -> Encoded(opc, ops[1][2], 0, 0, SwapSizes[s.name[2]])
          [] kind = "LoadDwImm" /\ shape = <<"reg", "int">> -> Encoded(opc, ops[1][2], 0, 0, S(W32, ops[2][2]))
          [] OTHER -> Unexpected("Unexpected operands")
Encode(v, s, ptr, labels) == EncodeAs(v, make_instruction_map(v, s.name), s, ptr, labels)

(* The second pass emits the instructions; a call by distance registers the *)
(* function it calls, and lddw takes a second slot for its upper half.      *)
CallsByDistance(v, s) == make_instruction_map(v, s.name)[1] = "CallImm" /\ s.operands[1][1] = "int"

Emit(v, a, s, target, e) ==
    IF s.t = "fill" THEN [a EXCEPT !.prog = @ \o [i \in 1..s.name[1] |-> s.operands[1]]]
    ELSE IF e.err # "" THEN [a EXCEPT !.err = e.err]
    ELSE [a EXCEPT !.reg = IF CallsByDistance(v, s)
                           THEN register_function(@, target, Name("function", target), target).reg ELSE @,
                   !.prog = IF Located(s) = 1 THEN Append(@, e.insn)
                            ELSE @ \o <<e.insn, Insn(0, 0, 0, 0, S(W32, s.operands[2][2] \div 2^W32))>>]
SecondPass(v, statements, first) ==
    LET emit(a, s) ==
          IF a.err # "" \/ s.t = "label" THEN a
          ELSE Emit(v, a, s, s.operands[1][2] + Len(a.prog) + 1, Encode(v, s, Len(a.prog), first.labels))
    IN  FoldLeft(emit, [prog |-> <<>>, reg |-> first.reg, err |-> ""], statements)

Made(second, made) == IF second.err # "" THEN [made EXCEPT !.err = second.err] ELSE made
FromText(v, second, builtins) == Made(second, new_from_text_bytes(v, second.prog, second.reg, builtins, TRUE))
assemble(v, statements, builtins) == FromText(v, SecondPass(v, statements, FirstPass(statements)), builtins)

------------------------------------------------------------------------------
(* The disassembler.  label is that of the block an instruction jumps to.   *)
SuffixOf(d) == IF d.width = W32 THEN "32" ELSE "64"
SizeName(n) == CHOOSE s \in DOMAIN SizeNames : SizeNames[s] = n
SwapName(n) == IF n \in {W16, W32, W64} THEN CHOOSE s \in DOMAIN SwapSizes : SwapSizes[s] = n ELSE "?"

(* A call is printed as a syscall when the source field is zero, or when it *)
(* is not a known function in a version without static syscalls.            *)
DisassembleCall(v, insn, pc, functions, builtins) ==
    LET key == calculate_call_imm_target_pc(v, pc, insn.imm)
        known == key \in DOMAIN functions
        syscall == (~known /\ ~static_syscalls(v)) \/ insn.src = 0
        names == IF syscall THEN builtins ELSE functions
        by == IF syscall THEN U(W32, insn.imm) ELSE key
    IN  Statement(IF syscall THEN "syscall" ELSE "call", "",
                  <<IF by \in DOMAIN names THEN Lab(names[by].name) ELSE Num(insn.imm)>>)

(* Its arms for lddw, le and hor64 are not guarded by the version.          *)
ListedArm(v, o) ==
    CASE o = LD_DW_IMM -> Arm("lddw", "", W64, FALSE)
      [] o = LE -> Arm("alu", "le", W32, FALSE)
      [] o = HOR64_IMM -> Arm("alu", "hor", W64, FALSE)
      [] OTHER -> Decode(v, o)

DisassembleArm(v, insn, d, pc, functions, builtins, label) ==
    LET second == IF d.reg THEN Reg(insn.src) ELSE Num(insn.imm)
    IN  CASE d.kind = "lddw" -> Statement("lddw", "", <<Reg(insn.dst), Num(insn.imm)>>)
          [] d.kind = "load" -> Statement("ldx", SizeName(d.width), <<Reg(insn.dst), Mem(insn.src, insn.off)>>)
          [] d.kind = "store" ->
               Statement(IF d.reg THEN "stx" ELSE "st", SizeName(d.width), <<Mem(insn.dst, insn.off), second>>)
          [] d.kind = "alu" /\ d.op \in {"le", "be"} -> Statement(d.op, SwapName(insn.imm), <<Reg(insn.dst)>>)
          [] d.kind = "alu" /\ d.op = "neg" -> Statement("neg", SuffixOf(d), <<Reg(insn.dst)>>)
          [] d.kind = "alu" /\ d.op \notin {"le", "be", "neg"} ->
               Statement(d.op, SuffixOf(d), <<Reg(insn.dst), second>>)
          [] d.kind = "jmp" -> Statement(d.op, IF d.width = W32 THEN "32" ELSE "",
                                         <<Reg(insn.dst), second, Lab(label)>>)
          [] d.kind = "ja" -> Statement("ja", "", <<Lab(label)>>)
          [] d.kind = "call" -> DisassembleCall(v, insn, pc, functions, builtins)
          [] d.kind = "callx" ->
               Statement("callx", "", <<Reg(IF callx_uses_src_reg(v) THEN insn.src
                                            ELSE IF callx_uses_dst_reg(v) THEN insn.dst ELSE insn.imm)>>)
          [] d.kind = "exit" -> Statement("exit", "", <<>>)
          [] OTHER -> Statement("unknown", "", <<>>)
disassemble_instruction(v, insn, pc, functions, builtins, label) ==
    DisassembleArm(v, insn, ListedArm(v, insn.opc), pc, functions, builtins, label)

------------------------------------------------------------------------------
(* The builder: one structure per kind of instruction, with the fields set  *)
(* by set_dst and its siblings.  source says that the operand is a register *)
(* and long that Arch is X64.                                               *)
Builder(kind, op, source, long, size, insn) ==
    [kind |-> kind, op |-> op, source |-> source, long |-> long, size |-> size, insn |-> insn]

src_bit(b) == IF b.source THEN BPF_X ELSE 0
MoveOps == BinaryOps @@ (128 :> "neg")
BPF_IMM == 0
BPF_CALL == 128
BPF_EXIT == 144

(* A variant without the load class of version 2.                           *)
LegacyLoadOpcode(v, b) == Opcode(MemSizes, b.size) + (IF b.op = "Mem" THEN BPF_MEM + BPF_LDX ELSE BPF_IMM + BPF_LD)
LoadOpcode(v, b) ==
    IF move_memory_instruction_classes(v) /\ b.op = "Mem"
    THEN BPF_ALU32_LOAD + BPF_X + Opcode(MovedSizes, b.size)
    ELSE Opcode(MemSizes, b.size) + (IF b.op = "Mem" THEN BPF_MEM + BPF_LDX ELSE BPF_IMM + BPF_LD)

StoreOpcode(v, b) ==
    IF move_memory_instruction_classes(v)
    THEN BPF_ALU64_STORE + src_bit(b) + Opcode(MovedSizes, b.size)
    ELSE BPF_MEM + Opcode(MemSizes, b.size) + (IF b.source THEN BPF_STX ELSE BPF_ST)

opt_code_byte(v, b) ==
    CASE b.kind = "Move" -> Opcode(MoveOps, b.op) + src_bit(b) + (IF b.long THEN BPF_ALU64_STORE ELSE BPF_ALU32_LOAD)
      [] b.kind = "Pqr" -> BPF_PQR + Opcode(PqrOps, b.op) + src_bit(b) + (IF b.long THEN BPF_B ELSE 0)
      [] b.kind = "SwapBytes" -> IF b.op = "le" THEN LE ELSE BE
      [] b.kind = "Load" -> LoadOpcode(v, b)
      [] b.kind = "Store" -> StoreOpcode(v, b)
      [] b.kind = "Jump" -> (IF b.op = "ja" THEN 0 ELSE Opcode(JmpOps, b.op)) + src_bit(b) + BPF_JMP64
      [] b.kind = "Jump32" -> Opcode(JmpOps, b.op) + src_bit(b) + BPF_JMP32
      [] b.kind = "Hor64" -> HOR64_IMM
      [] b.kind = "FunctionCall" -> BPF_CALL + src_bit(b) + BPF_JMP64
      [] b.kind = "Exit" -> BPF_EXIT + BPF_JMP64

(* Calls only keep the register fields their version has.                   *)
CallSrc(v, b) ==
    IF b.source THEN IF callx_uses_src_reg(v) THEN b.insn.src ELSE 0
    ELSE IF static_syscalls(v) THEN b.insn.src ELSE 0
CallDst(v, b) == IF b.source /\ callx_uses_dst_reg(v) THEN b.insn.dst ELSE 0

(* into_bytes and what get_insn reads back.                                 *)
into_bytes(v, b) ==
    LET call == b.kind = "FunctionCall"
    IN  Insn(opt_code_byte(v, b), IF call THEN CallDst(v, b) ELSE b.insn.dst,
             IF call THEN CallSrc(v, b) ELSE b.insn.src, S(W16, b.insn.off), S(W32, b.insn.imm))

(* The structure a user of the builder asks for to get an instruction that  *)
(* the interpreter executes with arm d.                                     *)
BuilderFor(d, insn) ==
    LET long == d.width = W64
    IN  CASE d.kind = "alu" /\ d.op \in {"le", "be"} -> Builder("SwapBytes", d.op, FALSE, long, 0, insn)
          [] d.kind = "alu" /\ d.op = "hor" -> Builder("Hor64", d.op, FALSE, long, 0, insn)
          [] d.kind = "alu" /\ d.op \in Names(PqrOps) -> Builder("Pqr", d.op, d.reg, long, 0, insn)
          [] d.kind = "alu" /\ d.op \notin Names(PqrOps) \cup {"le", "be", "hor"} ->
               Builder("Move", d.op, d.reg, long, 0, insn)
          [] d.kind = "load" -> Builder("Load", "Mem", TRUE, TRUE, d.width, insn)
          [] d.kind = "lddw" -> Builder("Load", "Imm", FALSE, TRUE, 8, insn)
          [] d.kind = "store" -> Builder("Store", "Mem", d.reg, TRUE, d.width, insn)
          [] d.kind = "jmp" -> Builder(IF long THEN "Jump" ELSE "Jump32", d.op, d.reg, long, 0, insn)
          [] d.kind = "ja" -> Builder("Jump", "ja", FALSE, TRUE, 0, insn)
          [] d.kind \in {"call", "callx"} -> Builder("FunctionCall", "", d.kind = "callx", TRUE, 0, insn)
          [] OTHER -> Builder("Exit", "", FALSE, TRUE, 0, insn)
=============================================================================
