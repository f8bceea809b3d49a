----------------------------- MODULE SbpfTools -----------------------------
(* A program on its way to execution and to its reader: a source is         *)
(* assembled or a file is loaded, the result is verified, analysed and      *)
(* listed.  A walk then takes any path a function of the program can take,  *)
(* and remembers which instruction wrote each register and memory last.     *)
EXTENDS StaticAnalysis

CONSTANTS Inputs,       \* families of inputs: sources and files
          Builtins      \* the loader's functions, a registry

VARIABLES input,        \* what was given
          loading,      \* how far a file is loaded
          exe,          \* the executable made of it
          analysis,     \* its analysis, once verified
          turns,        \* of the loop the analysis is in
          listing,      \* its disassembly
          walk          \* where a path through it is

vars == <<input, loading, exe, analysis, turns, listing, walk>>

Source(v, statements) == [t |-> "source", v |-> v, statements |-> statements]
File(f, config) == [t |-> "file", f |-> f, config |-> config]
NoInput == [t |-> "none"]
NoPc == -1
NoWalk == [pc |-> NoPc, last |-> <<>>, linked |-> TRUE]

(* The program of an executable, as the engines and tools see it.  whole    *)
(* says that its text does not end within an instruction.                   *)
View(x, prog, whole) ==
    [err |-> x.err, v |-> x.v, prog |-> prog, functions |-> x.functions, entry |-> x.entry, whole |-> whole]

Whole(x) == View(x, x.prog, TRUE)
Placed(x) == View(x, IF x.err = "" /\ TextInBounds(x) THEN get_text_bytes(x) ELSE <<>>, RangeLen(x.text) % INSN_SIZE = 0)

(* Executable::verify.                                                      *)
Verified(x) == x.err = "" /\ x.whole /\ verify(x.prog, x.v) = ""

Init == input = NoInput /\ loading = NotLoaded /\ exe = <<>> /\ analysis = NoAnalysis /\ turns = 0 /\ listing = <<>> /\ walk = NoWalk

Assemble ==
    /\ input = NoInput
    /\ \E family \in DOMAIN Inputs : input' \in Inputs[family] /\ input'.t = "source"
    /\ exe' = Whole(assemble(input'.v, input'.statements, DOMAIN Builtins))
    /\ UNCHANGED <<loading, analysis, turns, listing, walk>>

Open ==
    /\ input = NoInput
    /\ \E family \in DOMAIN Inputs : input' \in Inputs[family] /\ input'.t = "file"
    /\ UNCHANGED <<loading, exe, analysis, turns, listing, walk>>

Load ==
    /\ input.t = "file" /\ exe = <<>>
    /\ IF loading.stage = "done"
       THEN exe' = Placed(loading.x) /\ UNCHANGED loading
       ELSE loading' = load(input.f, input.config, Versions, DOMAIN Builtins, loading) /\ UNCHANGED exe
    /\ UNCHANGED <<input, analysis, turns, listing, walk>>

Analyse ==
    /\ exe # <<>> /\ Verified(exe) /\ analysis.stage # "done"
    /\ analysis' = from_executable(exe, analysis)
    /\ turns' = IF analysis'.stage = analysis.stage THEN turns + 1 ELSE 0
    /\ UNCHANGED <<input, loading, exe, listing, walk>>

Analysed == analysis.stage = "done"

List ==
    /\ Analysed /\ listing = <<>>
    /\ listing' = disassemble(exe, analysis, Builtins)
    /\ UNCHANGED <<input, loading, exe, analysis, turns, walk>>

InsnOf(a, pc) == a.ins[CHOOSE i \in 1..Len(a.ins) : a.ins[i].ptr = pc]
BlockOf(a, pc) == CHOOSE b \in DOMAIN a.blocks : \E i \in a.blocks[b].members : a.ins[i].ptr = pc

(* Where the engines can go from an instruction without leaving the         *)
(* function; a call comes back.                                             *)
Successors(x, insn) ==
    LET d == Decode(x.v, insn.opc)
        next == insn.ptr + (IF d.kind = "lddw" THEN 2 ELSE 1)
        target == insn.ptr + 1 + insn.off
    IN  {pc \in CASE d.kind = "exit" -> {}
                  [] d.kind = "ja" -> {target}
                  [] d.kind = "jmp" -> {next, target}
                  [] OTHER -> {next} : is_pc_in_program(x.prog, pc)}

(* What an instruction reads and writes.  A call is taken to use and change *)
(* what a callee can see.                                                   *)
Shared == (0..5) \cup {FRAME_PTR_REG, MEMORY}
ReadBy(x, insn) ==
    LET d == Decode(x.v, insn.opc)
        operand == IF d.reg THEN {insn.src} ELSE {}
    IN  CASE d.kind \in {"call", "callx", "exit"} -> Shared
          [] d.kind = "load" -> {MEMORY, insn.src}
          [] d.kind \in {"store", "jmp"} -> operand \cup {insn.dst}
          [] d.kind = "alu" -> operand \cup (IF d.op = "mov" THEN {} ELSE {insn.dst})
          [] OTHER -> {}
WrittenBy(x, insn) ==
    LET kind == Decode(x.v, insn.opc).kind
    IN  CASE kind \in {"call", "callx"} -> Shared
          [] kind = "store" -> {MEMORY}
          [] kind \in {"load", "lddw", "alu"} -> {insn.dst}
          [] OTHER -> {}

Enter_(pc) == [pc |-> pc, last |-> <<>>, linked |-> TRUE]

Call ==
    /\ listing # <<>> /\ walk = NoWalk
    /\ \E pc \in DOMAIN analysis.names : walk' = Enter_(pc)
    /\ UNCHANGED <<input, loading, exe, analysis, turns, listing>>

(* Running out of the first block of a registered function, not over a jump, *)
(* a call or an exit, into the next block: the graph has no edge for it.    *)
FallsOut(x, a, pc, next) ==
    LET i == CHOOSE j \in 1..Len(a.ins) : a.ins[j].ptr = pc
    IN  /\ BlockOf(a, pc) \in DOMAIN FunctionNames(x.functions) /\ BlockOf(a, next) # BlockOf(a, pc)
        /\ ~EndsBlock(x, a.ins, i)

Step ==
    /\ walk.pc # NoPc
    /\ LET insn == InsnOf(analysis, walk.pc)
       IN  \E next \in Successors(exe, insn) :
             walk' = [pc |-> next,
                      last |-> [r \in WrittenBy(exe, insn) |-> insn.ptr] @@ walk.last,
                      linked |-> walk.linked /\ ~FallsOut(exe, analysis, insn.ptr, next)]
    /\ UNCHANGED <<input, loading, exe, analysis, turns, listing>>

Next == Assemble \/ Open \/ Load \/ Analyse \/ List \/ Call \/ Step

Spec == Init /\ [][Next]_vars

------------------------------------------------------------------------------
(* A call whose instruction index is not its slot is listed, and linked,    *)
(* under another function in the versions that call by distance.            *)
(* So is a call out of the program, which has no line to label.             *)
CallsAreListed(x, a) ==
    /\ \A i \in 1..Len(a.ins) : static_syscalls(x.v) /\ a.ins[i].opc = CALL_IMM => a.ins[i].ptr = i - 1
    /\ \A k \in DOMAIN x.functions : \E i \in 1..Len(a.ins) : a.ins[i].ptr = x.functions[k].value

SameProgram(again, x) == again.err = "" /\ again.prog = x.prog /\ again.entry = x.entry

(* Assembler, disassembler and builder agree: the listing of a verified     *)
(* program assembles to the same instructions and entry point, and the      *)
(* builder makes each of its instructions.                                  *)
EncodersAgree ==
    input.t = "source" /\ listing # <<>> =>
      /\ CallsAreListed(exe, analysis) => SameProgram(assemble(exe.v, listing, DOMAIN Builtins), exe)
      /\ \A i \in 1..Len(exe.prog) :
           exe.prog[i].opc # 0 => into_bytes(exe.v, BuilderFor(Decode(exe.v, exe.prog[i].opc), exe.prog[i])) = exe.prog[i]

(* The graph is the control flow: a step of an execution stays in its basic *)
(* block or takes an edge to the start of another, and an edge leads where  *)
(* the last instruction of its block can go.  One kind of step has no edge: *)
(* the first block of a registered function, if no jump, call or exit ends  *)
(* it, has none to the block behind it (static_analysis.rs:401-405).        *)
CfgCoversExecution ==
    [][walk.pc # NoPc =>
         LET b == BlockOf(analysis, walk.pc)
             edges == Range(analysis.blocks[b].destinations)
             to == walk'.pc
         IN  /\ \/ BlockOf(analysis, to) = b /\ to # b
                \/ to \in edges
                \/ FallsOut(exe, analysis, walk.pc, to)
             /\ FallsOut(exe, analysis, walk.pc, to) => edges = {}
             /\ edges \subseteq Successors(exe, analysis.ins[MaxOf(analysis.blocks[b].members)])]_walk

(* The nodes a value of r can pass from n, along edges that carry data.     *)
Carried(a, nodes, r) ==
    nodes \cup {e.destination : e \in {d \in UNION {a.forward[n] : n \in nodes \cap DOMAIN a.forward} :
                                         d.resource = r /\ d.filled}}
RECURSIVE CarriedTo(_, _, _)
CarriedTo(a, nodes, r) ==
    IF Carried(a, nodes, r) = nodes THEN nodes ELSE CarriedTo(a, Carried(a, nodes, r), r)

(* What an instruction reads was last written by an instruction that the    *)
(* data-flow graph connects to it, on every path along the edges of the     *)
(* control-flow graph.  Version 2 gives opcodes other meanings than the     *)
(* analysis does.                                                           *)
DataFlowCovers ==
    walk.pc # NoPc /\ walk.linked /\ exe.v # 2 =>
      LET insn == InsnOf(analysis, walk.pc)
      IN  \A r \in ReadBy(exe, insn) \cap DOMAIN walk.last :
            InstructionNode(insn.ptr) \in CarriedTo(analysis, {InstructionNode(walk.last[r])}, r)

(* Files.                                                                   *)
Loaded == input.t = "file" /\ exe # <<>> /\ exe.err = ""
Relocations == loading.elf.rels
TextSection == get_section(loading.elf, Text)
Lenient == Loaded /\ ~enable_stricter_elf_headers(exe.v)

(* A section is placed by its start alone, which may be MM_REGION_SIZE: the *)
(* text then has an address in the stack's region, although parse_ro_sections *)
(* leaves it where it is.  In a copy of the sections it is not found there. *)
TextAtRegionEnd ==
    /\ loading.x.ro.owned /\ input.config.optimize_rodata /\ TextSection.addr = MM_REGION_SIZE
    /\ \A i \in RoSections(loading.elf) : loading.elf.shs[i].addr >= MM_REGION_SIZE

(* A file that is loaded has its text where its address says, but for a text *)
(* at the end of the region.  One that is verified starts in its program,   *)
(* and its calls by key lead to instructions of it; the keys are not those  *)
(* of syscalls.                                                             *)
StartsAndCallsInside ==
    Loaded =>
      /\ TextInBounds(loading.x) = ~(Lenient /\ TextAtRegionEnd)
      /\ Verified(exe) => is_pc_in_program(exe.prog, exe.entry)
      /\ Lenient /\ Verified(exe) => \A k \in DOMAIN exe.functions : /\ is_pc_in_program(exe.prog, exe.functions[k].value)
                                                                /\ k \notin DOMAIN Builtins

(* What the file says that the call at pc of its text calls: a relocated    *)
(* call a symbol, the last relocation counts, and any other the instruction *)
(* its distance leads to.                                                   *)
CalledSymbol(pc) ==
    LET rels == Relocations
        at == {i \in 1..Len(rels) : rels[i].type = "R_32" /\ rels[i].off = TextSection.off + pc * INSN_SIZE}
    IN  rels[CHOOSE i \in at : \A j \in at : j <= i].sym + 1
IsRelocated(pc) == \E i \in 1..Len(Relocations) : /\ Relocations[i].type = "R_32"
                                                  /\ Relocations[i].off = TextSection.off + pc * INSN_SIZE
Meant(pc, imm) ==
    LET elf == loading.elf
        sym == elf.syms[CalledSymbol(pc)]
        name == dynamic_symbol_name(input.f, elf, sym.name).val
    IN  IF ~IsRelocated(pc) THEN <<"pc", pc + 1 + imm>>
        ELSE IF ~is_function(sym) \/ sym.value = 0 THEN <<"syscall", name>>
        ELSE IF name = EntrypointName THEN <<"pc", exe.entry>>
        ELSE <<"pc", (sym.value - TextSection.addr) \div INSN_SIZE>>
(* What the engines do with it.                                             *)
Called(imm) ==
    CASE U(W32, imm) \in DOMAIN Builtins -> <<"syscall", Builtins[U(W32, imm)].name>>
      [] U(W32, imm) \in DOMAIN exe.functions -> <<"pc", exe.functions[U(W32, imm)].value>>
      [] OTHER -> <<"none">>

(* Every call of a loaded file calls what the file means, unless it is left *)
(* open or names an unknown syscall.                                        *)
CallsWhatIsMeant ==
    Lenient /\ Verified(exe) =>
      \A i \in 1..Len(exe.prog) :
        LET old == InsnAt(input.f.words, TextSection.off + (i - 1) * INSN_SIZE)
            called == Called(exe.prog[i].imm)
        IN  exe.prog[i].opc = CALL_IMM /\ (old.imm # -1 \/ IsRelocated(i - 1)) =>
              called = Meant(i - 1, old.imm) \/ (called = <<"none">> /\ Meant(i - 1, old.imm)[1] = "syscall")

(* A loaded and verified file is sound to run: it starts in its program,    *)
(* its functions lie in it under keys that are not syscalls', and each call *)
(* calls what the symbols, relocations and distances of the file mean.      *)
CallsResolve == StartsAndCallsInside /\ CallsWhatIsMeant

(* The file offset of an address of a read-only section.                    *)
Holding(elf, addr) == {i \in RoSections(elf) : InRange(<<elf.shs[i].addr, elf.shs[i].addr + RangeLen(file_range(elf.shs[i]))>>, addr)}
OffsetOf(elf, addr) == LET sh == elf.shs[MaxOf(Holding(elf, addr))] IN file_range(sh)[1] + addr - sh.addr

(* The addresses the loader keeps apart from the stack: below the region,   *)
(* or in it if no read-only section starts below and none of the bytes      *)
(* before them are mapped.                                                  *)
HasPlace(elf, addr) ==
    addr < MM_REGION_SIZE \/ (input.config.optimize_rodata /\ \A i \in RoSections(elf) : elf.shs[i].addr >= MM_REGION_SIZE)

(* The program sees each word of its read-only sections at its address,     *)
(* which is moved into the region if the linker has not put it there, the   *)
(* text that is executed included.                                          *)
RoSectionsAreMapped ==
    Lenient =>
      LET elf == loading.elf
      IN  \A i \in RoSections(elf) :
            \A o \in {a \in Offsets(<<elf.shs[i].addr, elf.shs[i].addr + RangeLen(file_range(elf.shs[i]))>>) :
                       a % WordSize = 0 /\ HasPlace(elf, a)} :
              LET vaddr == IF o < MM_REGION_SIZE THEN MM_BYTECODE_START + o ELSE o
              IN  /\ RoMapped(loading.x, vaddr)
                  /\ RoWord(loading.x, vaddr) = WordAt(loading.x.words, OffsetOf(elf, o))

(* An address that a relocated lddw loads, or that a relocated word of data *)
(* holds, leads to the data that the file means.                            *)
RelocatedAddressesHit ==
    Lenient =>
      LET elf == loading.elf
          old == input.f.words
          low(r) == r.off + BYTE_OFFSET_IMMEDIATE
          code(r) == r.off \in DOMAIN old /\ InRange(file_range(TextSection), r.off) /\ old[r.off] \in [opc : {LD_DW_IMM}, dst : 0..15, src : 0..15, off : {0}]
          data(r) == r.off \in DOMAIN old /\ r.type = "R_RELATIVE" /\ ~InRange(file_range(TextSection), r.off)
          meant(r) == old[low(r)] + (IF r.type = "R_64" THEN elf.syms[r.sym + 1].value
                                     ELSE IF code(r) THEN MM_REGION_SIZE * old[low(r) + INSN_SIZE] ELSE 0)
          new(o) == WordAt(loading.x.words, o)
          held(r) == IF code(r) THEN new(low(r)) + MM_REGION_SIZE * new(low(r) + INSN_SIZE)
                     ELSE new(r.off) + MM_REGION_SIZE * new(low(r))
      IN  \A i \in 1..Len(elf.rels) :
            LET r == elf.rels[i]
            IN  (code(r) \/ data(r)) /\ Holding(elf, meant(r)) # {} /\ HasPlace(elf, meant(r)) =>
                  /\ RoMapped(loading.x, held(r))
                  /\ RoWord(loading.x, held(r)) = new(OffsetOf(elf, meant(r)))

(* What a program of a relocating version reads is what its file holds: its *)
(* read-only sections at their addresses, through relocated pointers too.   *)
PointersReachData == RoSectionsAreMapped /\ RelocatedAddressesHit

(* A loaded program is the linked one: its calls go where the linker meant   *)
(* and its pointers reach its data (elf.rs, relocate).                       *)
LoadedAsLinked == CallsResolve /\ PointersReachData

(* Reachability, by the definition.                                         *)
RECURSIVE Reached(_, _)
Reached(a, from) ==
    LET more == from \cup UNION {Range(a.blocks[b].destinations) : b \in from}
    IN  IF more = from THEN from ELSE Reached(a, more)
RECURSIVE ReachedWithout(_, _, _)
ReachedWithout(a, from, d) ==
    LET more == from \cup (UNION {Range(a.blocks[b].destinations) : b \in from} \ {d})
    IN  IF more = from THEN from ELSE ReachedWithout(a, more, d)
Dominators(a, b) == {d \in DOMAIN a.blocks : d = a.super_root \/ d = b \/ b \notin ReachedWithout(a, {a.super_root}, d)}

(* Blocks are in one component exactly if each reaches the other, and an    *)
(* edge never leads to a later component.                                   *)
ComponentsAreExact ==
    Analysed =>
      LET a == analysis
          blocks == DOMAIN a.blocks \ {a.super_root}
      IN  \A b \in blocks :
            \A c \in blocks : /\ (a.topo[b][1] = a.topo[c][1]) = (c \in Reached(a, {b}) /\ b \in Reached(a, {c}))
                              /\ c \in Range(a.blocks[b].destinations) => a.topo[c][1] <= a.topo[b][1]

(* Every loop is entered only at its first block in the topological order, *)
(* where the search for components entered it.                              *)
LoopsEnteredFirst(a) ==
    LET same(b) == {c \in DOMAIN a.topo : a.topo[c][1] = a.topo[b][1]}
    IN  \A b \in DOMAIN a.blocks :
          Range(a.sources[b]) \ same(b) # {} => \A c \in same(b) : c = b \/ Later(a.topo[b], a.topo[c])

(* The parent of a block dominates it; all its other dominators dominate    *)
(* the parent if loops are entered where the search entered them.           *)
DominatorsAreImmediate ==
    Analysed =>
      \A b \in DOMAIN analysis.blocks \ {analysis.super_root} :
        LET strict == Dominators(analysis, b) \ {b}
        IN  /\ analysis.parent[b] \in strict
            /\ LoopsEnteredFirst(analysis) => strict \subseteq Dominators(analysis, analysis.parent[b])
(* The passes over dominators and over data flow reach their fixed points,  *)
(* in as many passes as there are blocks and two more.                      *)
AnalysisSettles ==
    analysis.stage \in {"dominate", "propagate"} => turns <= Cardinality(DOMAIN analysis.blocks) + 2

(* The analysis ends, and its components and dominators are what the        *)
(* definitions of graph theory say of the control-flow graph.               *)
AnalysisIsExact == AnalysisSettles /\ ComponentsAreExact /\ DominatorsAreImmediate

(* The data flow covers every execution and what is computed on the graph    *)
(* is exact (static_analysis.rs, intra_basic_block_data_flow).               *)
AnalysisIsSound == DataFlowCovers /\ AnalysisIsExact
=============================================================================
