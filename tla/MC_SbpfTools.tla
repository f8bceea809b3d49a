---------------------------- MODULE MC_SbpfTools ----------------------------
(* Sources and files for the tools.                                         *)
EXTENDS SbpfTools

MCHash(name) == CASE name[1] = "entrypoint" -> 50
                  [] name[1] = "pc" -> 60 + name[2]
                  [] name[1] = "sys" -> 63 + 10 * name[2]
                  [] OTHER -> 90 + (name[2] % 7)
SysName(n) == Name("sys", n)
MCBuiltins == [k \in {MCHash(SysName(n)) : n \in 0..1} |-> [name |-> SysName((k - 63) \div 10), value |-> k]]


(* Sources that only move data and jump.                                    *)
I(stem, suffix, operands) == Statement(stem, suffix, operands)
ExitS == I("exit", "", <<>>)
Flow == {I("add", "64", <<Reg(1), Num(1)>>), I("mov", "64", <<Reg(2), Reg(1)>>),
         I("jeq", "", <<Reg(1), Num(0), Num(1)>>), I("jeq", "", <<Reg(2), Reg(1), Num(-2)>>),
         I("ja", "", <<Num(-3)>>), I("call", "", <<Num(1)>>), ExitS}
FlowSources(v, first, second) ==
    {Source(v, <<first, second>> \o rest \o <<ExitS>>) : rest \in Flow \X Flow}

(* Sources with functions, of which the entry point is not the first, and   *)
(* with calls by label and by name.                                         *)
Helper == Name("function", 9)
Loop == Name("lbb", 9)
Middle == {I("ldx", "dw", <<Reg(3), Mem(1, 2)>>), I("stx", "w", <<Mem(2, -1), Reg(3)>>), I("st", "b", <<Mem(2, 1), Num(3)>>),
           I("lddw", "", <<Reg(1), Num(5)>>), I("jne", "", <<Reg(3), Num(1), Lab(Loop)>>),
           I("call", "", <<Lab(Helper)>>), I("call", "", <<Lab(EntrypointName)>>),
           I("syscall", "", <<Lab(SysName(0))>>), I("syscall", "", <<Num(3)>>), I("callx", "", <<Reg(3)>>)}
CallSources(v) ==
    {Source(v, <<LabelStatement(Helper), a, ExitS, LabelStatement(EntrypointName), b, LabelStatement(Loop), c, ExitS>>) :
       a \in Middle, b \in Middle, c \in Middle}

(* Every mnemonic with operands of each kind.                               *)
Stems == Names(BinaryOps) \cup Names(PqrOps) \cup Names(JmpOps) \cup {"neg", "ldx", "st", "stx", "be", "le"}
Suffixed == {"", "16", "32", "64", "b", "h", "w", "dw"}
Operands == {<<Reg(1)>>, <<Reg(1), Reg(2)>>, <<Reg(1), Num(-3)>>, <<Reg(1), Mem(2, -2)>>, <<Mem(1, 3), Reg(2)>>,
             <<Mem(1, 3), Num(3)>>, <<Reg(1), Reg(2), Num(0)>>, <<Reg(1), Num(3), Num(0)>>, <<Reg(10), Num(1)>>, <<Reg(16), Num(1)>>}
MnemonicSources(v, suffix) ==
    {Source(v, <<s, ExitS>>) : s \in {I(stem, suffix, ops) : stem \in Stems, ops \in Operands}}

------------------------------------------------------------------------------
(* A file for the lenient parser: where its parts are, then what they hold. *)
At == [ph |-> 64, text |-> 176, rodata |-> 224, dynamic |-> 240, dynsym |-> 320, dynstr |-> 392, rel |-> 440,
       symtab |-> 488, strtab |-> 536, shstrtab |-> 568, sh |-> 648, end |-> 1288]
Parts == <<"text", "rodata", "dynamic", "dynsym", "dynstr", "rel", "symtab", "strtab", "shstrtab", "sh">>
Types == <<"SHT_PROGBITS", "SHT_PROGBITS", "SHT_DYNAMIC", "SHT_DYNSYM", "SHT_STRTAB", "SHT_REL", "SHT_SYMTAB",
           "SHT_STRTAB", "SHT_STRTAB">>
NameOff(i) == 8 * i             \* every string has 8 bytes
SectionHeaders ==
    <<ZeroEntry.shdr>> \o [i \in 1..9 |-> Shdr(NameOff(i), Types[i], FALSE, At[Parts[i]], At[Parts[i]], At[Parts[i + 1]] - At[Parts[i]])]
String(kind, n) == [name |-> Name(kind, n), len |-> 6]
SectionStrings == [o \in {At.shstrtab + NameOff(i) : i \in 1..9} |-> String(Parts[(o - At.shstrtab) \div 8], 0)]
TextWords(at, text) ==
    [o \in Offsets(<<at, at + 8 * Len(text)>>) |->
       LET insn == text[(o - at) \div 8 + 1] IN IF (o - at) % 8 = 0 THEN InsnHead(insn) ELSE U(W32, insn.imm)]
RoWords == At.rodata :> 5 @@ (At.rodata + 4) :> 6 @@ (At.rodata + 8) :> 0 @@ (At.rodata + 12) :> (At.rodata + 4)
Dynamic == <<Dyn("DT_REL", At.rel), Dyn("DT_RELENT", 16), Dyn("DT_RELSZ", 48), Dyn("DT_SYMTAB", At.dynsym), Dyn("DT_NULL", 0)>>
Segments == <<Phdr("PT_LOAD", "PF_R", 0, 0, At.end, At.end), Phdr("PT_DYNAMIC", "PF_R", At.dynamic, At.dynamic, 80, 80)>>

LenientFile(v, entry, text, symbol, names, rels) ==
    [len |-> At.end,
     eh |-> [bad |-> {}, machine |-> "EM_BPF", flags |-> v, entry |-> At.text + 8 * entry, phoff |-> At.ph, phnum |-> 2,
             shoff |-> At.sh, shnum |-> 10, shstrndx |-> 9],
     tables |-> At.ph :> Segments @@ At.dynamic :> Dynamic
                @@ At.dynsym :> <<ZeroEntry.sym, symbol, Sym(16, "NOTYPE", At.rodata)>> @@ At.rel :> rels
                @@ At.symtab :> <<ZeroEntry.sym, Sym(8, "FUNC", At.text + 8 * 5)>> @@ At.sh :> SectionHeaders,
     strings |-> SectionStrings @@ (At.dynstr + 8) :> names @@ (At.dynstr + 16) :> String("data", 0)
                 @@ (At.strtab + 8) :> String("function", 3),
     words |-> TextWords(At.text, text) @@ RoWords]

(* Calls to a symbol, by a distance, to nothing; an address in the text and *)
(* one in the data, relocated or not.                                       *)
CallRel(pc, imm) == Insn(CALL_IMM, 0, 1, 0, imm)
RelAt(pc, type, sym) == Rel(At.text + 8 * pc, type, sym)
Symbols == {<<Sym(8, "FUNC", At.text + 8 * 5), String("function", 5)>>, <<Sym(8, "FUNC", At.text + 8 * 4), String("entrypoint", 0)>>,
            <<Sym(8, "NOTYPE", 0), String("sys", 0)>>, <<Sym(8, "NOTYPE", 0), String("sys", 4)>>,
            <<Sym(8, "FUNC", At.text + 8 * 6), String("function", 6)>>, <<Sym(8, "FUNC", At.text + 8 * 3), String("function", 3)>>}
Addresses == {RelAt(0, "R_64", 2), RelAt(0, "R_RELATIVE", 0)}
Text0(addend, a, b) ==
    <<Insn(LD_DW_IMM, 1, 0, 0, addend), Insn(0, 0, 0, 0, 0), CallRel(2, a), CallRel(3, b), Insn(EXIT, 0, 0, 0, 0), Insn(EXIT, 0, 0, 0, 0)>>
Configs == [reject_broken_elfs : BOOLEAN, optimize_rodata : BOOLEAN, labels : BOOLEAN]
Linked(v, entry, symbol) ==
    {LenientFile(v, entry, Text0(IF address.type = "R_64" THEN 4 ELSE At.rodata + 4, a, b), symbol[1], symbol[2],
                 <<address, RelAt(2, "R_32", 1), Rel(At.rodata + 8, "R_RELATIVE", 0)>>) :
       a \in {-1}, b \in {-1, 0, 1, -4, 7}, address \in Addresses}
LinkedFiles(v, entry, symbol) == {File(f, c) : f \in Linked(v, entry, symbol), c \in Configs}

------------------------------------------------------------------------------
(* Files that are not quite right.                                          *)
Base == LenientFile(0, 0, Text0(4, -1, 1), Sym(8, "FUNC", At.text + 8 * 5), String("function", 5),
                    <<RelAt(0, "R_64", 2), RelAt(2, "R_32", 1), Rel(At.rodata + 8, "R_RELATIVE", 0)>>)
WithHeader(f, field, values) == {[f EXCEPT !.eh[field] = x] : x \in values}
WithEntry(f, table, i, field, values) == {[f EXCEPT !.tables[table][i][field] = x] : x \in values}
Huge == U64Max - 15
BentHeaders(f) ==
    {[f EXCEPT !.eh.bad = {field}] : field \in UsualFields \cup {"ei_osabi", "ei_abiversion", "ei_pad", "e_type"}}
    \cup WithHeader(f, "machine", {"EM_SBPF", "EM_OTHER"}) \cup WithHeader(f, "flags", {1, 5})
    \cup WithHeader(f, "entry", {f.eh.entry - 8, f.eh.entry + 1, f.eh.entry + 8, f.eh.entry + 40, f.eh.entry + 48, Huge})
    \cup WithHeader(f, "phoff", {0, 60, Huge}) \cup WithHeader(f, "phnum", {0, 1, 3, 40})
    \cup WithHeader(f, "shoff", {64, 1284, Huge}) \cup WithHeader(f, "shnum", {0, 11}) \cup WithHeader(f, "shstrndx", {0, 2, 10})
    \cup {[f EXCEPT !.len = x] : x \in {51, 60, 100, At.end - 1}}
BentSections(f) ==
    WithEntry(f, At.sh, 1, "type", {"SHT_PROGBITS"})
    \cup WithEntry(f, At.sh, 2, "addr", {At.text - 8, Huge})
    \cup WithEntry(f, At.sh, 2, "size", {44, 40, 56, Huge}) \cup WithEntry(f, At.sh, 2, "type", {"SHT_NOBITS"})
    \cup WithEntry(f, At.sh, 3, "addr", {At.rodata + 8, At.rodata + 64, 2000, Huge})
    \cup WithEntry(f, At.sh, 3, "size", {24, 8, Huge}) \cup WithEntry(f, At.sh, 3, "name", {NameOff(1), NameOff(7), 200})
    \cup WithEntry(f, At.sh, 3, "type", {"SHT_NOBITS"})
    \cup WithEntry(f, At.sh, 8, "name", {NameOff(9)}) \cup WithEntry(f, At.sh, 10, "type", {"SHT_PROGBITS"})
    \cup {[f EXCEPT !.strings[At.shstrtab + NameOff(2)].name = Name("data", 0), !.tables[At.sh][3].writable = w] : w \in BOOLEAN}
    \cup {[f EXCEPT !.strings[At.shstrtab + NameOff(2)] = s] : s \in {String("bss", 0), [name |-> Name("rodata", 0), len |-> 16]}}
BentTables(f) ==
    WithEntry(f, At.dynamic, 1, "val", {0, 1, Huge}) \cup WithEntry(f, At.dynamic, 2, "val", {8})
    \cup WithEntry(f, At.dynamic, 3, "val", {0, 15, 32, 1600}) \cup WithEntry(f, At.dynamic, 4, "val", {0, 1, At.text})
    \cup WithEntry(f, At.dynamic, 4, "tag", {"DT_NULL", "DT_OTHER"})
    \cup WithEntry(f, At.ph, 1, "off", {Huge, 1}) \cup WithEntry(f, At.ph, 1, "memsz", {At.rel, Huge})
    \cup WithEntry(f, At.ph, 2, "off", {At.dynamic + 4, Huge}) \cup WithEntry(f, At.ph, 2, "type", {"PT_LOAD", "PT_NULL"})
    \cup WithEntry(f, At.rel, 1, "off", {At.end - 4, At.end - 8, At.end, At.rodata - 8}) \cup WithEntry(f, At.rel, 1, "sym", {7})
    \cup WithEntry(f, At.rel, 2, "sym", {7}) \cup WithEntry(f, At.rel, 2, "off", {At.end}) \cup WithEntry(f, At.rel, 2, "type", {"NONE"})
    \cup WithEntry(f, At.rel, 3, "off", {At.end - 4, At.text})
    \cup WithEntry(f, At.dynsym, 2, "name", {60}) \cup WithEntry(f, At.dynsym, 2, "value", {0, At.text - 8, At.rodata})
    \cup WithEntry(f, At.symtab, 2, "value", {At.text - 8, At.text + 8}) \cup WithEntry(f, At.symtab, 2, "name", {60})

(* Sections around the end of the region they are moved into: the text at   *)
(* an address, with the read-only data behind it or without, and a file so  *)
(* long that a section has its address as its offset there.                 *)
NotReadOnly(f) == [f EXCEPT !.strings[At.shstrtab + NameOff(2)].name = Name("comment", 0)]
Moved(f, addr) ==
    [f EXCEPT !.eh.entry = addr, !.tables[At.sh][2].addr = addr, !.tables[At.dynsym][2].value = addr + 8 * 5,
              !.tables[At.symtab][2].value = addr + 8 * 5]
WithData(f, addr) == [f EXCEPT !.tables[At.sh][3].addr = addr, !.tables[At.dynsym][3].value = addr]
RegionEnds == {MM_REGION_SIZE - 64, MM_REGION_SIZE - 48, MM_REGION_SIZE - 24, MM_REGION_SIZE, MM_REGION_SIZE + 8}
AtRegionEnd(f) ==
    {Moved(NotReadOnly(f), addr) : addr \in RegionEnds}
    \cup {WithData(Moved(f, addr), addr + 48) : addr \in RegionEnds}
    \cup {WithData(Moved(f, MM_REGION_SIZE), MM_REGION_SIZE), WithData(f, MM_REGION_SIZE)}
Long(f) ==
    LET addr == MM_REGION_SIZE
    IN  [Moved(f, addr) EXCEPT !.len = addr + 48, !.eh.shnum = 11,
           !.tables[At.sh] = [SectionHeaders EXCEPT ![2].name = NameOff(3)]
                             \o <<Shdr(NameOff(1), "SHT_PROGBITS", FALSE, addr, addr, 48)>>,
           !.tables[At.ph][1].filesz = addr + 48, !.tables[At.ph][1].memsz = addr + 48,
           !.tables[At.rel][1].off = addr, !.tables[At.rel][2].off = addr + 16,
           !.words = TextWords(addr, Text0(4, -1, 1)) @@ RoWords]
RegionFiles(f) == AtRegionEnd(f) \cup {Long(f), Long(NotReadOnly(f))}

BentFiles(files, c) == {File(f, c) : f \in files}

(* A file for the strict parser, with a data and a code segment.            *)
StrictText == <<Insn(Opcode(AluOps, "mov") + BPF_ALU64_STORE, 1, 0, 0, 0), Insn(EXIT, 0, 0, 0, 0), CallRel(2, -3), Insn(EXIT, 0, 0, 0, 0)>>
StrictFile ==
    [len |-> At.end,
     eh |-> [bad |-> {"e_shentsize"}, machine |-> "EM_BPF", flags |-> 3, entry |-> MM_BYTECODE_START + 16, phoff |-> At.ph, phnum |-> 2,
             shoff |-> At.sh, shnum |-> 10, shstrndx |-> 9],
     tables |-> At.ph :> <<Phdr("PT_LOAD", "PF_R", 176, MM_RODATA_START, 16, 16), Phdr("PT_LOAD", "PF_X", 192, MM_BYTECODE_START, 32, 32)>>
                @@ At.symtab :> <<ZeroEntry.sym, Sym(8, "FUNC", MM_BYTECODE_START + 16)>> @@ At.sh :> SectionHeaders,
     strings |-> SectionStrings @@ (At.strtab + 8) :> [name |-> EntrypointName, len |-> 6],
     words |-> 176 :> 7 @@ 180 :> 8 @@ 184 :> 9 @@ 188 :> 10 @@ TextWords(192, StrictText)]
BentStrict(f) ==
    UNION {{[f EXCEPT !.tables[At.ph][i].off = @ + 8], [f EXCEPT !.tables[At.ph][i].off = @ - 8],
            [f EXCEPT !.tables[At.ph][i].vaddr = @ + 8], [f EXCEPT !.tables[At.ph][i].paddr = @ + 8],
            [f EXCEPT !.tables[At.ph][i].filesz = @ - 8, !.tables[At.ph][i].memsz = @ - 8],
            [f EXCEPT !.tables[At.ph][i].filesz = Huge, !.tables[At.ph][i].memsz = Huge],
            [f EXCEPT !.tables[At.ph][i].memsz = @ + 8], [f EXCEPT !.tables[At.ph][i].flags = "PF_W"],
            [f EXCEPT !.tables[At.ph][i].type = "PT_NULL"]} : i \in {1, 2}}
    \cup {[f EXCEPT !.tables[At.ph] = <<Phdr("PT_LOAD", "PF_X", 120, MM_BYTECODE_START, 32, 32)>>, !.eh.phnum = 1,
                    !.eh.entry = MM_BYTECODE_START + 16, !.words = TextWords(120, StrictText)]}

MCInputs ==
    [f \in {"flow"} \X {0, 3} \X Flow \X Flow |-> FlowSources(f[2], f[3], f[4])]
    @@ [f \in {"calls"} \X {0, 1, 3} |-> CallSources(f[2])]
    @@ [f \in {"mnemonics"} \X {0, 2, 3} \X Suffixed |-> MnemonicSources(f[2], f[3])]
    @@ [f \in {"linked"} \X {0} \X {0, 3, 4} \X Symbols |-> LinkedFiles(f[2], f[3], f[4])]
    @@ [f \in {"bent"} \X Configs |-> BentFiles(BentHeaders(Base) \cup BentSections(Base) \cup BentTables(Base), f[2])]
    @@ [f \in {"region"} \X Configs |-> BentFiles(RegionFiles(Base), f[2])]
    @@ [f \in {"strict"} \X Configs |-> BentFiles(BentHeaders(StrictFile) \cup BentStrict(StrictFile) \cup {StrictFile}, f[2])]
=============================================================================
