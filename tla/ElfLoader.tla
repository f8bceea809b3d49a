----------------------------- MODULE ElfLoader -----------------------------
(* FunctionRegistry (sbpf/src/program.rs), the ELF parser                   *)
(* (sbpf/src/elf_parser/mod.rs) and Executable::load (sbpf/src/elf.rs): a   *)
(* file becomes an executable, by the strict parser from version 3 on and by *)
(* the lenient one, which relocates, before.                                *)
(*                                                                          *)
(* The registry has the functions of a program, or the built-in functions of *)
(* its loader, by call key.  A name is a pair of what kind of name it is and *)
(* a number; hash_symbol_name is murmur3, of which only its collisions      *)
(* matter.                                                                  *)
(*                                                                          *)
(* A file is its length, its header, the tables and strings at their        *)
(* offsets, and the 4-byte words of its text and read-only data; bytes that *)
(* belong to none of them are zero.  Offsets and addresses are in bytes.    *)
(* The words of an instruction are its head and its immediate; the other    *)
(* words are numbers.                                                       *)
EXTENDS SbpfIsa, SequencesExt

CONSTANT hash_symbol_name(_)    \* the key of a name

Name(kind, n) == <<kind, n>>
EntrypointName == Name("entrypoint", 0)
NoName == Name("", 0)
PcBytes(pc) == Name("pc", pc)           \* the little endian bytes of a pc

EmptyRegistry == <<>>
Registered(reg, key, err) == [reg |-> reg, key |-> key, err |-> err]

(* A key names one value; registering it again is fine with the same value. *)
register_function(reg, key, name, value) ==
    CASE key \notin DOMAIN reg -> Registered((key :> [name |-> name, value |-> value]) @@ reg, key, "")
      [] key \in DOMAIN reg /\ reg[key].value = value -> Registered(reg, key, "")
      [] OTHER -> Registered(reg, key, "SymbolHashCollision")

(* A variant that lets a function have the key of a syscall.                *)
RegisterOverBuiltins(reg, builtins, labels, hashed, name, value) ==
    LET hash == IF name = EntrypointName THEN hash_symbol_name(EntrypointName)
                ELSE hash_symbol_name(PcBytes(value))
        kept == IF labels \/ name = EntrypointName THEN name ELSE NoName
    IN  register_function(reg, IF hashed THEN hash ELSE value, kept, value)

(* Hashed keys may not be those of the loader's functions.  Names are only  *)
(* kept when the configuration asks for labels.                             *)
register_function_hashed_legacy(reg, builtins, labels, hashed, name, value) ==
    LET hash == IF name = EntrypointName THEN hash_symbol_name(EntrypointName)
                ELSE hash_symbol_name(PcBytes(value))
        kept == IF labels \/ name = EntrypointName THEN name ELSE NoName
    IN  IF hashed /\ hash \in builtins THEN Registered(reg, hash, "SymbolHashCollision")
        ELSE register_function(reg, IF hashed THEN hash ELSE value, kept, value)

unregister_function(reg, key) == [k \in DOMAIN reg \ {key} |-> reg[k]]

lookup_by_name(reg, name) == {k \in DOMAIN reg : reg[k].name = name}

(* SBPFVersion::calculate_call_imm_target_pc: the key of an internal call.  *)
calculate_call_imm_target_pc(v, pc, imm) ==
    U(W32, IF static_syscalls(v) THEN pc + imm + 1 ELSE imm)

(* Executable::new_from_text_bytes: an entry point is registered if there   *)
(* is none.                                                                 *)
new_from_text_bytes(v, prog, reg, builtins, labels) ==
    LET named == lookup_by_name(reg, EntrypointName)
        added == register_function_hashed_legacy(reg, builtins, labels, ~static_syscalls(v), EntrypointName, 0)
    IN  IF named # {}
        THEN [err |-> "", v |-> v, prog |-> prog, functions |-> reg,
              entry |-> reg[CHOOSE k \in named : \A j \in named : k <= j].value]
        ELSE [err |-> added.err, v |-> v, prog |-> prog, functions |-> added.reg, entry |-> 0]

------------------------------------------------------------------------------
SizeOf == [ehdr |-> 64, phdr |-> 56, shdr |-> 64, sym |-> 24, rel |-> 16, dyn |-> 16]
Alignment == 8          \* of every structure

U64Max == 2^W64 - 1
SatAdd(a, b) == IF a + b > U64Max THEN U64Max ELSE a + b
SatSub(a, b) == IF a < b THEN 0 ELSE a - b
Overflows(a, b) == a + b > U64Max

Ok(x) == [err |-> "", val |-> x]
Fail(e) == [err |-> e, val |-> <<>>]

(* Ranges are half open.                                                    *)
RangeLen(r) == SatSub(r[2], r[1])
InBytes(f, r) == r[1] <= r[2] /\ r[2] <= f.len
InRange(r, x) == r[1] <= x /\ x < r[2]
check_that_there_is_no_overlap(a, b) == a[2] <= b[1] \/ b[2] <= a[1]

Phdr(type, flags, off, vaddr, filesz, memsz) ==
    [type |-> type, flags |-> flags, off |-> off, vaddr |-> vaddr, paddr |-> vaddr, filesz |-> filesz, memsz |-> memsz]
Shdr(name, type, writable, addr, off, size) ==
    [name |-> name, type |-> type, writable |-> writable, addr |-> addr, off |-> off, size |-> size]
Sym(name, kind, val) == [name |-> name, kind |-> kind, value |-> val]
Rel(off, type, sym) == [off |-> off, type |-> type, sym |-> sym]
Dyn(tag, val) == [tag |-> tag, val |-> val]
ZeroEntry ==
    [phdr |-> Phdr("PT_NULL", "", 0, 0, 0, 0), shdr |-> Shdr(0, "SHT_NULL", FALSE, 0, 0, 0),
     sym |-> Sym(0, "NOTYPE", 0), rel |-> Rel(0, "NONE", 0), dyn |-> Dyn("DT_NULL", 0)]

PhdrFileRange(ph) == IF ph.type = "PT_LOAD" THEN <<ph.off, SatAdd(ph.off, ph.filesz)>> ELSE <<0, 0>>
PhdrVmRange(ph) == <<ph.vaddr, SatAdd(ph.vaddr, ph.memsz)>>
file_range(sh) == IF sh.type = "SHT_NOBITS" THEN <<0, 0>> ELSE <<sh.off, SatAdd(sh.off, sh.size)>>
vm_range(sh) == <<sh.addr, SatAdd(sh.addr, sh.size)>>
is_function(sym) == sym.kind = "FUNC"

(* The entries of a table in a range of the file.                           *)
slice_from_bytes(f, kind, r) ==
    LET entry(i) == IF r[1] \in DOMAIN f.tables /\ i <= Len(f.tables[r[1]]) THEN f.tables[r[1]][i] ELSE ZeroEntry[kind]
    IN  CASE RangeLen(r) % SizeOf[kind] # 0 -> Fail("InvalidSize")
          [] RangeLen(r) % SizeOf[kind] = 0 /\ ~InBytes(f, r) -> Fail("OutOfBounds")
          [] RangeLen(r) % SizeOf[kind] = 0 /\ InBytes(f, r) /\ r[1] % Alignment # 0 -> Fail("InvalidAlignment")
          [] OTHER -> Ok([i \in 1..(RangeLen(r) \div SizeOf[kind]) |-> entry(i)])

SliceAt(f, kind, off, size) ==
    IF Overflows(off, size) THEN Fail("OutOfBounds") ELSE slice_from_bytes(f, kind, <<off, off + size>>)
slice_from_section_header(f, kind, sh) == SliceAt(f, kind, sh.off, sh.size)
slice_from_program_header(f, kind, ph) == SliceAt(f, kind, ph.off, ph.filesz)

(* A string ends at its zero byte, which must lie in the section and within *)
(* the maximal length.                                                      *)
NoString == [name |-> NoName, len |-> 0]
get_string_in_section(f, sh, off, maximum_length) ==
    LET start == sh.off + off
        string == IF start \in DOMAIN f.strings THEN f.strings[start] ELSE NoString
        end == IF sh.off + sh.size <= start + maximum_length THEN sh.off + sh.size ELSE start + maximum_length
    IN  IF sh.type # "SHT_STRTAB" THEN Fail("InvalidSectionHeader")
        ELSE IF Overflows(sh.off, off) \/ Overflows(sh.off, sh.size) \/ Overflows(start, maximum_length)
                \/ ~InBytes(f, <<start, end>>)
        THEN Fail("OutOfBounds")
        ELSE IF start + string.len >= end THEN Fail("StringTooLong") ELSE Ok(string.name)

SECTION_NAME_LENGTH_MAXIMUM == 16
SYMBOL_NAME_LENGTH_MAXIMUM == 64

------------------------------------------------------------------------------
(* The header: bad holds the names of the fields without their usual value. *)
HeaderRange == <<0, SizeOf.ehdr>>
ProgramHeaderRange(eh) == <<eh.phoff, SizeOf.phdr * eh.phnum + eh.phoff>>
SectionHeaderRange(eh) == <<eh.shoff, SizeOf.shdr * eh.shnum + eh.shoff>>

parse_file_header(f) == IF InBytes(f, HeaderRange) THEN Ok(f.eh) ELSE Fail("OutOfBounds")

parse_program_header_table(f) ==
    LET r == ProgramHeaderRange(f.eh)
    IN  CASE r[2] > U64Max -> Fail("OutOfBounds")
          [] r[2] <= U64Max /\ ~check_that_there_is_no_overlap(HeaderRange, r) -> Fail("Overlap")
          [] OTHER -> slice_from_bytes(f, "phdr", r)

parse_section_header_table(f, ph_range) ==
    LET r == SectionHeaderRange(f.eh)
    IN  CASE r[2] > U64Max -> Fail("OutOfBounds")
          [] r[2] <= U64Max /\ ~(check_that_there_is_no_overlap(HeaderRange, r) /\ check_that_there_is_no_overlap(ph_range, r))
               -> Fail("Overlap")
          [] OTHER -> slice_from_bytes(f, "shdr", r)

UsualFields == {"ei_mag", "ei_class", "ei_data", "ei_version", "e_version", "e_ehsize", "e_phentsize", "e_shentsize"}

(* Where the first failing check of a sequence fails, "" if none does.      *)
FirstError(n, error(_)) ==
    LET failing == {i \in 1..n : error(i) # ""}
    IN  IF failing = {} THEN "" ELSE error(CHOOSE i \in failing : \A j \in failing : i <= j)

(* Loadable segments ascend and lie in the file.                            *)
CheckSegments(f, phs) ==
    LET loads(i) == phs[i].type = "PT_LOAD"
        ordered(i) == \A j \in 1..(i - 1) : loads(j) => phs[j].vaddr <= phs[i].vaddr
    IN  FirstError(Len(phs), LAMBDA i :
          CASE ~loads(i) -> ""
            [] loads(i) /\ ~ordered(i) -> "InvalidProgramHeader"
            [] OTHER -> IF Overflows(phs[i].off, phs[i].filesz) \/ phs[i].off + phs[i].filesz > f.len THEN "OutOfBounds" ELSE "")

(* Sections ascend in the file and keep clear of the headers.               *)
CheckSections(f, shs, ph_range, sh_range) ==
    LET clear(r) == \A h \in {HeaderRange, ph_range, sh_range} : check_that_there_is_no_overlap(r, h)
        range(i) == <<shs[i].off, shs[i].off + shs[i].size>>
        held(i) == shs[i].type # "SHT_NOBITS"
    IN  FirstError(Len(shs), LAMBDA i :
          CASE ~held(i) -> ""
            [] held(i) /\ Overflows(shs[i].off, shs[i].size) -> "OutOfBounds"
            [] OTHER -> IF ~clear(range(i)) THEN "Overlap"
                        ELSE IF \E j \in 1..(i - 1) : held(j) /\ range(i)[1] < range(j)[2] THEN "SectionNotInOrder"
                        ELSE IF range(i)[2] > f.len THEN "OutOfBounds" ELSE "")

(* parse_sections: every section has a name, the symbol tables at most once.*)
UniqueSections == {Name("symtab", 0), Name("strtab", 0), Name("dynstr", 0)}
SectionNames(f, shs, maximum_length) ==
    [i \in 1..Len(shs) |-> get_string_in_section(f, shs[f.eh.shstrndx + 1], shs[i].name, maximum_length)]
Named(names, n) == {i \in 1..Len(names) : names[i] = Ok(n)}
parse_sections(names) ==
    FirstError(Len(names), LAMBDA i :
      IF names[i].err # "" THEN names[i].err
      ELSE IF names[i].val \in UniqueSections /\ \E j \in 1..(i - 1) : names[j] = names[i]
      THEN "InvalidSectionHeader" ELSE "")

------------------------------------------------------------------------------
(* parse_dynamic: the dynamic table of the segment, or else of the section. *)
FirstOf(seq, Test(_)) == LET found == SelectSeq(seq, Test) IN IF found = <<>> THEN Fail("none") ELSE Ok(found[1])

DynamicTable(f, phs, shs) ==
    LET segment == FirstOf(phs, LAMBDA ph : ph.type = "PT_DYNAMIC")
        section == FirstOf(shs, LAMBDA sh : sh.type = "SHT_DYNAMIC")
        bySegment == IF segment.err = "" THEN slice_from_program_header(f, "dyn", segment.val) ELSE segment
        bySection == slice_from_section_header(f, "dyn", section.val)
    IN  CASE bySegment.err = "" -> bySegment
          [] bySegment.err # "" /\ section.err # "" -> Ok(<<>>)
          [] bySegment.err # "" /\ section.err = "" ->
               IF bySection.err # "" THEN Fail("InvalidDynamicSectionTable") ELSE bySection

DynamicTags == {"DT_REL", "DT_RELENT", "DT_RELSZ", "DT_SYMTAB"}
DynamicValues(table) ==
    LET nulls == {i \in 1..Len(table) : table[i].tag = "DT_NULL"}
        used == {i \in 1..Len(table) : \A n \in nulls : i < n}
        of(tag) == {i \in used : table[i].tag = tag}
    IN  [tag \in DynamicTags |->
           IF of(tag) = {} THEN 0 ELSE table[CHOOSE i \in of(tag) : \A j \in of(tag) : j <= i].val]

(* program_header_for_vaddr gives the first; an overflow before it fails.   *)
program_header_for_vaddr(phs, vaddr) ==
    FirstOf(phs, LAMBDA ph : Overflows(ph.vaddr, ph.memsz) \/ InRange(<<ph.vaddr, ph.vaddr + ph.memsz>>, vaddr))

parse_dynamic_relocations(f, phs, shs, dyn) ==
    LET vaddr == dyn["DT_REL"]
        size == dyn["DT_RELSZ"]
        ph == program_header_for_vaddr(phs, vaddr)
        sh == FirstOf(shs, LAMBDA s : s.addr = vaddr)
        offset == IF ph.err = "" THEN vaddr - ph.val.vaddr + ph.val.off ELSE sh.val.off
        table == SliceAt(f, "rel", offset, size)
    IN  IF vaddr = 0 THEN Ok(<<>>)
        ELSE IF dyn["DT_RELENT"] # SizeOf.rel \/ size = 0 THEN Fail("InvalidDynamicSectionTable")
        ELSE IF ph.err = "" /\ (Overflows(ph.val.vaddr, ph.val.memsz) \/ offset > U64Max) THEN Fail("OutOfBounds")
        ELSE IF ph.err # "" /\ sh.err # "" THEN Fail("InvalidDynamicSectionTable")
        ELSE IF Overflows(offset, size) THEN Fail("OutOfBounds")
        ELSE IF table.err # "" THEN Fail("InvalidDynamicSectionTable") ELSE table

get_symbol_table_of_section(f, sh) ==
    IF sh.type \notin {"SHT_SYMTAB", "SHT_DYNSYM"} THEN Fail("InvalidSectionHeader")
    ELSE slice_from_section_header(f, "sym", sh)

parse_dynamic_symbol_table(f, shs, dyn) ==
    LET sh == FirstOf(shs, LAMBDA s : s.addr = dyn["DT_SYMTAB"])
    IN  CASE dyn["DT_SYMTAB"] = 0 -> Ok(<<>>)
          [] dyn["DT_SYMTAB"] # 0 /\ sh.err # "" -> Fail("InvalidDynamicSectionTable")
          [] OTHER -> get_symbol_table_of_section(f, sh.val)

------------------------------------------------------------------------------
(* Elf64::parse, and what it found.                                         *)
Parsed(err, shs, names, rels, syms) == [err |-> err, shs |-> shs, names |-> names, rels |-> rels, syms |-> syms]
ParseError(e) == Parsed(e, <<>>, <<>>, <<>>, <<>>)

ParseTables(f, phs, shs) ==
    LET names == SectionNames(f, shs, SECTION_NAME_LENGTH_MAXIMUM)
        dynamic == DynamicTable(f, phs, shs)
        dyn == DynamicValues(dynamic.val)
        rels == parse_dynamic_relocations(f, phs, shs, dyn)
        syms == parse_dynamic_symbol_table(f, shs, dyn)
    IN  CASE f.eh.shstrndx = 0 -> ParseError("NoSectionNameStringTable")
          [] f.eh.shstrndx # 0 /\ parse_sections(names) # "" -> ParseError(parse_sections(names))
          [] OTHER -> IF dynamic.err # "" THEN ParseError(dynamic.err)
                      ELSE IF rels.err # "" THEN ParseError(rels.err)
                      ELSE Parsed(syms.err, shs, names, rels.val, syms.val)

parse(f) ==
    LET phs == parse_program_header_table(f)
        shs == parse_section_header_table(f, ProgramHeaderRange(f.eh))
        sections == CheckSections(f, shs.val, ProgramHeaderRange(f.eh), SectionHeaderRange(f.eh))
    IN  IF parse_file_header(f).err # "" THEN ParseError(parse_file_header(f).err)
        ELSE IF f.eh.bad \cap UsualFields # {} \/ f.eh.shstrndx >= f.eh.shnum THEN ParseError("InvalidFileHeader")
        ELSE IF phs.err # "" THEN ParseError(phs.err)
        ELSE IF shs.err # "" THEN ParseError(shs.err)
        ELSE IF shs.val = <<>> \/ shs.val[1].type # "SHT_NULL" THEN ParseError("InvalidSectionHeader")
        ELSE IF CheckSegments(f, phs.val) # "" THEN ParseError(CheckSegments(f, phs.val))
        ELSE IF sections # "" THEN ParseError(sections) ELSE ParseTables(f, phs.val, shs.val)

(* The name of a dynamic symbol, or of a symbol, by the section it is in.   *)
NameIn(f, elf, section, no_table, off) ==
    LET at == Named(elf.names, section)
    IN  IF at = {} THEN Fail(no_table)
        ELSE get_string_in_section(f, elf.shs[CHOOSE i \in at : TRUE], off, SYMBOL_NAME_LENGTH_MAXIMUM)
dynamic_symbol_name(f, elf, off) == NameIn(f, elf, Name("dynstr", 0), "NoDynamicStringTable", off)
symbol_name(f, elf, off) == NameIn(f, elf, Name("strtab", 0), "NoStringTable", off)
symbol_table(f, elf) ==
    LET at == Named(elf.names, Name("symtab", 0))
        table == get_symbol_table_of_section(f, elf.shs[CHOOSE i \in at : TRUE])
    IN  IF at = {} \/ table.err # "" THEN <<>> ELSE table.val

------------------------------------------------------------------------------
WordSize == 4
BYTE_OFFSET_IMMEDIATE == 4
InsnHead(insn) == [opc |-> insn.opc, dst |-> insn.dst, src |-> insn.src, off |-> insn.off]
MM_RODATA_START == 0
enable_stricter_elf_headers(v) == v >= 3
enable_lower_rodata_vaddr(v) == v >= 3
E_FLAGS_END == 52
get_sbpf_version(f) == IF f.eh.flags \in Versions THEN f.eh.flags ELSE 5     \* 5: Reserved

(* A configuration of the loader.                                           *)
Config(reject_broken_elfs, optimize_rodata, labels) ==
    [reject_broken_elfs |-> reject_broken_elfs, optimize_rodata |-> optimize_rodata, labels |-> labels]

(* Words at multiples of WordSize; a write outside of the tracked words     *)
(* changes bytes that nothing reads later.                                  *)
WordAt(words, o) == IF o \in DOMAIN words THEN words[o] ELSE 0
Put(words, o, x) == IF o \in DOMAIN words THEN [words EXCEPT ![o] = x] ELSE words
WordInFile(f, o) == SatAdd(o, WordSize) <= f.len
Offsets(r) == {o \in r[1]..(r[2] - 1) : (o - r[1]) % WordSize = 0}
InsnAt(words, o) ==
    LET h == words[o]
    IN  Insn(h.opc, h.dst, h.src, h.off, S(W32, words[o + BYTE_OFFSET_IMMEDIATE]))

(* An executable.  ro is the read-only section: its address and its words,  *)
(* which are those of the file when it is borrowed.                         *)
Executable(words, ro, text_vaddr, text, entry, functions) ==
    [err |-> "", v |-> 5, words |-> words, ro |-> ro, text_vaddr |-> text_vaddr, text |-> text, entry |-> entry,
     functions |-> functions]
Borrowed(vaddr, r) == [owned |-> FALSE, vaddr |-> vaddr, range |-> r, words |-> <<>>]
Owned(vaddr, len, words) == [owned |-> TRUE, vaddr |-> vaddr, range |-> <<0, len>>, words |-> words]
LoadError(e) == [Executable(<<>>, Borrowed(0, <<0, 0>>), 0, <<0, 0>>, 0, EmptyRegistry) EXCEPT !.err = e]

(* get_text_bytes: where the text starts among the words it is read from.   *)
(* A slice that is not in bounds panics.                                    *)
TextStart(x) == IF x.ro.owned THEN x.text_vaddr - x.ro.vaddr ELSE x.text[1]
TextInBounds(x) ==
    ~x.ro.owned \/ (TextStart(x) >= 0 /\ TextStart(x) + RangeLen(x.text) <= x.ro.range[2])
get_text_bytes(x) ==
    [i \in 1..(RangeLen(x.text) \div INSN_SIZE) |->
       InsnAt(IF x.ro.owned THEN x.ro.words ELSE x.words, TextStart(x) + (i - 1) * INSN_SIZE)]

(* get_ro_region: the word the program reads at an address of the region.   *)
RoWord(x, vaddr) ==
    LET o == vaddr - x.ro.vaddr
    IN  IF x.ro.owned THEN WordAt(x.ro.words, o) ELSE WordAt(x.words, x.ro.range[1] + o)
RoMapped(x, vaddr) == vaddr - x.ro.vaddr \in 0..(RangeLen(x.ro.range) - WordSize)

------------------------------------------------------------------------------
(* load_with_strict_parser.                                                 *)
StrictFields == (UsualFields \ {"e_shentsize"}) \cup {"ei_osabi", "ei_abiversion", "ei_pad"}
StrictTableRange(eh) == <<SizeOf.ehdr, SizeOf.phdr * eh.phnum + SizeOf.ehdr>>
StrictHeader(f) ==
    /\ f.eh.bad \cap StrictFields = {} /\ f.eh.machine = "EM_BPF" /\ f.eh.phoff = SizeOf.ehdr
    /\ f.eh.phnum # 0 /\ StrictTableRange(f.eh)[2] <= f.len

StrictSegment(f, ph, flags, vaddr, expected_offset) ==
    /\ ph.type = "PT_LOAD" /\ ph.flags = flags
    /\ ph.off = expected_offset /\ ph.off < f.len /\ ph.off % INSN_SIZE = 0
    /\ ph.vaddr = vaddr /\ ph.paddr = vaddr
    /\ ph.filesz = ph.memsz /\ ph.filesz <= SatSub(f.len, ph.off) /\ ph.filesz % INSN_SIZE = 0
    /\ ph.memsz < MM_REGION_SIZE

(* The labels are for debugging; a file without proper tables makes it      *)
(* panic.                                                                   *)
StrictLabels(f, bytecode) ==
    LET shs == parse_section_header_table(f, StrictTableRange(f.eh))
        names == SectionNames(f, shs.val, 64)
        strtab == Named(names, Name("strtab", 0))
        symtab == Named(names, Name("symtab", 0))
        last(s) == shs.val[CHOOSE i \in s : \A j \in s : j <= i]
        syms == slice_from_section_header(f, "sym", last(symtab))
        add(a, sym) ==
          LET pc == SatSub(sym.value, bytecode.vaddr) \div INSN_SIZE
              name == get_string_in_section(f, last(strtab), sym.name, 255)
              r == register_function(a.val, U(W32, pc), name.val, pc)
          IN  IF a.err # "" \/ sym.kind \notin {"FUNC", "SECTION"} THEN a
              ELSE IF name.err # "" \/ r.err # "" THEN Fail("panic") ELSE Ok(r.reg)
    IN  IF shs.err # "" \/ f.eh.shstrndx = 0 THEN Fail("panic")
        ELSE IF f.eh.shstrndx >= Len(shs.val) THEN Fail("OutOfBounds")
        ELSE IF (\E i \in 1..Len(names) : names[i].err # "") \/ strtab = {} \/ symtab = {} THEN Fail("panic")
        ELSE IF syms.err # "" THEN Fail("panic") ELSE FoldLeft(add, Ok(EmptyRegistry), syms.val)

load_with_strict_parser(f, config) ==
    LET table == StrictTableRange(f.eh)
        phs == slice_from_bytes(f, "phdr", table).val
        skip == phs[1].flags # "PF_R"
        bytecode == IF skip THEN phs[1] ELSE phs[2]
        first == StrictSegment(f, phs[1], "PF_R", MM_RODATA_START, table[2])
        code == StrictSegment(f, bytecode, "PF_X", MM_BYTECODE_START, IF skip THEN table[2] ELSE table[2] + phs[1].filesz)
        ro == IF skip THEN <<table[2], table[2]>> ELSE PhdrFileRange(phs[1])
        functions == IF config.labels THEN StrictLabels(f, bytecode) ELSE Ok(EmptyRegistry)
    IN  IF parse_file_header(f).err # "" THEN LoadError(parse_file_header(f).err)
        ELSE IF ~StrictHeader(f) THEN LoadError("InvalidFileHeader")
        ELSE IF ~skip /\ f.eh.phnum < 2 THEN LoadError("InvalidFileHeader")
        ELSE IF ~(skip \/ first) \/ ~code THEN LoadError("InvalidProgramHeader")
        ELSE IF ~InRange(PhdrVmRange(bytecode), SatAdd(f.eh.entry, INSN_SIZE - 1)) \/ f.eh.entry % INSN_SIZE # 0
        THEN LoadError("InvalidFileHeader")
        ELSE IF functions.err # "" THEN LoadError(functions.err)
        ELSE Executable(f.words, Borrowed(MM_RODATA_START, ro), bytecode.vaddr, PhdrFileRange(bytecode),
                        SatSub(f.eh.entry, bytecode.vaddr) \div INSN_SIZE, functions.val)

------------------------------------------------------------------------------
(* Executable::validate.                                                    *)
Text == Name("text", 0)
Unsupported(name, sh) == name = Ok(Name("bss", 0)) \/ (sh.writable /\ name = Ok(Name("data", 0)))

get_section(elf, name) == elf.shs[CHOOSE i \in Named(elf.names, name) : \A j \in Named(elf.names, name) : i <= j]

validate(f, elf) ==
    CASE "ei_osabi" \in f.eh.bad -> "WrongAbi"
      [] "ei_osabi" \notin f.eh.bad /\ f.eh.machine \notin {"EM_BPF", "EM_SBPF"} -> "WrongMachine"
      [] OTHER -> IF "e_type" \in f.eh.bad THEN "WrongType"
                  ELSE IF Cardinality(Named(elf.names, Text)) # 1 THEN "NotOneTextSection"
                  ELSE IF \E i \in 1..Len(elf.shs) : Unsupported(elf.names[i], elf.shs[i])
                  THEN "WritableSectionNotSupported"
                  ELSE IF \E i \in 1..Len(elf.shs) : \/ Overflows(elf.shs[i].off, elf.shs[i].size)
                                                     \/ ~InBytes(f, <<elf.shs[i].off, elf.shs[i].off + elf.shs[i].size>>)
                  THEN "ValueOutOfBounds"
                  ELSE IF ~InRange(vm_range(get_section(elf, Text)), f.eh.entry) THEN "EntrypointOutOfBounds" ELSE ""

------------------------------------------------------------------------------
(* parse_ro_sections.                                                       *)
RoNames == {Text, Name("rodata", 0), Name("data.rel.ro", 0), Name("eh_frame", 0)}
RoSections(elf) == {i \in 1..Len(elf.shs) : elf.names[i].err = "" /\ elf.names[i].val \in RoNames}
MinOf(s) == CHOOSE x \in s : \A y \in s : x <= y
MaxOf(s) == CHOOSE x \in s : \A y \in s : x >= y
(* Addresses below the region are moved into it.                            *)
InBytecodeRegion(addr) == IF addr >= MM_REGION_SIZE THEN addr ELSE SatAdd(addr, MM_REGION_SIZE)

(* The words of the sections at their addresses, the later over the earlier.*)
CopySections(elf, words, lowest, length) ==
    LET start(i) == SatSub(elf.shs[i].addr, lowest)
        at(o) == {i \in RoSections(elf) : InRange(<<start(i), start(i) + RangeLen(file_range(elf.shs[i]))>>, o)}
        from(i, o) == WordAt(words, file_range(elf.shs[i])[1] + o - start(i))
    IN  [o \in Offsets(<<0, length>>) |-> IF at(o) = {} THEN 0 ELSE from(MaxOf(at(o)), o)]

parse_ro_sections(f, config, elf, words) ==
    LET ro == RoSections(elf)
        sh(i) == elf.shs[i]
        size(i) == RangeLen(file_range(sh(i)))
        broken == {i \in ro : sh(i).addr # sh(i).off}
        lowest == MinOf({sh(i).addr : i \in ro})
        highest == MaxOf({SatAdd(sh(i).addr, size(i)) : i \in ro})
        fill == MapThenSumSet(size, ro)
        contiguous == MaxOf(ro) + 1 - MinOf(ro) = Cardinality(ro)
        base == IF config.optimize_rodata THEN lowest ELSE 0
        length == highest - base
    IN  IF \/ config.reject_broken_elfs /\ broken # {}
           \/ \E i \in ro : SatAdd(sh(i).addr, MM_REGION_SIZE) > MM_STACK_START \/ ~InBytes(f, file_range(sh(i)))
           \/ config.reject_broken_elfs /\ SatAdd(lowest, fill) > highest
        THEN Fail("ValueOutOfBounds")
        ELSE IF config.optimize_rodata /\ broken = {} /\ contiguous
        THEN Ok(Borrowed(InBytecodeRegion(lowest), <<lowest, highest>>))
        ELSE IF length > f.len THEN Fail("ValueOutOfBounds")
        ELSE Ok(Owned(InBytecodeRegion(base), length, CopySections(elf, words, base, length)))

------------------------------------------------------------------------------
(* relocate.  The state is the registry and the words; an error stops it.   *)
Relocating(reg, words, err) == [reg |-> reg, words |-> words, err |-> err]
Stop(s, e) == [s EXCEPT !.err = e]

(* A relative call gets the key of the function it calls.                   *)
FixRelativeCall(s, config, builtins, range, i) ==
    LET count == RangeLen(range) \div INSN_SIZE
        o == range[1] + i * INSN_SIZE
        insn == InsnAt(s.words, o)
        target_pc == i + 1 + insn.imm
        name == IF config.labels THEN Name("function", target_pc) ELSE NoName
        r == register_function_hashed_legacy(s.reg, builtins, config.labels, TRUE, name, target_pc)
    IN  CASE s.err # "" \/ insn.opc # CALL_IMM \/ insn.imm = -1 -> s
          [] OTHER -> IF target_pc \notin 0..(count - 1) THEN Stop(s, "RelativeJumpOutOfBounds")
                      ELSE IF r.err # "" THEN Stop(s, r.err)
                      ELSE Relocating(r.reg, Put(s.words, o + BYTE_OFFSET_IMMEDIATE, r.key), "")

PutAddress(words, low, high, addr) == Put(Put(words, low, addr % MM_REGION_SIZE), high, addr \div MM_REGION_SIZE)

(* R_Bpf_64_64: the address of a symbol into a lddw.                        *)
RelocateSymbol(f, s, elf, rel) ==
    LET low == rel.off + BYTE_OFFSET_IMMEDIATE
        high == low + INSN_SIZE
        addr == SatAdd(elf.syms[rel.sym + 1].value, WordAt(s.words, low))
    IN  IF ~WordInFile(f, low) THEN Stop(s, "ValueOutOfBounds")
        ELSE IF rel.sym >= Len(elf.syms) THEN Stop(s, "UnknownSymbol")
        ELSE IF ~WordInFile(f, high) THEN Stop(s, "ValueOutOfBounds")
        ELSE [s EXCEPT !.words = PutAddress(@, low, high, InBytecodeRegion(addr))]

(* R_Bpf_64_Relative: the address in a lddw, or in a word of data, whose    *)
(* upper half holds the address (an old toolchain's mistake).               *)
RelocateRelative(f, s, text, rel) ==
    LET low == rel.off + BYTE_OFFSET_IMMEDIATE
        high == low + INSN_SIZE
        addr == WordAt(s.words, high) * MM_REGION_SIZE + WordAt(s.words, low)
        data == SatAdd(MM_REGION_SIZE, WordAt(s.words, low))
    IN  IF ~WordInFile(f, low) THEN Stop(s, "ValueOutOfBounds")
        ELSE IF ~InRange(file_range(text), rel.off)
        THEN [s EXCEPT !.words = PutAddress(@, rel.off, low, data)]
        ELSE IF ~WordInFile(f, high) THEN Stop(s, "ValueOutOfBounds")
        ELSE IF addr = 0 THEN Stop(s, "InvalidVirtualAddress")
        ELSE [s EXCEPT !.words = PutAddress(@, low, high, InBytecodeRegion(addr))]

(* R_Bpf_64_32: a call of a symbol, which is a function of the program or   *)
(* the name of a syscall.                                                   *)
RelocateCall(f, s, config, builtins, elf, text, rel) ==
    LET imm == rel.off + BYTE_OFFSET_IMMEDIATE
        sym == elf.syms[rel.sym + 1]
        name == dynamic_symbol_name(f, elf, sym.name)
        pc == SatSub(sym.value, text.addr) \div INSN_SIZE
        r == register_function_hashed_legacy(s.reg, builtins, config.labels, TRUE, name.val, pc)
        hash == hash_symbol_name(name.val)
    IN  IF rel.sym >= Len(elf.syms) \/ name.err # "" THEN Stop(s, "UnknownSymbol")
        ELSE IF is_function(sym) /\ sym.value # 0
        THEN IF ~InRange(vm_range(text), sym.value) THEN Stop(s, "ValueOutOfBounds")
             ELSE IF r.err # "" THEN Stop(s, r.err)
             ELSE IF ~WordInFile(f, imm) THEN Stop(s, "ValueOutOfBounds")
             ELSE Relocating(r.reg, Put(s.words, imm, r.key), "")
        ELSE IF config.reject_broken_elfs /\ hash \notin builtins THEN Stop(s, "UnresolvedSymbol")
        ELSE IF ~WordInFile(f, imm) THEN Stop(s, "ValueOutOfBounds")
        ELSE [s EXCEPT !.words = Put(@, imm, hash)]

Relocate(f, s, config, builtins, elf, text, rel) ==
    CASE s.err # "" -> s
      [] s.err = "" /\ rel.type = "R_64" -> RelocateSymbol(f, s, elf, rel)
      [] s.err = "" /\ rel.type = "R_RELATIVE" -> RelocateRelative(f, s, text, rel)
      [] s.err = "" /\ rel.type = "R_32" -> RelocateCall(f, s, config, builtins, elf, text, rel)
      [] OTHER -> Stop(s, "UnknownRelocation")

(* The functions of the symbol table, when labels are wanted.               *)
LabelSymbol(f, s, builtins, elf, text, sym) ==
    LET name == symbol_name(f, elf, sym.name)
        pc == SatSub(sym.value, text.addr) \div INSN_SIZE
        r == register_function_hashed_legacy(s.reg, builtins, TRUE, TRUE, name.val, pc)
    IN  CASE s.err # "" \/ ~is_function(sym) -> s
          [] OTHER -> IF ~InRange(vm_range(text), sym.value) THEN Stop(s, "ValueOutOfBounds")
                      ELSE IF name.err # "" THEN Stop(s, "UnknownSymbol")
                      ELSE IF r.err # "" THEN Stop(s, r.err) ELSE [s EXCEPT !.reg = r.reg]

(* relocate in two parts: the calls by distance, then the relocations and   *)
(* the labels.                                                              *)
RelocateCalls(f, config, builtins, elf) ==
    LET range == file_range(get_section(elf, Text))
    IN  FoldLeft(LAMBDA s, i : FixRelativeCall(s, config, builtins, range, i), Relocating(EmptyRegistry, f.words, ""),
                 [i \in 1..(RangeLen(range) \div INSN_SIZE) |-> i - 1])
relocate(f, config, builtins, elf, calls) ==
    LET text == get_section(elf, Text)
        relocated == FoldLeft(LAMBDA s, r : Relocate(f, s, config, builtins, elf, text, r), calls, elf.rels)
    IN  IF config.labels
        THEN FoldLeft(LAMBDA s, y : LabelSymbol(f, s, builtins, elf, text, y), relocated, symbol_table(f, elf))
        ELSE relocated

------------------------------------------------------------------------------
(* load and load_with_lenient_parser, one stage at a time: "none", "parsed",*)
(* "called", "relocated" and "done".                                        *)
NotLoaded == [stage |-> "none", elf |-> ParseError("")]
Finished(elf, x) == [stage |-> "done", elf |-> elf, x |-> x]

Link(f, config, elf, relocated, builtins) ==
    LET text == get_section(elf, Text)
        text_vaddr == SatAdd(text.addr, MM_REGION_SIZE)
        offset == SatSub(f.eh.entry, text.addr)
        entry == offset \div INSN_SIZE
        r == register_function_hashed_legacy(
               unregister_function(relocated.reg, hash_symbol_name(EntrypointName)), builtins, config.labels, TRUE,
               EntrypointName, entry)
        ro == parse_ro_sections(f, config, elf, relocated.words)
    IN  IF relocated.err # "" THEN LoadError(relocated.err)
        ELSE IF offset % INSN_SIZE # 0 THEN LoadError("InvalidEntrypoint")
        ELSE IF r.err # "" THEN LoadError(r.err)
        ELSE IF ro.err # "" THEN LoadError(ro.err)
        ELSE IF config.optimize_rodata /\ ro.val.vaddr \div MM_REGION_SIZE # 1 THEN LoadError("ValueOutOfBounds")
        ELSE Executable(relocated.words, ro.val, text_vaddr, file_range(text), entry, r.reg)

load_with_lenient_parser(f, config, builtins, l) ==
    LET text == get_section(l.elf, Text)
        valid == validate(f, l.elf)
        misplaced == \/ config.reject_broken_elfs /\ text.addr # text.off
                     \/ SatAdd(text.addr, MM_REGION_SIZE) > MM_STACK_START
    IN  CASE l.stage = "parsed" ->
               IF l.elf.err # "" THEN Finished(l.elf, LoadError(l.elf.err))
               ELSE IF valid # "" THEN Finished(l.elf, LoadError(valid))
               ELSE IF misplaced THEN Finished(l.elf, LoadError("ValueOutOfBounds"))
               ELSE [stage |-> "called", elf |-> l.elf, s |-> RelocateCalls(f, config, builtins, l.elf)]
          [] l.stage = "called" -> [l EXCEPT !.stage = "relocated", !.s = relocate(f, config, builtins, l.elf, @)]
          [] l.stage = "relocated" ->
               Finished(l.elf, [Link(f, config, l.elf, l.s, builtins) EXCEPT !.v = get_sbpf_version(f)])

load(f, config, enabled, builtins, l) ==
    LET v == get_sbpf_version(f)
    IN  IF l.stage # "none" THEN load_with_lenient_parser(f, config, builtins, l)
        ELSE IF f.len < E_FLAGS_END THEN Finished(l.elf, LoadError("OutOfBounds"))
        ELSE IF v \notin enabled THEN Finished(l.elf, LoadError("UnsupportedSBPFVersion"))
        ELSE IF enable_stricter_elf_headers(v) THEN Finished(l.elf, [load_with_strict_parser(f, config) EXCEPT !.v = v])
        ELSE [stage |-> "parsed", elf |-> parse(f)]
=============================================================================
