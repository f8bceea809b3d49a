----------------------------- MODULE HostMemory -----------------------------
(***************************************************************************)
(* The memory the virtual machine takes from its host: the pages compiled  *)
(* programs are written to and executed from (memory_management.rs and     *)
(* JitProgram in jit.rs), and the growing buffers that hold stacks, heaps  *)
(* and serialised parameters (aligned_memory.rs).                          *)
(*                                                                         *)
(* Each compiler is a thread.  Every try of a call to the operating system *)
(* is a step of its own and may fail, so that what one thread has given    *)
(* back may belong to another before the first one goes on.  Machine code  *)
(* is only its length: what it does is SbpfJit's subject.                  *)
(***************************************************************************)
EXTENDS Integers, Sequences

CONSTANTS
    Compilers,      \* threads that compile, use and drop one program each
    NPages,         \* pages of the address space
    PageSize,       \* bytes of a page
    EntrySize,      \* bytes of an entry of the table of instructions
    ProgramSizes,   \* numbers of instructions of the programs compiled
    NoopRate,       \* config.noop_instruction_rate
    CheckpointDistance, \* config.instruction_meter_checkpoint_distance
    MAX_EMPTY_PROGRAM_MACHINE_CODE_LENGTH,
    MAX_START_PADDING_LENGTH,
    MAX_MACHINE_CODE_LENGTH_PER_INSTRUCTION,
    MACHINE_CODE_PER_INSTRUCTION_METER_CHECKPOINT,
    MaxCapacity,    \* bytes of the largest buffer
    ByteValues      \* the values of a byte, 0 among them

VARIABLES
    pages,          \* owner and protection of every page
    progs,          \* what each compiler holds
    buffer          \* one AlignedMemory, and what it should read as

hostVars == <<pages, progs, buffer>>

RETRY_COUNT == 3
Free == [owner |-> "nobody", prot |-> "none"]
PageIds == 0 .. NPages - 1

round_to_page_size(value) == ((value + PageSize - 1) \div PageSize) * PageSize

-----------------------------------------------------------------------------
(* Calls to the operating system.  A call is tried RETRY_COUNT times.      *)

Span(raw, size) == raw .. raw + (size \div PageSize) - 1

\* One more try has failed; the last one is an error, handled by `failed`.
TryFails(p, failed) == IF p.tries + 1 = RETRY_COUNT THEN [failed EXCEPT !.tries = 0]
                       ELSE [p EXCEPT !.tries = @ + 1]

Done(p, next) == [p EXCEPT !.tries = 0, !.at = next]

Mapped(c, raw, size) ==
    [i \in PageIds |-> IF i \in Span(raw, size) THEN [owner |-> c, prot |-> "rw"] ELSE pages[i]]

Unmapped(raw, size) == [i \in PageIds |-> IF i \in Span(raw, size) THEN Free ELSE pages[i]]

Protected(raw, size, executable_flag) ==
    [i \in PageIds |-> IF i \in Span(raw, size)
                       THEN [pages[i] EXCEPT !.prot = IF executable_flag THEN "rx" ELSE "r"] ELSE pages[i]]

-----------------------------------------------------------------------------
(* JitProgram.  `trespassed` records that it unmapped or protected a page  *)
(* that was not its own.                                                   *)

NoProgram == [at |-> "none", raw |-> 0, pc |-> 0, text_section |-> 0, offset |-> 0, table |-> <<>>,
              tries |-> 0, leaked |-> FALSE, trespassed |-> FALSE]

pc_loc_table_size(p) == round_to_page_size(p.pc * EntrySize)

Raw(p) == p.raw
Text(p) == p.raw + pc_loc_table_size(p) \div PageSize

mem_size(p) == pc_loc_table_size(p) + round_to_page_size(p.text_section)

code_length_estimate(pc) ==
    LET base == MAX_EMPTY_PROGRAM_MACHINE_CODE_LENGTH + MAX_START_PADDING_LENGTH
                    + MAX_MACHINE_CODE_LENGTH_PER_INSTRUCTION * pc
        noops == IF NoopRate = 0 THEN 0 ELSE base \div NoopRate
        checkpoints == IF CheckpointDistance = 0 THEN 0
                       ELSE (pc \div CheckpointDistance) * MACHINE_CODE_PER_INSTRUCTION_METER_CHECKPOINT
    IN base + noops + checkpoints

Trespasses(c, span) == \E i \in span : pages[i].owner # c

Update(c, p, trespassed) == progs' = [progs EXCEPT ![c] = [p EXCEPT !.trespassed = @ \/ trespassed]]

\* JitCompiler::new: the length of the program decides what is allocated.
NewCompiler(c) ==
    /\ progs[c].at = "none"
    /\ \E pc \in ProgramSizes :
         Update(c, [NoProgram EXCEPT !.at = "allocate", !.pc = pc,
                                     !.text_section = round_to_page_size(code_length_estimate(pc))], FALSE)
    /\ UNCHANGED <<pages, buffer>>

\* JitProgram::new: an error leaves nothing behind.
allocate_pages(c) ==
    LET p == progs[c]
        size == pc_loc_table_size(p) + p.text_section
    IN /\ p.at = "allocate"
       /\ \/ \E raw \in PageIds :
               /\ Span(raw, size) \subseteq PageIds
               /\ \A i \in Span(raw, size) : pages[i] = Free
               /\ pages' = Mapped(c, raw, size)
               /\ Update(c, [Done(p, "subroutines") EXCEPT !.raw = raw], FALSE)
          \/ /\ Update(c, TryFails(p, [NoProgram EXCEPT !.at = "gone"]), FALSE)
             /\ UNCHANGED pages
    /\ UNCHANGED buffer

\* The padding and the subroutines come first, and nothing checks their room.
emit_subroutines(c) ==
    LET p == progs[c]
        padding == IF NoopRate = 0 THEN {0} ELSE {0, MAX_START_PADDING_LENGTH - 1}
    IN /\ p.at = "subroutines"
       /\ \E n \in {1, MAX_EMPTY_PROGRAM_MACHINE_CODE_LENGTH}, q \in padding :
            Update(c, [p EXCEPT !.at = "emit", !.offset = n + q], FALSE)
       /\ UNCHANGED <<pages, buffer>>

HasRoom(p) == p.offset + MAX_MACHINE_CODE_LENGTH_PER_INSTRUCTION * 2 < p.text_section

\* One turn of the loop of compile, and the bumper after the last one.  An
\* instruction with what is inserted around it takes at most the two lengths
\* that the check leaves.
EmitInstruction(c) ==
    LET p == progs[c]
        last == Len(p.table) = p.pc
    IN /\ p.at = "emit"
       /\ IF ~HasRoom(p) THEN Update(c, [p EXCEPT !.at = "drop"], FALSE)
          ELSE \E n \in {1, 2 * MAX_MACHINE_CODE_LENGTH_PER_INSTRUCTION} :
                 Update(c, [p EXCEPT !.offset = @ + n, !.at = IF last THEN "seal" ELSE "emit",
                                     !.table = IF last THEN @ ELSE Append(@, p.offset)], FALSE)
       /\ UNCHANGED <<pages, buffer>>

\* seal sets the slice of the code to what is used of it.
TextSectionUsage(p) == [p EXCEPT !.text_section = p.offset]

\* The first half of seal: the pages behind the code are given back, and only
\* then does the program forget them.
SealFree(c) ==
    LET p == progs[c]
        code_size == round_to_page_size(p.offset)
        size == round_to_page_size(p.text_section) - code_size
        raw == Text(p) + code_size \div PageSize
    IN /\ p.at = "seal"
       /\ IF size = 0 THEN Update(c, [TextSectionUsage(p) EXCEPT !.at = "protect table"], FALSE) /\ UNCHANGED pages
          ELSE \/ /\ pages' = Unmapped(raw, size)
                  /\ Update(c, Done(TextSectionUsage(p), "protect table"), Trespasses(c, Span(raw, size)))
               \/ /\ Update(c, TryFails(p, [p EXCEPT !.at = "drop"]), FALSE)
                  /\ UNCHANGED pages
       /\ UNCHANGED buffer

protect_pages(c, from, raw, size, executable_flag, next) ==
    LET p == progs[c]
    IN /\ p.at = from
       /\ \/ /\ pages' = Protected(raw, size, executable_flag)
             /\ Update(c, Done(p, next), Trespasses(c, Span(raw, size)))
          \/ /\ Update(c, TryFails(p, [p EXCEPT !.at = "drop"]), FALSE)
             /\ UNCHANGED pages
       /\ UNCHANGED buffer

SealTable(c) == protect_pages(c, "protect table", Raw(progs[c]), pc_loc_table_size(progs[c]), FALSE, "protect code")

SealCode(c) ==
    protect_pages(c, "protect code", Text(progs[c]), round_to_page_size(progs[c].offset), TRUE, "ready")

\* The last reference to a compiled program goes.
Release(c) ==
    /\ progs[c].at = "ready"
    /\ Update(c, [progs[c] EXCEPT !.at = "drop"], FALSE)
    /\ UNCHANGED <<pages, buffer>>

\* Drop ignores an error: then the pages stay mapped.
drop(c) ==
    LET p == progs[c]
    IN /\ p.at = "drop"
       /\ \/ /\ pages' = Unmapped(Raw(p), mem_size(p))
             /\ Update(c, Done(p, "gone"), Trespasses(c, Span(Raw(p), mem_size(p))))
          \/ /\ Update(c, TryFails(p, [p EXCEPT !.at = "gone", !.leaked = TRUE]), FALSE)
             /\ UNCHANGED pages
       /\ UNCHANGED buffer

-----------------------------------------------------------------------------
(* AlignedMemory: a buffer of fixed capacity that only grows.              *)

Uninit == -1

Slices == UNION {[1 .. n -> ByteValues] : n \in 0 .. MaxCapacity}

\* AlignedVec::new; `reads` is what a reader of the buffer must find.
AlignedVec(max_len, zeroed) ==
    [cells |-> [i \in 1 .. max_len |-> IF zeroed THEN 0 ELSE Uninit], length |-> 0,
     zero_up_to_max_len |-> zeroed, reads |-> <<>>]

capacity(b) == Len(b.cells)

as_slice(b) == SubSeq(b.cells, 1, b.length)

\* The bytes are copied behind the end and become part of the buffer.
Copied(b, data) ==
    [b EXCEPT !.cells = [i \in DOMAIN @ |-> IF i \in b.length + 1 .. b.length + Len(data)
                                            THEN data[i - b.length] ELSE @[i]],
              !.length = @ + Len(data)]

from_slice(data) == [Copied(AlignedVec(Len(data), FALSE), data) EXCEPT !.reads = data]

zero_filled(max_len) ==
    [AlignedVec(max_len, TRUE) EXCEPT !.length = max_len, !.reads = [i \in 1 .. max_len |-> 0]]

write_ptr_for(b, bytes) == b.length + bytes <= capacity(b)

Filled(b, num, value) ==
    IF b.zero_up_to_max_len /\ value = 0 THEN [b EXCEPT !.length = @ + num]
    ELSE Copied(b, [i \in 1 .. num |-> value])

OnBuffer(b) == buffer' = b /\ UNCHANGED <<pages, progs>>

\* A new buffer takes the place of the dropped one.
NewBuffer ==
    /\ buffer.reads = <<>>
    /\ \E max_len \in 0 .. MaxCapacity, zeroed \in BOOLEAN :
         OnBuffer(AlignedVec(max_len, zeroed)) \/ OnBuffer(zero_filled(max_len))

fill_write ==
    \E num \in 0 .. MaxCapacity, value \in ByteValues :
        IF write_ptr_for(buffer, num)
        THEN OnBuffer([Filled(buffer, num, value) EXCEPT !.reads = @ \o [i \in 1 .. num |-> value]])
        ELSE OnBuffer(buffer)

\* io::Write::write.
write ==
    \E data \in Slices :
        IF write_ptr_for(buffer, Len(data)) THEN OnBuffer([Copied(buffer, data) EXCEPT !.reads = @ \o data])
        ELSE OnBuffer(buffer)

\* The unchecked writes are for callers that know there is room.
write_all_unchecked ==
    \E data \in Slices :
        /\ write_ptr_for(buffer, Len(data))
        /\ OnBuffer([Copied(buffer, data) EXCEPT !.reads = @ \o data])

clone == OnBuffer([from_slice(as_slice(buffer)) EXCEPT !.reads = buffer.reads])

\* A program or a syscall stores into the part already written.
as_slice_mut ==
    \E i \in 1 .. buffer.length, value \in ByteValues :
        OnBuffer([buffer EXCEPT !.cells[i] = value, !.reads[i] = value])
-----------------------------------------------------------------------------
HostInit ==
    /\ pages = [i \in PageIds |-> Free]
    /\ progs = [c \in Compilers |-> NoProgram]
    /\ buffer = AlignedVec(0, FALSE)

PageStep(c) ==
    \/ NewCompiler(c)
    \/ allocate_pages(c)
    \/ emit_subroutines(c)
    \/ EmitInstruction(c)
    \/ SealFree(c)
    \/ SealTable(c)
    \/ SealCode(c)
    \/ Release(c)
    \/ drop(c)

BufferStep == NewBuffer \/ fill_write \/ write \/ write_all_unchecked \/ clone \/ as_slice_mut

-----------------------------------------------------------------------------
Held(c) == {i \in PageIds : pages[i].owner = c}

(***************************************************************************)
(* Memory of the host stays sound whatever call fails and whatever other   *)
(* threads map meanwhile.  A compiled program never unmaps or protects a   *)
(* page of another one, writes its code inside what it allocated, holds    *)
(* exactly the pages mem_size reports once it is ready (its table read     *)
(* only, its code executable and no page writable), finds every            *)
(* instruction inside its code, and holds nothing once it is gone unless   *)
(* unmapping failed to the end.  A buffer reads as what was written to it  *)
(* and never shows bytes nobody wrote.                                     *)
(***************************************************************************)
HostMemoryIsSafe ==
    /\ \A c \in Compilers :
         LET p == progs[c]
         IN /\ ~p.trespassed
            /\ p.offset <= p.text_section
            /\ p.at = "ready" =>
                 /\ Held(c) = Span(Raw(p), mem_size(p))
                 /\ \A i \in Held(c) : pages[i].prot = IF i < Text(p) THEN "r" ELSE "rx"
                 /\ \A i \in DOMAIN p.table : p.table[i] < p.text_section
            /\ p.at = "gone" /\ ~p.leaked => Held(c) = {}
    /\ buffer.length <= capacity(buffer)
    /\ as_slice(buffer) = buffer.reads
=============================================================================
