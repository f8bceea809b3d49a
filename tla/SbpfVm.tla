------------------------------- MODULE SbpfVm -------------------------------
(* A program is verified and then executed by both engines, the interpreter *)
(* and compiled code, from the same registers, memory and budget            *)
(* (EbpfVm::execute_program, sbpf/src/vm.rs).  The engines do not share     *)
(* anything; they advance together, one guest instruction at a time, so     *)
(* that they can be compared.                                               *)
EXTENDS SbpfJit

CONSTANT Families       \* what may be executed: sets of Case records, by name

(* An executable with its registers, budget, memory and the compiler's key. *)
Case(exe, reg, units, aligned, regions, host, key) ==
    [exe |-> exe, reg |-> reg, units |-> units, aligned |-> aligned, regions |-> regions,
     host |-> host, key |-> key]

VARIABLES
    case,       \* the chosen case
    phase,      \* "empty", "loaded", "rejected", "uncompiled", "running" or "done"
    interp,     \* the interpreter's machine
    jit,        \* compiled code's machine
    executed,   \* instructions begun by each engine
    called      \* units spent by syscalls

vars == <<case, phase, interp, jit, executed, called>>

Mapping(c) == NewMapping(c.exe.v, c.aligned, FALSE, c.regions)
StackLen(c) == 3 * StackFrameSize
FirstVm(c) == NewVm(c.exe, c.reg, Mapping(c), c.host, c.units, StackLen(c))

NoCase == Case(Executable(0, <<>>, 0, <<>>, <<>>), [i \in Registers |-> 0], 0, FALSE, <<>>, <<>>, 0)

Init ==
    /\ case = NoCase
    /\ phase = "empty"
    /\ interp = FirstVm(case)
    /\ jit = NewJit(case.exe, interp)
    /\ executed = [interp |-> 0, jit |-> 0]
    /\ called = 0

(* EbpfVm::new for an executable.                                           *)
Load ==
    /\ phase = "empty"
    /\ \E f \in DOMAIN Families : case' \in Families[f]
    /\ phase' = "loaded"
    /\ interp' = FirstVm(case')
    /\ jit' = NewJit(case'.exe, interp')
    /\ UNCHANGED <<executed, called>>

(* Only a verified program in a well-formed address space is compiled and   *)
(* executed.                                                                *)
Verify ==
    /\ phase = "loaded"
    /\ phase' = IF verify(case.exe.prog, case.exe.v) # "" \/ ~interp.mm.initialized THEN "rejected"
                ELSE IF compile(case.exe) # "" THEN "uncompiled" ELSE "running"
    /\ UNCHANGED <<case, interp, jit, executed, called>>

Begun(before, after) == IF before.res = Running /\ after.res.e # "ExceededMaxInstructions" THEN 1 ELSE 0

(* Each engine that has not finished executes one more instruction.         *)
Step ==
    /\ phase = "running"
    /\ interp.res = Running \/ jit.res = Running
    /\ interp' = IF interp.res = Running THEN step(interp, case.exe) ELSE interp
    /\ jit' = IF jit.res = Running THEN jit_step(jit, case.exe, case.key) ELSE jit
    /\ executed' = [interp |-> executed.interp + Begun(interp, interp'),
                    jit |-> executed.jit + Begun(jit, jit')]
    /\ called' = called + (interp.rem - interp'.rem) - (IF interp'.rem < interp.rem THEN interp.due + 1 ELSE 0)
    /\ UNCHANGED <<case, phase>>

(* What is still due is charged to the context.                             *)
Finish ==
    /\ phase = "running"
    /\ interp.res # Running /\ jit.res # Running
    /\ phase' = "done"
    /\ interp' = Settle(interp)
    /\ jit' = Settle(jit)
    /\ UNCHANGED <<case, executed, called>>

Next == Load \/ Verify \/ Step \/ Finish
Spec == Init /\ [][Next]_vars

------------------------------------------------------------------------------
(* Compiled code simulates the interpreter: between two instructions it is  *)
(* at the same place with the same registers, memory and call depth, and    *)
(* its meter register holds the interpreter's remaining units plus the pc;  *)
(* and both end with the same result and charge the same.  A budget that    *)
(* runs out is the exception: compiled code only notices at its next check, *)
(* so its registers and memory may be some instructions ahead.              *)
EnginesAgree ==
    /\ phase = "running" /\ interp.res = Running =>
         /\ jit.res = Running
         /\ jit.pc = interp.pc /\ jit.depth = interp.depth
         /\ Guest(jit) = interp.reg
         /\ jit.host = interp.host /\ jit.rem = interp.rem
         /\ jit.r[METER] - jit.pc = interp.prev - interp.due
    /\ phase = "done" =>
         /\ jit.res = interp.res
         /\ jit.rem = interp.rem
         /\ interp.res.e # "ExceededMaxInstructions" =>
              Guest(jit) = interp.reg /\ jit.host = interp.host

(* What the verifier lets through never makes either engine panic, fault in *)
(* the processor or meet an instruction it cannot execute: divisors, shift  *)
(* amounts, swap widths, registers, jump targets and lddw pairs are what    *)
(* the engines assume without checking again; and the compiler has code for *)
(* all of it.  A call may still fail.                                       *)
VerifiedNeverPanics ==
    /\ phase # "uncompiled"
    /\ \A m \in {interp, jit} :
         /\ m.res.e \notin {"panic", "InvalidInstruction"}
         /\ m.res.e = "UnsupportedInstruction" => get_insn(case.exe.prog, m.pc).opc \in {0, CALL_IMM}

(* The context is charged one unit per executed instruction and what the    *)
(* syscalls cost, never more than the budget: no instruction is free and    *)
(* none is paid for twice around a syscall, a failed access or the last     *)
(* unit (due_insn_count, previous_instruction_meter).                       *)
MeterAccounted ==
    phase = "done" => case.units - interp.rem = Least(case.units, executed.interp + called)

(* Every execution is bounded by its budget: the interpreter executes at    *)
(* most one instruction per unit, whatever loops, recursion or syscalls the *)
(* program has, and compiled code, which does not check the meter at every  *)
(* instruction, runs on for at most the distance of two checkpoints.        *)
BudgetBounds ==
    /\ executed.interp + called <= case.units
    /\ executed.jit - executed.interp <= CheckpointDistance

(* A verified program, however it ends, stays within its budget, pays for    *)
(* what it executed and never panics its host (verifier.rs, check;           *)
(* interpreter.rs, step; jit.rs, emit_validate_instruction_count).           *)
VmIsBounded == VerifiedNeverPanics /\ MeterAccounted /\ BudgetBounds

(* A translated address is looked up in the region that holds it, whatever  *)
(* the cache holds from earlier lookups and replacements.                   *)
LookupsAreRight ==
    \A m \in {interp, jit} :
       \A i \in 1..Len(m.mm.regions) :
          LET r == m.mm.regions[i]
          IN  \A a \in r.vm_addr..(RangeEnd(r) - 1) : find_region(m.mm, a).index = i - 1
=============================================================================
