---------------------------- MODULE SbpfDebugger ----------------------------
(* The interpreter under a debugger (sbpf/src/debugger.rs): instead of      *)
(* running to the end, execute_program hands the interpreter to a session   *)
(* that a client controls over a connection.  The client may set            *)
(* breakpoints, step, continue, interrupt, read and write.  gdbstub, which  *)
(* speaks the protocol, is external: it calls the handlers below while the  *)
(* program is stopped.                                                      *)
EXTENDS SbpfVm

CONSTANTS
    Debugged,           \* the cases that are debugged
    TextSectionOffset,  \* Executable::get_text_section_offset
    XmlLen,             \* bytes of the target description
    MaxCommands         \* bound: commands of a session

VARIABLE session

(* The stop reasons that end a session: gdbstub disconnects after them.     *)
Ends == {"Exited", "Terminated"}
Stop(why, code) == [why |-> why, code |-> code]

NoSession ==
    [conn |-> "Idle", debug_state |-> "Continue", breakpoints |-> <<>>, m |-> FirstVm(NoCase),
     stop |-> Stop("", 0), moved |-> FALSE, edited |-> FALSE, xml |-> <<>>, commands |-> 0]

get_dbg_pc(m) == m.pc * INSN_SIZE + TextSectionOffset

------------------------------------------------------------------------------
(* Registers: r0 to r9, then the stack pointer and the program counter; one *)
(* more can only be read.                                                   *)
Sp == 10
Pc == 11
InstructionCountRemaining == 12
from_raw_id(id) == id \in 0..InstructionCountRemaining
RegisterSize == W64 \div W8

read_register(m, id) ==
    CASE id \in 0..Sp -> m.reg[id]
      [] id = Pc -> get_dbg_pc(m)
      [] id = InstructionCountRemaining -> m.prev - m.due
write_register(m, id, r) ==
    CASE id \in 0..Sp -> [m EXCEPT !.reg[id] = r]
      [] id = Pc -> [m EXCEPT !.pc = r]
      [] id = InstructionCountRemaining -> m

read_registers(m) == [k \in 1..12 |-> read_register(m, k - 1)]
write_registers(m, regs) ==
    [m EXCEPT !.reg = [i \in Registers |-> regs[i + 1]], !.pc = regs[Pc + 1]]

(* The register file as the protocol sends it.                              *)
gdb_serialize(regs) == FlattenSeq([k \in 1..12 |-> Bytes(RegisterSize, regs[k])])
Deserializable(bytes) == Len(bytes) = 12 * RegisterSize
gdb_deserialize(bytes) ==
    [k \in 1..12 |-> Value(SubSeq(bytes, (k - 1) * RegisterSize + 1, k * RegisterSize))]

lldb_register_info(id) == [bitsize |-> RegisterSize * W8, offset |-> id * RegisterSize]

------------------------------------------------------------------------------
(* Memory can only be read, a byte at a time, and what is not mapped is     *)
(* skipped.  A lookup leaves its trace in the mapping's cache.              *)
enable_lower_rodata_vaddr(v) == v >= 3
get_host_ptr(mm, v, a) ==
    LET addr == IF ~enable_lower_rodata_vaddr(v) /\ a < MM_BYTECODE_START THEN a + MM_BYTECODE_START ELSE a
        f == find_region(mm, addr)
    IN  [host |-> IF f.index = NotFound THEN NoHost ELSE vm_to_host(f.mm.regions[f.index + 1], FALSE, addr, 1),
         mm |-> f.mm]
read_addrs(mm, v, start, len) ==
    FoldLeft(LAMBDA acc, k : get_host_ptr(acc, v, start + k - 1).mm, mm, [k \in 1..len |-> k])

------------------------------------------------------------------------------
(* One call of Interpreter::step, which says whether the program goes on.   *)
Stepped(m) == step([m EXCEPT !.res = Running], case.exe)
AtBreakpoint(m) == \E k \in 1..Len(session.breakpoints) : session.breakpoints[k] = get_dbg_pc(m)
Ended(m) == IF m.res.t = "ok" THEN Stop("Exited", U(W8, m.res.v)) ELSE Stop("Terminated", 0)

(* Running in Step mode: always one instruction, and a stop.  A breakpoint  *)
(* at the new place is reported even when the program has ended there.      *)
StepReason(m) ==
    IF AtBreakpoint(m) THEN Stop("SwBreak", 0)
    ELSE IF m.res = Running THEN Stop("DoneStep", 0) ELSE Ended(m)

(* Running in Continue mode: instructions until the end or a breakpoint.    *)
GoOn == Stop("", 0)
ContinuePastBreakpoints(m) == IF m.res # Running THEN Ended(m) ELSE GoOn
ContinueReason(m) ==
    IF m.res # Running THEN Ended(m) ELSE IF AtBreakpoint(m) THEN Stop("SwBreak", 0) ELSE GoOn

report_stop(s, reason) ==
    [s EXCEPT !.stop = reason, !.conn = IF reason.why \in Ends THEN "Disconnected"
                                        ELSE IF reason = GoOn THEN "Running" ELSE "Idle"]

RunSession ==
    /\ phase = "debug" /\ session.conn = "Running"
    /\ LET m == Stepped(session.m)
       IN  session' = [report_stop(session, IF session.debug_state = "Step" THEN StepReason(m) ELSE ContinueReason(m))
                         EXCEPT !.m = m, !.moved = TRUE]
    /\ UNCHANGED vars

(* A byte that arrives while the program runs is handed to gdbstub, which   *)
(* only knows the interrupt.                                                *)
CtrlCInterrupt ==
    /\ phase = "debug" /\ session.conn = "Running" /\ session.debug_state = "Continue"
    /\ session.commands < MaxCommands
    /\ session' = [report_stop(session, Stop("Signal", 0)) EXCEPT !.commands = @ + 1]
    /\ UNCHANGED vars

(* The commands of the client while the program is stopped.                 *)
Command(s) ==
    /\ phase = "debug" /\ session.conn = "Idle" /\ session.commands < MaxCommands
    /\ session' = [s EXCEPT !.commands = @ + 1]
    /\ UNCHANGED vars

Resumed(mode) == [session EXCEPT !.conn = "Running", !.debug_state = mode, !.moved = FALSE]
resume == Command(Resumed("Continue"))
resume_step == Command(Resumed("Step"))

add_sw_breakpoint(addr) == Command([session EXCEPT !.breakpoints = Append(@, addr)])
remove_sw_breakpoint(addr) ==
    LET pos == SelectInSeq(session.breakpoints, LAMBDA x : x = addr)
    IN  pos # 0 /\ Command([session EXCEPT !.breakpoints = RemoveAt(@, pos)])

ReadMemory(start, len) == Command([session EXCEPT !.m.mm = read_addrs(@, case.exe.v, start, len)])
WriteRegister(id, r) == from_raw_id(id) /\ Command([session EXCEPT !.m = write_register(@, id, r), !.edited = TRUE])
WriteRegisters(bytes) ==
    /\ Deserializable(bytes)
    /\ Command([session EXCEPT !.m = write_registers(@, gdb_deserialize(bytes)), !.edited = TRUE])

(* The target description is asked for in windows, after the part the       *)
(* client has; it ends with an empty answer.                                *)
Xml == [k \in 1..XmlLen |-> k]
target_description_xml(offset, length, buf_len) ==
    IF offset > XmlLen THEN <<>>
    ELSE SubSeq(Xml, offset + 1, Min({XmlLen, offset + length, offset + buf_len}))
FetchXml(length, buf_len) ==
    Command([session EXCEPT !.xml = @ \o target_description_xml(Len(@), length, buf_len)])

(* The client goes away and execute returns, wherever the program is.       *)
Detach == Command([session EXCEPT !.conn = "Disconnected"])

(* The end of execute_program after the session.                            *)
EndSession ==
    /\ phase = "debug" /\ session.conn = "Disconnected"
    /\ session' = [session EXCEPT !.m = Settle(@), !.conn = "Left"]
    /\ UNCHANGED vars

(* run_interpreter with a debug port.                                       *)
Attach ==
    /\ phase = "empty"
    /\ \E c \in Debugged :
         /\ verify(c.exe.prog, c.exe.v) = ""
         /\ case' = c
         /\ session' = [session EXCEPT !.m = FirstVm(c)]
    /\ phase' = "debug"
    /\ UNCHANGED <<interp, jit, executed, called>>

Places == {k * INSN_SIZE + TextSectionOffset : k \in 0..(Len(case.exe.prog) - 1)}
DebugNext ==
    \/ Next /\ UNCHANGED session
    \/ Attach \/ RunSession \/ CtrlCInterrupt \/ resume \/ resume_step \/ Detach \/ EndSession
    \/ \E addr \in Places : add_sw_breakpoint(addr) \/ remove_sw_breakpoint(addr)
    \/ \E start \in {0, MM_STACK_START - 1, MM_INPUT_START}, len \in {1, 3} : ReadMemory(start, len)
    \/ \E id \in {0, 6, Sp, Pc, InstructionCountRemaining} : WriteRegister(id, 2)
    \/ WriteRegisters(gdb_serialize([read_registers(session.m) EXCEPT ![1] = 1]))
    \/ \E length \in {2, 3}, buf_len \in {1, 3} : FetchXml(length, buf_len)

DebugInit == Init /\ session = NoSession
DebugSpec == DebugInit /\ [][DebugNext]_<<vars, session>>

------------------------------------------------------------------------------
RECURSIVE Finished(_, _)
Finished(m, x) == IF m.res # Running THEN Settle(m) ELSE Finished(step(m, x), x)
Outcome(m) == LET end == Finished(m, case.exe) IN <<end.res, end.rem, end.reg, end.host>>

(* Watching does not change the program, and what the watcher is shown is   *)
(* the machine: as long as nothing is written, wherever a session stops,    *)
(* steps, looks at memory or is interrupted, the rest of the program ends   *)
(* as it does without a debugger; an exit reported is the program's; a      *)
(* continued program never runs through a breakpoint; the units shown are   *)
(* those the context will have; every register is where lldb is told it is; *)
(* the target description arrives unbroken.                                 *)
DebuggerIsFaithful ==
    phase = "debug" =>
      LET m == session.m
          file == gdb_serialize(read_registers(m))
      IN  /\ ~session.edited /\ m.res = Running /\ session.conn # "Left" => Outcome(m) = Outcome(FirstVm(case))
          /\ ~session.edited /\ session.stop.why = "Exited" =>
               LET end == Finished(FirstVm(case), case.exe).res
               IN  end.t = "ok" /\ U(W8, end.v) = session.stop.code
          /\ session.conn = "Running" /\ session.moved => ~AtBreakpoint(m)
          /\ session.conn # "Left" => read_register(m, InstructionCountRemaining) = m.rem - m.due
          /\ gdb_deserialize(file) = [k \in 1..12 |-> U(W64, read_registers(m)[k])]
          /\ \A id \in 0..Pc :
               LET info == lldb_register_info(id)
               IN  Value(SubSeq(file, info.offset + 1, info.offset + info.bitsize \div W8)) = U(W64, read_register(m, id))
          /\ session.xml = SubSeq(Xml, 1, Len(session.xml))
=============================================================================
