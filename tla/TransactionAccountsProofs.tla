--------------------- MODULE TransactionAccountsProofs ---------------------
(* Borrows of a transaction's accounts are exclusive and the account store  *)
(* keeps its copy of their data: BorrowsAreExclusive and StoreKeepsItsCopy  *)
(* of TransactionAccounts, for any accounts, any message, any limits and    *)
(* any number of borrows and changes.                                       *)
EXTENDS TransactionAccounts, FiniteSetTheorems, WellFoundedInduction, TLAPS

------------------------------------------------------------------------------
(* The context: the running instruction has accounts of the transaction     *)

Slice == [ptr : Int, len : Int]
Frame ==
    [program : Int, nesting_level : Int, index_of_caller_instruction : Int, instruction_accounts : Slice,
     instruction_data : Slice]

(* The trace has one frame more than there are configured instructions,     *)
(* and the stack holds configured instructions.  An error ends the          *)
(* transaction, and with it the need for either.                            *)
ContextFields == {"trace", "stack", "next_top_level", "instruction_accounts", "err"}
Configured(c) ==
    /\ ContextFields \subseteq DOMAIN c
    /\ c.trace \in Seq(Frame)
    /\ c.stack \in Seq(Nat)
    /\ c.next_top_level \in Nat
    /\ c.instruction_accounts \in Seq(Seq(Metas))
    /\ Len(c.trace) = Len(c.instruction_accounts) + 1
    /\ Len(TopLevel) <= Len(c.instruction_accounts)
    /\ \A h \in 1..Len(c.stack) : c.stack[h] \in 1..Len(c.instruction_accounts)
ContextInv ==
    /\ "err" \in DOMAIN context
    /\ context.err = "" => Configured(context)

(* The addresses and lengths that the constants give are numbers.           *)
LEMMA AddressTypes ==
  ASSUME ConstantsAreRight
  PROVE  /\ GUEST_INSTRUCTION_DATA_BASE_ADDRESS \in Int
         /\ GUEST_INSTRUCTION_ACCOUNT_BASE_ADDRESS \in Int
         /\ Len(TopLevel) \in Nat
         /\ Len(Loaded) \in Nat
BY DEF ConstantsAreRight, GUEST_INSTRUCTION_DATA_BASE_ADDRESS, GUEST_INSTRUCTION_ACCOUNT_BASE_ADDRESS,
       GUEST_ACCOUNT_PAYLOAD_BASE_ADDRESS

(* Appending to a sequence, and replacing one of its elements, keep its     *)
(* type.                                                                    *)
LEMMA AppendType ==
  ASSUME NEW S, NEW s \in Seq(S), NEW e \in S
  PROVE  Append(s, e) \in Seq(S) /\ Len(Append(s, e)) = Len(s) + 1
OBVIOUS

(* The same for EXCEPT.                                                     *)
LEMMA ReplaceType ==
  ASSUME NEW S, NEW s \in Seq(S), NEW k \in 1..Len(s), NEW e \in S
  PROVE  [s EXCEPT ![k] = e] \in Seq(S) /\ Len([s EXCEPT ![k] = e]) = Len(s)
OBVIOUS

(* configure_vm_slices gives a frame its slices.                            *)
LEMMA SlicesType ==
  ASSUME ConstantsAreRight, NEW frame \in Frame, NEW index \in Nat, NEW accounts \in Seq(Metas)
  PROVE  configure_vm_slices(frame, index, accounts) \in Frame
<1> DEFINE data == VmSlice(GUEST_INSTRUCTION_DATA_BASE_ADDRESS + index - 1, 1)
           list == VmSlice(GUEST_INSTRUCTION_ACCOUNT_BASE_ADDRESS + index - 1, Len(accounts))
<1>1. data \in Slice /\ list \in Slice
  BY AddressTypes DEF VmSlice, Slice
<1>2. ASSUME NEW x \in Slice, NEW y \in Slice
      PROVE  [frame EXCEPT !.instruction_data = x, !.instruction_accounts = y] \in Frame
  BY DEF Frame
<1> HIDE DEF data, list
<1>3. [frame EXCEPT !.instruction_data = data, !.instruction_accounts = list] \in Frame
  BY <1>1, <1>2
<1> QED
  BY <1>3 DEF configure_vm_slices, data, list

(* The context of a new transaction is configured.                          *)
LEMMA ContextInit ==
  ASSUME ConstantsAreRight
  PROVE  Configured(NewContext)
<1>1. DefaultFrame \in Frame
  BY DEF DefaultFrame, VmSlice, Slice, Frame, NoCaller
<1>2. ASSUME NEW k \in 1..Len(TopLevel)
      PROVE  /\ TopLevel[k].accounts \in Seq(Metas)
             /\ configure_vm_slices([DefaultFrame EXCEPT !.program = TopLevel[k].program], k, TopLevel[k].accounts) \in Frame
  <2>1. TopLevel[k] \in Instruction
    BY DEF ConstantsAreRight
  <2>2. TopLevel[k].program \in Int /\ TopLevel[k].accounts \in Seq(Metas)
    BY <2>1 DEF Instruction, Accounts
  <2>3. [DefaultFrame EXCEPT !.program = TopLevel[k].program] \in Frame
    BY <1>1, <2>2 DEF Frame
  <2> QED
    BY <2>2, <2>3, SlicesType, AddressTypes
<1>3. NewContext.trace \in Seq(Frame) /\ Len(NewContext.trace) = Len(TopLevel) + 1
  <2> DEFINE frame(k) ==
        IF k <= Len(TopLevel)
        THEN configure_vm_slices([DefaultFrame EXCEPT !.program = TopLevel[k].program], k, TopLevel[k].accounts)
        ELSE DefaultFrame
  <2>1. \A k \in 1..(Len(TopLevel) + 1) : frame(k) \in Frame
    BY <1>1, <1>2, AddressTypes
  <2> HIDE DEF frame
  <2>2. LET s == [k \in 1..(Len(TopLevel) + 1) |-> frame(k)] IN s \in Seq(Frame) /\ Len(s) = Len(TopLevel) + 1
    BY <2>1, AddressTypes
  <2>3. NewContext.trace = [k \in 1..(Len(TopLevel) + 1) |-> frame(k)]
    BY DEF NewContext, frame
  <2> QED
    BY <2>2, <2>3
<1>4. NewContext.instruction_accounts \in Seq(Seq(Metas)) /\ Len(NewContext.instruction_accounts) = Len(TopLevel)
  <2> DEFINE list(k) == TopLevel[k].accounts
  <2>1. \A k \in 1..Len(TopLevel) : list(k) \in Seq(Metas)
    BY <1>2
  <2>2. NewContext.instruction_accounts = [k \in 1..Len(TopLevel) |-> list(k)]
    BY DEF NewContext
  <2> HIDE DEF list
  <2> QED
    BY <2>1, <2>2, AddressTypes
<1>5. /\ NewContext.stack = <<>>
      /\ NewContext.next_top_level = 0
      /\ ContextFields \subseteq DOMAIN NewContext
  BY DEF NewContext, ContextFields
<1> QED
  BY <1>3, <1>4, <1>5, AddressTypes DEF Configured

(* An instruction of the transaction's accounts is configured at the end.   *)
LEMMA ConfigureStep ==
  ASSUME ConstantsAreRight, NEW c, Configured(c), NEW ix \in Instruction, NEW caller \in Int,
         NEW d, d = configure_instruction_at_index(c, get_instruction_trace_length(c) + 1, ix, caller)
  PROVE  /\ ContextFields \subseteq DOMAIN d
         /\ d.trace \in Seq(Frame) /\ Len(d.trace) = Len(c.trace)
         /\ d.stack = c.stack /\ d.err = c.err /\ d.next_top_level = c.next_top_level
         /\ d.instruction_accounts \in Seq(Seq(Metas))
         /\ Len(d.instruction_accounts) = Len(c.instruction_accounts) + 1
<1> DEFINE index == get_instruction_trace_length(c) + 1
           from == [c.trace[index] EXCEPT !.index_of_caller_instruction = caller, !.program = ix.program]
           frame == configure_vm_slices(from, index, ix.accounts)
<1>1. index = Len(c.trace) /\ index \in 1..Len(c.trace)
  BY DEF get_instruction_trace_length, Configured
<1>2. ix.program \in Int /\ ix.accounts \in Seq(Metas)
  BY DEF Instruction, Accounts
<1>3. from \in Frame
  <2>1. c.trace[index] \in Frame
    BY <1>1 DEF Configured
  <2>2. ASSUME NEW f \in Frame, NEW p \in Int
        PROVE  [f EXCEPT !.index_of_caller_instruction = caller, !.program = p] \in Frame
    BY DEF Frame
  <2> QED
    BY <1>2, <2>1, <2>2
<1>4. frame \in Frame
  BY <1>1, <1>2, <1>3, SlicesType
<1>5. d = [c EXCEPT !.total_number_of_instructions_in_trace = @ + 1, !.cpi_scratchpad.ptr = @ + 1,
                    !.trace[index] = frame, !.instruction_accounts = Append(@, ix.accounts)]
  BY DEF configure_instruction_at_index
<1> HIDE DEF index, from, frame
<1>6. /\ ContextFields \subseteq DOMAIN d
      /\ d.stack = c.stack /\ d.err = c.err /\ d.next_top_level = c.next_top_level
      /\ d.instruction_accounts = Append(c.instruction_accounts, ix.accounts)
  BY <1>5 DEF Configured, ContextFields
<1>7. d.trace = [c.trace EXCEPT ![index] = frame]
  BY <1>5 DEF Configured, ContextFields
<1>8. d.trace \in Seq(Frame) /\ Len(d.trace) = Len(c.trace)
  <2>1. c.trace \in Seq(Frame)
    BY DEF Configured
  <2> QED
    BY <1>1, <1>4, <1>7, <2>1, ReplaceType
<1>9. /\ d.instruction_accounts \in Seq(Seq(Metas))
      /\ Len(d.instruction_accounts) = Len(c.instruction_accounts) + 1
  <2> DEFINE Lists == Seq(Metas)
  <2>1. c.instruction_accounts \in Seq(Lists) /\ ix.accounts \in Lists
    BY <1>2 DEF Configured
  <2> HIDE DEF Lists
  <2>2. /\ Append(c.instruction_accounts, ix.accounts) \in Seq(Lists)
        /\ Len(Append(c.instruction_accounts, ix.accounts)) = Len(c.instruction_accounts) + 1
    BY <2>1, AppendType
  <2>3. d.instruction_accounts \in Seq(Lists) /\ Len(d.instruction_accounts) = Len(c.instruction_accounts) + 1
    BY <1>6, <2>2, Zenon
  <2> QED
    BY <2>3 DEF Lists
<1> QED
  BY <1>6, <1>8, <1>9

(* A push that succeeds appends a configured instruction to the stack: the  *)
(* next of the message, or the one that was configured last.                *)
LEMMA PushStep ==
  ASSUME ConstantsAreRight, NEW c,
         ContextFields \subseteq DOMAIN c,
         c.trace \in Seq(Frame), c.trace # <<>>,
         c.stack \in Seq(Nat), c.next_top_level \in Nat
  PROVE  LET d == push(c)
             top == c.stack = <<>>
             index == IF top THEN c.next_top_level + 1 ELSE Len(c.trace)
         IN  /\ "err" \in DOMAIN d
             /\ d.err = "" =>
                  /\ ContextFields \subseteq DOMAIN d
                  /\ d.trace \in Seq(Frame)
                  /\ Len(d.trace) = IF top THEN Len(c.trace) ELSE Len(c.trace) + 1
                  /\ d.stack = Append(c.stack, index)
                  /\ d.next_top_level = IF top THEN c.next_top_level + 1 ELSE c.next_top_level
                  /\ d.instruction_accounts = c.instruction_accounts
<1> DEFINE level == Len(c.stack)
           top == level = 0
           levelled == [c EXCEPT !.trace[Len(c.trace)].nesting_level = level]
           index == IF top THEN c.next_top_level + 1 ELSE get_instruction_trace_length(c) + 1
           counted == IF top THEN [levelled EXCEPT !.next_top_level = @ + 1]
                      ELSE [levelled EXCEPT !.number_of_cpis_in_trace = @ + 1, !.trace = Append(@, DefaultFrame)]
           done == [counted EXCEPT !.current_executing_instruction = index, !.stack = Append(@, index)]
<1>1. level \in Nat /\ (top <=> c.stack = <<>>)
  OBVIOUS
<1>2. Len(c.trace) \in Nat /\ Len(c.trace) > 0
  OBVIOUS
<1>3. levelled.trace = [c.trace EXCEPT ![Len(c.trace)] = [c.trace[Len(c.trace)] EXCEPT !.nesting_level = level]]
  BY DEF ContextFields
<1>4. levelled.trace \in Seq(Frame) /\ Len(levelled.trace) = Len(c.trace)
  <2>1. c.trace[Len(c.trace)] \in Frame
    BY <1>2
  <2>2. [c.trace[Len(c.trace)] EXCEPT !.nesting_level = level] \in Frame
    <3>1. ASSUME NEW f \in Frame, NEW l \in Int
          PROVE  [f EXCEPT !.nesting_level = l] \in Frame
      BY DEF Frame
    <3> QED
      BY <1>1, <2>1, <3>1
  <2> QED
    BY <1>2, <1>3, <2>2, ReplaceType
<1>5. /\ ContextFields \subseteq DOMAIN levelled
      /\ levelled.stack = c.stack /\ levelled.next_top_level = c.next_top_level
      /\ levelled.instruction_accounts = c.instruction_accounts
  BY DEF ContextFields
<1> HIDE DEF levelled
<1>6. DefaultFrame \in Frame
  BY DEF DefaultFrame, VmSlice, Slice, Frame, NoCaller
<1>7. /\ ContextFields \subseteq DOMAIN counted
      /\ counted.stack = c.stack
      /\ counted.instruction_accounts = c.instruction_accounts
      /\ counted.next_top_level = IF top THEN c.next_top_level + 1 ELSE c.next_top_level
      /\ counted.trace = IF top THEN levelled.trace ELSE Append(levelled.trace, DefaultFrame)
  BY <1>5 DEF ContextFields
<1>8. counted.trace \in Seq(Frame) /\ Len(counted.trace) = IF top THEN Len(c.trace) ELSE Len(c.trace) + 1
  BY <1>4, <1>6, <1>7
<1> HIDE DEF counted
<1>9. index = IF top THEN c.next_top_level + 1 ELSE Len(c.trace)
  BY <1>2 DEF get_instruction_trace_length
<1>10. /\ ContextFields \subseteq DOMAIN done
       /\ done.stack = Append(c.stack, index) /\ done.trace = counted.trace
       /\ done.next_top_level = counted.next_top_level
       /\ done.instruction_accounts = counted.instruction_accounts
  BY <1>7 DEF ContextFields
<1> HIDE DEF done
<1>11. ASSUME NEW e, ContextFields \subseteq DOMAIN e, NEW error
       PROVE  "err" \in DOMAIN Failed(e, error) /\ Failed(e, error).err = error
  BY <1>11 DEF Failed, ContextFields
<1>12. \/ push(c) = Failed(c, "UnbalancedInstruction")
       \/ push(c) = Failed(levelled, "MaxInstructionTraceLengthExceeded")
       \/ push(c) = Failed(counted, "CallDepth")
       \/ push(c) = done
  BY DEF push, levelled, counted, done
<1>13. CASE push(c) = done
  <2>1. "err" \in DOMAIN done
    BY <1>10 DEF ContextFields
  <2> HIDE DEF index
  <2> QED
    BY <1>1, <1>7, <1>8, <1>9, <1>10, <1>13, <2>1
<1>14. CASE push(c) # done
  <2>1. CASE push(c) = Failed(c, "UnbalancedInstruction")
    BY <1>11, <2>1
  <2>2. CASE push(c) = Failed(levelled, "MaxInstructionTraceLengthExceeded")
    <3>1. ContextFields \subseteq DOMAIN levelled
      BY <1>5
    <3> QED
      BY <1>11, <2>2, <3>1
  <2>3. CASE push(c) = Failed(counted, "CallDepth")
    <3>1. ContextFields \subseteq DOMAIN counted
      BY <1>7
    <3> QED
      BY <1>11, <2>3, <3>1
  <2> QED
    BY <1>12, <1>14, <2>1, <2>2, <2>3
<1> QED
  BY <1>13, <1>14

(* A push that fails ends the transaction; one that succeeds leaves the     *)
(* context configured.                                                      *)
LEMMA PushedStep ==
  ASSUME NEW c, Pushed(c), "err" \in DOMAIN c, c.err = "" => Configured(c)
  PROVE  ContextInv'
<1>1. context' = c \/ context' = Failed(c, "InvalidAccountOwner")
  BY DEF Pushed
<1>2. CASE context' = c
  BY <1>2 DEF ContextInv, Configured
<1>3. CASE context' = Failed(c, "InvalidAccountOwner")
  BY <1>3 DEF ContextInv, Failed
<1> QED
  BY <1>1, <1>2, <1>3

(* The next instruction of the message is pushed.                           *)
LEMMA StartStep ==
  ASSUME ConstantsAreRight, ContextInv, Start
  PROVE  ContextInv'
<1> DEFINE d == push(context)
<1>1. Configured(context) /\ context.stack = <<>> /\ context.next_top_level < Len(TopLevel)
  BY DEF Start, ContextInv
<1>2. /\ ContextFields \subseteq DOMAIN context
      /\ context.trace \in Seq(Frame) /\ Len(context.trace) = Len(context.instruction_accounts) + 1
      /\ context.stack \in Seq(Nat) /\ context.next_top_level \in Nat
      /\ Len(context.instruction_accounts) \in Nat /\ Len(TopLevel) <= Len(context.instruction_accounts)
  BY <1>1 DEF Configured
<1>3. context.trace # <<>>
  BY <1>2
<1>4. /\ "err" \in DOMAIN d
      /\ d.err = "" =>
           /\ ContextFields \subseteq DOMAIN d
           /\ d.trace \in Seq(Frame)
           /\ Len(d.trace) = Len(context.trace)
           /\ d.stack = Append(context.stack, context.next_top_level + 1)
           /\ d.next_top_level = context.next_top_level + 1
           /\ d.instruction_accounts = context.instruction_accounts
  BY <1>1, <1>2, <1>3, PushStep
<1> HIDE DEF d
<1>5. ASSUME d.err = ""
      PROVE  Configured(d)
  <2>1. d.stack \in Seq(Nat) /\ \A h \in 1..Len(d.stack) : d.stack[h] = context.next_top_level + 1
    <3>1. d.stack = Append(<<>>, context.next_top_level + 1)
      BY <1>1, <1>4, <1>5, Zenon
    <3>2. context.next_top_level + 1 \in Nat
      BY <1>2
    <3> QED
      BY <3>1, <3>2
  <2>2. d.instruction_accounts \in Seq(Seq(Metas))
    BY <1>1, <1>4, <1>5, Zenon DEF Configured
  <2>3. context.next_top_level + 1 \in 1..Len(context.instruction_accounts) /\ context.next_top_level + 1 \in Nat
    BY <1>1, <1>2, AddressTypes
  <2>4. /\ d.instruction_accounts = context.instruction_accounts
        /\ d.next_top_level = context.next_top_level + 1
        /\ d.trace \in Seq(Frame) /\ Len(d.trace) = Len(context.trace)
        /\ ContextFields \subseteq DOMAIN d
    BY <1>4, <1>5, Zenon
  <2>5. /\ Len(d.trace) = Len(d.instruction_accounts) + 1
        /\ Len(TopLevel) <= Len(d.instruction_accounts)
        /\ d.next_top_level \in Nat
        /\ \A h \in 1..Len(d.stack) : d.stack[h] \in 1..Len(d.instruction_accounts)
    BY <1>2, <2>1, <2>3, <2>4, Zenon
  <2> QED
    BY <2>1, <2>2, <2>4, <2>5, Zenon DEF Configured
<1>6. Pushed(d)
  BY DEF Start, d
<1> QED
  BY <1>4, <1>5, <1>6, PushedStep

(* An invoked instruction is configured and pushed.                         *)
LEMMA InvokeStep ==
  ASSUME ConstantsAreRight, ContextInv, NEW ix \in Invocable, Invoke(ix)
  PROVE  ContextInv'
<1> DEFINE c == configure_instruction_at_index(context, get_instruction_trace_length(context) + 1, ix, Last(context.stack))
           d == push(c)
<1>1. Configured(context) /\ context.stack # <<>>
  BY DEF Invoke, Running, ContextInv
<1>2. Last(context.stack) \in Int
  BY <1>1 DEF Configured, Last
<1>3. ix \in Instruction
  BY DEF ConstantsAreRight
<1>4. /\ ContextFields \subseteq DOMAIN c
      /\ c.trace \in Seq(Frame) /\ Len(c.trace) = Len(context.trace)
      /\ c.stack = context.stack /\ c.err = context.err /\ c.next_top_level = context.next_top_level
      /\ c.instruction_accounts \in Seq(Seq(Metas))
      /\ Len(c.instruction_accounts) = Len(context.instruction_accounts) + 1
  BY <1>1, <1>2, <1>3, ConfigureStep
<1> HIDE DEF c
<1>5. /\ Len(context.trace) = Len(context.instruction_accounts) + 1
      /\ Len(context.instruction_accounts) \in Nat /\ Len(TopLevel) <= Len(context.instruction_accounts)
      /\ context.stack \in Seq(Nat) /\ context.next_top_level \in Nat
      /\ \A h \in 1..Len(context.stack) : context.stack[h] \in 1..Len(context.instruction_accounts)
  BY <1>1 DEF Configured
<1>6. c.trace # <<>>
  BY <1>4, <1>5
<1>7. /\ "err" \in DOMAIN d
      /\ d.err = "" =>
           /\ ContextFields \subseteq DOMAIN d
           /\ d.trace \in Seq(Frame)
           /\ Len(d.trace) = Len(c.trace) + 1
           /\ d.stack = Append(context.stack, Len(c.trace))
           /\ d.next_top_level = context.next_top_level
           /\ d.instruction_accounts = c.instruction_accounts
  BY <1>1, <1>4, <1>5, <1>6, PushStep
<1> HIDE DEF d
<1>8. ASSUME d.err = ""
      PROVE  Configured(d)
  <2>0. /\ d.instruction_accounts = c.instruction_accounts
        /\ d.next_top_level = context.next_top_level
        /\ d.trace \in Seq(Frame) /\ Len(d.trace) = Len(c.trace) + 1
        /\ ContextFields \subseteq DOMAIN d
        /\ d.stack = Append(context.stack, Len(c.trace))
    BY <1>7, <1>8, Zenon
  <2>1. Len(c.trace) = Len(d.instruction_accounts) /\ Len(c.trace) \in Nat \ {0}
    <3>1. Len(c.trace) = Len(context.instruction_accounts) + 1
      BY <1>4, <1>5, Zenon
    <3>2. Len(d.instruction_accounts) = Len(context.instruction_accounts) + 1
      BY <1>4, <2>0, Zenon
    <3>3. Len(context.instruction_accounts) \in Nat
      BY <1>5
    <3> QED
      BY <3>1, <3>2, <3>3
  <2>2. d.stack \in Seq(Nat) /\ \A h \in 1..Len(d.stack) : d.stack[h] \in 1..Len(d.instruction_accounts)
    <3>1. d.stack = Append(context.stack, Len(c.trace))
      BY <2>0
    <3>2. \A h \in 1..Len(context.stack) : context.stack[h] \in 1..Len(c.trace)
      BY <1>4, <1>5
    <3> QED
      BY <1>5, <2>1, <3>1, <3>2
  <2>3. d.instruction_accounts \in Seq(Seq(Metas))
    BY <1>4, <1>7, <1>8, Zenon
  <2>4. Len(TopLevel) <= Len(d.instruction_accounts)
    <3>1. Len(d.instruction_accounts) = Len(context.instruction_accounts) + 1
      BY <1>4, <2>0, Zenon
    <3>2. Len(context.instruction_accounts) \in Nat /\ Len(TopLevel) <= Len(context.instruction_accounts)
      BY <1>5
    <3> QED
      BY <3>1, <3>2, AddressTypes
  <2>5. d.next_top_level \in Nat /\ Len(d.trace) = Len(d.instruction_accounts) + 1
    BY <1>5, <2>0, <2>1, Zenon
  <2> QED
    BY <2>0, <2>2, <2>3, <2>4, <2>5, Zenon DEF Configured
<1>9. Pushed(d)
  BY DEF Invoke, c, d
<1> QED
  BY <1>7, <1>8, <1>9, PushedStep

(* An instruction returns.                                                  *)
LEMMA PopStep ==
  ASSUME ContextInv, NEW ok \in BOOLEAN, Pop(ok)
  PROVE  ContextInv'
<1> DEFINE rest == Front(context.stack)
<1>0. Len(context.stack) > Leftover
  BY DEF Pop
<1>1. PICK error : context' = Failed(Popped(context), error) /\ (error = "" => context.err = "")
  BY DEF Pop
<1>2. "err" \in DOMAIN context' /\ context'.err = error
  BY <1>1 DEF Failed, Popped, ContextInv
<1>3. ASSUME error = ""
      PROVE  Configured(context')
  <2>1. Configured(context)
    BY <1>1, <1>3 DEF ContextInv
  <2>2. /\ ContextFields \subseteq DOMAIN context'
        /\ context'.trace = context.trace /\ context'.next_top_level = context.next_top_level
        /\ context'.instruction_accounts = context.instruction_accounts
        /\ context'.stack = rest
    BY <1>1, <2>1 DEF Failed, Popped, Configured, ContextFields
  <2>3. /\ rest \in Seq(Nat)
        /\ \A h \in 1..Len(rest) : rest[h] \in 1..Len(context.instruction_accounts)
    <3>1. context.stack \in Seq(Nat) /\ Len(context.stack) > 0
      BY <1>0, <1>1, <1>3, <2>1 DEF Configured, Leftover
    <3>2. \A h \in 1..Len(context.stack) : context.stack[h] \in 1..Len(context.instruction_accounts)
      BY <2>1 DEF Configured
    <3> QED
      BY <3>1, <3>2 DEF Front
  <2> HIDE DEF rest
  <2> QED
    BY <2>1, <2>2, <2>3 DEF Configured
<1> QED
  BY <1>2, <1>3 DEF ContextInv, Configured

(* Every step keeps the context configured, until an error.                 *)
LEMMA ContextStep ==
  ASSUME ConstantsAreRight, ContextInv, [Next]_vars
  PROVE  ContextInv'
<1>1. ASSUME NEW data, set_return_data(data)
      PROVE  ContextInv'
  <2>1. context' = [context EXCEPT !.return_data_pubkey = Loaded[Current.program].key,
                                   !.return_data_scratchpad.len = Len(data), !.return_data_bytes = data]
    BY <1>1 DEF set_return_data
  <2>2. Configured(context)
    BY <1>1 DEF set_return_data, Running, ContextInv
  <2>3. /\ ContextFields \subseteq DOMAIN context'
        /\ context'.trace = context.trace /\ context'.next_top_level = context.next_top_level
        /\ context'.instruction_accounts = context.instruction_accounts
        /\ context'.stack = context.stack
    BY <2>1, <2>2 DEF Configured, ContextFields
  <2>4. Configured(context')
    BY <2>2, <2>3 DEF Configured
  <2> QED
    BY <2>3, <2>4 DEF ContextInv, Configured, ContextFields
<1>2. ASSUME UNCHANGED context
      PROVE  ContextInv'
  BY <1>2 DEF ContextInv, Configured
<1>3. ASSUME NEW i, Write(i)
      PROVE  UNCHANGED context
  BY <1>3 DEF Write, set_owner, set_lamports, get_data_mut, set_data_from_slice, extend_from_slice, set_data_length,
              set_executable, Resize, Through
<1>4. ASSUME NEW k, NEW requested, NEW reserved, access_violation_handler(k, requested, reserved)
      PROVE  UNCHANGED context
  BY <1>4 DEF access_violation_handler
<1>5. ASSUME NEW i, try_borrow(i) \/ drop(i) \/ drop_mut(i) \/ Forget(i) \/ try_borrow_instruction_account(i)
      PROVE  UNCHANGED context
  BY <1>5 DEF try_borrow, drop, drop_mut, Forget, try_borrow_instruction_account
<1>6. ASSUME Finish \/ UNCHANGED vars
      PROVE  UNCHANGED context
  BY <1>6 DEF Finish, vars
<1> QED
  BY <1>1, <1>2, <1>3, <1>4, <1>5, <1>6, StartStep, InvokeStep, PopStep DEF Next

(* The accounts that the running instruction names are the transaction's.   *)
LEMMA CurrentMetas ==
  ASSUME ContextInv, Running, NEW k \in 1..Len(CurrentAccounts)
  PROVE  CurrentAccounts[k].i \in Accounts /\ CurrentAccounts[k].writable \in BOOLEAN
<1>1. Configured(context) /\ context.stack # <<>>
  BY DEF ContextInv, Running
<1>2. Last(context.stack) \in 1..Len(context.instruction_accounts)
  BY <1>1 DEF Configured, Last
<1>3. CurrentAccounts \in Seq(Metas)
  <2> DEFINE Lists == Seq(Metas)
  <2>1. context.instruction_accounts \in Seq(Lists)
    BY <1>1 DEF Configured
  <2> HIDE DEF Lists
  <2>2. CurrentAccounts \in Lists
    BY <1>2, <2>1 DEF CurrentAccounts
  <2> QED
    BY <2>2 DEF Lists
<1>4. CurrentAccounts[k] \in Metas
  BY <1>3
<1> QED
  BY <1>4 DEF Metas

------------------------------------------------------------------------------
(* Borrows.  BorrowsAreExclusive is inductive together with the types of    *)
(* the counters and of the live borrows.                                    *)
Refs == [readers : Nat, writers : Nat, writable : BOOLEAN]
BorrowInv ==
    /\ refs \in [Accounts -> Refs]
    /\ borrow_counters \in [Accounts -> Int]
    /\ BorrowsAreExclusive

(* At first nothing is borrowed.                                            *)
LEMMA BorrowInit ==
  ASSUME ConstantsAreRight, Init
  PROVE  BorrowInv
BY DEF Init, BorrowInv, NoRefs, Refs, BorrowsAreExclusive, ConstantsAreRight

(* An account whose counter and borrows change together.                    *)
LEMMA BorrowChange ==
  ASSUME ConstantsAreRight, BorrowInv, NEW i \in Accounts, NEW r \in Refs, NEW n \in Int,
         refs' = [refs EXCEPT ![i] = r],
         borrow_counters' = [borrow_counters EXCEPT ![i] = n],
         r.writers <= 1, r.writers = 1 => r.readers = 0,
         n = r.readers - r.writers, n <= I8Max
  PROVE  BorrowInv'
<1>1. refs' \in [Accounts -> Refs] /\ borrow_counters' \in [Accounts -> Int]
  BY DEF BorrowInv
<1>2. ASSUME NEW j \in Accounts
      PROVE  /\ refs'[j].writers <= 1
             /\ refs'[j].writers = 1 => refs'[j].readers = 0
             /\ borrow_counters'[j] = refs'[j].readers - refs'[j].writers
             /\ borrow_counters'[j] <= I8Max
  <2>1. CASE j = i
    BY <2>1 DEF BorrowInv
  <2>2. CASE j # i
    BY <2>2 DEF BorrowInv, BorrowsAreExclusive
  <2> QED
    BY <2>1, <2>2
<1> QED
  BY <1>1, <1>2 DEF BorrowInv, BorrowsAreExclusive, Accounts

(* The borrows of an account when its mutable borrow begins or ends.        *)
LEMMA WritersChange ==
  ASSUME NEW s \in Refs, NEW m \in Nat, NEW w \in BOOLEAN
  PROVE  /\ [s EXCEPT !.writers = m, !.writable = w] \in Refs
         /\ [s EXCEPT !.writers = m, !.writable = w].readers = s.readers
         /\ [s EXCEPT !.writers = m, !.writable = w].writers = m
BY DEF Refs

(* Every step keeps the counters exact and mutable borrows alone.           *)
LEMMA BorrowStep ==
  ASSUME ConstantsAreRight, ContextInv, BorrowInv, [Next]_vars
  PROVE  BorrowInv'
<1>0. ASSUME NEW i \in Accounts
      PROVE  /\ refs[i] \in Refs /\ borrow_counters[i] \in Int /\ I8Max \in Nat
             /\ refs[i].readers \in Nat /\ refs[i].writers \in Nat
             /\ refs[i].writers <= 1
             /\ refs[i].writers = 1 => refs[i].readers = 0
             /\ borrow_counters[i] = refs[i].readers - refs[i].writers
             /\ borrow_counters[i] <= I8Max
  BY DEF BorrowInv, BorrowsAreExclusive, Refs, ConstantsAreRight
<1>1. ASSUME NEW i \in Accounts, try_borrow(i)
      PROVE  BorrowInv'
  <2> DEFINE r == [refs[i] EXCEPT !.readers = @ + 1]
             n == borrow_counters[i] + 1
  <2>1. refs' = [refs EXCEPT ![i] = r] /\ borrow_counters' = [borrow_counters EXCEPT ![i] = n]
    BY <1>1 DEF try_borrow
  <2>2. r \in Refs /\ n \in Int /\ r.readers = refs[i].readers + 1 /\ r.writers = refs[i].writers
    BY <1>0 DEF Refs
  <2>3. borrow_counters[i] >= 0 /\ borrow_counters[i] < I8Max
    BY <1>0, <1>1 DEF try_borrow, can_borrow, is_writing
  <2>4. r.writers <= 1 /\ (r.writers = 1 => r.readers = 0) /\ n = r.readers - r.writers /\ n <= I8Max
    BY <1>0, <2>2, <2>3
  <2> HIDE DEF r, n
  <2> QED
    BY <2>1, <2>2, <2>4, BorrowChange
<1>2. ASSUME Running, NEW k \in 1..Len(CurrentAccounts), try_borrow_instruction_account(k)
      PROVE  BorrowInv'
  <2> DEFINE i == CurrentAccounts[k].i
             w == CurrentAccounts[k].writable
  <2>0. i \in Accounts /\ w \in BOOLEAN
    BY <1>2, CurrentMetas
  <2>1. /\ can_borrow_mut(i)
        /\ borrow_counters' = [borrow_counters EXCEPT ![i] = @ - 1]
        /\ refs' = [refs EXCEPT ![i].writers = @ + 1, ![i].writable = w]
    BY <1>2 DEF try_borrow_instruction_account
  <2> HIDE DEF i, w
  <2> DEFINE r == [refs[i] EXCEPT !.writers = refs[i].writers + 1, !.writable = w]
             n == borrow_counters[i] - 1
  <2>2. refs' = [refs EXCEPT ![i] = r] /\ borrow_counters' = [borrow_counters EXCEPT ![i] = n]
    BY <1>0, <2>0, <2>1 DEF BorrowInv, Refs
  <2>3. r \in Refs /\ n \in Int /\ r.readers = refs[i].readers /\ r.writers = refs[i].writers + 1
    <3>1. refs[i] \in Refs /\ refs[i].writers + 1 \in Nat /\ borrow_counters[i] \in Int
      BY <1>0, <2>0
    <3>2. r \in Refs /\ r.readers = refs[i].readers /\ r.writers = refs[i].writers + 1
      BY <2>0, <3>1, WritersChange, ZenonT(60)
    <3>3. n \in Int
      BY <3>1
    <3> QED
      BY <3>2, <3>3, Zenon
  <2>4. refs[i].readers = 0 /\ refs[i].writers = 0 /\ borrow_counters[i] = 0
    BY <1>0, <2>0, <2>1 DEF can_borrow_mut, is_writing, is_reading
  <2>5. r.writers <= 1 /\ (r.writers = 1 => r.readers = 0) /\ n = r.readers - r.writers /\ n <= I8Max
    BY <1>0, <2>0, <2>3, <2>4
  <2> HIDE DEF r, n
  <2> QED
    BY <2>0, <2>2, <2>3, <2>5, BorrowChange
<1>3. ASSUME NEW i \in Accounts, drop(i)
      PROVE  BorrowInv'
  <2> DEFINE r == [refs[i] EXCEPT !.readers = @ - 1]
             n == borrow_counters[i] - 1
  <2>1. /\ refs' = [refs EXCEPT ![i] = r] /\ borrow_counters' = [borrow_counters EXCEPT ![i] = n]
        /\ refs[i].readers > 0
    BY <1>3 DEF drop
  <2>2. r \in Refs /\ n \in Int /\ r.readers = refs[i].readers - 1 /\ r.writers = refs[i].writers
    BY <1>0, <2>1 DEF Refs
  <2>3. r.writers <= 1 /\ (r.writers = 1 => r.readers = 0) /\ n = r.readers - r.writers /\ n <= I8Max
    BY <1>0, <2>1, <2>2
  <2> HIDE DEF r, n
  <2> QED
    BY <2>1, <2>2, <2>3, BorrowChange
<1>4. ASSUME NEW i \in Accounts, drop_mut(i)
      PROVE  BorrowInv'
  <2> DEFINE r == [refs[i] EXCEPT !.writers = refs[i].writers - 1, !.writable = FALSE]
             n == borrow_counters[i] + 1
  <2>1. /\ refs' = [refs EXCEPT ![i].writers = @ - 1, ![i].writable = FALSE]
        /\ borrow_counters' = [borrow_counters EXCEPT ![i] = n]
        /\ refs[i].writers > 0
    BY <1>4 DEF drop_mut
  <2>2. refs' = [refs EXCEPT ![i] = r]
    BY <1>0, <2>1 DEF BorrowInv, Refs
  <2>3. r \in Refs /\ n \in Int /\ r.readers = refs[i].readers /\ r.writers = refs[i].writers - 1
    <3>1. refs[i] \in Refs /\ refs[i].writers - 1 \in Nat /\ borrow_counters[i] \in Int
      BY <1>0, <2>1
    <3>2. r \in Refs /\ r.readers = refs[i].readers /\ r.writers = refs[i].writers - 1
      BY <3>1, WritersChange, Zenon
    <3>3. n \in Int
      BY <3>1
    <3> QED
      BY <3>2, <3>3, Zenon
  <2>4. r.writers <= 1 /\ (r.writers = 1 => r.readers = 0) /\ n = r.readers - r.writers /\ n <= I8Max
    BY <1>0, <2>1, <2>3
  <2> HIDE DEF r, n
  <2> QED
    BY <2>1, <2>2, <2>3, <2>4, BorrowChange
<1>5. ASSUME UNCHANGED <<refs, borrow_counters>>
      PROVE  BorrowInv'
  BY <1>5 DEF BorrowInv, BorrowsAreExclusive
<1>6. ASSUME NEW i, Write(i)
      PROVE  UNCHANGED <<refs, borrow_counters>>
  BY <1>6 DEF Write, set_owner, set_lamports, get_data_mut, set_data_from_slice, extend_from_slice, set_data_length,
              set_executable, Resize, Through
<1>7. ASSUME NEW k, NEW requested, NEW reserved, access_violation_handler(k, requested, reserved)
      PROVE  UNCHANGED <<refs, borrow_counters>>
  BY <1>7 DEF access_violation_handler
<1>8. ASSUME NEW i, Forget(i) \/ set_return_data(i) \/ Pop(i)
      PROVE  UNCHANGED <<refs, borrow_counters>>
  BY <1>8 DEF Forget, set_return_data, Pop
<1>9. ASSUME Start \/ (\E ix \in Invocable : Invoke(ix))
      PROVE  UNCHANGED <<refs, borrow_counters>>
  BY <1>9 DEF Start, Invoke, Pushed
<1>10. ASSUME Finish \/ UNCHANGED vars
       PROVE  UNCHANGED <<refs, borrow_counters>>
  BY <1>10 DEF Finish, vars
<1>11. ASSUME Running, NEW k \in 1..Len(CurrentAccounts), try_borrow(CurrentAccounts[k].i)
       PROVE  BorrowInv'
  BY <1>1, <1>11, CurrentMetas
<1> QED
  BY <1>2, <1>3, <1>4, <1>5, <1>6, <1>7, <1>8, <1>9, <1>10, <1>11 DEF Next

(* Whatever instructions run and however they borrow, a mutable borrow of   *)
(* an account is its only borrow and the counter is exact                   *)
(* (transaction_accounts.rs, try_borrow and try_borrow_mut).                *)
THEOREM BorrowsStayExclusive ==
  ASSUME ConstantsAreRight
  PROVE  Spec => []BorrowsAreExclusive
<1>1. Init => ContextInv /\ BorrowInv
  <2>1. Init => ContextInv
    BY ContextInit DEF Init, ContextInv, Configured, ContextFields
  <2> QED
    BY <2>1, BorrowInit
<1>2. ContextInv /\ BorrowInv /\ [Next]_vars => ContextInv' /\ BorrowInv'
  BY ContextStep, BorrowStep
<1>3. BorrowInv => BorrowsAreExclusive
  BY DEF BorrowInv
<1> QED
  BY <1>1, <1>2, <1>3, PTL DEF Spec
------------------------------------------------------------------------------
(* The store's copies.  StoreKeepsItsCopy is inductive together with where  *)
(* the buffer of an account can be: the one it was loaded with, or its own. *)
Private == [executable : BOOLEAN, payload : Buffers]
StoreInv ==
    /\ private_account_fields \in [Accounts -> Private]
    /\ \A i \in Accounts : Buffer(i) \in {i, Len(Loaded) + i}
    /\ stored \subseteq Accounts
    /\ heap \in [Buffers -> UNION {{heap[b]} : b \in Buffers}]
    /\ StoreKeepsItsCopy

(* At first every account has the buffer it was loaded with.                *)
LEMMA StoreInit ==
  ASSUME ConstantsAreRight, Init
  PROVE  StoreInv
<1>1. private_account_fields \in [Accounts -> Private] /\ \A i \in Accounts : Buffer(i) = i
  BY DEF Init, ConstantsAreRight, Private, Accounts, Buffers, Buffer
<1>2. stored \subseteq Accounts /\ Accounts \subseteq Buffers
  BY DEF Init, ConstantsAreRight, Accounts, Buffers
<1>3. heap = [b \in Buffers |-> IF b \in Accounts THEN Loaded[b].data ELSE <<>>]
  BY DEF Init
<1>4. heap \in [Buffers -> UNION {{heap[b]} : b \in Buffers}]
  BY <1>3
<1> QED
  BY <1>1, <1>2, <1>3, <1>4 DEF StoreInv, StoreKeepsItsCopy

(* A buffer that the store holds too counts as shared.                      *)
LEMMA StoredIsShared ==
  ASSUME ConstantsAreRight, StoreInv, NEW i \in Accounts, i \in stored, Buffer(i) = i
  PROVE  is_shared(i)
<1>1. {j \in Accounts : Buffer(j) = i} = {i}
  BY DEF StoreInv, ConstantsAreRight, Accounts
<1>2. {j \in stored : j = i} = {i}
  OBVIOUS
<1>3. Cardinality({i}) = 1
  BY FS_Singleton
<1> QED
  BY <1>1, <1>2, <1>3 DEF is_shared, strong_count

(* A change of an account's data never goes to a buffer of the store.       *)
LEMMA StoreStep ==
  ASSUME ConstantsAreRight, StoreInv, NEW i \in Accounts, NEW data, Store(i, data), UNCHANGED stored
  PROVE  StoreInv'
<1> DEFINE b == make_mut(i)
<1>1. b \in {i, Len(Loaded) + i} /\ b \in Buffers /\ (b = i => i \notin stored)
  <2>1. Buffer(i) \in {i, Len(Loaded) + i}
    BY DEF StoreInv
  <2>2. i \in Buffers /\ Len(Loaded) + i \in Buffers /\ Len(Loaded) + i # i
    BY DEF ConstantsAreRight, Accounts, Buffers
  <2> QED
    BY <2>1, <2>2, StoredIsShared DEF make_mut
<1>2. /\ heap' = [heap EXCEPT ![b] = data]
      /\ private_account_fields' = [private_account_fields EXCEPT ![i].payload = b]
  BY DEF Store
<1> HIDE DEF b
<1>3. private_account_fields' \in [Accounts -> Private]
  <2>1. private_account_fields[i] \in Private
    BY DEF StoreInv
  <2>2. [private_account_fields[i] EXCEPT !.payload = b] \in Private
    BY <1>1, <2>1 DEF Private
  <2>3. private_account_fields' = [private_account_fields EXCEPT ![i] = [private_account_fields[i] EXCEPT !.payload = b]]
    BY <1>2
  <2> QED
    BY <2>2, <2>3 DEF StoreInv
<1>4. \A j \in Accounts : Buffer(j)' \in {j, Len(Loaded) + j}
  BY <1>1, <1>2 DEF StoreInv, Buffer, Private
<1>5. heap' \in [Buffers -> UNION {{heap'[x]} : x \in Buffers}]
  BY <1>1, <1>2 DEF StoreInv
<1>6. \A j \in stored : heap'[j] = Loaded[j].data
  <2> SUFFICES ASSUME NEW j \in stored
               PROVE  heap'[j] = Loaded[j].data
    OBVIOUS
  <2>1. j # b
    BY <1>1 DEF StoreInv, ConstantsAreRight, Accounts
  <2> QED
    BY <1>2, <2>1 DEF StoreInv, StoreKeepsItsCopy
<1> QED
  BY <1>3, <1>4, <1>5, <1>6 DEF StoreInv, StoreKeepsItsCopy

(* The instructions sysvar that a push writes is one of the accounts.       *)
LEMMA SysvarIsThere ==
  ASSUME ConstantsAreRight, Sysvars # {}
  PROVE  Min(Sysvars) \in Accounts
<1>1. Sysvars \subseteq Nat
  BY DEF Sysvars, Accounts
<1>2. \E x \in Sysvars : \A y \in Sysvars : ~(<<y, x>> \in OpToRel(<, Nat))
  BY <1>1, NatLessThanWellFounded, WFMin
<1>3. \E x \in Sysvars : \A y \in Sysvars : x <= y
  <2>1. PICK x \in Sysvars : \A y \in Sysvars : ~(<<y, x>> \in OpToRel(<, Nat))
    BY <1>2
  <2>2. ASSUME NEW y \in Sysvars
        PROVE  x <= y
    <3>1. x \in Nat /\ y \in Nat
      BY <1>1
    <3>2. y < x => <<y, x>> \in OpToRel(<, Nat)
      BY <3>1 DEF OpToRel
    <3>3. ~(y < x)
      BY <2>1, <3>2, Zenon
    <3> QED
      BY <3>1, <3>3
  <2> QED
    BY <2>2
<1>4. Min(Sysvars) \in Sysvars
  BY <1>3 DEF Min
<1> QED
  BY <1>4 DEF Sysvars

(* Every step writes to buffers that the store does not hold.               *)
LEMMA StoreInvStep ==
  ASSUME ConstantsAreRight, ContextInv, StoreInv, [Next]_vars
  PROVE  StoreInv'
<1>1. ASSUME UNCHANGED <<heap, private_account_fields, stored>>
      PROVE  StoreInv'
  BY <1>1 DEF StoreInv, StoreKeepsItsCopy, Buffer
<1>2. ASSUME NEW i \in Accounts, Write(i)
      PROVE  StoreInv'
  <2>1. UNCHANGED stored
    BY <1>2 DEF Write, set_owner, set_lamports, get_data_mut, set_data_from_slice, extend_from_slice, set_data_length,
                set_executable, Resize, Through
  <2>2. CASE \E executable \in BOOLEAN : set_executable(i, executable)
    <3>1. PICK e \in BOOLEAN : set_executable(i, e)
      BY <2>2
    <3>2. private_account_fields' = [private_account_fields EXCEPT ![i].executable = e] /\ heap' = heap
      BY <3>1 DEF set_executable
    <3>3. private_account_fields' \in [Accounts -> Private]
      <4>1. private_account_fields[i] \in Private
        BY DEF StoreInv
      <4>2. [private_account_fields[i] EXCEPT !.executable = e] \in Private
        BY <4>1 DEF Private
      <4>3. private_account_fields' = [private_account_fields EXCEPT ![i] = [private_account_fields[i] EXCEPT !.executable = e]]
        BY <3>2
      <4> QED
        BY <4>2, <4>3 DEF StoreInv
    <3>4. \A j \in Accounts : Buffer(j)' = Buffer(j)
      BY <3>2 DEF StoreInv, Buffer, Private
    <3> QED
      BY <2>1, <3>2, <3>3, <3>4 DEF StoreInv, StoreKeepsItsCopy
  <2>3. CASE UNCHANGED <<heap, private_account_fields>>
    BY <1>1, <2>1, <2>3
  <2>4. CASE \E data : Store(i, data)
    BY <2>1, <2>4, StoreStep
  <2>5. \/ \E executable \in BOOLEAN : set_executable(i, executable)
        \/ UNCHANGED <<heap, private_account_fields>>
        \/ \E data : Store(i, data)
    BY <1>2 DEF Write, set_owner, set_lamports, get_data_mut, set_data_from_slice, extend_from_slice, set_data_length, Resize
  <2> QED
    BY <2>2, <2>3, <2>4, <2>5
<1>3. ASSUME Running, NEW k \in 1..Len(CurrentAccounts), NEW requested, NEW reserved,
             access_violation_handler(k, requested, reserved)
      PROVE  StoreInv'
  <2>1. CurrentAccounts[k].i \in Accounts
    BY <1>3, CurrentMetas
  <2>2. (\E data : Store(CurrentAccounts[k].i, data)) /\ UNCHANGED stored
    BY <1>3 DEF access_violation_handler
  <2> QED
    BY <2>1, <2>2, StoreStep
<1>4. ASSUME NEW c, Pushed(c)
      PROVE  StoreInv'
  <2>1. UNCHANGED stored
    BY <1>4 DEF Pushed
  <2>2. CASE UNCHANGED <<heap, private_account_fields>>
    BY <1>1, <2>1, <2>2
  <2>3. CASE ~UNCHANGED <<heap, private_account_fields>>
    <3>1. Sysvars # {} /\ \E data : Store(Min(Sysvars), data)
      BY <1>4, <2>3 DEF Pushed, store_current_index_checked
    <3> QED
      BY <2>1, <3>1, SysvarIsThere, StoreStep
  <2> QED
    BY <2>2, <2>3
<1>5. ASSUME Start \/ (\E ix \in Invocable : Invoke(ix))
      PROVE  StoreInv'
  BY <1>4, <1>5 DEF Start, Invoke
<1>6. ASSUME NEW i \in Accounts, Forget(i)
      PROVE  StoreInv'
  BY <1>6 DEF Forget, accountVars, StoreInv, StoreKeepsItsCopy, Buffer
<1>7. ASSUME NEW i, try_borrow(i) \/ drop(i) \/ drop_mut(i) \/ try_borrow_instruction_account(i) \/ set_return_data(i) \/ Pop(i)
      PROVE  UNCHANGED <<heap, private_account_fields, stored>>
  BY <1>7 DEF try_borrow, drop, drop_mut, try_borrow_instruction_account, set_return_data, Pop, accountVars
<1>8. ASSUME Finish \/ UNCHANGED vars
      PROVE  UNCHANGED <<heap, private_account_fields, stored>>
  BY <1>8 DEF Finish, vars, accountVars
<1> QED
  BY <1>1, <1>2, <1>3, <1>5, <1>6, <1>7, <1>8 DEF Next

(* Whatever programs write, through borrows, faults or the runtime's own    *)
(* note of the running instruction, the account store's copies of the       *)
(* loaded data stay as they were (transaction_accounts.rs, data_mut).       *)
THEOREM StoreIsKept ==
  ASSUME ConstantsAreRight
  PROVE  Spec => []StoreKeepsItsCopy
<1>1. Init => ContextInv /\ StoreInv
  <2>1. Init => ContextInv
    BY ContextInit DEF Init, ContextInv, Configured, ContextFields
  <2> QED
    BY <2>1, StoreInit
<1>2. ContextInv /\ StoreInv /\ [Next]_vars => ContextInv' /\ StoreInv'
  BY ContextStep, StoreInvStep
<1>3. StoreInv => StoreKeepsItsCopy
  BY DEF StoreInv
<1> QED
  BY <1>1, <1>2, <1>3, PTL DEF Spec
=============================================================================
