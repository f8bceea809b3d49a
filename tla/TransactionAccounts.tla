------------------------ MODULE TransactionAccounts ------------------------
(* A transaction's accounts and the trace of its instructions, as the       *)
(* runtime holds them (transaction-context/src).  Programs borrow accounts, *)
(* and change them through the borrow; the data of an account is a counted  *)
(* buffer that the account store may hold too.  What programs are shown of  *)
(* accounts and instructions is kept in frames with guest addresses.        *)
(*                                                                          *)
(* Operations that fail without an effect are not steps.                    *)
EXTENDS Integers, Sequences, FiniteSets, FiniteSetsExt, SequencesExt

CONSTANTS
    Loaded,                 \* the accounts: [key, owner, lamports, data, executable, stored]
    TopLevel,               \* the message's instructions: [program, accounts], see Instruction
    Invocable,              \* the instructions that programs may invoke
    Builtins,               \* the programs that borrow accounts themselves
    InstructionsSysvar, SysvarOwner,
    I8Max,                  \* i8::MAX
    MaxDataLen,             \* MAX_ACCOUNT_DATA_LEN
    MaxTransactionGrowth,   \* MAX_ACCOUNT_DATA_GROWTH_PER_TRANSACTION
    MaxInstructionGrowth,   \* MAX_ACCOUNT_DATA_GROWTH_PER_INSTRUCTION
    MaxAccounts,            \* MAX_ACCOUNTS_PER_TRANSACTION
    StackCapacity, TraceCapacity,
    Slices,                 \* the data that programs write
    Owners,                 \* the owners that programs assign
    MaxRefs, MaxWrites      \* bounds: borrows at a time, changes

VARIABLES
    shared_account_fields, private_account_fields, borrow_counters, touched_flags, resize_delta, lamports_delta,
    heap,       \* the contents of buffers
    stored,     \* the accounts whose buffer the account store holds
    refs,       \* the live borrows of each account
    context,    \* TransactionContext without the accounts
    record,     \* the ExecutionRecord
    writes      \* changes so far; not in the code

accountVars == <<shared_account_fields, private_account_fields, touched_flags, resize_delta, lamports_delta, heap>>
vars == <<accountVars, borrow_counters, stored, refs, context, record, writes>>

Accounts == 1..Len(Loaded)

(* What the code before guarantees of a transaction: its instructions, and  *)
(* those that are invoked, name accounts of the transaction.                *)
Metas == [i : Accounts, writable : BOOLEAN]
Instruction == [program : Accounts, accounts : Seq(Metas)]
ConstantsAreRight ==
    /\ I8Max \in Nat /\ MaxAccounts \in Nat /\ TraceCapacity \in Nat
    /\ DOMAIN Loaded = 1..Len(Loaded) /\ Len(Loaded) \in Nat
    /\ \A i \in Accounts : Loaded[i].executable \in BOOLEAN
    /\ TopLevel \in Seq(Instruction)
    /\ Invocable \subseteq Instruction
    /\ \A slice \in Slices : Len(slice) \in Nat

VmSlice(ptr, len) == [ptr |-> ptr, len |-> len]

(* Guest addresses, in regions of 4 GiB.                                    *)
RETURN_DATA_SCRATCHPAD == 7
GUEST_ACCOUNT_PAYLOAD_BASE_ADDRESS == 8
GUEST_INSTRUCTION_DATA_BASE_ADDRESS == GUEST_ACCOUNT_PAYLOAD_BASE_ADDRESS + MaxAccounts
GUEST_INSTRUCTION_ACCOUNT_BASE_ADDRESS == GUEST_INSTRUCTION_DATA_BASE_ADDRESS + TraceCapacity

------------------------------------------------------------------------------
(* Buffers.  Those of the loaded accounts come first, then one per account  *)
(* for the copy it may need.                                                *)
Buffers == 1..(2 * Len(Loaded))
Buffer(i) == private_account_fields[i].payload
Data(i) == heap[Buffer(i)]
strong_count(b) ==
    Cardinality({i \in Accounts : Buffer(i) = b}) + Cardinality({i \in stored : i = b})
is_shared(i) == strong_count(Buffer(i)) > 1

(* The buffer that a change of the data is made in: Arc::make_mut and       *)
(* TransactionAccountViewMut::reserve copy a shared one.                    *)
InPlace(i) == Buffer(i)
make_mut(i) == IF is_shared(i) THEN Len(Loaded) + i ELSE Buffer(i)

Store(i, data) ==
    /\ heap' = [heap EXCEPT ![make_mut(i)] = data]
    /\ private_account_fields' = [private_account_fields EXCEPT ![i].payload = make_mut(i)]
set_len(i, len) == [shared_account_fields EXCEPT ![i].payload.len = len]

Padded(data, len) == [k \in 1..len |-> IF k <= Len(data) THEN data[k] ELSE 0]
is_zeroed(data) == \A k \in 1..Len(data) : data[k] = 0

------------------------------------------------------------------------------
(* BorrowCounter: negative while written, the number of readers otherwise.  *)
is_writing(i) == borrow_counters[i] < 0
is_reading(i) == borrow_counters[i] > 0
can_borrow(i) == ~is_writing(i) /\ borrow_counters[i] < I8Max
can_borrow_mut(i) == ~is_writing(i) /\ ~is_reading(i)

Running == context.stack # <<>> /\ context.err = ""
Current == context.trace[Last(context.stack)]
CurrentAccounts == context.instruction_accounts[Last(context.stack)]
ByBuiltin == Running /\ Loaded[Current.program].key \in Builtins

Live == MapThenSumSet(LAMBDA i : refs[i].readers + refs[i].writers, Accounts)
NoRefs == [i \in Accounts |-> [readers |-> 0, writers |-> 0, writable |-> FALSE]]

(* TransactionAccounts::try_borrow.                                         *)
try_borrow(i) ==
    /\ Running /\ Live < MaxRefs
    /\ can_borrow(i)
    /\ borrow_counters' = [borrow_counters EXCEPT ![i] = @ + 1]
    /\ refs' = [refs EXCEPT ![i].readers = @ + 1]
    /\ UNCHANGED <<accountVars, stored, context, record, writes>>

(* InstructionContext::try_borrow_instruction_account and                   *)
(* TransactionAccounts::try_borrow_mut.                                     *)
try_borrow_instruction_account(k) ==
    /\ ByBuiltin /\ Live < MaxRefs
    /\ LET meta == CurrentAccounts[k]
       IN  /\ can_borrow_mut(meta.i)
           /\ borrow_counters' = [borrow_counters EXCEPT ![meta.i] = @ - 1]
           /\ refs' = [refs EXCEPT ![meta.i].writers = @ + 1, ![meta.i].writable = meta.writable]
    /\ UNCHANGED <<accountVars, stored, context, record, writes>>

(* AccountRef::drop and AccountRefMut::drop.                                *)
drop(i) ==
    /\ refs[i].readers > 0
    /\ refs' = [refs EXCEPT ![i].readers = @ - 1]
    /\ borrow_counters' = [borrow_counters EXCEPT ![i] = @ - 1]
    /\ UNCHANGED <<accountVars, stored, context, record, writes>>
drop_mut(i) ==
    /\ refs[i].writers > 0
    /\ refs' = [refs EXCEPT ![i].writers = @ - 1, ![i].writable = FALSE]
    /\ borrow_counters' = [borrow_counters EXCEPT ![i] = @ + 1]
    /\ shared_account_fields' = set_len(i, Len(Data(i)))
    /\ UNCHANGED <<private_account_fields, touched_flags, resize_delta, lamports_delta, heap>>
    /\ UNCHANGED <<stored, context, record, writes>>

(* The account store drops its reference, as its caches do at any time.     *)
Forget(i) ==
    /\ i \in stored
    /\ stored' = stored \ {i}
    /\ UNCHANGED <<accountVars, borrow_counters, refs, context, record, writes>>

------------------------------------------------------------------------------
(* BorrowedInstructionAccount.                                              *)
Fields(i) == shared_account_fields[i]
touch(i) == touched_flags' = [touched_flags EXCEPT ![i] = TRUE]
resized(i, len) == resize_delta + (len - Len(Data(i)))
is_owned_by_current_program(i) == Loaded[Current.program].key = Fields(i).owner
can_data_be_changed(i) == refs[i].writable /\ is_owned_by_current_program(i)
can_data_be_resized(i, len) ==
    /\ len # Len(Data(i)) => is_owned_by_current_program(i)
    /\ len <= MaxDataLen
    /\ resized(i, len) <= MaxTransactionGrowth
    /\ can_data_be_changed(i)
is_exempt(lamports, len) == lamports > len

Through(i) ==
    /\ Running /\ refs[i].writers > 0 /\ writes < MaxWrites
    /\ writes' = writes + 1
    /\ UNCHANGED <<borrow_counters, stored, refs, context, record>>

set_owner(i, owner) ==
    /\ Through(i)
    /\ is_owned_by_current_program(i) /\ refs[i].writable /\ is_zeroed(Data(i))
    /\ Fields(i).owner # owner
    /\ touch(i)
    /\ shared_account_fields' = [shared_account_fields EXCEPT ![i].owner = owner]
    /\ UNCHANGED <<private_account_fields, resize_delta, lamports_delta, heap>>

set_lamports(i, lamports) ==
    /\ Through(i)
    /\ lamports >= 0
    /\ is_owned_by_current_program(i) \/ lamports >= Fields(i).lamports
    /\ refs[i].writable
    /\ Fields(i).lamports # lamports
    /\ lamports_delta' = lamports_delta + (lamports - Fields(i).lamports)
    /\ touch(i)
    /\ shared_account_fields' = [shared_account_fields EXCEPT ![i].lamports = lamports]
    /\ UNCHANGED <<private_account_fields, resize_delta, heap>>

(* get_data_mut, whose caller writes a prefix of the data.  set_state finds *)
(* that the data is too short only afterwards.                              *)
get_data_mut(i, slice) ==
    /\ Through(i)
    /\ can_data_be_changed(i)
    /\ touch(i)
    /\ Store(i, IF Len(slice) > Len(Data(i)) THEN Data(i)
                ELSE slice \o SubSeq(Data(i), Len(slice) + 1, Len(Data(i))))
    /\ UNCHANGED <<shared_account_fields, resize_delta, lamports_delta>>

(* The three ways to change the length.                                     *)
Resize(i, data) ==
    /\ Through(i)
    /\ can_data_be_resized(i, Len(data))
    /\ touch(i)
    /\ resize_delta' = resized(i, Len(data))
    /\ Store(i, data)
    /\ shared_account_fields' = set_len(i, Len(data))
    /\ UNCHANGED lamports_delta
set_data_from_slice(i, slice) == Resize(i, slice)
set_data_length(i, len) == len # Len(Data(i)) /\ Resize(i, Padded(Data(i), len))
extend_from_slice(i, slice) == slice # <<>> /\ Resize(i, Data(i) \o slice)

set_executable(i, executable) ==
    /\ Through(i)
    /\ is_exempt(Fields(i).lamports, Len(Data(i)))
    /\ is_owned_by_current_program(i) /\ refs[i].writable
    /\ private_account_fields[i].executable # executable
    /\ touch(i)
    /\ private_account_fields' = [private_account_fields EXCEPT ![i].executable = executable]
    /\ UNCHANGED <<shared_account_fields, resize_delta, lamports_delta, heap>>

(* access_violation_handler: a program stores the last byte of a slice past *)
(* the end of an account's region, or into a region that is copied on       *)
(* write.  Only accounts that it can change have a handler.                 *)
Growth(delta) == Max({0, MaxTransactionGrowth - delta})
access_violation_handler(k, requested, reserved) ==
    LET i == CurrentAccounts[k].i
        data == Data(i)
        len == IF requested <= Len(data) THEN Len(data)
               ELSE Min({reserved, MaxDataLen, Len(data) + Growth(resize_delta)})
    IN  /\ Running /\ ~ByBuiltin /\ writes < MaxWrites
        /\ CurrentAccounts[k].writable /\ is_owned_by_current_program(i)
        /\ requested <= reserved
        /\ can_borrow_mut(i)
        /\ touch(i)
        /\ resize_delta' = resized(i, len)
        /\ Store(i, [x \in 1..len |-> IF x = requested THEN 1 ELSE Padded(data, len)[x]])
        /\ shared_account_fields' = set_len(i, len)
        /\ writes' = writes + 1
        /\ UNCHANGED <<lamports_delta, borrow_counters, stored, refs, context, record>>

------------------------------------------------------------------------------
(* The trace: the message's instructions, those invoked so far in order,    *)
(* and a frame for the next.                                                *)
NoCaller == -1
DefaultFrame ==
    [program |-> 0, nesting_level |-> 0, index_of_caller_instruction |-> NoCaller,
     instruction_accounts |-> VmSlice(0, 0), instruction_data |-> VmSlice(0, 0)]
configure_vm_slices(frame, index, accounts) ==
    [frame EXCEPT !.instruction_data = VmSlice(GUEST_INSTRUCTION_DATA_BASE_ADDRESS + index - 1, 1),
                  !.instruction_accounts = VmSlice(GUEST_INSTRUCTION_ACCOUNT_BASE_ADDRESS + index - 1, Len(accounts))]

(* configure_instruction_at_index, for an instruction that is invoked.      *)
configure_instruction_at_index(c, index, ix, caller) ==
    LET from == [c.trace[index] EXCEPT !.index_of_caller_instruction = caller, !.program = ix.program]
    IN  [c EXCEPT !.total_number_of_instructions_in_trace = @ + 1,
                  !.cpi_scratchpad.ptr = @ + 1,
                  !.trace[index] = configure_vm_slices(from, index, ix.accounts),
                  !.instruction_accounts = Append(@, ix.accounts)]

get_instruction_trace_length(c) == Len(c.trace) - 1
number_of_called_instructions_in_trace(c) == c.next_top_level + c.number_of_cpis_in_trace

(* TransactionContext::new, and then configure_instruction_at_index for     *)
(* every instruction of the message in order.                               *)
NewContext ==
    [trace |-> [k \in 1..(Len(TopLevel) + 1) |->
                  IF k <= Len(TopLevel)
                  THEN configure_vm_slices([DefaultFrame EXCEPT !.program = TopLevel[k].program], k, TopLevel[k].accounts)
                  ELSE DefaultFrame],
     stack |-> <<>>, next_top_level |-> 0,
     instruction_accounts |-> [k \in 1..Len(TopLevel) |-> TopLevel[k].accounts],
     return_data_pubkey |-> "", return_data_bytes |-> <<>>,
     return_data_scratchpad |-> VmSlice(RETURN_DATA_SCRATCHPAD, 0),
     cpi_scratchpad |-> VmSlice(GUEST_INSTRUCTION_DATA_BASE_ADDRESS + Len(TopLevel), 0),
     current_executing_instruction |-> 1, total_number_of_instructions_in_trace |-> Len(TopLevel),
     number_of_cpis_in_trace |-> 0, err |-> ""]

Failed(c, e) == [c EXCEPT !.err = e]

(* TransactionContext::push, up to the instructions sysvar.                 *)
push(c) ==
    LET level == Len(c.stack)
        top == level = 0
        levelled == [c EXCEPT !.trace[Len(c.trace)].nesting_level = level]
        index == IF top THEN c.next_top_level + 1 ELSE get_instruction_trace_length(c) + 1
        counted == IF top THEN [levelled EXCEPT !.next_top_level = @ + 1]
                   ELSE [levelled EXCEPT !.number_of_cpis_in_trace = @ + 1, !.trace = Append(@, DefaultFrame)]
    IN  IF ~top /\ lamports_delta # 0 THEN Failed(c, "UnbalancedInstruction")
        ELSE IF number_of_called_instructions_in_trace(c) >= TraceCapacity
             THEN Failed(levelled, "MaxInstructionTraceLengthExceeded")
        ELSE IF level >= StackCapacity THEN Failed(counted, "CallDepth")
        ELSE [counted EXCEPT !.current_executing_instruction = index, !.stack = Append(@, index)]

(* The rest of it: the sysvar account, if the transaction has it, is told   *)
(* which of the message's instructions runs.                                *)
Sysvars == {i \in Accounts : Loaded[i].key = InstructionsSysvar}
store_current_index_checked(i, index) == Store(i, <<Data(i)[1], index>>)
Pushed(c) ==
    /\ IF c.err # "" \/ Sysvars = {} THEN context' = c /\ UNCHANGED <<heap, private_account_fields>>
       ELSE LET i == Min(Sysvars)
            IN  IF Fields(i).owner # SysvarOwner
                THEN context' = Failed(c, "InvalidAccountOwner") /\ UNCHANGED <<heap, private_account_fields>>
                ELSE context' = c /\ store_current_index_checked(i, c.next_top_level)
    /\ UNCHANGED <<shared_account_fields, touched_flags, resize_delta, lamports_delta>>
    /\ UNCHANGED <<borrow_counters, stored, refs, record, writes>>

(* A program that borrows from the context cannot push or pop meanwhile:    *)
(* both take the context by mutable reference.                              *)
Start ==
    /\ context.stack = <<>> /\ context.err = "" /\ context.next_top_level < Len(TopLevel)
    /\ Pushed(push(context))

Invoke(ix) ==
    /\ Running /\ refs = NoRefs
    /\ Pushed(push(configure_instruction_at_index(context, get_instruction_trace_length(context) + 1, ix, Last(context.stack))))

(* A push that fails at the sysvar leaves its instruction on the stack, and *)
(* nobody pops for it.                                                      *)
Leftover == IF context.err = "InvalidAccountOwner" THEN 1 ELSE 0

(* TransactionContext::pop, after the program succeeded or failed.          *)
Popped(c) ==
    LET rest == Front(c.stack)
    IN  [c EXCEPT !.stack = rest,
                  !.current_executing_instruction = IF rest = <<>> THEN @ ELSE Last(rest)]
Pop(ok) ==
    /\ Len(context.stack) > Leftover /\ refs = NoRefs
    /\ context.err # "" => ~ok
    /\ context' = LET error == CASE ~ok -> IF context.err = "" THEN "ProgramError" ELSE context.err
                                 [] ok /\ ~can_borrow_mut(Current.program) -> "AccountBorrowOutstanding"
                                 [] ok /\ lamports_delta # 0 -> "UnbalancedInstruction"
                                 [] OTHER -> ""
                  IN  Failed(Popped(context), error)
    /\ UNCHANGED <<accountVars, borrow_counters, stored, refs, record, writes>>

set_return_data(data) ==
    /\ Running /\ writes < MaxWrites
    /\ context' = [context EXCEPT !.return_data_pubkey = Loaded[Current.program].key,
                                  !.return_data_scratchpad.len = Len(data),
                                  !.return_data_bytes = data]
    /\ writes' = writes + 1
    /\ UNCHANGED <<accountVars, borrow_counters, stored, refs, record>>

(* ExecutionRecord::from.                                                   *)
Shown(i) ==
    [owner |-> Fields(i).owner, lamports |-> Fields(i).lamports, data |-> Data(i),
     executable |-> private_account_fields[i].executable]
NoRecord == [accounts |-> <<>>, return_data |-> <<>>, touched_account_count |-> 0, accounts_resize_delta |-> 0]
Finish ==
    /\ refs = NoRefs /\ record = NoRecord
    /\ Len(context.stack) = Leftover
    /\ context.err # "" \/ context.next_top_level = Len(TopLevel)
    /\ record' = [accounts |-> [i \in Accounts |-> Shown(i)],
                  return_data |-> <<context.return_data_pubkey, context.return_data_bytes>>,
                  touched_account_count |-> Cardinality({i \in Accounts : touched_flags[i]}),
                  accounts_resize_delta |-> resize_delta]
    /\ UNCHANGED <<accountVars, borrow_counters, stored, refs, context, writes>>

------------------------------------------------------------------------------
Init ==
    /\ shared_account_fields =
         [i \in Accounts |-> [owner |-> Loaded[i].owner, lamports |-> Loaded[i].lamports,
                              payload |-> VmSlice(GUEST_ACCOUNT_PAYLOAD_BASE_ADDRESS + i - 1, Len(Loaded[i].data))]]
    /\ private_account_fields = [i \in Accounts |-> [executable |-> Loaded[i].executable, payload |-> i]]
    /\ borrow_counters = [i \in Accounts |-> 0]
    /\ touched_flags = [i \in Accounts |-> FALSE]
    /\ resize_delta = 0 /\ lamports_delta = 0
    /\ heap = [b \in Buffers |-> IF b \in Accounts THEN Loaded[b].data ELSE <<>>]
    /\ stored = {i \in Accounts : Loaded[i].stored}
    /\ refs = NoRefs
    /\ context = NewContext
    /\ record = NoRecord
    /\ writes = 0

Write(i) ==
    \/ \E owner \in Owners : set_owner(i, owner)
    \/ \E step \in {-1, 1} : set_lamports(i, Fields(i).lamports + step)
    \/ \E slice \in Slices : get_data_mut(i, slice) \/ set_data_from_slice(i, slice) \/ extend_from_slice(i, slice)
    \/ \E len \in 0..MaxDataLen : set_data_length(i, len)
    \/ \E executable \in BOOLEAN : set_executable(i, executable)

Next ==
    \/ \E i \in Accounts : drop(i) \/ drop_mut(i) \/ Write(i) \/ Forget(i)
    \/ Running /\ \E k \in 1..Len(CurrentAccounts) :
         \/ try_borrow(CurrentAccounts[k].i)
         \/ try_borrow_instruction_account(k)
         \/ \E requested \in 1..MaxDataLen, extra \in 0..MaxInstructionGrowth :
              access_violation_handler(k, requested, Len(Data(CurrentAccounts[k].i)) + extra)
    \/ \E slice \in Slices : set_return_data(slice)
    \/ Start
    \/ \E ix \in Invocable : Invoke(ix)
    \/ \E ok \in BOOLEAN : Pop(ok)
    \/ Finish

Spec == Init /\ [][Next]_vars

------------------------------------------------------------------------------
(* A mutable borrow of an account is the only borrow of it, and the counter *)
(* says how many there are, however borrows of duplicates, failed attempts  *)
(* and drops in any order follow each other: what the unsafe references of  *)
(* try_borrow and try_borrow_mut rest on.  No borrow outlives the record.   *)
BorrowsAreExclusive ==
    \A i \in Accounts :
      /\ refs[i].writers <= 1
      /\ refs[i].writers = 1 => refs[i].readers = 0
      /\ borrow_counters[i] = refs[i].readers - refs[i].writers
      /\ borrow_counters[i] <= I8Max

(* The account store never sees a change of the transaction: buffers it     *)
(* shares with the accounts are copied before they are written, on every    *)
(* path that writes, and only until it drops them.                          *)
StoreKeepsItsCopy == \A i \in stored : heap[i] = Loaded[i].data

(* What the transaction is judged by is what happened to its accounts: the  *)
(* deltas are the sums of the changes of lamports and lengths, and every    *)
(* account that changed is touched, through borrows and faults alike.  The  *)
(* runtime's own note in the instructions sysvar is the exception.          *)
ChangesAreAccounted ==
    LET was(i) == Loaded[i]
        now(i) == Shown(i)
    IN  /\ lamports_delta = MapThenSumSet(LAMBDA i : now(i).lamports - was(i).lamports, Accounts)
        /\ resize_delta = MapThenSumSet(LAMBDA i : Len(now(i).data) - Len(was(i).data), Accounts)
        /\ resize_delta <= MaxTransactionGrowth
        /\ \A i \in Accounts \ Sysvars :
             (\E f \in {"owner", "lamports", "data", "executable"} : now(i)[f] # was(i)[f]) => touched_flags[i]
        /\ record # NoRecord =>
             record.touched_account_count >= Cardinality({i \in Accounts \ Sysvars : record.accounts[i].data # was(i).data})

(* The frames that programs can read say what the runtime knows: lengths of *)
(* data, the running instruction and its level and callers, the size of the *)
(* trace, and where the next instruction goes.  No two of their addresses   *)
(* are the same, unless the trace is full.                                  *)
Regions ==
    [i \in {"account"} \X Accounts |-> shared_account_fields[i[2]].payload.ptr]
    @@ [k \in {"data"} \X (1..Len(context.instruction_accounts)) |-> context.trace[k[2]].instruction_data.ptr]
    @@ [k \in {"accounts"} \X (1..Len(context.instruction_accounts)) |-> context.trace[k[2]].instruction_accounts.ptr]
    @@ (<<"return">> :> context.return_data_scratchpad.ptr)
    @@ (<<"scratchpad">> :> context.cpi_scratchpad.ptr)
FramesAreRight ==
    LET c == context
        length == get_instruction_trace_length(c)
    IN  /\ \A i \in Accounts : shared_account_fields[i].payload.len = Len(Data(i))
        /\ c.return_data_scratchpad.len = Len(c.return_data_bytes)
        /\ c.stack # <<>> => c.current_executing_instruction = Last(c.stack)
        /\ \A h \in 1..Len(c.stack) :
             LET frame == c.trace[c.stack[h]]
             IN  /\ frame.nesting_level = h - 1
                 /\ frame.index_of_caller_instruction = IF h = 1 THEN NoCaller ELSE c.stack[h - 1]
                 /\ frame.instruction_accounts.len = Len(c.instruction_accounts[c.stack[h]])
        /\ c.err = "" =>
             /\ c.total_number_of_instructions_in_trace = length
             /\ length = Len(TopLevel) + c.number_of_cpis_in_trace /\ length = Len(c.instruction_accounts)
             /\ c.cpi_scratchpad.ptr = GUEST_INSTRUCTION_DATA_BASE_ADDRESS + length
             /\ length < TraceCapacity => IsInjective(Regions)
=============================================================================
