--------------------------- MODULE CpiTranslation ----------------------------
(* What a program passes to sol_invoke_signed_rust and sol_invoke_signed_c, *)
(* read out of its memory (program-runtime/src/cpi.rs): the instruction,    *)
(* the signers' seeds and the account infos, in the two layouts.  A call s  *)
(* ends with s.cpi holding what was translated.  How the accounts are then  *)
(* synchronised is in ProgramRuntime.                                       *)
EXTENDS RuntimeSyscalls, ParameterLayout

MAX_SIGNERS == 16
ACCOUNT_INFO_BYTE_SIZE == 80
MAX_CPI_ACCOUNT_INFOS == 255
MAX_ACCOUNTS_PER_INSTRUCTION == 255
MAX_INSTRUCTION_DATA_LEN == 10 * KIBIBYTE

(* The guest's structures.  A Rust vector is its pointer, capacity, length; *)
(* the value of an Rc<RefCell<..>> lies behind two counts and a flag.       *)
StableInstruction == Type(80, 8)
SolInstruction == Type(40, 8)
SolAccountMeta == Type(16, 8)
AccountInfo == Type(48, 8)
SolAccountInfo == Type(56, 8)
RcRefCellValue == 24

FlagsAt(s, a) == Load(s, a, 2)
AreBools(flags) == \A i \in 1..2 : flags[i] <= 1
KeyAt(s, a) == Load(s, a, 32)

check_instruction_size(s, num_accounts, data_len) ==
    Require(Require(s, num_accounts <= MAX_ACCOUNTS_PER_INSTRUCTION, "MaxInstructionAccountsExceeded"),
            data_len <= MAX_INSTRUCTION_DATA_LEN, "MaxInstructionDataLenExceeded")
InstructionCost(s, num_accounts, data_len) ==
    SatAdd(PerUnit(s, data_len), PerUnit(s, num_accounts * AccountMeta.size))
Meta(key, signer, writable) == [key |-> key, signer |-> signer = 1, writable |-> writable = 1]
RustMeta(key, flags) == Meta(key, flags[1], flags[2])
CMeta(key, flags) == Meta(key, flags[2], flags[1])      \* is_writable comes first
Instruction(s, program, accounts, data) ==
    IF Ok(s) THEN [s EXCEPT !.cpi.instruction = [program |-> program, accounts |-> accounts, data |-> data]] ELSE s

(* Both slices are translated before they are measured and paid for.        *)
Element(slice, ty, i) == slice.ptr + (i - 1) * ty.size
PaidSlices(s, accounts, ty, data) ==
    Consume(check_instruction_size(translate_slice(translate_slice(s, accounts.ptr, accounts.len, ty), data.ptr, data.len, U8),
                                   accounts.len, data.len),
            InstructionCost(s, accounts.len, data.len))
RustMetas(s, accounts) ==
    [i \in 1..accounts.len |-> RustMeta(KeyAt(s, Element(accounts, AccountMeta, i)),
                                        FlagsAt(s, Element(accounts, AccountMeta, i) + 32))]
RustFlagsAreBools(s, accounts) ==
    \A i \in 1..accounts.len : AreBools(FlagsAt(s, Element(accounts, AccountMeta, i) + 32))
RustInstruction(s, addr, accounts, data) ==
    Then(PaidSlices(s, accounts, AccountMeta, data),
         LAMBDA t : Instruction(Require(t, RustFlagsAreBools(t, accounts), "InvalidArgument"),
                                KeyAt(t, addr + 48), RustMetas(t, accounts), LoadSlice(t, data)))
translate_instruction_rust(s, addr) ==
    Then(translate_type(s, addr, StableInstruction),
         LAMBDA t : RustInstruction(t, addr, [ptr |-> Word(t, addr), len |-> Word(t, addr + 16)],
                                    [ptr |-> Word(t, addr + 24), len |-> Word(t, addr + 40)]))

TranslateCMeta(s, a) ==
    Then(Require(s, AreBools(FlagsAt(s, a + 8)), "InvalidArgument"), LAMBDA t : translate_type(t, Word(t, a), Pubkey))
CMetas(s, accounts) ==
    [i \in 1..accounts.len |-> CMeta(KeyAt(s, Word(s, Element(accounts, SolAccountMeta, i))),
                                     FlagsAt(s, Element(accounts, SolAccountMeta, i) + 8))]
CInstruction(s, program, accounts, data) ==
    Then(Then(PaidSlices(translate_type(s, program, Pubkey), accounts, SolAccountMeta, data),
              LAMBDA t : FoldLeft(TranslateCMeta, t, [i \in 1..accounts.len |-> Element(accounts, SolAccountMeta, i)])),
         LAMBDA u : Instruction(u, KeyAt(u, program), CMetas(u, accounts), LoadSlice(u, data)))
translate_instruction_c(s, addr) ==
    Then(translate_type(s, addr, SolInstruction),
         LAMBDA t : CInstruction(t, Word(t, addr), SliceAt(t, addr + 8), SliceAt(t, addr + 24)))

------------------------------------------------------------------------------
(* Signers; the seeds of one are a slice of slices in both layouts.         *)
Sign(s, address) == IF address = <<>> THEN Fail(s, "BadSeeds") ELSE [s EXCEPT !.cpi.signers = Append(@, address)]
TranslateSigner(s, seeds) ==
    Then(Then(Require(translate_slice(s, seeds.ptr, seeds.len, VmSlice), seeds.len <= MAX_SEEDS, "MaxSeedLengthExceeded"),
              LAMBDA t : TranslateAll(t, SlicesAt(t, seeds.ptr, seeds.len))),
         LAMBDA u : Sign(u, create_program_address(SeedsAt(u, seeds.ptr, seeds.len), KeyBytes(Current(u).program))))
TranslateSigners(s, addr, len, ty) ==
    Then(Require(translate_slice(s, addr, len, ty), len <= MAX_SIGNERS, "TooManySigners"),
         LAMBDA t : FoldLeft(TranslateSigner, t, SlicesAt(t, addr, len)))
translate_signers_rust(s, addr, len) == TranslateSigners(s, addr, len, VmSlice)
translate_signers_c(s, addr, len) == TranslateSigners(s, addr, len, Type(16, 8))

------------------------------------------------------------------------------
(* Account infos.  InfoAt and its keys; in both layouts the key comes first.*)
check_account_infos(s, n) == Require(s, n <= MAX_CPI_ACCOUNT_INFOS, "MaxInstructionAccountInfosExceeded")
InfoAddr(addr, ty, i) == addr + (i - 1) * ty.size
translate_account_infos(s, addr, len, ty) ==
    LET outside == Require(s, ~(Restricted(s) /\ SatAdd(addr, SatMul(len, ty.size)) >= MM_INPUT_START), "InvalidPointer")
        infos == check_account_infos(translate_slice(outside, addr, len, ty), len)
    IN  Then(Consume(infos, PerUnit(s, len * ACCOUNT_INFO_BYTE_SIZE)),
             LAMBDA t : FoldLeft(LAMBDA u, i : translate_type(u, Word(u, InfoAddr(addr, ty, i)), Pubkey), t,
                                 [i \in 1..len |-> i]))

check_account_info_pointer(s, a, expected) == Require(s, ~Restricted(s) \/ a = expected, "InvalidPointer")
OutsideInput(s, a) == Require(s, ~(Restricted(s) /\ a >= MM_INPUT_START), "InvalidPointer")

(* CallerAccount: where in the host its fields lie; the data is the bytes   *)
(* from data for len, or not there with direct mapping.                     *)
Caller(serialized, index, lamports, owner, data, len_addr, len) ==
    Then(serialized.call, LAMBDA t :
        [t EXCEPT !.cpi.accounts = Append(@,
             [index |-> index, lamports |-> HostOf(t, TRUE, lamports, 8), owner |-> HostOf(t, TRUE, owner, 32),
              vm_data_addr |-> data, vm_len_addr |-> len_addr, host |-> serialized.host, len |-> len])])

(* get_serialized_data: with the adjusted address space the pointer is      *)
(* computed from the start of the input instead of being translated.        *)
ReservedOf(s, meta) == meta.original_data_len + (IF s.check_aligned THEN MAX_PERMITTED_DATA_INCREASE ELSE 0)
NoHostData == -2
RawPointer(s, a) == HostOf(s, TRUE, MM_INPUT_START, 1) + SatSub(a, MM_INPUT_START)
RawData(s, a) == [call |-> s, host |-> IF Ok(s) THEN RawPointer(s, a) ELSE NoHost]
TranslatedData(s, a, len) == [call |-> s, host |-> IF Ok(s) /\ len > 0 THEN HostOf(s, TRUE, a, len) ELSE NoHostData]
SerializedData(s, a, len) ==
    IF DirectMapping(s.mode) THEN [call |-> s, host |-> NoHostData]
    ELSE IF s.mode.vas THEN RawData(translate_slice_mut_for_cpi(s, MM_INPUT_START, 1, U8, FALSE), a)
    ELSE TranslatedData(translate_slice_mut_for_cpi(s, a, len, U8, FALSE), a, len)
get_serialized_data(s, a, meta, len) ==
    SerializedData(Require(s, ~(Restricted(s) /\ len > ReservedOf(s, meta)), "InvalidRealloc"), a, len)

(* The fields of an info, a step at a time: a cell is read once it is       *)
(* translated.                                                              *)
RustInfo(s, info) ==
    [key |-> Word(s, info), lamports_cell |-> Word(s, info + 8) + RcRefCellValue,
     data_cell |-> Word(s, info + 16) + RcRefCellValue, owner |-> Word(s, info + 24)]
FromData(s, p, lamports, data, meta, index) ==
    LET paid == IF Restricted(s) THEN check_account_info_pointer(s, data.ptr, meta.vm_data_addr)
                ELSE Consume(s, PerUnit(s, data.len))
    IN  Then(translate_type_mut_for_cpi(OutsideInput(paid, p.data_cell + 8), p.data_cell + 8, U64, FALSE),
             LAMBDA t : Caller(get_serialized_data(t, data.ptr, meta, data.len), index, lamports, p.owner, data.ptr,
                               p.data_cell + 8, data.len))
FromLamports(s, p, lamports, meta, index) ==
    LET moved == translate_type_mut_for_cpi(check_account_info_pointer(s, lamports, meta.vm_lamports_addr),
                                            lamports, U64, s.check_aligned)
        owned == OutsideInput(translate_type_mut_for_cpi(moved, p.owner, Pubkey, s.check_aligned), p.data_cell)
    IN  Then(translate_type(owned, p.data_cell, VmSlice),
             LAMBDA t : FromData(t, p, lamports, SliceAt(t, p.data_cell), meta, index))
FromInfo(s, p, meta, index) ==
    LET checked == check_account_info_pointer(check_account_info_pointer(s, p.key, meta.vm_key_addr),
                                              p.owner, meta.vm_owner_addr)
    IN  Then(OutsideInput(translate_type(checked, p.lamports_cell, U64), p.lamports_cell),
             LAMBDA t : FromLamports(t, p, Word(t, p.lamports_cell), meta, index))
from_account_info(s, info, meta, index) == FromInfo(s, RustInfo(s, info), meta, index)

CInfo(s, info) ==
    [key |-> Word(s, info), lamports |-> Word(s, info + 8), len |-> Word(s, info + 16), data |-> Word(s, info + 24),
     owner |-> Word(s, info + 32)]
FromCInfo(s, info, p, meta, index) ==
    LET checked == FoldLeft(LAMBDA t, q : check_account_info_pointer(t, q[1], q[2]), s,
                            <<<<p.key, meta.vm_key_addr>>, <<p.owner, meta.vm_owner_addr>>,
                              <<p.lamports, meta.vm_lamports_addr>>, <<p.data, meta.vm_data_addr>>>>)
        owned == translate_type_mut_for_cpi(translate_type_mut_for_cpi(checked, p.lamports, U64, s.check_aligned),
                                            p.owner, Pubkey, s.check_aligned)
        paid == Consume(owned, IF Restricted(s) THEN 0 ELSE PerUnit(s, p.len))
    IN  Then(translate_type_mut_for_cpi(OutsideInput(paid, info + 16), info + 16, U64, FALSE),
             LAMBDA u : Caller(get_serialized_data(u, p.data, meta, p.len), index, p.lamports, p.owner, p.data,
                               info + 16, p.len))
from_sol_account_info(s, info, meta, index) == FromCInfo(s, info, CInfo(s, info), meta, index)

------------------------------------------------------------------------------
(* translate_accounts_common: one caller account per distinct account of    *)
(* the next instruction, from the first info with its key.                  *)
IndexInCaller(s, key) == {i \in 1..Len(s.accounts) : KeyBytes(s.accounts[i].key) = key /\ ~IsDup(s.accounts[i])}
FirstWithKey(s, addr, len, ty, key) ==
    LET with == {i \in 1..len : KeyAt(s, Word(s, InfoAddr(addr, ty, i))) = key}
    IN  IF with = {} THEN 0 ELSE CHOOSE i \in with : \A j \in with : i <= j
(* update_callee_account for an account that the caller may not change: a   *)
(* copy that differs is an error.                                           *)
Differs(s, copy, account) ==
    \/ Value(BytesAt(s.mem, copy.lamports, 8)) # account.lamports
    \/ BytesAt(s.mem, copy.owner, 32) # KeyBytes(account.owner)
    \/ IF s.mode.vas THEN Word(s, copy.vm_len_addr) # Len(account.data)
       ELSE BytesAt(s.mem, copy.host, copy.len) # account.data
update_callee_account(s, copy) ==
    Require(s, s.accounts[copy.index].changeable \/ ~Differs(s, copy, s.accounts[copy.index]), "AccountModified")

UpdateOrPay(s) ==
    Then(s, LAMBDA t : IF Restricted(t) THEN Consume(t, PerUnit(t, Last(t.cpi.accounts).len))
                       ELSE update_callee_account(t, Last(t.cpi.accounts)))
DoTranslate(s, ty, info, meta, index) ==
    IF ty = AccountInfo THEN from_account_info(s, info, meta, index) ELSE from_sol_account_info(s, info, meta, index)
TranslateFrom(s, index, info, addr, ty) ==
    IF s.accounts[index].executable THEN Consume(s, PerUnit(s, Len(s.accounts[index].data)))
    ELSE IF info = 0 THEN Fail(s, "MissingAccount")
    ELSE UpdateOrPay(DoTranslate(s, ty, InfoAddr(addr, ty, info), s.metas[index], index))
TranslateAccount(s, key, addr, len, ty) ==
    Then(s, LAMBDA t : TranslateFrom(t, CHOOSE i \in IndexInCaller(t, key) : TRUE, FirstWithKey(t, addr, len, ty, key), addr, ty))

DistinctKeys(metas) ==
    SelectSeq([i \in 1..Len(metas) |-> IF \E j \in 1..(i - 1) : metas[j].key = metas[i].key THEN <<>>
                                       ELSE metas[i].key], LAMBDA key : key # <<>>)
translate_accounts(s, addr, len, ty) ==
    Then(Then(translate_account_infos(s, addr, len, ty),
              LAMBDA t : FoldLeft(LAMBDA u, key : TranslateAccount(u, key, addr, len, ty), t,
                                  DistinctKeys(t.cpi.instruction.accounts))),
         LAMBDA v : IF Restricted(v) THEN FoldLeft(update_callee_account, v, v.cpi.accounts) ELSE v)
translate_accounts_rust(s, addr, len) == translate_accounts(s, addr, len, AccountInfo)
translate_accounts_c(s, addr, len) == translate_accounts(s, addr, len, SolAccountInfo)

------------------------------------------------------------------------------
(* check_authorized_program: loaders and precompiles cannot be called, but  *)
(* for some instructions of the upgradeable loader, told by their first     *)
(* byte: upgrade 3, set authority 4, close 5 and, with a feature, set       *)
(* authority checked 7 and extend program checked, whose 9 is a 6 here.     *)
UpgradeableLoader == 22
UnauthorizedPrograms == {20, 21, 23, 24}        \* the other loaders' keys, a precompile's
UpgradeableTags(features) ==
    {3, 4, 5} \cup (IF "enable_bpf_loader_set_authority_checked_ix" \in features THEN {7} ELSE {})
              \cup (IF "enable_extend_program_checked" \in features THEN {6} ELSE {})
check_authorized_program(s) ==
    LET ix == s.cpi.instruction
        callable == ix.data # <<>> /\ Head(ix.data) \in UpgradeableTags(s.features)
    IN  Require(s, /\ \A k \in UnauthorizedPrograms : ix.program # KeyBytes(k)
                   /\ ix.program = KeyBytes(UpgradeableLoader) => callable, "ProgramNotSupported")

(* prepare_next_cpi_instruction: accounts the caller has, with no more      *)
(* privileges than its own or its signatures'; repeats share their flags.   *)
CallerMeta(s, key) == s.accounts[CHOOSE i \in IndexInCaller(s, key) : TRUE]
Joined(metas, key) ==
    [key |-> key, signer |-> \E i \in 1..Len(metas) : metas[i].key = key /\ metas[i].signer,
     writable |-> \E i \in 1..Len(metas) : metas[i].key = key /\ metas[i].writable]
Privileges(s, m) ==
    IF ~Ok(s) THEN s
    ELSE IF IndexInCaller(s, m.key) = {} THEN Fail(s, "MissingAccount")
    ELSE Require(s, /\ m.writable => CallerMeta(s, m.key).writable
                    /\ m.signer => CallerMeta(s, m.key).signer \/ m.key \in ToSet(s.cpi.signers),
                 "PrivilegeEscalation")
prepare_next_cpi_instruction(s) ==
    LET metas == s.cpi.instruction.accounts
        joined == [i \in 1..Len(metas) |-> Joined(metas, metas[i].key)]
        known == Require(s, \A i \in 1..Len(metas) : metas[i].key \in s.known, "MissingAccount")
    IN  Then(Require(FoldLeft(Privileges, known, joined), IndexInCaller(s, s.cpi.instruction.program) # {}, "MissingAccount"),
             LAMBDA t : [t EXCEPT !.cpi.instruction.accounts = joined])

(* cpi_common up to the call of the callee, for either layout.              *)
NoCpi == [instruction |-> [program |-> <<>>, accounts |-> <<>>, data |-> <<>>], signers |-> <<>>, accounts |-> <<>>]
CpiStart(s) == Consume([s EXCEPT !.cpi = NoCpi], s.cost.invoke_units)
CpiEntry(signed) == Then(Then(signed, check_authorized_program), prepare_next_cpi_instruction)
SyscallInvokeSignedRust(s, ix, infos, infos_len, seeds, seeds_len) ==
    Then(CpiEntry(Then(Then(CpiStart(s), LAMBDA t : translate_instruction_rust(t, ix)),
                       LAMBDA t : translate_signers_rust(t, seeds, seeds_len))),
         LAMBDA t : translate_accounts_rust(t, infos, infos_len))
SyscallInvokeSignedC(s, ix, infos, infos_len, seeds, seeds_len) ==
    Then(CpiEntry(Then(Then(CpiStart(s), LAMBDA t : translate_instruction_c(t, ix)),
                       LAMBDA t : translate_signers_c(t, seeds, seeds_len))),
         LAMBDA t : translate_accounts_c(t, infos, infos_len))
=============================================================================
