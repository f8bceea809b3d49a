--------------------------- MODULE ParameterLayout ---------------------------
(* How a program's accounts and instruction are laid out in its input       *)
(* memory, and where they are read back from when it has returned           *)
(* (program-runtime/src/serialization.rs).  Bytes, guest addresses and host *)
(* addresses are all computed, because the point is that they agree.        *)
EXTENDS GuestMemory

CONSTANT MAX_PERMITTED_DATA_INCREASE

NON_DUP_MARKER == 2^W8 - 1
align_offset(n) == (-n) % BPF_ALIGN_OF_U128

(* An account of the instruction: dup is the position of the account it     *)
(* repeats, or NoDup; host is where its data vector lies.                   *)
NoDup == -1
IsDup(account) == account.dup # NoDup

(* The layout's modes: v1 is the deprecated loader, vas stands for          *)
(* virtual_address_space_adjustments, direct for                            *)
(* account_data_direct_mapping, pointers for SIMD-0449.                     *)
DirectMapping(mode) == mode.vas /\ mode.direct
Reserved(mode, account) == Len(account.data) + (IF mode.v1 THEN 0 ELSE MAX_PERMITTED_DATA_INCREASE)

------------------------------------------------------------------------------
(* Serializer.                                                              *)
NewSerializer(mode, base) ==
    [buffer |-> <<>>, regions |-> <<>>, vaddr |-> MM_INPUT_START, region_start |-> 0,
     mode |-> mode, base |-> base, metas |-> <<>>, data_offset |-> 0]

Here(s) == s.vaddr + Len(s.buffer) - s.region_start
Write(s, bytes) == [s EXCEPT !.buffer = @ \o bytes]
FillWrite(s, n) == Write(s, [i \in 1..n |-> 0])

push_region(s) ==
    LET len == Len(s.buffer) - s.region_start
    IN  [s EXCEPT !.regions = Append(@, Region(s.base + s.region_start, s.vaddr, len, NoGap, TRUE, 0)),
                  !.region_start = Len(s.buffer), !.vaddr = @ + len]

modify_memory_region_of_account(region, account, grows) ==
    [region EXCEPT !.len = Len(account.data), !.writable = account.changeable,
                   !.grows = IF account.changeable THEN grows ELSE 0]
create_memory_region_of_account(account, vaddr, grows) ==
    Region(account.host, vaddr, Len(account.data), NoGap, account.changeable /\ ~account.shared,
           IF account.changeable THEN grows ELSE 0)

(* write_account: the data, in the buffer or as a region of its own.        *)
ModifyLast(s, account, reserved) ==
    [s EXCEPT !.regions[Len(s.regions)] = modify_memory_region_of_account(@, account, reserved)]
AccountRegion(s, account, reserved) ==
    IF reserved = 0 THEN s
    ELSE IF s.mode.direct
    THEN [s EXCEPT !.regions = Append(@, create_memory_region_of_account(account, s.vaddr, reserved)),
                   !.vaddr = @ + reserved]
    ELSE ModifyLast(push_region(s), account, reserved)
ShiftNextRegion(s, account) ==
    [FillWrite(s, BPF_ALIGN_OF_U128) EXCEPT !.region_start = @ + BPF_ALIGN_OF_U128 - align_offset(Len(account.data))]
AlignAfter(s, account) ==
    IF s.mode.v1 THEN s
    ELSE IF s.mode.direct THEN ShiftNextRegion(s, account)
    ELSE FillWrite(s, align_offset(Len(account.data)))
DataAndSpare(s, account) ==
    FillWrite(Write(s, account.data), IF s.mode.v1 THEN 0 ELSE MAX_PERMITTED_DATA_INCREASE)
DataIn(s, account) == IF s.mode.direct THEN s ELSE DataAndSpare(s, account)
write_account(s, account) ==
    IF ~s.mode.vas
    THEN FillWrite(DataAndSpare(s, account), IF s.mode.v1 THEN 0 ELSE align_offset(Len(account.data)))
    ELSE AlignAfter(AccountRegion(DataIn(push_region(s), account), account, Reserved(s.mode, account)), account)
VmDataAddr(s) == IF s.mode.vas THEN push_region(s).vaddr ELSE s.vaddr + Len(s.buffer)

------------------------------------------------------------------------------
(* The accounts in the two layouts.                                         *)
AddMeta(s, meta) == [s EXCEPT !.metas = Append(@, meta)]
NewMeta(s, account) ==
    AddMeta(s, [original_data_len |-> Len(account.data), vm_key_addr |-> 0, vm_lamports_addr |-> 0,
                vm_owner_addr |-> 0, vm_data_addr |-> 0])
Note(s, field, addr) == [s EXCEPT !.metas[Len(s.metas)][field] = addr]
WriteKey(s, key) == Write(Note(s, "vm_key_addr", Here(s)), KeyBytes(key))
WriteOwner(s, owner) == Write(Note(s, "vm_owner_addr", Here(s)), KeyBytes(owner))
WriteLamports(s, account) ==
    Write(Note(s, "vm_lamports_addr", Here(s)), Bytes(8, account.lamports) \o Bytes(8, Len(account.data)))
WriteData(s, account) == write_account(Note(s, "vm_data_addr", VmDataAddr(s)), account)
RentEpoch == Bytes(8, U64Max)

AccountV0(s, account) ==
    LET key == Write(NewMeta(s, account), <<NON_DUP_MARKER, Flag(account.signer), Flag(account.writable)>>)
        data == WriteData(WriteLamports(WriteKey(key, account.key), account), account)
    IN  Write(WriteOwner(data, account.owner), <<Flag(account.executable)>> \o RentEpoch)
DuplicateV0(s, account) == AddMeta(Write(s, <<account.dup>>), s.metas[account.dup + 1])

AccountV1(s, account) ==
    LET key == Write(NewMeta(s, account), <<NON_DUP_MARKER, Flag(account.signer), Flag(account.writable),
                                            Flag(account.executable), 0, 0, 0, 0>>)
        owner == WriteOwner(WriteKey(key, account.key), account.owner)
    IN  Write(WriteData(WriteLamports(owner, account), account), RentEpoch)
DuplicateV1(s, account) == AddMeta(Write(s, <<account.dup, 0, 0, 0, 0, 0, 0, 0>>), s.metas[account.dup + 1])

(* The sizes the buffer is allocated with, before anything is written.      *)
SizeV0(accounts, instruction_data, mode) ==
    LET Size(a) == IF IsDup(a) THEN 1
                   ELSE 92 + (IF DirectMapping(mode) THEN 0 ELSE Len(a.data))
    IN  8 + FoldLeft(LAMBDA n, account : n + Size(account), 0, accounts) + 8 + Len(instruction_data) + 32
SizeV1(accounts, instruction_data, mode) ==
    LET Size(a) == IF IsDup(a) THEN 8
                   ELSE 96 + (IF DirectMapping(mode) THEN BPF_ALIGN_OF_U128
                              ELSE Len(a.data) + MAX_PERMITTED_DATA_INCREASE + align_offset(Len(a.data)))
    IN  8 + FoldLeft(LAMBDA n, account : n + Size(account), 0, accounts) + 8 + Len(instruction_data) + 32
PointersSize(accounts, size, mode) ==
    IF mode.pointers THEN align_offset(size) + 8 * Len(accounts) ELSE 0

Counted(accounts, mode, base) == Write(NewSerializer(mode, base), Bytes(8, Len(accounts)))
WriteInstruction(s, instruction_data, program_id) ==
    Write([s EXCEPT !.data_offset = Here(s)], instruction_data \o KeyBytes(program_id))
AfterAccounts(s, instruction_data, program_id) ==
    WriteInstruction(Write(s, Bytes(8, Len(instruction_data))), instruction_data, program_id)
serialize_parameters_for_abiv0(accounts, instruction_data, program_id, mode, base) ==
    LET body == FoldLeft(LAMBDA s, a : IF IsDup(a) THEN DuplicateV0(s, a) ELSE AccountV0(s, a),
                         Counted(accounts, mode, base), accounts)
    IN  push_region(AfterAccounts(body, instruction_data, program_id))

WritePointers(s, pad) ==
    IF s.mode.pointers
    THEN Write(FillWrite(s, pad), FlattenSeq([i \in 1..Len(s.metas) |-> Bytes(8, s.metas[i].vm_data_addr)]))
    ELSE s
serialize_parameters_for_abiv1(accounts, instruction_data, program_id, mode, base) ==
    LET body == FoldLeft(LAMBDA s, a : IF IsDup(a) THEN DuplicateV1(s, a) ELSE AccountV1(s, a),
                         Counted(accounts, mode, base), accounts)
    IN  push_region(WritePointers(AfterAccounts(body, instruction_data, program_id),
                                  align_offset(SizeV1(accounts, instruction_data, mode))))

MaxAccounts == 255              \* MAX_ACCOUNTS_PER_INSTRUCTION
serialize_parameters(accounts, instruction_data, program_id, mode, base) ==
    IF mode.v1 THEN serialize_parameters_for_abiv0(accounts, instruction_data, program_id, mode, base)
    ELSE serialize_parameters_for_abiv1(accounts, instruction_data, program_id, mode, base)
------------------------------------------------------------------------------
(* Reading back: the offsets in the buffer that deserialization visits, one *)
(* record per account, and start, its running offset.                       *)
NoOffset == -1
CursorV0(c, account) ==
    LET lamports == c.start + 1 + 2 + 32
        data == lamports + 16
    IN  IF IsDup(account) THEN [start |-> c.start + 1, at |-> Append(c.at, c.at[account.dup + 1])]
        ELSE [start |-> data + (IF DirectMapping(c.mode) THEN 0 ELSE Len(account.data)) + 41,
              at |-> Append(c.at, [lamports |-> lamports, owner |-> NoOffset, data |-> data])]
CursorV1(c, account) ==
    LET owner == c.start + 1 + 7 + 32
        lamports == owner + 32
        data == lamports + 16
        spare == IF DirectMapping(c.mode) THEN BPF_ALIGN_OF_U128
                 ELSE Len(account.data) + MAX_PERMITTED_DATA_INCREASE + align_offset(Len(account.data))
    IN  IF IsDup(account) THEN [start |-> c.start + 8, at |-> Append(c.at, c.at[account.dup + 1])]
        ELSE [start |-> data + spare + 8,
              at |-> Append(c.at, [lamports |-> lamports, owner |-> owner, data |-> data])]
DeserializeCursors(accounts, mode) ==
    FoldLeft(LAMBDA c, a : [mode |-> mode] @@ (IF mode.v1 THEN CursorV0(c, a) ELSE CursorV1(c, a)),
             [start |-> 8, at |-> <<>>, mode |-> mode], accounts).at

(* What deserialize_parameters finds in the buffer for an account.          *)
BytesAt(buffer, offset, n) == SubSeq(buffer, offset + 1, offset + n)
ReadBack(buffer, at, len) ==
    [lamports |-> Value(BytesAt(buffer, at.lamports, 8)),
     owner |-> IF at.owner = NoOffset THEN <<>> ELSE BytesAt(buffer, at.owner, 32),
     len |-> Value(BytesAt(buffer, at.lamports + 8, 8)),
     data |-> BytesAt(buffer, at.data, len)]

------------------------------------------------------------------------------
(* The program's side, external to this repository: an SDK walks the input  *)
(* by guest address, account after account, aligning as it goes.            *)
GuestNext(s, mode, a, account) ==
    IF IsDup(account) THEN a + (IF mode.v1 THEN 1 ELSE 8)
    ELSE IF mode.v1 THEN a + 3 + 32 + 16 + Len(account.data) + 41
    ELSE LET after == a + 8 + 64 + 16 + Len(account.data) + MAX_PERMITTED_DATA_INCREASE
         IN  after + align_offset(after) + 8
=============================================================================
