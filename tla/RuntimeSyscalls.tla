--------------------------- MODULE RuntimeSyscalls ---------------------------
(* The syscalls but for cross-program invocation (syscalls/src).  First the *)
(* ones that serve the program from the runtime's own state: memory         *)
(* operations, allocation, logging, sysvars, program addresses, return data *)
(* and the instructions of the transaction (mem_ops.rs, logging.rs,         *)
(* sysvar.rs and lib.rs).  A handler takes the call s and its arguments and *)
(* returns the call as it ends.                                             *)
(*                                                                          *)
(* Then the cryptographic ones (lib.rs): what they charge, in which order   *)
(* they reach the guest's memory and which errors abort the program or are  *)
(* returned to it.  The computations are libraries' and opaque here: a      *)
(* result is some function of the inputs, or a failure.                     *)
EXTENDS GuestMemory

CONSTANTS LogBytesLimit,        \* bytes_limit of the log collector
          MaxReturnData         \* MAX_RETURN_DATA

SC == INSTANCE SysvarCache

MAX_SEEDS == 16
MAX_SEED_LEN == 32
AccountMeta == Type(34, 1)
SiblingHeader == Type(16, 8)    \* ProcessedSiblingInstruction

(* InvokeContext's view of the instruction being executed.                  *)
Current(s) == s.trace[s.stack[Len(s.stack)]]
StackHeight(s) == Len(s.stack)

------------------------------------------------------------------------------
(* LogCollector::log: a message that does not fit is dropped, the first one *)
(* leaves a warning.  Of a message its kind and length are kept.            *)
Message(kind, len) == [kind |-> kind, len |-> len]
LogTo(log, message) ==
    IF log.bytes_written + message.len >= LogBytesLimit
    THEN (IF log.limit_warning THEN log
          ELSE [log EXCEPT !.limit_warning = TRUE, !.messages = Append(@, Message("Log truncated", 0))])
    ELSE [log EXCEPT !.bytes_written = @ + message.len, !.messages = Append(@, message)]
Log(s, kind, len) == IF Ok(s) THEN [s EXCEPT !.log = LogTo(@, Message(kind, len))] ELSE s

SyscallLog(s, addr, len) ==
    Log(translate_string(Consume(s, Most(s.cost.syscall_base_cost, len)), addr, len), "Program log", len)
SyscallLogU64(s) == Log(Consume(s, s.cost.log_64_units), "Program log", 5)
SyscallLogBpfComputeUnits(s) == Log(Consume(s, s.cost.syscall_base_cost), "Program consumption", 1)
SyscallLogPubkey(s, addr) == Log(translate_type(Consume(s, s.cost.log_pubkey_units), addr, Pubkey), "Program log", 32)
LogPaid(s, fields, total) ==
    Then(Consume(s, total), LAMBDA t : Log(TranslateAll(t, fields), "Program data", total))
LogFields(s, len, fields) ==
    LogPaid(Consume(s, SatMul(s.cost.syscall_base_cost, len)), fields,
            FoldLeft(LAMBDA n, f : SatAdd(n, f.len), 0, fields))
SyscallLogData(s, addr, len) ==
    Then(translate_slice(Consume(s, s.cost.syscall_base_cost), addr, len, VmSlice),
         LAMBDA t : LogFields(t, len, SlicesAt(t, addr, len)))

------------------------------------------------------------------------------
(* Memory operations.                                                       *)
BaseCostOnly(s, n) == Consume(s, s.cost.mem_op_base_cost)
mem_op_consume(s, n) == Consume(s, Most(s.cost.mem_op_base_cost, PerUnit(s, n)))
memmove(s, dst, src, n) ==
    Then(translate_slice(translate_mut(s, <<OutSlice(dst, n, U8)>>), src, n, U8),
         LAMBDA t : Store(t, dst, Load(t, src, n)))
SyscallMemcpy(s, dst, src, n) ==
    memmove(Require(mem_op_consume(s, n), is_nonoverlapping(src, n, dst, n), "CopyOverlapping"), dst, src, n)
SyscallMemmove(s, dst, src, n) == memmove(mem_op_consume(s, n), dst, src, n)
memcmp(s1, s2) ==
    LET differs == {i \in 1..Len(s1) : s1[i] # s2[i]}
        i == CHOOSE i \in differs : \A j \in differs : i <= j
    IN  IF differs = {} THEN 0 ELSE s1[i] - s2[i]
SyscallMemcmp(s, s1, s2, n, result) ==
    Then(translate_slice(translate_slice(mem_op_consume(s, n), s1, n, U8), s2, n, U8),
         LAMBDA t : Store(translate_mut(t, <<Out(result, I32)>>), result,
                          Bytes(4, U(W32, memcmp(Load(t, s1, n), Load(t, s2, n))))))
SyscallMemset(s, dst, c, n) ==
    Then(translate_mut(mem_op_consume(s, n), <<OutSlice(dst, n, U8)>>),
         LAMBDA t : Store(t, dst, [i \in 1..n |-> U(W8, c)]))

(* BpfAllocator::alloc, a bump allocator over the heap; nothing is freed.   *)
AllocErr == -1
AllocAddr(allocator, size, align) ==
    LET pos == allocator.pos + ((-allocator.pos) % align)
    IN  IF SatAdd(pos, size) <= allocator.len THEN pos ELSE AllocErr
SyscallAllocFree(s, size, free_addr) ==
    LET align == IF s.check_aligned THEN BPF_ALIGN_OF_U128 ELSE 1
        pos == AllocAddr(s.allocator, size, align)
    IN  IF size > ISizeMax - (align - 1) \/ free_addr # 0 \/ pos = AllocErr THEN Return(s, 0)
        ELSE Return([s EXCEPT !.allocator.pos = pos + size], MM_HEAP_START + pos)

SyscallAbort(s) == Fail(s, "Abort")
SyscallPanic(s, file, len) ==
    Then(translate_string(Consume(s, len), file, len), LAMBDA t : Fail(t, "Panic"))

------------------------------------------------------------------------------
(* Program addresses.  Whether an address is off the curve is the library's *)
(* business; here it depends on a digest of the seeds.                      *)
Digest(bytes) == IF bytes = <<>> THEN 0 ELSE bytes[1] + 2 * bytes[Len(bytes)] + Len(bytes)
SeedSum(seeds) == FoldLeft(LAMBDA n, seed : n + Digest(seed), 0, seeds)
create_program_address(seeds, program) ==
    LET sum == SeedSum(Append(seeds, program))
    IN  IF Len(seeds) > MAX_SEEDS \/ sum % 3 = 0 THEN <<>> ELSE KeyBytes(U(W16, sum + 64))

TranslateSeed(s, seed) ==
    translate_slice(Require(s, seed.len <= MAX_SEED_LEN, "BadSeeds"), seed.ptr, seed.len, U8)
AddressInputs(s, seeds_addr, seeds_len, program_addr) ==
    Then(Require(translate_slice(s, seeds_addr, seeds_len, VmSlice), seeds_len <= MAX_SEEDS, "BadSeeds"),
         LAMBDA t : translate_type(FoldLeft(TranslateSeed, t, SlicesAt(t, seeds_addr, seeds_len)), program_addr, Pubkey))
SeedsAt(s, addr, n) == [i \in 1..n |-> LoadSlice(s, SliceAt(s, addr + (i - 1) * VmSlice.size))]

StoreAddress(s, address, address_addr) ==
    IF address = <<>> THEN Return(s, 1)
    ELSE Store(translate_mut(s, <<OutSlice(address_addr, 32, U8)>>), address_addr, address)
SyscallCreateProgramAddress(s, seeds_addr, seeds_len, program_addr, address_addr) ==
    Then(AddressInputs(Consume(s, s.cost.create_program_address_units), seeds_addr, seeds_len, program_addr),
         LAMBDA t : StoreAddress(t, create_program_address(SeedsAt(t, seeds_addr, seeds_len), Load(t, program_addr, 32)),
                                 address_addr))

(* The bumps are tried from the largest byte down to 1; every miss costs.   *)
Bumps == 1..(2^W8 - 1)
NoBump == 0
BumpFor(seeds, program) ==
    Max({NoBump} \cup {bump \in Bumps : create_program_address(Append(seeds, <<bump>>), program) # <<>>})
StoreBump(s, bump, address, address_addr, bump_addr) ==
    IF bump = NoBump THEN Return(s, 1)
    ELSE Store(Store(translate_mut(s, <<Out(bump_addr, U8), OutSlice(address_addr, 32, U8)>>), bump_addr, <<bump>>),
               address_addr, address)
TryBump(s, seeds, program, bump, address_addr, bump_addr) ==
    Then(Consume(s, ((2^W8 - 1) - bump) * s.cost.create_program_address_units),
         LAMBDA t : StoreBump(t, bump, create_program_address(Append(seeds, <<bump>>), program), address_addr, bump_addr))
TryFind(s, seeds, program, address_addr, bump_addr) ==
    TryBump(s, seeds, program, BumpFor(seeds, program), address_addr, bump_addr)
SyscallTryFindProgramAddress(s, seeds_addr, seeds_len, program_addr, address_addr, bump_addr) ==
    Then(AddressInputs(Consume(s, s.cost.create_program_address_units), seeds_addr, seeds_len, program_addr),
         LAMBDA t : TryFind(t, SeedsAt(t, seeds_addr, seeds_len), Load(t, program_addr, 32), address_addr, bump_addr))
------------------------------------------------------------------------------
(* Sysvars.                                                                 *)
NotInput(s, var_addr) == Require(s, ~(var_addr >= MM_INPUT_START /\ Restricted(s)), "InvalidPointer")
StoreSysvar(s, ty, value, var_addr) ==
    Store(Require(translate_mut(NotInput(Consume(s, s.cost.sysvar_base_cost + ty.size), var_addr), <<Out(var_addr, ty)>>),
                  value # SC!Unsupported, "UnsupportedSysvar"), var_addr, value)
get_sysvar(s, id, var_addr) ==
    StoreSysvar(s, Type(SC!SizeOf(id), SC!AlignOf(SC!FieldSizes[id])), SC!Get(s.sysvars, id), var_addr)

SYSVAR_NOT_FOUND == 2
OFFSET_LENGTH_EXCEEDS_SYSVAR == 1
SysvarKey(id) == KeyBytes(32 + (CHOOSE k \in 1..9 : <<"clock", "epoch_schedule", "epoch_rewards", "rent",
                "slot_hashes", "stake_history", "last_restart_slot", "fees", "recent_blockhashes">>[k] = id))
BufferOf(s, key) ==
    LET ids == {id \in SC!Sysvars : SysvarKey(id) = key}
    IN  IF ids = {} THEN SC!NoData ELSE SC!sysvar_id_to_buffer(s.sysvars, CHOOSE id \in ids : TRUE)
SysvarInputs(s, id_addr, var_addr, length) ==
    translate_type(translate_mut(NotInput(s, var_addr), <<OutSlice(var_addr, length, U8)>>), id_addr, Pubkey)
StorePart(s, data, var_addr, offset, length) ==
    IF data = SC!NoData THEN Return(s, SYSVAR_NOT_FOUND)
    ELSE IF offset + length > Len(data) THEN Return(s, OFFSET_LENGTH_EXCEEDS_SYSVAR)
    ELSE Store(s, var_addr, SubSeq(data, offset + 1, offset + length))
SyscallGetSysvar(s, id_addr, var_addr, offset, length) ==
    LET cost == SatAdd(s.cost.sysvar_base_cost + PerUnit(s, 32), Most(PerUnit(s, length), s.cost.mem_op_base_cost))
    IN  Then(Require(SysvarInputs(Consume(s, cost), id_addr, var_addr, length),
                     offset + length <= U64Max /\ var_addr + length <= U64Max, "ArithmeticOverflow"),
             LAMBDA t : StorePart(t, BufferOf(t, Load(t, id_addr, 32)), var_addr, offset, length))

(* Epoch stake is the embedder's answer: by vote account, or in total.      *)
EpochStake(key) == IF key = KeyBytes(1) THEN 5 ELSE 0
TotalStake == 9
SyscallGetEpochStake(s, var_addr) ==
    LET base == s.cost.syscall_base_cost
    IN  IF var_addr = 0 THEN Return(Consume(s, base), TotalStake)
        ELSE Then(translate_type(Consume(s, base + PerUnit(s, 32) + s.cost.mem_op_base_cost), var_addr, Pubkey),
                  LAMBDA t : Return(t, EpochStake(Load(t, var_addr, 32))))

------------------------------------------------------------------------------
(* Return data belongs to the transaction, under the key of its setter.     *)
SyscallSetReturnData(s, addr, len) ==
    LET paid == Consume(s, SatAdd(PerUnit(s, len), s.cost.syscall_base_cost))
    IN  Then(translate_slice(Require(paid, len <= MaxReturnData, "ReturnDataTooLarge"), addr, len, U8),
             LAMBDA t : [t EXCEPT !.return_data = [program |-> Current(t).program, data |-> Load(t, addr, len)]])
StoreReturnData(s, addr, n, program_addr) ==
    IF n = 0 THEN s
    ELSE Store(Store(translate_mut(Consume(s, PerUnit(s, n + 32)), <<OutSlice(addr, n, U8), Out(program_addr, Pubkey)>>),
                     addr, SubSeq(s.return_data.data, 1, n)), program_addr, KeyBytes(s.return_data.program))
SyscallGetReturnData(s, addr, length, program_addr) ==
    Return(StoreReturnData(Consume(s, s.cost.syscall_base_cost), addr, Least(length, Len(s.return_data.data)), program_addr),
           Len(s.return_data.data))

(* The index-th instruction before this one with the same caller.           *)
SiblingRange(s) ==
    IF StackHeight(s) = 1 THEN 1..s.next_top_level
    ELSE (Len(s.trace) - s.cpis + 1)..Len(s.trace)
SiblingsOf(s) ==
    {i \in SiblingRange(s) : s.trace[i].caller = Current(s).caller /\ s.trace[i].height = StackHeight(s)}
NoSibling == 0
FindSibling(s, index) ==
    LET found == {i \in SiblingsOf(s) : Cardinality({j \in SiblingsOf(s) : j > i}) = SatAdd(index, 1)}
    IN  IF found = {} THEN NoSibling ELSE CHOOSE i \in found : TRUE
MetaBytes(m) == KeyBytes(m.key) \o <<Flag(m.signer), Flag(m.writable)>>

Lens(ix) == Bytes(8, Len(ix.data)) \o Bytes(8, Len(ix.accounts))
StoreSibling(s, ix, meta, program, data, accounts) ==
    Store(Store(Store(translate_mut(s, <<Out(program, Pubkey), OutSlice(data, Len(ix.data), U8),
                                         OutSlice(accounts, Len(ix.accounts), AccountMeta), Out(meta, SiblingHeader)>>),
                      program, KeyBytes(ix.program)), data, ix.data),
          accounts, FlattenSeq([i \in 1..Len(ix.accounts) |-> MetaBytes(ix.accounts[i])]))
ReportSibling(s, ix, meta, program, data, accounts) ==
    Then(translate_mut(s, <<Out(meta, SiblingHeader)>>),
         LAMBDA t : IF Load(t, meta, 16) # Lens(ix) THEN Return(Store(t, meta, Lens(ix)), 1)
                    ELSE Return(StoreSibling(t, ix, meta, program, data, accounts), 1))
SyscallGetProcessedSiblingInstruction(s, index, meta, program, data, accounts) ==
    Then(Consume(s, s.cost.syscall_base_cost),
         LAMBDA t : IF FindSibling(t, index) = NoSibling THEN Return(t, 0)
                    ELSE ReportSibling(t, t.trace[FindSibling(t, index)], meta, program, data, accounts))

SyscallGetStackHeight(s) == Return(Consume(s, s.cost.syscall_base_cost), StackHeight(s))
SyscallRemainingComputeUnits(s) ==
    Then(Consume(s, s.cost.syscall_base_cost), LAMBDA t : Return(t, t.meter))

------------------------------------------------------------------------------
(* A library's answer: bytes that depend on all of the inputs; it refuses   *)
(* an input that starts with the greatest byte.                             *)
NoResult == <<>>
Spread(sum, size) == [i \in 1..size |-> (sum + i) % 2^W8]
Library(inputs, size) ==
    IF inputs # <<>> /\ inputs[1] # <<>> /\ inputs[1][1] = 2^W8 - 1 THEN NoResult ELSE Spread(SeedSum(inputs), size)

(* The common ends of a handler: the code for a failure, else the result is *)
(* stored, in memory translated before or now.                              *)
StoreResult(s, result, addr, failure) == IF result = NoResult THEN Return(s, failure) ELSE Store(s, addr, result)
Deliver(s, result, addr, out) ==
    IF result = NoResult THEN Return(s, 1) ELSE Store(translate_mut(s, <<out>>), addr, result)
InvalidAttribute(s) == Fail(s, "InvalidAttribute")
UnknownCurve(s) == IF "abort_on_invalid_curve" \in s.features THEN InvalidAttribute(s) ELSE Return(s, 1)

SHA_HASH == 32
SECP_KEY == 64
InvalidRecoveryId == 2
InvalidSignature == 3
SyscallSecp256k1Recover(s, hash_addr, recovery_id, signature_addr, result_addr) ==
    LET t == translate_mut(Consume(s, s.cost.secp256k1_recover_cost), <<OutSlice(result_addr, SECP_KEY, U8)>>)
    IN  Then(translate_slice(translate_slice(t, hash_addr, 32, U8), signature_addr, 64, U8),
             LAMBDA u : IF recovery_id >= 4 THEN Return(u, InvalidRecoveryId)
                        ELSE StoreResult(u, Library(<<Load(u, signature_addr, 64), Load(u, hash_addr, 32), <<recovery_id>>>>,
                                                    SECP_KEY), result_addr, InvalidSignature))

(* SyscallHash: every slice is paid for when it has been translated.        *)
Hashers == {"sha256", "keccak256", "blake3"}
HashSlice(s, val) ==
    Consume(translate_slice(s, val.ptr, val.len, U8),
            Most(s.cost.mem_op_base_cost, SatMul(s.cost.sha256_byte_cost, val.len \div 2)))
Sum(s, slices) == SeedSum([i \in 1..Len(slices) |-> LoadSlice(s, slices[i])])
HashSlices(s, vals, result_addr) ==
    Then(FoldLeft(HashSlice, s, vals), LAMBDA t : Store(t, result_addr, Spread(Sum(t, vals), SHA_HASH)))
SyscallHash(s, hasher, vals_addr, vals_len, result_addr) ==
    LET t == Consume(Require(s, vals_len <= s.budget.sha256_max_slices, "TooManySlices"), s.cost.sha256_base_cost)
    IN  Then(translate_slice(translate_mut(t, <<OutSlice(result_addr, SHA_HASH, U8)>>), vals_addr, vals_len, VmSlice),
             LAMBDA u : HashSlices(u, SlicesAt(u, vals_addr, vals_len), result_addr))

------------------------------------------------------------------------------
(* Curves.  Per curve: the size of a point, its compressed size, and the    *)
(* names of the costs.                                                      *)
BlsG1 == {"G1_LE", "G1_BE"}
BlsG2 == {"G2_LE", "G2_BE"}
Bls == BlsG1 \cup BlsG2
BlsDisabled(s, curve) == curve \in Bls /\ "enable_bls12_381_syscall" \notin s.features
Scalar == Pod(32)
Op(cost, left, right) == [cost |-> cost, left |-> left, right |-> right]
Ops(add, sub, mul, point) ==
    ("ADD" :> Op(add, point, point)) @@ ("SUB" :> Op(sub, point, point)) @@ ("MUL" :> Op(mul, Scalar, point))
EdwardsOps ==
    Ops("curve25519_edwards_add_cost", "curve25519_edwards_subtract_cost", "curve25519_edwards_multiply_cost", Pod(32))
RistrettoOps ==
    Ops("curve25519_ristretto_add_cost", "curve25519_ristretto_subtract_cost",
        "curve25519_ristretto_multiply_cost", Pod(32))
BlsG1Ops == Ops("bls12_381_g1_add_cost", "bls12_381_g1_subtract_cost", "bls12_381_g1_multiply_cost", Pod(96))
BlsG2Ops == Ops("bls12_381_g2_add_cost", "bls12_381_g2_subtract_cost", "bls12_381_g2_multiply_cost", Pod(192))
OpsOf(curve) ==
    CASE curve = "edwards" -> EdwardsOps [] curve = "ristretto" -> RistrettoOps
      [] curve \in BlsG1 -> BlsG1Ops [] curve \in BlsG2 -> BlsG2Ops
Curves == {"edwards", "ristretto"} \cup Bls

GroupOp(s, op, left, right, result) ==
    Then(translate_type(translate_type(Consume(s, s.cost[op.cost]), left, op.left), right, op.right),
         LAMBDA t : Deliver(t, Library(<<Load(t, left, op.left.size), Load(t, right, op.right.size)>>, op.right.size),
                            result, Out(result, op.right)))
SyscallCurveGroupOps(s, curve, group_op, left, right, result) ==
    IF BlsDisabled(s, curve) THEN InvalidAttribute(s)
    ELSE IF curve \notin Curves THEN UnknownCurve(s)
    ELSE IF group_op \in DOMAIN OpsOf(curve) THEN GroupOp(s, OpsOf(curve)[group_op], left, right, result)
    ELSE IF curve \in Bls THEN InvalidAttribute(s) ELSE UnknownCurve(s)

ValidateCost(curve) ==
    CASE curve = "edwards" -> "curve25519_edwards_validate_point_cost"
      [] curve = "ristretto" -> "curve25519_ristretto_validate_point_cost"
      [] curve \in BlsG1 -> "bls12_381_g1_validate_cost" [] curve \in BlsG2 -> "bls12_381_g2_validate_cost"
SyscallCurvePointValidation(s, curve, point_addr) ==
    LET point == OpsOf(curve)["ADD"].left
    IN  IF BlsDisabled(s, curve) THEN InvalidAttribute(s)
        ELSE IF curve \notin Curves THEN UnknownCurve(s)
        ELSE Then(translate_type(Consume(s, s.cost[ValidateCost(curve)]), point_addr, point),
                  LAMBDA t : Return(t, Flag(Library(<<Load(t, point_addr, point.size)>>, 1) = NoResult)))

SyscallCurveDecompress(s, curve, point_addr, result) ==
    LET g1 == curve \in BlsG1
        compressed == Pod(IF g1 THEN 48 ELSE 96)
        point == OpsOf(curve)["ADD"].left
        cost == IF g1 THEN s.cost.bls12_381_g1_decompress_cost ELSE s.cost.bls12_381_g2_decompress_cost
    IN  IF curve \notin Bls THEN InvalidAttribute(s)
        ELSE Then(translate_type(Consume(s, cost), point_addr, compressed),
                  LAMBDA t : Deliver(t, Library(<<Load(t, point_addr, compressed.size)>>, point.size),
                                     result, Out(result, point)))

MsmCost(s, curve, n) ==
    IF curve = "edwards"
    THEN SatAdd(s.cost.curve25519_edwards_msm_base_cost,
                SatMul(s.cost.curve25519_edwards_msm_incremental_cost, SatSub(n, 1)))
    ELSE SatAdd(s.cost.curve25519_ristretto_msm_base_cost,
                SatMul(s.cost.curve25519_ristretto_msm_incremental_cost, SatSub(n, 1)))
SyscallCurveMultiscalarMultiplication(s, curve, scalars, points, n, result) ==
    IF n > 512 THEN Fail(s, "InvalidLength")
    ELSE IF curve \notin {"edwards", "ristretto"} THEN UnknownCurve(s)
    ELSE Then(translate_slice(translate_slice(Consume(s, MsmCost(s, curve, n)), scalars, n, Scalar), points, n, Pod(32)),
              LAMBDA t : Deliver(t, Library(<<Load(t, points, 32 * n), Load(t, scalars, 32 * n)>>, 32),
                                 result, Out(result, Pod(32))))

SyscallCurvePairingMap(s, curve, n, g1_points, g2_points, result) ==
    LET cost == SatAdd(s.cost.bls12_381_one_pair_cost, SatMul(s.cost.bls12_381_additional_pair_cost, SatSub(n, 1)))
    IN  IF curve \notin {"BLS_LE", "BLS_BE"} THEN InvalidAttribute(s)
        ELSE Then(translate_slice(translate_slice(Consume(s, cost), g1_points, n, Pod(96)), g2_points, n, Pod(192)),
                  LAMBDA t : Deliver(t, Library(<<Load(t, g1_points, 96 * n), Load(t, g2_points, 192 * n)>>, 576),
                                     result, Out(result, Pod(576))))
------------------------------------------------------------------------------
(* alt_bn128.  Here the output is translated before the input.              *)
AltBn128LE == {"G1_ADD_LE", "G1_MUL_LE", "PAIRING_LE"}
AltBn128G2 == {"G2_ADD_BE", "G2_ADD_LE", "G2_MUL_BE", "G2_MUL_LE"}
PairingCost(s, n) ==
    SatAdd(SatAdd(s.cost.alt_bn128_pairing_one_pair_cost_first,
                  SatMul(s.cost.alt_bn128_pairing_one_pair_cost_other, SatSub(n \div 192, 1))),
           SatAdd(s.cost.sha256_base_cost, SatAdd(n, 32)))
AltBn128Op(s, op, n) ==
    CASE op \in {"G1_ADD_BE", "G1_ADD_LE"} -> <<s.cost.alt_bn128_g1_addition_cost, 64>>
      [] op \in {"G2_ADD_BE", "G2_ADD_LE"} -> <<s.cost.alt_bn128_g2_addition_cost, 128>>
      [] op \in {"G1_MUL_BE", "G1_MUL_LE"} -> <<s.cost.alt_bn128_g1_multiplication_cost, 64>>
      [] op \in {"G2_MUL_BE", "G2_MUL_LE"} -> <<s.cost.alt_bn128_g2_multiplication_cost, 128>>
      [] op \in {"PAIRING_BE", "PAIRING_LE"} -> <<PairingCost(s, n), 32>>
      [] OTHER -> <<>>

InputToOutput(s, cost, input, n, result, size) ==
    Then(translate_slice(translate_mut(Consume(s, cost), <<OutSlice(result, size, U8)>>), input, n, U8),
         LAMBDA t : StoreResult(t, Library(<<Load(t, input, n)>>, size), result, 1))
SyscallAltBn128(s, op, input, n, result) ==
    LET row == AltBn128Op(s, op, n)
    IN  IF \/ op \in AltBn128LE /\ "alt_bn128_little_endian" \notin s.features
           \/ op \in AltBn128G2 /\ "enable_alt_bn128_g2_syscalls" \notin s.features
           \/ row = <<>>
        THEN InvalidAttribute(s) ELSE InputToOutput(s, row[1], input, n, result, row[2])

CompressionLE == {"G1_COMPRESS_LE", "G1_DECOMPRESS_LE", "G2_COMPRESS_LE", "G2_DECOMPRESS_LE"}
CompressionOp(s, op) ==
    CASE op \in {"G1_COMPRESS_BE", "G1_COMPRESS_LE"} -> <<s.cost.alt_bn128_g1_compress, 32>>
      [] op \in {"G1_DECOMPRESS_BE", "G1_DECOMPRESS_LE"} -> <<s.cost.alt_bn128_g1_decompress, 64>>
      [] op \in {"G2_COMPRESS_BE", "G2_COMPRESS_LE"} -> <<s.cost.alt_bn128_g2_compress, 64>>
      [] op \in {"G2_DECOMPRESS_BE", "G2_DECOMPRESS_LE"} -> <<s.cost.alt_bn128_g2_decompress, 128>>
      [] OTHER -> <<>>
SyscallAltBn128Compression(s, op, input, n, result) ==
    LET row == CompressionOp(s, op)
    IN  IF (op \in CompressionLE /\ "alt_bn128_little_endian" \notin s.features) \/ row = <<>>
        THEN InvalidAttribute(s)
        ELSE InputToOutput(s, SatAdd(s.cost.syscall_base_cost, row[1]), input, n, result, row[2])

------------------------------------------------------------------------------
(* Modular exponentiation: the parameters are six words.                    *)
BigModExpParams == Type(48, 8)
BigModExpCost(s, n) ==
    SatAdd(s.cost.syscall_base_cost,
           SatAdd(SatMul(n, n) \div s.cost.big_modular_exponentiation_cost_divisor,
                  s.cost.big_modular_exponentiation_base_cost))
ModExp(s, p, longest, return_value) ==
    Then(TranslateAll(Consume(Require(s, longest <= 512, "InvalidLength"), BigModExpCost(s, longest)), p),
         LAMBDA t : Store(translate_mut(t, <<OutSlice(return_value, p[3].len, U8)>>), return_value,
                          Spread(Sum(t, p), p[3].len)))
ModExpOf(s, p, return_value) == ModExp(s, p, Most(p[1].len, Most(p[2].len, p[3].len)), return_value)
SyscallBigModExp(s, params, return_value) ==
    Then(translate_slice(s, params, 1, BigModExpParams), LAMBDA t : ModExpOf(t, SlicesAt(t, params, 3), return_value))

PoseidonHash(s, vals, result) ==
    Then(TranslateAll(s, vals),
         LAMBDA t : StoreResult(t, IF vals = <<>> THEN NoResult
                                   ELSE Library([i \in 1..Len(vals) |-> LoadSlice(t, vals[i])], SHA_HASH), result, 1))
SyscallPoseidon(s, parameters, endianness, vals_addr, vals_len, result) ==
    LET t == Require(Require(s, parameters = 0 /\ endianness \in {0, 1}, "PoseidonSyscallError"),
                     vals_len <= 12, "InvalidLength")
        u == translate_mut(Consume(t, poseidon_cost(s.cost, vals_len)), <<OutSlice(result, SHA_HASH, U8)>>)
    IN  Then(translate_slice(u, vals_addr, vals_len, VmSlice),
             LAMBDA v : PoseidonHash(v, SlicesAt(v, vals_addr, vals_len), result))
=============================================================================
