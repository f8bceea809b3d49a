----------------------------- MODULE GuestMemory -----------------------------
(* What a transaction may use and what the runtime charges for it           *)
(* (program-runtime/src/execution_budget.rs, compute-budget/src, and the    *)
(* heap's price in program-runtime/src/vm.rs), with the code's numbers; and *)
(* how a syscall reaches the memory of the program that called it: address  *)
(* translation with its checks (program-runtime/src/memory.rs and the       *)
(* helpers of syscalls/src/lib.rs), and the compute meter.                  *)
(*                                                                          *)
(* A call is a record s that the steps of a handler pass on: the machine's  *)
(* regions and host bytes (mem), the meter, the error that ended the call   *)
(* (err, "" while there is none) and the result r0.  A step after an error  *)
(* changes nothing, which is Rust's `?'.  touched counts the bytes that     *)
(* were translated; it is not in the code.                                  *)
EXTENDS MemoryMapping


U64Max == 2^W64 - 1

(* saturating_add, saturating_sub, saturating_mul on u64.                   *)
SatAdd(a, b) == IF a > U64Max - b THEN U64Max ELSE a + b
SatSub(a, b) == IF a < b THEN 0 ELSE a - b
SatMul(a, b) == IF a # 0 /\ b > U64Max \div a THEN U64Max ELSE a * b

MAX_COMPUTE_UNIT_LIMIT == 1400000
KIBIBYTE == 1024
HEAP_LENGTH == 32 * KIBIBYTE
MAX_HEAP_FRAME_BYTES == 256 * KIBIBYTE
MAX_LOADED_ACCOUNTS_DATA_SIZE_BYTES == 64 * KIBIBYTE * KIBIBYTE
MAX_INSTRUCTION_TRACE_LENGTH == 64

get_max_instruction_stack_depth(simd_0268_active) == IF simd_0268_active THEN 9 ELSE 5

(* SVMTransactionExecutionBudget::new_with_defaults.                        *)
DefaultBudget(simd_0268_active) ==
    [compute_unit_limit |-> MAX_COMPUTE_UNIT_LIMIT,
     max_instruction_stack_depth |-> get_max_instruction_stack_depth(simd_0268_active),
     max_instruction_trace_length |-> MAX_INSTRUCTION_TRACE_LENGTH,
     sha256_max_slices |-> 20000, max_call_depth |-> 64, stack_frame_size |-> 4096,
     heap_size |-> HEAP_LENGTH]

(* SVMTransactionExecutionCost::default.                                    *)
DefaultCost ==
    [log_64_units |-> 100, create_program_address_units |-> 1500, invoke_units |-> 946,
     sha256_base_cost |-> 85, sha256_byte_cost |-> 1, log_pubkey_units |-> 100,
     cpi_bytes_per_unit |-> 250, sysvar_base_cost |-> 100, secp256k1_recover_cost |-> 25000,
     syscall_base_cost |-> 100, heap_cost |-> 8, mem_op_base_cost |-> 10,
     curve25519_edwards_validate_point_cost |-> 159, curve25519_edwards_add_cost |-> 473,
     curve25519_edwards_subtract_cost |-> 475, curve25519_edwards_multiply_cost |-> 2177,
     curve25519_edwards_msm_base_cost |-> 2273, curve25519_edwards_msm_incremental_cost |-> 758,
     curve25519_ristretto_validate_point_cost |-> 169, curve25519_ristretto_add_cost |-> 521,
     curve25519_ristretto_subtract_cost |-> 519, curve25519_ristretto_multiply_cost |-> 2208,
     curve25519_ristretto_msm_base_cost |-> 2303, curve25519_ristretto_msm_incremental_cost |-> 788,
     alt_bn128_g1_addition_cost |-> 334, alt_bn128_g2_addition_cost |-> 535,
     alt_bn128_g1_multiplication_cost |-> 3840, alt_bn128_g2_multiplication_cost |-> 15670,
     alt_bn128_pairing_one_pair_cost_first |-> 36364, alt_bn128_pairing_one_pair_cost_other |-> 12121,
     big_modular_exponentiation_base_cost |-> 190, big_modular_exponentiation_cost_divisor |-> 2,
     poseidon_cost_coefficient_a |-> 61, poseidon_cost_coefficient_c |-> 542,
     get_remaining_compute_units_cost |-> 100,
     alt_bn128_g1_compress |-> 30, alt_bn128_g1_decompress |-> 398,
     alt_bn128_g2_compress |-> 86, alt_bn128_g2_decompress |-> 13610,
     bls12_381_g1_add_cost |-> 128, bls12_381_g2_add_cost |-> 203,
     bls12_381_g1_subtract_cost |-> 129, bls12_381_g2_subtract_cost |-> 204,
     bls12_381_g1_multiply_cost |-> 4627, bls12_381_g2_multiply_cost |-> 8255,
     bls12_381_g1_decompress_cost |-> 2100, bls12_381_g2_decompress_cost |-> 3050,
     bls12_381_g1_validate_cost |-> 1565, bls12_381_g2_validate_cost |-> 1968,
     bls12_381_one_pair_cost |-> 25445, bls12_381_additional_pair_cost |-> 13023]

BudgetFields == DOMAIN DefaultBudget(FALSE)
CostFields == DOMAIN DefaultCost

(* ComputeBudget holds the fields of both; the conversions copy each one.   *)
Fields(r, names) == [f \in names |-> r[f]]
from_budget_and_cost(budget, cost) == budget @@ cost
to_budget(compute_budget) == Fields(compute_budget, BudgetFields)
to_cost(compute_budget) == Fields(compute_budget, CostFields)

(* 61*n^2 + 542; the callers cap n, so that the checked arithmetic succeeds. *)
poseidon_cost(cost, n) == cost.poseidon_cost_coefficient_a * n * n + cost.poseidon_cost_coefficient_c

(* Every 32 KiB of heap after the first costs heap_cost units.              *)
calculate_heap_cost(heap_size, heap_cost) ==
    SatMul(SatSub((heap_size + 32 * KIBIBYTE - 1) \div (32 * KIBIBYTE), 1), heap_cost)

------------------------------------------------------------------------------
DefaultLimits ==
    [updated_heap_bytes |-> HEAP_LENGTH, compute_unit_limit |-> MAX_COMPUTE_UNIT_LIMIT,
     compute_unit_price |-> 0, loaded_accounts_bytes |-> MAX_LOADED_ACCOUNTS_DATA_SIZE_BYTES]

BudgetOfLimits(limits, simd_0268_active) ==
    [DefaultBudget(simd_0268_active) EXCEPT !.compute_unit_limit = limits.compute_unit_limit,
                                            !.heap_size = limits.updated_heap_bytes]

------------------------------------------------------------------------------
Ok(s) == s.err = ""
Fail(s, e) == [s EXCEPT !.err = e]
Require(s, condition, e) == IF Ok(s) /\ ~condition THEN Fail(s, e) ELSE s
Then(s, F(_)) == IF Ok(s) THEN F(s) ELSE s      \* Rust's ? operator
Return(s, value) == Then(s, LAMBDA t : [t EXCEPT !.r0 = value])

(* InvokeContext::consume_checked: a meter that cannot pay is emptied.      *)
Consume(s, amount) ==
    IF ~Ok(s) THEN s
    ELSE IF s.meter < amount THEN Fail([s EXCEPT !.meter = 0], "ComputationalBudgetExceeded")
    ELSE [s EXCEPT !.meter = @ - amount]

(* A type is its size and its alignment in bytes.                           *)
Type(size, align) == [size |-> size, align |-> align]
U8 == Type(1, 1)
I32 == Type(4, 4)
U64 == Type(8, 8)
Pubkey == Type(32, 1)
VmSlice == Type(16, 8)
Pod(size) == Type(size, 1)

BPF_ALIGN_OF_U128 == 8

Most(x, y) == IF x > y THEN x ELSE y
Flag(b) == IF b THEN 1 ELSE 0
PerUnit(s, n) == n \div s.cost.cpi_bytes_per_unit
Restricted(s) == "syscall_parameter_address_restrictions" \in s.features

(* A key is a number, in guest memory 32 bytes.                             *)
KeyBytes(k) == [i \in 1..32 |-> IF i <= 4 THEN Byte(k, i - 1) ELSE 0]

ISizeMax == 2^(W64 - 1) - 1
address_is_aligned(host, ty) == host % ty.align = 0

(* The region with the greatest start not after a; which search finds it is *)
(* MemoryMapping's.                                                         *)
RegionOf(s, a) ==
    LET below == {i \in 1..Len(s.regions) : s.regions[i].vm_addr <= a}
    IN  IF below = {} THEN 0
        ELSE CHOOSE i \in below : \A j \in below : /\ s.regions[j].vm_addr <= s.regions[i].vm_addr
                                                   /\ s.regions[j].vm_addr = s.regions[i].vm_addr => j <= i
HostIn(regions, i, store, a, n) == IF i = 0 THEN NoHost ELSE vm_to_host(regions[i], store, a, n)
HostOf(s, store, a, n) == HostIn(s.regions, RegionOf(s, a), store, a, n)

(* fault remembers the access that failed.                                  *)
Fault(s, store, a, n) == Fail([s EXCEPT !.fault = [store |-> store, a |-> a, n |-> n]], "AccessViolation")

(* translate_inner!, translate_type_inner! and translate_slice_inner!.      *)
TranslatedTo(s, host, store, a, n, ty, aligned) ==
    IF ~Ok(s) THEN s
    ELSE IF host = NoHost THEN Fault(s, store, a, n)
    ELSE IF aligned /\ ~address_is_aligned(host, ty) THEN Fail(s, "UnalignedPointer")
    ELSE [s EXCEPT !.touched = @ + n]
TranslateBytes(s, store, a, n, ty, aligned) == TranslatedTo(s, HostOf(s, store, a, n), store, a, n, ty, aligned)
TranslateSlice(s, store, a, n, ty, aligned) ==
    IF ~Ok(s) \/ n = 0 THEN s
    ELSE IF SatMul(n, ty.size) > ISizeMax THEN Fail(s, "InvalidLength")
    ELSE TranslateBytes(s, store, a, n * ty.size, ty, aligned)

translate_type(s, a, ty) == TranslateBytes(s, FALSE, a, ty.size, ty, s.check_aligned)
translate_slice(s, a, n, ty) == TranslateSlice(s, FALSE, a, n, ty, s.check_aligned)
translate_type_mut_for_cpi(s, a, ty, aligned) == TranslateBytes(s, TRUE, a, ty.size, ty, aligned)
translate_slice_mut_for_cpi(s, a, n, ty, aligned) == TranslateSlice(s, TRUE, a, n, ty, aligned)

------------------------------------------------------------------------------
(* Reading and writing what has been translated.                            *)
ReadHost(s, host, n) == SubSeq(s.mem, host + 1, host + n)
Load(s, a, n) == IF n = 0 THEN <<>> ELSE ReadHost(s, HostOf(s, FALSE, a, n), n)
Word(s, a) == Value(Load(s, a, U64.size))
WriteHost(s, host, bytes) ==
    [s EXCEPT !.mem = SubSeq(@, 1, host) \o bytes \o SubSeq(@, host + Len(bytes) + 1, Len(@))]
Store(s, a, bytes) == IF ~Ok(s) \/ bytes = <<>> THEN s ELSE WriteHost(s, HostOf(s, TRUE, a, Len(bytes)), bytes)

(* A slice of the guest: the words at a and a + 8.                          *)
SliceAt(s, a) == [ptr |-> Word(s, a), len |-> Word(s, a + U64.size)]
SlicesAt(s, a, n) == [i \in 1..n |-> SliceAt(s, a + (i - 1) * VmSlice.size)]
LoadSlice(s, slice) == Load(s, slice.ptr, slice.len)

(* Translate every slice of a sequence, in order.                           *)
TranslateAll(s, slices) == FoldLeft(LAMBDA t, slice : translate_slice(t, slice.ptr, slice.len, U8), s, slices)

------------------------------------------------------------------------------
(* translate_mut!: outputs are [a, n, ty, slice] records.  All are touched, *)
(* which lets the handler of access violations grow a region; then all are  *)
(* translated; then no two may share a byte of the host.                    *)
Out(a, ty) == [a |-> a, n |-> 1, ty |-> ty, slice |-> FALSE]
OutSlice(a, n, ty) == [a |-> a, n |-> n, ty |-> ty, slice |-> TRUE]

is_nonoverlapping(src, src_len, dst, dst_len) ==
    IF src > dst THEN src - dst >= dst_len ELSE dst - src >= src_len

(* TransactionContext::access_violation_handler: a store beyond the data of *)
(* an account that may change extends it to all that is reserved for it;    *)
(* with direct mapping the account's bytes become the program's to write.   *)
access_violation_handler(s, r, store, a, n) ==
    IF ~store \/ r.grows = 0 \/ a + n - r.vm_addr > r.grows THEN r
    ELSE [r EXCEPT !.len = IF a + n - r.vm_addr > @ THEN r.grows ELSE @,
                   !.writable = @ \/ (s.mode.vas /\ s.mode.direct)]
Retried(s, grown, store, a, n) == IF HostOf(grown, store, a, n) = NoHost THEN Fault(s, store, a, n) ELSE grown
AccessIn(s, i, store, a, n) ==
    IF ~Ok(s) \/ HostIn(s.regions, i, store, a, n) # NoHost THEN s
    ELSE IF i = 0 THEN Fault(s, store, a, n)
    ELSE Retried(s, [s EXCEPT !.regions[i] = access_violation_handler(s, @, store, a, n)], store, a, n)
Access(s, store, a, n) == AccessIn(s, RegionOf(s, a), store, a, n)
TouchMut(s, o) == IF o.n = 0 THEN s ELSE Access(s, TRUE, o.a, SatMul(o.n, o.ty.size))
TranslateMut(s, o) ==
    IF o.slice THEN TranslateSlice(s, TRUE, o.a, o.n, o.ty, s.check_aligned)
    ELSE TranslateBytes(s, TRUE, o.a, o.ty.size, o.ty, s.check_aligned)
OutsOverlap(s, outs) ==
    \E i, j \in 1..Len(outs) : /\ i < j
                               /\ outs[i].n > 0 /\ outs[j].n > 0
                               /\ ~is_nonoverlapping(
                                      HostOf(s, TRUE, outs[i].a, outs[i].n * outs[i].ty.size), outs[i].n * outs[i].ty.size,
                                      HostOf(s, TRUE, outs[j].a, outs[j].n * outs[j].ty.size), outs[j].n * outs[j].ty.size)
TouchAll(s, outs) == FoldLeft(TouchMut, s, outs)
OutsUnchecked(s, outs) == FoldLeft(TranslateMut, TouchAll(s, outs), outs)
translate_mut(s, outs) ==
    Then(FoldLeft(TranslateMut, TouchAll(s, outs), outs),
         LAMBDA t : Require(t, ~OutsOverlap(t, outs), "CopyOverlapping"))

(* translate_string_and_do: text must be UTF-8, of which the model keeps    *)
(* that a byte with its top bit set needs others to follow.                 *)
IsText(bytes) == \A i \in 1..Len(bytes) : bytes[i] < 2^(W8 - 1)
translate_string(s, a, n) ==
    Then(translate_slice(s, a, n, U8), LAMBDA t : Require(t, IsText(Load(t, a, n)), "InvalidString"))
=============================================================================
