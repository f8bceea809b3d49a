----------------------------- MODULE SysvarCache -----------------------------
(* The sysvars a batch of transactions reads                                *)
(* (program-runtime/src/sysvar_cache.rs).  Seven are kept as the bytes of   *)
(* their account, two of them also as the object the bytes decode to, and   *)
(* two deprecated ones as the object only.                                  *)
EXTENDS SbpfIsa, SequencesExt, FiniteSets

Buffers == {"clock", "epoch_schedule", "epoch_rewards", "rent", "slot_hashes", "stake_history",
            "last_restart_slot"}
BufferedObjects == {"slot_hashes", "stake_history"}
DeprecatedObjects == {"fees", "recent_blockhashes"}
Sysvars == Buffers \cup DeprecatedObjects

NoData == <<-1>>
Unsupported == <<-2>>           \* InstructionError::UnsupportedSysvar

(* The sizes of the fields of each fixed-size sysvar, in order.  Encoded    *)
(* the fields are adjacent; in memory each is aligned, the rest is zero.    *)
FieldSizes ==
    [clock |-> <<8, 8, 8, 8, 8>>, epoch_schedule |-> <<8, 8, 1, 8, 8>>,
     epoch_rewards |-> <<8, 8, 32, 16, 8, 8, 1>>, rent |-> <<8, 8, 1>>, last_restart_slot |-> <<8>>,
     fees |-> <<8>>]
FieldAlign(size) == IF size = 32 THEN 1 ELSE size
RoundUp(n, align) == ((n + align - 1) \div align) * align
Encoded(sizes) == FoldLeft(LAMBDA n, size : n + size, 0, sizes)
AlignOf(sizes) == CHOOSE a \in {FieldAlign(size) : size \in ToSet(sizes)} :
                     \A size \in ToSet(sizes) : FieldAlign(size) <= a
Offsets(sizes) ==       \* of each field in memory, and last the end of all
    FoldLeft(LAMBDA os, i : LET next == IF i < Len(sizes) THEN FieldAlign(sizes[i + 1]) ELSE AlignOf(sizes)
                            IN  Append(os, RoundUp(os[i] + sizes[i], next)),
             <<0>>, [i \in 1..Len(sizes) |-> i])
SizeOf(id) == Offsets(FieldSizes[id])[Len(FieldSizes[id]) + 1]
EncodedSize(id) == IF id \in DOMAIN FieldSizes THEN Encoded(FieldSizes[id]) ELSE 8  \* a vector's length

(* bincode::deserialize: trailing bytes are ignored, a missing one is not.  *)
Decodes(id, data) == Len(data) >= EncodedSize(id)
Deserialize(id, data) ==
    LET sizes == FieldSizes[id]
        at == Offsets(sizes)
        field(b) == {i \in 1..Len(sizes) : at[i] < b /\ b <= at[i] + sizes[i]}
        before(i) == Encoded(SubSeq(sizes, 1, i - 1))
    IN  IF id \notin DOMAIN FieldSizes THEN data
        ELSE [b \in 1..SizeOf(id) |-> IF field(b) = {} THEN 0
                                      ELSE LET i == CHOOSE i \in field(b) : TRUE IN data[before(i) + b - at[i]]]

Default == [buffer |-> [id \in Buffers |-> NoData],
            obj |-> [id \in BufferedObjects \cup DeprecatedObjects |-> NoData]]

(* fill_missing_entries: what is there stays; accounts gives the data of    *)
(* the accounts that exist, NoData for the others.                          *)
Missing(cache, id) == IF id \in Buffers THEN cache.buffer[id] = NoData ELSE cache.obj[id] = NoData
Fills(cache, accounts, id) == Missing(cache, id) /\ accounts[id] # NoData /\ Decodes(id, accounts[id])
fill_missing_entries(cache, accounts) ==
    [buffer |-> [id \in Buffers |-> IF Fills(cache, accounts, id) THEN accounts[id] ELSE cache.buffer[id]],
     obj |-> [id \in DOMAIN cache.obj |-> IF Fills(cache, accounts, id) THEN Deserialize(id, accounts[id])
                                          ELSE cache.obj[id]]]
reset(cache) == Default

(* sysvar_id_to_buffer, for the id of a sysvar or of anything else.         *)
sysvar_id_to_buffer(cache, id) == IF id \in Buffers THEN cache.buffer[id] ELSE NoData
get_sysvar_obj(cache, id) ==
    LET data == sysvar_id_to_buffer(cache, id) IN IF data = NoData THEN Unsupported ELSE Deserialize(id, data)

(* get_clock, get_rent, ..., get_stake_history, get_slot_hashes, get_fees.  *)
Get(cache, id) ==
    IF id \in BufferedObjects \cup DeprecatedObjects
    THEN (IF cache.obj[id] = NoData THEN Unsupported ELSE cache.obj[id])
    ELSE get_sysvar_obj(cache, id)

(* get_sysvar_with_account_check: the account named must be the sysvar's.   *)
GetWithAccountCheck(cache, key, id) == IF key # id THEN <<-3>> ELSE Get(cache, id)
=============================================================================
