---------------------------- MODULE MC_Syscalls ----------------------------
(* Small instances of Syscalls.  Bytes have three bits, so that a region of *)
(* the guest is 4096 bytes.  Four families of transactions: one call of     *)
(* each handler with good and bad arguments; programs that call each other; *)
(* layouts of the parameters; and invocations written in both layouts, with *)
(* at most one fault.                                                       *)
EXTENDS Syscalls

R == MM_BYTECODE_START
K == MM_STACK_START
H == MM_HEAP_START
I == MM_INPUT_START
Unmapped == 5 * MM_REGION_SIZE
Huge == U64Max

Features == {Gate[name] : name \in DOMAIN Gate}
Adjusted == {"virtual_address_space_adjustments"}
Direct == Adjusted \cup {"account_data_direct_mapping"}
Limited == {"syscall_parameter_address_restrictions"}
Checked == {"enable_bpf_loader_set_authority_checked_ix"}
More == {"alt_bn128_little_endian", "enable_alt_bn128_g2_syscalls", "abort_on_invalid_curve", "disable_fees_sysvar",
         "deplete_cu_meter_on_vm_failure", "provide_instruction_data_offset_in_vm_r2"}

(* The transaction's accounts: A and B are programs, L one of the           *)
(* deprecated loader; 1 is another program's, 2 to 4 are A's, Pda's         *)
(* address is derived from A's.                                             *)
A == 10
B == 11
L == 12
Seed == <<3>>
Pda == Value(SubSeq(create_program_address(<<Seed>>, KeyBytes(A)), 1, 4))
Account(key, owner, data, executable, shared) ==
    [key |-> key, owner |-> owner, lamports |-> 40 + key, data |-> data, executable |-> executable, shared |-> shared]
Accounts == <<Account(A, 5, <<>>, TRUE, FALSE), Account(B, 5, <<>>, TRUE, FALSE), Account(L, 5, <<>>, TRUE, FALSE),
              Account(1, 6, <<1, 2, 3>>, FALSE, FALSE), Account(2, A, <<4, 5, 6, 7, 1>>, FALSE, TRUE),
              Account(3, A, <<1, 2, 3, 4, 5, 6, 7, 0>>, FALSE, FALSE), Account(4, A, <<>>, FALSE, FALSE),
              Account(Pda, 6, <<>>, FALSE, FALSE)>>
Use(key, signer, writable) == [key |-> key, signer |-> signer, writable |-> writable]
Run(program, accounts, data) == [program |-> program, accounts |-> accounts, data |-> data]

Cost == to_cost(from_budget_and_cost(DefaultBudget(FALSE), [DefaultCost EXCEPT !.cpi_bytes_per_unit = 8,
                                                                               !.mem_op_base_cost = 1]))
NoBank == [id \in SC!Sysvars |-> SC!NoData]
Bank(v) == [id \in SC!Sysvars |-> IF id = "rent" THEN SC!NoData ELSE [i \in 1..SC!EncodedSize(id) |-> (i + v) % 8]]
Base ==
    [features |-> Features, units |-> 200000, heap |-> MaxHeapBytes, cost |-> Cost,
     budget |-> to_budget(from_budget_and_cost(BudgetOfLimits(DefaultLimits, FALSE), Cost)),
     accounts |-> Accounts,
     instructions |-> <<Run(A, <<Use(1, FALSE, FALSE)>>, <<1, 2>>)>>, pokes |-> [p \in {A, B, L} |-> {<<>>}],
     calls |-> {}, invokes |-> {}, statuses |-> {0}, turns |-> 1, transactions |-> 1, sysvars |-> {},
     bank |-> NoBank, requests |-> {}]
StoreAt(a, bytes) == [store |-> TRUE, a |-> a, bytes |-> bytes]
LoadAt(a, n) == [store |-> FALSE, a |-> a, bytes |-> [i \in 1..n |-> 0]]
W(x) == Bytes(8, x)
SliceBytes(a, n) == W(a) \o W(n)

------------------------------------------------------------------------------
(* One call.  The program has text, slices, keys and parameters at hand.    *)
Text == H
Slices == H + 16
BadSlices == H + 160
Key == H + 48
ClockId == H + 80
Params == H + 112
Refused == H + 200
LongSlices == H + 216
LongParams == H + 248
Result == H + 512
Nearly == H + MaxHeapBytes - 8
Tables ==
    <<StoreAt(Text, <<1, 2, 3, 1, 2, 3, 1, 2>>), StoreAt(Slices, SliceBytes(Text, 3) \o SliceBytes(Text + 4, 2)),
      StoreAt(Key, KeyBytes(A)), StoreAt(ClockId, SysvarKey("clock")),
      StoreAt(Params, SliceBytes(Text, 4) \o SliceBytes(Text, 2) \o SliceBytes(Text + 4, 3)),
      StoreAt(BadSlices, SliceBytes(Text, 1) \o SliceBytes(Unmapped, 2)), StoreAt(Refused, <<7, 1>>),
      StoreAt(LongSlices, SliceBytes(Text, 300) \o SliceBytes(Text, 151)),
      StoreAt(LongParams, SliceBytes(Text, 120) \o SliceBytes(Text, 9) \o SliceBytes(Text, 100))>>
Of(name, args) == {<<name, a>> : a \in args}
Ins == {Text, Refused, Unmapped, Nearly}
Outs == {Result, Result + 1, R, Nearly, I + 80}
Tabs == {Slices, Slices + 1, BadSlices}
Long == {LongSlices} \X {1, 2}

RuntimeCalls ==
    UNION {Of("abort", {<<>>}), Of("sol_panic_", {<<Text, 3>>, <<Unmapped, 3>>}),
           Of("sol_log_", (Ins \X {0, 3, Huge}) \cup {<<Result, 300>>}), Of("sol_log_64_", {<<>>}), Of("sol_log_pubkey", {<<Key>>, <<Nearly>>}),
           Of("sol_log_compute_units_", {<<>>}), Of("sol_log_data", (Tabs \X {0, 2, Huge}) \cup Long),
           Of("sol_create_program_address", Tabs \X {0, 1, 2, 17} \X {Key} \X Outs),
           Of("sol_try_find_program_address", Tabs \X {1, 2} \X {Key} \X {Result, Nearly} \X {Result + 40, Result + 31, R}),
           Of("sol_memcpy_", {Result, R, I + 80} \X {Text, Result + 2, Unmapped} \X {0, 3, 33}),
           Of("sol_memmove_", {Text, Nearly} \X {Text + 2, Result} \X {3, 9, Huge}),
           Of("sol_memset_", Outs \X {8 + 3} \X {0, 3, 400}), Of("sol_memcmp_", {Text} \X {Text + 3, Text + 4} \X {0, 3, 4, 299} \X Outs),
           Of("sol_alloc_free_", {0, 9, Huge} \X {0, H}),
           Of("sol_get_clock_sysvar", {<<a>> : a \in Outs}), Of("sol_get_rent_sysvar", {<<Result>>}),
           Of("sol_get_epoch_schedule_sysvar", {<<Result>>}), Of("sol_get_epoch_rewards_sysvar", {<<Result>>}),
           Of("sol_get_last_restart_slot", {<<Result>>}), Of("sol_get_fees_sysvar", {<<Result>>}),
           Of("sol_get_sysvar", {ClockId, Key} \X Outs \X {0, 36} \X {0, 4, 8, 303, Huge}),
           Of("sol_get_epoch_stake", {<<0>>, <<Key>>, <<Unmapped>>}), Of("sol_get_stack_height", {<<>>}),
           Of("sol_remaining_compute_units", {<<>>}), Of("sol_set_return_data", {Text, Unmapped} \X {0, 3, 17}),
           Of("sol_get_return_data", {<<Result, 3, Result + 8>>}),
           Of("sol_get_processed_sibling_instruction", {<<0, Result, Result + 16, Result + 48, Result + 64>>})}
CryptoCalls ==
    UNION {Of("sol_sha256", (Tabs \X {0, 2} \X Outs) \cup {<<l[1], l[2], Result>> : l \in Long}), Of("sol_keccak256", {<<Slices, 1, Result>>, <<Slices, Huge, Result>>}),
           Of("sol_blake3", {<<Slices, 2, Slices>>}),
           Of("sol_secp256k1_recover", {Text, Unmapped} \X {0, 4} \X {Text, Refused} \X {Result, R}),
           Of("sol_curve_validate_point", (Curves \cup {"none"}) \X Ins),
           Of("sol_curve_decompress", {"G1_BE", "G2_LE", "edwards"} \X {Text, Refused, Nearly} \X {Result, Nearly}),
           Of("sol_curve_group_op", {"edwards", "ristretto", "G1_LE", "G2_BE", "none"} \X {"ADD", "SUB", "MUL", "DIV"} \X
                                    {Text, Refused} \X {Text, Nearly} \X {Result, R}),
           Of("sol_curve_multiscalar_mul", {"edwards", "ristretto", "none"} \X {Text} \X {Text, Refused} \X {0, 2, 513} \X {Result, R}),
           Of("sol_curve_pairing_map", {"BLS_LE", "G1_LE"} \X {0, 1, 2} \X {Text, Refused} \X {Text} \X {Result, Nearly}),
           Of("sol_alt_bn128_group_op", {"G1_ADD_BE", "G1_MUL_LE", "G2_ADD_LE", "PAIRING_BE", "NONE"} \X {Text, Refused} \X {0, 192} \X {Result, R}),
           Of("sol_alt_bn128_compression", {"G1_COMPRESS_BE", "G2_DECOMPRESS_LE", "NONE"} \X {Text, Refused} \X {64} \X {Result, R}),
           Of("sol_big_mod_exp", {Params, Params + 1, LongParams, Unmapped} \X {Result, R}),
           Of("sol_poseidon", {0, 1} \X {0, 2} \X Tabs \X {0, 2, 13} \X {Result, R})}
Single(features, program, units) ==
    [Base EXCEPT !.features = features, !.units = units, !.pokes = [p \in {A, B, L} |-> {Tables}], !.bank = Bank(0),
                 !.instructions = <<Run(program, <<Use(1, FALSE, FALSE)>>, <<1, 2>>)>>,
                 !.calls = RuntimeCalls \cup CryptoCalls]
Singles ==
    {Single(Features \cup More, A, 200000), Single(Features \cup Adjusted, A, 200000),
     Single(Features \cup Direct \cup More \cup Limited, A, 200000), Single(Features \cup Limited, L, 200000),
     Single({}, A, 200000), Single(Features, A, 420)}

------------------------------------------------------------------------------
(* An invocation, written in the heap in both layouts.  The account infos   *)
(* are those of the first accounts of the running instruction.              *)
IxRust == H
MetasRust == H + 80
Data == H + 184
IxC == H + 192
MetasC == H + 232
Keys == H + 280
InfosRust == H + 408
Cells == H + 504
InfosC == H + 648
Signers == H + 760
Modes(features, program) ==
    [v1 |-> program \in Deprecated, vas |-> "virtual_address_space_adjustments" \in features,
     direct |-> "account_data_direct_mapping" \in features,
     pointers |-> "direct_account_pointers_in_program_input" \in features]
AccountAt(key) == Accounts[CHOOSE i \in 1..Len(Accounts) : Accounts[i].key = key]
MetasOf(features, program, uses, data) ==
    serialize_parameters([i \in 1..Len(uses) |-> [signer |-> FALSE, writable |-> FALSE, changeable |-> FALSE,
                                                  host |-> 0, dup |-> NoDup] @@ AccountAt(uses[i].key)],
                         data, program, Modes(features, program), 0).metas

(* q: program, accounts, data, and infos as [key, lamports, owner, data,    *)
(* len], all addresses but the last.                                        *)
Each(n, F(_)) == FlattenSeq([i \in 1..n |-> F(i)])
WriteRust(q) ==
    LET CellAt(i) == Cells + 72 * (i - 1)
        Metas(i) == KeyBytes(q.accounts[i].key) \o <<Flag(q.accounts[i].signer) * q.flag, Flag(q.accounts[i].writable) * q.flag>>
        Infos(i) == W(q.infos[i].key) \o W(CellAt(i)) \o W(CellAt(i) + 32) \o W(q.infos[i].owner) \o Zeros(16)
        CellBytes(i) == Zeros(24) \o W(q.infos[i].lamports) \o Zeros(24) \o W(q.infos[i].data) \o W(q.infos[i].len)
    IN  <<StoreAt(IxRust, W(MetasRust) \o W(q.accounts_len) \o W(q.accounts_len) \o W(q.data_addr) \o W(q.data_len)
                          \o W(q.data_len) \o KeyBytes(q.program)),
          StoreAt(MetasRust, Each(Len(q.accounts), Metas)), StoreAt(InfosRust, Each(Len(q.infos), Infos)),
          StoreAt(Cells, Each(Len(q.infos), CellBytes))>>
WriteC(q) ==
    LET Metas(i) == W(Keys + 32 * i) \o <<Flag(q.accounts[i].writable) * q.flag, Flag(q.accounts[i].signer) * q.flag>> \o Zeros(6)
        KeyList(i) == KeyBytes(q.accounts[i].key)
        Infos(i) == W(q.infos[i].key) \o W(q.infos[i].lamports) \o W(q.infos[i].len) \o W(q.infos[i].data)
                    \o W(q.infos[i].owner) \o Zeros(16)
    IN  <<StoreAt(IxC, W(Keys) \o W(MetasC) \o W(q.accounts_len) \o W(q.data_addr) \o W(q.data_len)),
          StoreAt(Keys, KeyBytes(q.program) \o Each(Len(q.accounts), KeyList)),
          StoreAt(MetasC, Each(Len(q.accounts), Metas)), StoreAt(InfosC, Each(Len(q.infos), Infos))>>
WriteSeeds(q) ==
    <<StoreAt(Data, q.data),
      StoreAt(Signers, SliceBytes(Signers + 16, 1) \o SliceBytes(Signers + 32, q.seed_len) \o Seed)>>
Write3(q) == WriteRust(q) \o WriteC(q) \o WriteSeeds(q) \o q.pokes
Request(q, error) ==
    [rust |-> <<IxRust + q.shift, InfosRust, Len(q.infos), Signers, 1>>,
     c |-> <<IxC + q.shift, InfosC, Len(q.infos), Signers, 1>>, error |-> error,
     instruction |-> [program |-> KeyBytes(q.program), data |-> q.data,
                      accounts |-> [i \in 1..Len(q.accounts) |-> [q.accounts[i] EXCEPT !.key = KeyBytes(@)]]]]

(* The caller passes account 1, its own address and the callee.             *)
Uses == <<Use(1, FALSE, FALSE), Use(Pda, FALSE, FALSE), Use(A, FALSE, FALSE), Use(B, FALSE, FALSE)>>
InfosFrom(metas) ==
    [i \in 1..2 |-> [key |-> metas[i].vm_key_addr, lamports |-> metas[i].vm_lamports_addr,
                     owner |-> metas[i].vm_owner_addr, data |-> metas[i].vm_data_addr,
                     len |-> Len(AccountAt(Uses[i].key).data)]]
Infos(features, program) == InfosFrom(MetasOf(features, program, Uses, <<1>>))
Wanted(features, program) ==
    [program |-> B, accounts |-> <<Use(1, FALSE, FALSE), Use(Pda, program = A, FALSE), Use(B, FALSE, FALSE)>>, data |-> <<5, 6>>,
     infos |-> Infos(features, program), accounts_len |-> 3, data_addr |-> Data, data_len |-> 2, flag |-> 1,
     seed_len |-> 1, shift |-> 0, pokes |-> <<>>]
FaultsOf(q, features, program) ==
    LET limited == Limited \subseteq features
    IN  {<<q, "">>,
         <<[q EXCEPT !.accounts_len = 256], "AccessViolation">>,
         <<[q EXCEPT !.data_addr = Unmapped], "AccessViolation">>,
         <<[q EXCEPT !.data_len = Huge], "InvalidLength">>,
         <<[q EXCEPT !.accounts[1].writable = TRUE], "PrivilegeEscalation">>,
         <<[q EXCEPT !.accounts[1].signer = TRUE], "PrivilegeEscalation">>,
         <<[q EXCEPT !.accounts[1].writable = TRUE, !.flag = 2], "InvalidArgument">>,
         <<[q EXCEPT !.program = 20], "ProgramNotSupported">>,
         <<[q EXCEPT !.program = UpgradeableLoader], "MissingAccount">>,
         <<[q EXCEPT !.program = UpgradeableLoader, !.data = <<1, 5>>], "ProgramNotSupported">>,
         <<[q EXCEPT !.program = UpgradeableLoader, !.data = <<7, 0>>],
           IF Checked \subseteq features THEN "MissingAccount" ELSE "ProgramNotSupported">>,
         <<[q EXCEPT !.program = UpgradeableLoader, !.data = <<6, 0>>], "ProgramNotSupported">>,
         <<[q EXCEPT !.program = L], "MissingAccount">>,
         <<[q EXCEPT !.accounts[1].key = 2], "MissingAccount">>,
         <<[q EXCEPT !.accounts[1].key = 999], "MissingAccount">>,
         <<[q EXCEPT !.infos = Tail(@)], "MissingAccount">>,
         <<[q EXCEPT !.infos = <<@[1], @[1]>>], "MissingAccount">>,
         <<[q EXCEPT !.infos[1].owner = Keys + 32], IF limited THEN "InvalidPointer" ELSE "AccountModified">>,
         <<[q EXCEPT !.infos[1].data = @ + 1],
           IF limited THEN "InvalidPointer" ELSE IF "virtual_address_space_adjustments" \in features THEN "" ELSE "AccountModified">>,
         <<[q EXCEPT !.infos[1].len = 40], IF limited THEN "InvalidRealloc" ELSE "AccountModified">>,
         <<[q EXCEPT !.pokes = <<StoreAt(q.infos[1].lamports, W(9))>>], "AccountModified">>,
         <<[q EXCEPT !.seed_len = Huge], "InvalidLength">>,
         <<[q EXCEPT !.shift = 1], IF program = L THEN "" ELSE "UnalignedPointer">>}
Faults(features, program) == FaultsOf(Wanted(features, program), features, program)
Invocation(features, program, fault) ==
    [Base EXCEPT !.features = features, !.instructions = <<Run(program, Uses, <<1>>)>>,
                 !.pokes = [p \in {A, B, L} |-> IF p = program THEN {Write3(fault[1])} ELSE {<<>>}],
                 !.requests = {Request(fault[1], fault[2])},
                 !.invokes = {<<"sol_invoke_signed_rust", Request(fault[1], "").rust>>,
                              <<"sol_invoke_signed_c", Request(fault[1], "").c>>}]
Invocations ==
    UNION {{Invocation(features, A, fault) : fault \in Faults(features, A)} :
              features \in {Features, Features \cup Limited \cup Checked, Features \cup Adjusted, Features \cup Direct \cup Limited}}
    \cup {Invocation(Features, L, fault) : fault \in {f \in Faults(Features, L) : f[1].shift = 0}}

------------------------------------------------------------------------------
(* Programs that call each other, and what they leave behind.               *)
Calling(q, program) ==
    Write3([q EXCEPT !.program = program, !.infos = <<>>, !.accounts_len = 2,
                                       !.accounts = <<Use(A, FALSE, FALSE), Use(B, FALSE, FALSE)>>])
Both == <<Use(A, FALSE, FALSE), Use(B, FALSE, FALSE), Use(1, FALSE, FALSE)>>
InvokeIt == {<<"sol_invoke_signed_rust", <<IxRust, InfosRust, 0, Signers, 0>>>>}
Nested(q) ==
    [Base EXCEPT !.instructions = <<Run(A, Both, <<1>>), Run(B, Both, <<>>)>>, !.invokes = InvokeIt, !.units = 20000,
                 !.pokes = (A :> {Calling(q, A), Calling(q, B)}) @@ (B :> {Calling(q, B), Calling(q, A)}) @@ (L :> {<<>>})]
LifecyclesOf(q) ==
    {[Nested(q) EXCEPT !.turns = 2],
     [Nested(q) EXCEPT !.turns = 2, !.pokes[A] = {Calling(q, B)}, !.pokes[B] = {<<>>},
                    !.calls = Of("sol_set_return_data", {<<Data, 2>>})
                              \cup Of("sol_get_return_data", {Result} \X {1, 8} \X {Result + 8, Result, R})],
     [Nested(q) EXCEPT !.turns = 1, !.statuses = {0, 1}, !.pokes[A] = {Calling(q, 1), Calling(q, B)}],
     [Nested(q) EXCEPT !.turns = 2, !.instructions = <<Run(A, Both, <<1>>), Run(A, Both, <<2>>)>>,
                    !.pokes[A] = {Calling(q, B)}, !.pokes[B] = {<<>>},
                    !.calls = Of("sol_get_processed_sibling_instruction",
                                 {<<k, Result, Result + 16, Result + 48, Result + 64>> : k \in {0, 1, Huge}})],
     [Nested(q) EXCEPT !.units = 200], [Nested(q) EXCEPT !.units = 1300]}
Lifecycles == LifecyclesOf(Wanted(Features, A))
Heaps ==
    {[Base EXCEPT !.instructions = <<Run(program, <<>>, <<>>)>>, !.turns = 3, !.transactions = 2, !.heap = 64,
                  !.pokes = [p \in {A, B, L} |-> {<<>>, <<StoreAt(K + 3, <<5>>), StoreAt(H + 60, <<1, 2, 3, 4>>)>>}],
                  !.calls = Of("sol_alloc_free_", {<<0, 0>>, <<1, 0>>, <<9, 0>>, <<40, 0>>, <<1, H>>})] : program \in {A, L}}
Caches ==
    {[Base EXCEPT !.sysvars = {Bank(0), Bank(1), NoBank}, !.calls = Of("sol_get_clock_sysvar", {<<H>>}), !.transactions = 2]}

------------------------------------------------------------------------------
(* Layouts, and accesses to the accounts of a program that then fails.      *)
Lists ==
    LET mine(w) == <<Use(2, FALSE, w), Use(3, FALSE, w), Use(4, TRUE, w)>>
    IN  {<<>>, <<Use(1, FALSE, FALSE), Use(1, FALSE, FALSE), Use(A, FALSE, FALSE)>>, mine(TRUE), mine(FALSE),
         mine(TRUE) \o <<Use(1, FALSE, TRUE), Use(2, FALSE, TRUE)>>, <<Use(4, FALSE, TRUE), Use(1, FALSE, FALSE), Use(4, FALSE, TRUE)>>}
Pointers == {"direct_account_pointers_in_program_input"}
Layouts ==
    {[Base EXCEPT !.features = features, !.instructions = <<Run(program, uses, data)>>] :
        features \in {{}, Adjusted, Direct, Pointers, Pointers \cup Direct, Adjusted \cup Pointers}, program \in {A, L},
        uses \in Lists, data \in {<<>>, <<1, 2, 3>>}}
Mine == <<Use(2, FALSE, TRUE), Use(3, FALSE, TRUE), Use(1, FALSE, TRUE)>>
TouchesOf(features, metas) ==
    LET Spots(i) == {metas[i].vm_data_addr + d : d \in {0, 4, 5, 8, 12, 13, 15, 16}}
    IN  [Base EXCEPT !.features = features, !.statuses = {1}, !.instructions = <<Run(A, Mine, <<>>)>>,
                     !.pokes[A] = {<<p>> : p \in UNION {{StoreAt(a, <<3>>), StoreAt(a, <<3, 4, 5, 6>>), LoadAt(a, 1), LoadAt(a, 4)} :
                                                          a \in UNION {Spots(i) : i \in 1..3}}},
                     !.calls = Of("sol_memset_", {metas[i].vm_data_addr + d : i \in {1, 3}, d \in {0, 12}} \X {1} \X {1, 6})]
Touches(features) == TouchesOf(features, MetasOf(features, A, Mine, <<>>))
Touched == {Touches(Adjusted), Touches(Direct), Touches({}), Touches(Direct \cup More)}

MCEnvironments == Singles \cup Invocations \cup Lifecycles \cup Heaps \cup Caches \cup Layouts \cup Touched
=============================================================================
