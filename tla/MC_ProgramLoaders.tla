------------------------- MODULE MC_ProgramLoaders -------------------------
(***************************************************************************)
(* Instances of ProgramLoaders.  Loader v3: the wallets w and v, a program *)
(* P with its data D, a buffer B and an account F of another program that  *)
(* looks like a buffer.  Loader v4: the programs R and S, and P as a       *)
(* source of code.                                                         *)
(***************************************************************************)
EXTENDS ProgramLoaders

CONSTANTS w, v, P, D, B, F, R, S, Other

MCKeys == {w, v, P, D, B, F, R, S, System}
MCMinimumBalance == [size \in Sizes |-> IF size <= 5 THEN 1 ELSE 2]
MCSizeOf ==
  [tag \in {"zeroed", "Buffer", "Program", "ProgramData", "Retracted", "Deployed", "Finalized"} |->
     CASE tag = "zeroed" -> 1 [] tag = "Program" -> 2 [] tag = "Buffer" -> 3
       [] tag = "ProgramData" -> 4 [] OTHER -> 2]
MCProgramDataOf == [p \in {P} |-> D]
MCSizes == 0..9
MCWords == 0..3
MCVerified == {<<1>>, <<2>>}

Nothing == [k \in MCKeys |-> NewAccount(0, System, 0)]
GenesisV3 ==
  [Nothing EXCEPT ![w] = NewAccount(2, System, 0),
                  ![P] = NewAccount(1, UpgradeableLoaderId, 2),
                  ![B] = NewAccount(1, UpgradeableLoaderId, 4),
                  ![F] = [NewAccount(1, Other, 4) EXCEPT !.tag = "Buffer", !.authority = w,
                                                         !.code = <<1>>]]
Deployed(authority) ==
  [Nothing EXCEPT ![v] = NewAccount(1, System, 0),
                  ![P] = [NewAccount(1, UpgradeableLoaderId, 2)
                            EXCEPT !.tag = "Program", !.address = D, !.executable = TRUE],
                  ![D] = [NewAccount(2, UpgradeableLoaderId, 5)
                            EXCEPT !.tag = "ProgramData", !.code = <<2>>, !.authority = authority]]
GenesisV4 ==
  [Deployed(NoKey) EXCEPT ![R] = NewAccount(2, LoaderV4Id, 0), ![S] = NewAccount(1, LoaderV4Id, 0)]
MCGenesis ==
  {[accounts |-> GenesisV3, feature_set |-> {"enable_bpf_loader_set_authority_checked_ix"}],
   [accounts |-> Deployed(w), feature_set |-> {"enable_extend_program_checked"}],
   [accounts |-> GenesisV4, feature_set |-> {}]}
MCSignerSets == {{w, B}, {v}, {w, v}}

Ix(op, account, authority) ==
  [op |-> op, account |-> account, authority |-> authority, program |-> P, buffer |-> B,
   payer |-> w, recipient |-> w, new_authority |-> v, checked |-> FALSE, offset |-> 0,
   words |-> <<>>, length |-> 0, lamports |-> 1, owner |-> UpgradeableLoaderId, readonly |-> {}]

SystemInstructions ==
  {[Ix("CreateAccount", B, w) EXCEPT !.length = size] : size \in {5, 6}}
    \cup {Ix("Transfer", B, w), Ix("Transfer", D, w)}

BufferInstructions ==
  {Ix("InitializeBuffer", B, w), Ix("InitializeBuffer", D, w)}
    \cup {[Ix("Write", B, authority) EXCEPT !.words = <<1>>] : authority \in {w, v}}
    \cup {[Ix("Write", B, w) EXCEPT !.words = <<2>>]}

ProgramInstructions ==
  {[Ix("DeployWithMaxDataLen", D, w) EXCEPT !.length = length] : length \in {1, 2}}
    \cup {[Ix("DeployWithMaxDataLen", D, w) EXCEPT !.length = 1, !.buffer = F]}
    \cup {Ix("Upgrade", D, w), Ix("Upgrade", D, v), [Ix("Upgrade", D, w) EXCEPT !.recipient = B]}
    \cup {[Ix("ExtendProgram", D, w) EXCEPT !.length = 1, !.checked = checked] :
            checked \in BOOLEAN}

AuthorityInstructions ==
  {[Ix("SetAuthority", k, w) EXCEPT !.checked = checked] : k \in {B, D}, checked \in BOOLEAN}
    \cup {[Ix("SetAuthority", k, w) EXCEPT !.new_authority = NoKey] : k \in {B, D}}

CloseInstructions ==
  {Ix("Close", k, authority) : k \in {B, D}, authority \in {w, v}}
    \cup {Ix("Close", P, w), [Ix("Close", D, w) EXCEPT !.readonly = {P}]}

V4Ix(op, program, authority) == [Ix(op, P, authority) EXCEPT !.program = program]
V4Instructions ==
  {[V4Ix("SetProgramLength", R, w) EXCEPT !.length = length, !.recipient = v] : length \in 0..2}
    \cup {[V4Ix("SetProgramLength", R, w) EXCEPT !.length = length, !.recipient = NoKey] :
            length \in 0..1}
    \cup {[V4Ix("SetProgramLength", S, w) EXCEPT !.length = 1, !.recipient = v]}
    \cup {[V4Ix("WriteV4", R, w) EXCEPT !.offset = offset, !.words = <<1>>] : offset \in {0, 1}}
    \cup {[V4Ix("WriteV4", R, v) EXCEPT !.words = <<1>>]}
    \cup {[V4Ix("Copy", R, w) EXCEPT !.account = D, !.length = 1],
          [V4Ix("Copy", S, w) EXCEPT !.account = R, !.length = 1]}
    \cup {V4Ix("Deploy", R, w), V4Ix("Deploy", R, v), V4Ix("Deploy", S, w),
          V4Ix("Retract", R, w), V4Ix("Retract", R, v), V4Ix("TransferAuthority", R, w)}
    \cup {[V4Ix("Finalize", program, w) EXCEPT !.account = next] :
            program \in {R, S}, next \in {R, S}}
    \cup {[V4Ix("Finalize", R, w) EXCEPT !.account = D]}

All ==
  SystemInstructions \cup BufferInstructions \cup ProgramInstructions
    \cup AuthorityInstructions \cup CloseInstructions \cup V4Instructions
MCInstructions == [op \in {ix.op : ix \in All} |-> {ix \in All : ix.op = op}]
=============================================================================
