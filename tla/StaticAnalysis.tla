--------------------------- MODULE StaticAnalysis ---------------------------
(* The analysis of a program's control and data flow                        *)
(* (sbpf/src/static_analysis.rs): basic blocks and their edges, strongly    *)
(* connected components and a topological order, the dominator tree, and    *)
(* the dependencies between instructions that share a register or memory.   *)
EXTENDS SbpfAssembler

Unset == 10000          \* usize::MAX
Less(a, b) == IF a < b THEN a ELSE b
Sorted(s, Before(_, _)) == [i \in 1..Cardinality(s) |-> CHOOSE x \in s : Cardinality({y \in s : Before(y, x)}) = i - 1]
Ascending(s) == Sorted(s, LAMBDA a, b : a < b)

(* The instructions with their slots; lddw is one, its halves joined.       *)
Instructions(prog) ==
    LET insn(pc) == get_insn(prog, pc)
        at(pc, imm) == [opc |-> insn(pc).opc, dst |-> insn(pc).dst, src |-> insn(pc).src,
                        off |-> insn(pc).off, imm |-> imm, ptr |-> pc]
        from[pc \in 0..(Len(prog) + 1)] ==
          IF pc >= Len(prog) THEN <<>>
          ELSE IF insn(pc).opc # LD_DW_IMM THEN <<at(pc, insn(pc).imm)>> \o from[pc + 1]
          ELSE IF pc + 1 >= Len(prog) THEN <<>>
          ELSE <<at(pc, S(W64, augment_lddw(prog, pc)))>> \o from[pc + 2]
    IN  from[0]

(* The functions by their first instruction; the greatest key names it.     *)
FunctionNames(reg) ==
    [pc \in {reg[k].value : k \in DOMAIN reg} |->
       reg[CHOOSE k \in DOMAIN reg : reg[k].value = pc /\ \A j \in DOMAIN reg : reg[j].value = pc => j <= k].name]

------------------------------------------------------------------------------
(* split_into_basic_blocks, calls not flattened.  The key of a call is      *)
(* computed from the index of its instruction.                              *)
CalleeKey(x, ins, i) == calculate_call_imm_target_pc(x.v, i - 1, ins[i].imm)
CallsFunction(x, ins, i) == ins[i].opc = CALL_IMM /\ CalleeKey(x, ins, i) \in DOMAIN x.functions
IsBranch(x, insn) == Decode(x.v, insn.opc).kind = "jmp"
JumpTarget(insn) == insn.ptr + insn.off + 1

EndsBlock(x, ins, i) ==
    ins[i].opc \in {CALL_REG, EXIT, JA} \/ CallsFunction(x, ins, i) \/ IsBranch(x, ins[i])

(* Where the control flow goes after the end of a block.                    *)
Destinations(x, insn) ==
    CASE insn.opc = EXIT -> <<>>
      [] insn.opc = JA -> <<JumpTarget(insn)>>
      [] insn.opc \in {CALL_IMM, CALL_REG} -> <<insn.ptr + 1>>
      [] OTHER -> <<insn.ptr + 1, JumpTarget(insn)>>

Starts(x, ins) ==
    LET ends == {i \in 1..Len(ins) : EndsBlock(x, ins, i)}
        jumps == {i \in ends : ins[i].opc = JA \/ IsBranch(x, ins[i])}
        calls == {i \in ends : ins[i].opc = CALL_IMM}
        starts == {0} \cup DOMAIN FunctionNames(x.functions) \cup {ins[i].ptr + 1 : i \in ends}
                  \cup {JumpTarget(ins[i]) : i \in jumps}
                  \cup {x.functions[CalleeKey(x, ins, i)].value : i \in calls}
    IN  starts \cap {ins[i].ptr : i \in 1..Len(ins)}

(* The edge at pc leaves a block that ends there.  The other is a variant.  *)
LeavesBefore(pc, end) == pc < end
LeavesBlock(pc, end) == pc <= end

(* One turn of the loop over the blocks: the block from start on gets the   *)
(* instructions up to the next one and, if it is left there, the first edge *)
(* that no block got.  A block without falls through to the next one, but   *)
(* not if a function starts with it.                                        *)
NextBlock(x, ins, starts, names, s, start) ==
    LET after == {t \in starts : t > start}
        next == CHOOSE t \in after : \A u \in after : t <= u
        end == IF after = {} THEN ins[Len(ins)].ptr ELSE next - 1
        members == {i \in s.index..Len(ins) : ins[i].ptr <= end}
        leaves == s.edges # <<>> /\ LeavesBlock(ins[Head(s.edges)].ptr, end)
        through == after # {} /\ start \notin DOMAIN names
        destinations ==
          IF leaves THEN SelectSeq(Destinations(x, ins[Head(s.edges)]), LAMBDA d : d \in starts)
          ELSE IF through THEN <<next>> ELSE <<>>
    IN  [index |-> s.index + Cardinality(members), edges |-> IF leaves THEN Tail(s.edges) ELSE s.edges,
         blocks |-> (start :> [members |-> members, destinations |-> destinations]) @@ s.blocks]

SplitAt(x, ins, starts, all) ==
    LET names == [pc \in DOMAIN all \cap starts |-> all[pc]]
        edges == SelectSeq([i \in 1..Len(ins) |-> i], LAMBDA i : EndsBlock(x, ins, i))
        split == FoldLeft(LAMBDA s, start : NextBlock(x, ins, starts, names, s, start),
                          [index |-> 1, edges |-> edges, blocks |-> <<>>], Ascending(starts))
    IN  [names |-> names, blocks |-> split.blocks]
split_into_basic_blocks(x, ins) == SplitAt(x, ins, Starts(x, ins), FunctionNames(x.functions))

(* link_cfg_edges: one entry per edge.                                      *)
Sources(blocks, b) ==
    FlattenSeq([i \in 1..Cardinality(DOMAIN blocks) |->
                  LET s == Ascending(DOMAIN blocks)[i]
                  IN  [j \in 1..Len(SelectSeq(blocks[s].destinations, LAMBDA d : d = b)) |-> s]])

------------------------------------------------------------------------------
(* control_flow_graph_tarjan, one turn of its loop at a time.  Nodes are    *)
(* numbered by position; a stack entry holds a node and how many of its     *)
(* edges are done.                                                          *)
TarjanStart(n) ==
    LET unset == [v \in 1..n |-> Unset]
    IN  [disc |-> unset, low |-> unset, scc |-> unset, on |-> {}, scc_stack |-> <<>>,
         stack |-> <<<<1, 0>>>>, found |-> 0, next_v |-> 2, id |-> 0]

Enter(t, v) ==
    [t EXCEPT !.disc[v] = t.found, !.low[v] = t.found, !.on = @ \cup {v},
              !.scc_stack = Append(@, v), !.found = @ + 1]

(* Edges from e on: up to the first undiscovered node, at, or all of them.  *)
ScanEdges(t, v, next, e) ==
    LET see(a, j) ==
          LET w == next[v][j]
          IN  CASE a.at # 0 -> a
                [] a.at = 0 /\ t.disc[w] = Unset -> [a EXCEPT !.at = j]
                [] OTHER -> [a EXCEPT !.low = IF w \in t.on THEN Less(@, t.disc[w]) ELSE @]
    IN  FoldLeft(see, [at |-> 0, low |-> t.low[v]], [i \in 1..(Len(next[v]) - e) |-> i + e])

(* The nodes above and including v on the stack are a component.            *)
CloseComponent(t, v) ==
    LET k == CHOOSE i \in 1..Len(t.scc_stack) : t.scc_stack[i] = v
        popped == {t.scc_stack[i] : i \in k..Len(t.scc_stack)}
        index(w) == Len(t.scc_stack) - CHOOSE i \in k..Len(t.scc_stack) : t.scc_stack[i] = w
    IN  [t EXCEPT !.on = @ \ popped, !.id = @ + 1, !.scc_stack = SubSeq(@, 1, k - 1),
                  !.scc = [w \in DOMAIN @ |-> IF w \in popped THEN t.id ELSE @[w]],
                  !.disc = [w \in DOMAIN @ |-> IF w \in popped THEN index(w) ELSE @[w]]]

(* Back to the parent, or on to the next node no search has reached.        *)
Resume(t, v) ==
    LET parent == t.stack[Len(t.stack)][1]
        unseen == {u \in DOMAIN t.disc : u >= t.next_v /\ t.disc[u] = Unset}
        first == CHOOSE u \in unseen : \A w \in unseen : u <= w
    IN  CASE t.stack # <<>> -> [t EXCEPT !.low[parent] = Less(@, t.low[v])]
          [] t.stack = <<>> /\ unseen # {} -> [t EXCEPT !.stack = <<<<first, 0>>>>, !.next_v = first + 1]
          [] OTHER -> t

TarjanTurn(t, next) ==
    LET top == t.stack[Len(t.stack)]
        v == top[1]
        popped == [t EXCEPT !.stack = SubSeq(@, 1, Len(@) - 1)]
        entered == IF top[2] = 0 THEN Enter(popped, v) ELSE popped
        scan == ScanEdges(entered, v, next, top[2])
        seen == [entered EXCEPT !.low[v] = scan.low]
    IN  IF scan.at # 0
        THEN [seen EXCEPT !.stack = @ \o <<<<v, scan.at>>, <<next[v][scan.at], 0>>>>]
        ELSE Resume(IF seen.disc[v] = seen.low[v] THEN CloseComponent(seen, v) ELSE seen, v)

(* The component and the place in it of every block.                        *)
Number(order, b) == CHOOSE i \in 1..Len(order) : order[i] = b
EdgeNumbers(blocks) ==
    LET order == Ascending(DOMAIN blocks)
    IN  [i \in 1..Len(order) |->
           [j \in 1..Len(blocks[order[i]].destinations) |-> Number(order, blocks[order[i]].destinations[j])]]
TopologicalIndex(blocks, t) ==
    LET order == Ascending(DOMAIN blocks)
    IN  [b \in DOMAIN blocks |-> <<t.scc[Number(order, b)], t.disc[Number(order, b)]>>]

Later(p, q) == p[1] > q[1] \/ (p[1] = q[1] /\ p[2] > q[2])
TopologicalOrder(topo) == Sorted(DOMAIN topo, LAMBDA a, b : Later(topo[a], topo[b]))

(* The virtual root reaches the first block of every component that no      *)
(* other component leads to; these start functions.                         *)
Roots(blocks, topo) ==
    LET order == TopologicalOrder(topo)
        same(b) == {c \in DOMAIN topo : topo[c][1] = topo[b][1]}
        external(b) == \E s \in DOMAIN blocks : /\ topo[s][1] # topo[b][1]
                                                /\ \E i \in 1..Len(blocks[s].destinations) :
                                                     blocks[s].destinations[i] = b
        first(b) == \A c \in same(b) : c = b \/ Later(topo[b], topo[c])
    IN  SelectSeq(order, LAMBDA b : first(b) /\ \A c \in same(b) : ~external(c))

------------------------------------------------------------------------------
(* The dominator tree: passes up to a fixed point. parent is Unset            *)
(* where it is not known yet.                                               *)
RECURSIVE control_flow_graph_dominance_intersect(_, _, _, _)
control_flow_graph_dominance_intersect(topo, parent, a, b) ==
    IF a = b THEN b
    ELSE IF Later(topo[a], topo[b]) THEN control_flow_graph_dominance_intersect(topo, parent, a, parent[b])
    ELSE control_flow_graph_dominance_intersect(topo, parent, parent[a], b)

DominancePass(topo, sources, order, parent) ==
    LET meet(dom, a, p) == IF dom[p] = Unset THEN a
                           ELSE IF a = Unset THEN p
                           ELSE control_flow_graph_dominance_intersect(topo, dom, p, a)
        visit(dom, b) == [dom EXCEPT ![b] = FoldLeft(LAMBDA a, p : meet(dom, a, p), Unset, sources[b])]
    IN  FoldLeft(visit, parent, order)

------------------------------------------------------------------------------
(* Data flow.  A resource is a register or MEMORY; a node is an instruction *)
(* or the start of a block with several sources.                            *)
MEMORY == 16
InstructionNode(ptr) == <<"insn", ptr>>
PhiNode(b) == <<"phi", b>>
CallRegisters == <<0, 1, 2, 3, 4, 5, 10>>

Reads(rs) == [i \in 1..Len(rs) |-> <<FALSE, rs[i]>>]
ReadsAndWrites(rs) == FlattenSeq([i \in 1..Len(rs) |-> <<<<FALSE, rs[i]>>, <<TRUE, rs[i]>>>>])

(* What an instruction binds, in order: <<is_output, resource>>.  But for   *)
(* 32-bit jumps the arms do not look at the version.                        *)
IsSdiv(o) == PqrArm(2, o).op = "sdiv"
BindingsOf(insn, d) ==
    LET operand == IF d.reg THEN <<insn.src>> ELSE <<>>
    IN  CASE d.kind = "jmp" -> Reads(operand \o <<insn.dst>>)
          [] d.kind \in {"call", "callx"} ->
               Reads(IF d.kind = "callx" /\ insn.imm \notin SCRATCH_REGS THEN <<insn.imm % 256>> ELSE <<>>)
               \o ReadsAndWrites(<<MEMORY>> \o CallRegisters)
          [] d.kind = "exit" -> Reads(<<MEMORY>> \o CallRegisters)
          [] d.kind = "lddw" -> <<<<TRUE, insn.dst>>>>
          [] d.kind = "load" -> Reads(<<MEMORY, insn.src>>) \o <<<<TRUE, insn.dst>>>>
          [] d.kind = "store" -> Reads(operand \o <<insn.dst>>) \o <<<<TRUE, MEMORY>>>>
          [] d.kind = "alu" /\ d.op = "mov" -> Reads(operand) \o <<<<TRUE, insn.dst>>>>
          [] d.kind = "alu" /\ d.op # "mov" -> Reads(operand \o <<insn.dst>>) \o <<<<TRUE, insn.dst>>>>
          [] OTHER -> <<>>
Bindings(x, insn) ==
    BindingsOf(insn, IF IsBranch(x, insn) THEN Decode(x.v, insn.opc)
                     ELSE IF IsSdiv(insn.opc) THEN PqrArm(2, insn.opc) ELSE ListedArm(0, insn.opc))

DfgEdge(source, destination, filled, resource) ==
    [source |-> source, destination |-> destination, filled |-> filled, resource |-> resource]

(* The edges of an instruction, kept by the node they leave: the resources  *)
(* come from their last writer in the block or from its start.              *)
bind(state, insn, bindings) ==
    LET ks == 1..Len(bindings)
        r(k) == bindings[k][2]
        source(k) == IF \E j \in 1..(k - 1) : bindings[j] = <<TRUE, r(k)>> THEN InstructionNode(insn.ptr)
                     ELSE IF r(k) \in DOMAIN state.writers THEN InstructionNode(state.writers[r(k)])
                     ELSE PhiNode(state.block)
        edge(k) == DfgEdge(source(k), InstructionNode(insn.ptr), ~bindings[k][1], r(k))
        at(n) == IF n \in DOMAIN state.forward THEN state.forward[n] ELSE {}
    IN  [state EXCEPT !.forward = [n \in DOMAIN state.forward \cup {source(k) : k \in ks} |->
                                     at(n) \cup {edge(k) : k \in {j \in ks : source(j) = n}}],
                      !.writers = [x \in {r(k) : k \in {j \in ks : bindings[j][1]}} |-> insn.ptr] @@ @]

(* Inside a block; the result holds what each block has written last.       *)
intra_basic_block_data_flow(x, a, b) ==
    LET order == Ascending(a.blocks[b].members)
        done == FoldLeft(LAMBDA s, i : bind(s, a.ins[i], Bindings(x, a.ins[i])),
                         [block |-> b, forward |-> a.forward, writers |-> <<>>], order)
    IN  [a EXCEPT !.forward = done.forward, !.outputs = @ @@ (b :> done.writers)]

(* A variant that does not look at what the predecessor has written.        *)
FromPredecessorStart(state, outputs, b, many, edges, p) ==
    LET known(e) == FALSE
        source(e) == IF known(e) THEN InstructionNode(outputs[p][e.resource]) ELSE PhiNode(p)
        copy(e) == IF many THEN [e EXCEPT !.destination = PhiNode(b)] ELSE e
        at(n) == IF n \in DOMAIN state.forward THEN state.forward[n] ELSE {}
    IN  [forward |-> [n \in DOMAIN state.forward \cup {source(e) : e \in edges} |->
                        at(n) \cup {copy(e) : e \in {d \in edges : source(d) = n}}],
         again |-> state.again \/ (p # b /\ \E e \in edges : ~known(e) /\ copy(e) \notin at(PhiNode(p)))]

(* Between blocks: what a block's start needs is asked of its predecessors. *)
(* A copied edge keeps the source it was made with.                         *)
FromPredecessor(state, outputs, b, many, edges, p) ==
    LET known(e) == e.resource \in DOMAIN outputs[p]
        source(e) == IF known(e) THEN InstructionNode(outputs[p][e.resource]) ELSE PhiNode(p)
        copy(e) == IF many THEN [e EXCEPT !.destination = PhiNode(b)] ELSE e
        at(n) == IF n \in DOMAIN state.forward THEN state.forward[n] ELSE {}
    IN  [forward |-> [n \in DOMAIN state.forward \cup {source(e) : e \in edges} |->
                        at(n) \cup {copy(e) : e \in {d \in edges : source(d) = n}}],
         again |-> state.again \/ (p # b /\ \E e \in edges : ~known(e) /\ copy(e) \notin at(PhiNode(p)))]

PropagateBlock(state, outputs, sources, b) ==
    LET phi == PhiNode(b)
        edges == state.forward[phi]
        many == Len(sources[b]) # 1
        asked == FoldLeft(LAMBDA s, p : FromPredecessor(s, outputs, b, many, edges, p),
                          [state EXCEPT !.forward[phi] = {}], sources[b])
    IN  IF phi \notin DOMAIN state.forward THEN state
        ELSE [forward |-> [asked.forward EXCEPT ![phi] = @ \cup edges],
              again |-> asked.again \/ ~(asked.forward[phi] \subseteq edges)]

PropagatePass(forward, outputs, sources, order) ==
    FoldLeft(LAMBDA s, b : PropagateBlock(s, outputs, sources, b), [forward |-> forward, again |-> FALSE], Reverse(order))

(* Blocks with one source need no node of their own.                        *)
DropPhis(forward, sources) ==
    [n \in DOMAIN forward \ {PhiNode(b) : b \in {c \in DOMAIN sources : Len(sources[c]) = 1}} |-> forward[n]]

------------------------------------------------------------------------------
(* Analysis::from_executable, a stage at a time.                            *)
NoAnalysis == [stage |-> "none"]

StartSearch(x, ins, split) ==
    [stage |-> "search", ins |-> ins, names |-> split.names, blocks |-> split.blocks,
     next |-> EdgeNumbers(split.blocks), t |-> TarjanStart(Cardinality(DOMAIN split.blocks)),
     super_root |-> Len(x.prog)]
SplitInto(x, ins) == StartSearch(x, ins, split_into_basic_blocks(x, ins))
Split(x) == SplitInto(x, Instructions(x.prog))

Search(a) == IF a.t.stack # <<>> THEN [a EXCEPT !.t = TarjanTurn(a.t, a.next)] ELSE [a EXCEPT !.stage = "arrange"]

(* The order, the virtual root and the functions it starts.                 *)
Arrange(a) ==
    LET topo == TopologicalIndex(a.blocks, a.t)
        roots == Roots(a.blocks, topo)
        blocks == a.blocks @@ (a.super_root :> [members |-> {}, destinations |-> roots])
    IN  [stage |-> "dominate", ins |-> a.ins, super_root |-> a.super_root, blocks |-> blocks,
         names |-> a.names @@ [b \in Range(roots) |-> Name("function", b)],
         sources |-> [b \in DOMAIN blocks |-> Sources(blocks, b)],
         topo |-> topo @@ (a.super_root :> <<Unset, Unset>>), order |-> TopologicalOrder(topo),
         parent |-> [b \in DOMAIN blocks |-> IF b = a.super_root THEN b ELSE Unset],
         forward |-> <<>>, outputs |-> <<>>]

control_flow_graph_dominance_hierarchy(a) ==
    LET parent == DominancePass(a.topo, a.sources, a.order, a.parent)
    IN  IF parent # a.parent THEN [a EXCEPT !.parent = parent] ELSE [a EXCEPT !.stage = "bind"]

Bind(x, a) ==
    LET left == DOMAIN a.blocks \ DOMAIN a.outputs
    IN  IF left = {} THEN [a EXCEPT !.stage = "propagate"]
        ELSE intra_basic_block_data_flow(x, a, CHOOSE b \in left : \A c \in left : b <= c)

inter_basic_block_data_flow(a) ==
    LET pass == PropagatePass(a.forward, a.outputs, a.sources, a.order)
    IN  IF pass.again THEN [a EXCEPT !.forward = pass.forward]
        ELSE [a EXCEPT !.forward = DropPhis(pass.forward, a.sources), !.stage = "done"]

from_executable(x, a) ==
    CASE a.stage = "none" -> Split(x)
      [] a.stage = "search" -> Search(a)
      [] a.stage = "arrange" -> Arrange(a)
      [] a.stage = "dominate" -> control_flow_graph_dominance_hierarchy(a)
      [] a.stage = "bind" -> Bind(x, a)
      [] a.stage = "propagate" -> inter_basic_block_data_flow(a)

(* label_basic_blocks.                                                      *)
BlockLabel(a, pc) ==
    CASE pc \notin DOMAIN a.blocks -> Name("invalid", 0)
      [] pc = a.super_root -> Name("super_root", 0)
      [] pc \in DOMAIN a.names /\ pc # a.super_root -> a.names[pc]
      [] OTHER -> Name("lbb", pc)

(* disassemble: a block gets its label unless it only follows the block     *)
(* before it; the index of the instruction is passed for its pc.            *)
disassemble_label(a, pc, last) ==
    IF pc \notin DOMAIN a.blocks THEN [lines |-> <<>>, last |-> last]
    ELSE LET final == CHOOSE i \in a.blocks[pc].members : \A j \in a.blocks[pc].members : j <= i
         IN  [lines |-> IF pc \in DOMAIN a.names \/ a.sources[pc] # <<last>>
                        THEN <<LabelStatement(BlockLabel(a, pc))>> ELSE <<>>,
              last |-> IF a.ins[final].opc = JA THEN Unset ELSE pc]

disassemble(x, a, builtins) ==
    LET line(s, i) ==
          LET l == disassemble_label(a, a.ins[i].ptr, s.last)
          IN  [last |-> l.last,
               out |-> s.out \o l.lines
                       \o <<disassemble_instruction(x.v, a.ins[i], i - 1, x.functions, builtins,
                                                    BlockLabel(a, a.ins[i].ptr + a.ins[i].off + 1))>>]
    IN  FoldLeft(line, [last |-> Unset, out |-> <<>>], [i \in 1..Len(a.ins) |-> i]).out
=============================================================================
