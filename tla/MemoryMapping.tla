--------------------------- MODULE MemoryMapping ---------------------------
(* The guest's address space (sbpf/src/memory_region.rs): regions of host   *)
(* memory at guest addresses, found by an Eytzinger search behind a small   *)
(* cache, or by the upper half of the address.  A mapping is a record, so   *)
(* that every engine has its own; looking a region up returns the mapping   *)
(* too, because a lookup fills the cache.                                   *)
EXTENDS SbpfIsa, FiniteSets, SequencesExt

CacheSize == 4                  \* MappingCache::SIZE
NoGap == -1                     \* vm_gap_shift = 63: the region is continuous
MaxAddr == 2^W64 - 1

(* host is the first host address, grows the length the access violation    *)
(* handler may extend the region to, 0 when it has no payload for it        *)
(* (access_violation_handler_payload).                                      *)
Region(host, vm_addr, len, gap, writable, grows) ==
    [host |-> host, vm_addr |-> vm_addr, len |-> len, gap |-> gap,
     writable |-> writable, grows |-> grows]
EmptyRegion(vm_addr) == Region(0, vm_addr, 0, NoGap, FALSE, 0)

Least(x, y) == IF x < y THEN x ELSE y

(* vm_addr_range().end: a gapped region covers twice its length.            *)
RangeEnd(r) == Least(MaxAddr, r.vm_addr + (IF r.gap = NoGap THEN r.len ELSE 2 * r.len))
InRange(range, a) == range[1] <= a /\ a < range[2]

NoHost == -1

(* The host address of len bytes at guest address a, or NoHost.             *)
InGap(begin, block) == (begin \div block) % 2 = 1
GappedOffset(begin, block) == ((begin \div (2 * block)) * block) + (begin % block)
HostAt(r, store, begin, offset, len) ==
    IF \/ store /\ ~r.writable
       \/ begin < 0
       \/ r.gap # NoGap /\ InGap(begin, 2^r.gap)
       \/ offset + len > r.len
    THEN NoHost ELSE r.host + offset
vm_to_host(r, store, a, len) ==
    HostAt(r, store, a - r.vm_addr,
           IF r.gap = NoGap THEN a - r.vm_addr ELSE GappedOffset(a - r.vm_addr, 2^r.gap), len)

------------------------------------------------------------------------------
(* The cache: a ring of the last lookups, scanned from its head.            *)
EmptyCache == [entries |-> [i \in 0..(CacheSize - 1) |-> [range |-> <<0, 0>>, index |-> 0]], head |-> 0]

Position(c, i) == (c.head + i) % CacheSize
CacheHits(c, a) == {i \in 0..(CacheSize - 1) : InRange(c.entries[Position(c, i)].range, a)}
CacheIndex(c, a) ==
    c.entries[Position(c, CHOOSE i \in CacheHits(c, a) : \A j \in CacheHits(c, a) : i <= j)].index
CacheInsertInclusive(c, range, index) ==
    LET head == (c.head + CacheSize - 1) % CacheSize
    IN  [entries |-> [c.entries EXCEPT ![head] = [range |-> <<range[1], range[2] + 1>>, index |-> index]],
         head |-> head]
CacheInsert(c, range, index) ==
    LET head == (c.head + CacheSize - 1) % CacheSize
    IN  [entries |-> [c.entries EXCEPT ![head] = [range |-> range, index |-> index]], head |-> head]

------------------------------------------------------------------------------
(* The Eytzinger order of n sorted regions: the tree's positions, from 0,   *)
(* read in order, are the regions' indices.                                 *)
InOrder(n) ==
    LET walk[o \in 0..(2 * n + 2)] ==
          IF o >= n THEN <<>> ELSE walk[2 * o + 1] \o <<o>> \o walk[2 * o + 2]
    IN  walk[0]
construct_eytzinger_order(n) ==
    [o \in 0..(n - 1) |-> (CHOOSE i \in 1..n : InOrder(n)[i] = o) - 1]

(* index >>= index.trailing_zeros() + 1.                                    *)
DropTrailing(index) ==
    LET drop[i \in 1..index] == IF i % 2 = 1 THEN i \div 2 ELSE drop[i \div 2] IN drop[index]

NotFound == -1

(* The search itself, from index 1; its result is an index of regions.      *)
EytzingerSearch(mm, a) ==
    LET n == Len(mm.regions)
        descend[i \in 1..(2 * n + 1)] ==
          IF i > n THEN i
          ELSE descend[2 * i + (IF mm.regions[mm.lookup[i - 1] + 1].vm_addr <= a THEN 1 ELSE 0)]
        leaf == DropTrailing(descend[1])
    IN  IF leaf = 0 THEN NotFound ELSE mm.lookup[leaf - 1]

Found(index, mm) == [index |-> index, mm |-> mm]

Remember(mm, index, r) == [mm EXCEPT !.cache = CacheInsert(@, <<r.vm_addr, RangeEnd(r)>>, index)]
Searched(mm, index) ==
    IF index = NotFound THEN Found(NotFound, mm) ELSE Found(index, Remember(mm, index, mm.regions[index + 1]))
find_region_unaligned(mm, a) ==
    IF CacheHits(mm.cache, a) # {} THEN Found(CacheIndex(mm.cache, a), mm) ELSE Searched(mm, EytzingerSearch(mm, a))

find_region_aligned(mm, a) ==
    LET index == a \div MM_REGION_SIZE
    IN  Found(IF index < Len(mm.regions) /\ (index > 0 \/ mm.zero) THEN index ELSE NotFound, mm)

find_region(mm, a) == IF mm.aligned THEN find_region_aligned(mm, a) ELSE find_region_unaligned(mm, a)

------------------------------------------------------------------------------
SortRegions(rs) == SortSeq(rs, LAMBDA r, s : r.vm_addr < s.vm_addr)
UpperHalf(a) == a \div MM_REGION_SIZE

(* AlignedMemoryMapping::initialize with region zero allowed: missing       *)
(* regions become empty ones; the rest of the sorted sequence follows.      *)
FillGaps(rs) ==
    LET last == UpperHalf(rs[Len(rs)].vm_addr)
        at(i) == {j \in 1..Len(rs) : UpperHalf(rs[j].vm_addr) = i}
    IN  [i \in 1..(last + 1) |-> IF at(i - 1) = {} THEN EmptyRegion((i - 1) * MM_REGION_SIZE)
                                 ELSE rs[CHOOSE j \in at(i - 1) : TRUE]]

(* MemoryMapping::initialize: the mapping, or the error it is refused with. *)
initialize(mm) ==
    LET sorted == SortRegions(IF mm.aligned /\ ~mm.zero THEN Append(mm.regions, EmptyRegion(0))
                              ELSE mm.regions)
        n == Len(sorted)
        clash == CASE ~mm.aligned -> \E i \in 2..n : RangeEnd(sorted[i - 1]) > sorted[i].vm_addr
                   [] mm.aligned /\ mm.zero ->
                        \E i, j \in 1..n : i # j /\ UpperHalf(sorted[i].vm_addr) = UpperHalf(sorted[j].vm_addr)
                   [] OTHER -> \E i \in 1..n : UpperHalf(sorted[i].vm_addr) # i - 1
    IN  [mm EXCEPT !.initialized = ~clash,
                   !.regions = IF mm.aligned /\ mm.zero /\ ~clash /\ n > 0 THEN FillGaps(sorted) ELSE sorted,
                   !.lookup = IF mm.aligned \/ clash THEN @ ELSE construct_eytzinger_order(n)]

(* MemoryMapping::new: version 4 and later only know the aligned kind.      *)
NewMapping(v, aligned, zero, regions) ==
    initialize([aligned |-> v >= 4 \/ aligned, zero |-> zero, regions |-> regions, lookup |-> <<>>,
                cache |-> EmptyCache, initialized |-> FALSE])

------------------------------------------------------------------------------
NextStart(mm, index) == IF index + 2 <= Len(mm.regions) THEN mm.regions[index + 2].vm_addr ELSE MaxAddr

ReplaceAllowed(mm, index, r) ==
    /\ index < Len(mm.regions)
    /\ mm.regions[index + 1].vm_addr = r.vm_addr
    /\ RangeEnd(r) <= NextStart(mm, index)
    /\ mm.aligned => /\ UpperHalf(r.vm_addr) = index
                     /\ UpperHalf(r.vm_addr + (IF r.len = 0 THEN 0 ELSE r.len - 1)) = index

replace_region(mm, index, r) ==
    [mm EXCEPT !.regions[index + 1] = r, !.cache = IF mm.aligned THEN @ ELSE EmptyCache]

(* The handler of transaction-context, with direct mapping: a store makes   *)
(* an account's region writable and, where it is too short, as long as the  *)
(* account may get; a load, or an access past the region's space, does not. *)
AccessViolationHandler(r, max_len, store, a, len) ==
    LET requested == a + len - r.vm_addr
    IN  IF ~store \/ r.grows = 0 \/ requested > max_len THEN r
        ELSE [r EXCEPT !.writable = TRUE, !.len = IF requested > @ THEN Least(max_len, r.grows) ELSE @]

(* Which error a failed translation is reported as.                         *)
generate_access_violation(v, max_depth, frame_size, a) ==
    LET frame == Quotient(S(W64, a) - MM_STACK_START, frame_size)
    IN  IF ~manual_stack_frame_bump(v) /\ frame \in -1..max_depth
        THEN "StackAccessViolation" ELSE "AccessViolation"

Mapped(host, mm) == [host |-> host, err |-> "", mm |-> mm]
Denied(err, mm) == [host |-> NoHost, err |-> err, mm |-> mm]

(* map_with_access_violation_handler: a host address or an error, and the   *)
(* mapping afterwards.  Where the region r refuses, grown may not.          *)
MapGrown(f, grown, host, violation) ==
    IF host = NoHost THEN Denied(violation, f.mm)
    ELSE IF ~ReplaceAllowed(f.mm, f.index, grown) THEN Denied("InvalidMemoryRegion", f.mm)
    ELSE Mapped(host, replace_region(f.mm, f.index, grown))
MapIn(f, r, store, a, len, host, violation) ==
    LET grown == AccessViolationHandler(r, NextStart(f.mm, f.index) - r.vm_addr, store, a, len)
    IN  IF host # NoHost THEN Mapped(host, f.mm)
        ELSE MapGrown(f, grown, vm_to_host(grown, store, a, len), violation)
MapFound(f, r, store, a, len, violation) ==
    IF f.index = NotFound THEN Denied(violation, f.mm)
    ELSE MapIn(f, r, store, a, len, vm_to_host(r, store, a, len), violation)
MapThrough(f, store, a, len, violation) == MapFound(f, f.mm.regions[f.index + 1], store, a, len, violation)
map(mm, v, max_depth, frame_size, store, a, len) ==
    MapThrough(find_region(mm, a), store, a, len, generate_access_violation(v, max_depth, frame_size, a))
=============================================================================
