------------------------------- MODULE Heap --------------------------------
(***************************************************************************)
(* c/rt/malloc.c over sys_sbrk of kernel/syscall.inc: a first-fit heap     *)
(* whose free blocks are kept in one list sorted by address.               *)
(*                                                                         *)
(* Memory is modelled in granules of 8 bytes, the unit malloc aligns to: a *)
(* header fills two.  The links of the free list are a sequence of block   *)
(* addresses.  One thread allocates, and only malloc moves the break.      *)
(***************************************************************************)
EXTENDS Integers, Sequences, FiniteSets, FiniteSetsExt, SequencesExt

CONSTANTS Word,              \* 2^32 in the code: sizes are counted modulo it
          WindowBase,        \* PROGRAM_BASE + 0x1000
          WindowEnd,         \* USER_STACK_BASE
          FirstBreak,        \* where the loader put the break
          GROW_MIN,          \* 4096
          Requests,          \* the sizes programs ask for
          Counts,            \* the element counts passed to calloc
          MaxLive            \* bound: allocations alive at a time

ASSUME HeapAssumption ==
  /\ {Word, WindowBase, WindowEnd, FirstBreak, GROW_MIN, MaxLive} \subseteq Nat
  /\ Word % 16 = 0 /\ FirstBreak % 8 = 0
  /\ 0 < WindowBase /\ WindowBase <= FirstBreak
  /\ FirstBreak <= WindowEnd /\ 2 * WindowEnd < Word
  /\ Requests \subseteq 0 .. Word - 1 /\ Counts \subseteq 0 .. Word - 1

VARIABLES
  mem,            \* what each granule of the window holds
  brk,            \* TCB_BRK
  free_list,      \* the addresses of the free blocks, in list order
  live,           \* the program's allocations: pointer -> [size, tag]
  want            \* the allocation in progress

vars == <<mem, brk, free_list, live, want>>

HDR_SIZE == 16
MIN_SPLIT == HDR_SIZE + 8
NULL == 0

Granules == WindowBase \div 8 .. WindowEnd \div 8
Tags == 1 .. MaxLive

\* A granule: the first half of a header, its second half, or a program's data.
Header(size, magic) == [size |-> size, magic |-> magic]
Link == [link |-> TRUE]
Data(tag) == [data |-> tag]
Zero == Data(0)
Junk == Data(MaxLive + 1)
IsHeader(m, g, magic) == "magic" \in DOMAIN m[g] /\ m[g].magic = magic

Idle == [kind |-> "none", size |-> 0, asked |-> 0, ptr |-> NULL]
Wanted(kind, size, asked, ptr) == [kind |-> kind, size |-> size, asked |-> asked, ptr |-> ptr]

Init ==
  /\ mem = [g \in Granules |-> Zero]
  /\ brk = FirstBreak /\ free_list = <<>>
  /\ live = [p \in {} |-> 0] /\ want = Idle

-----------------------------------------------------------------------------
(* The operations on blocks.  h = [mem |-> memory, list |-> free list]; a  *)
(* block is the address of its header.                                     *)

align8(n) == (((n + 7) % Word) \div 8) * 8

SizeIn(m, b) == m[b \div 8].size
SetHeader(m, b, size, magic) ==
  [m EXCEPT ![b \div 8] = Header(size, magic), ![b \div 8 + 1] = Link]
SetMagic(m, b, magic) == SetHeader(m, b, SizeIn(m, b), magic)

\* The granules of n bytes at p.
Payload(p, n) == {g \in Granules : p <= 8 * g /\ 8 * g < p + n}
Filled(m, G, value) == [g \in Granules |-> IF g \in G THEN value ELSE m[g]]

\* The place of b in the list, kept in address order.
PlaceOf(list, b) == 1 + Cardinality({i \in DOMAIN list : list[i] < b})

list_insert(h, b) ==
  [mem |-> SetMagic(h.mem, b, "FREE"), list |-> InsertAt(h.list, PlaceOf(h.list, b), b)]

\* Whether the free block b ends where c begins.
Touches(m, b, c) == b + HDR_SIZE + SizeIn(m, b) = c

\* The i-th block of the list takes in the one after it if they touch.
merge_forward(h, i) ==
  IF i < Len(h.list) /\ Touches(h.mem, h.list[i], h.list[i + 1])
    THEN LET b == h.list[i]
             n == SizeIn(h.mem, b) + HDR_SIZE + SizeIn(h.mem, h.list[i + 1])
         IN  [mem |-> SetHeader(h.mem, b, n, "FREE"), list |-> RemoveAt(h.list, i + 1)]
    ELSE h

\* The block is taken in by the one before it.
merge_back(h, i) ==
  IF i > 1 /\ Touches(h.mem, h.list[i - 1], h.list[i])
    THEN [h |-> merge_forward(h, i - 1), at |-> i - 1]
    ELSE [h |-> h, at |-> i]

\* What lies in a free block is told apart only as zero, a header that says
\* BLK_USED, or anything else.
Forgotten(h, b) ==
  LET old == {g \in Payload(b + HDR_SIZE, SizeIn(h.mem, b)) :
                h.mem[g] # Zero /\ ~IsHeader(h.mem, g, "USED")}
  IN  [h EXCEPT !.mem = Filled(@, old, Junk)]

Release(h, b) ==
  LET put  == list_insert(h, b)
      back == merge_back(put, PlaceOf(h.list, b))
  IN  Forgotten(merge_forward(back.h, back.at), back.h.list[back.at])

\* Where the remainder of a block split at need begins.  Fault: the header of
\* the block itself is forgotten.
RestOf_short(b, need) == b + need
RestOf(b, need) == b + HDR_SIZE + need

\* The i-th free block is handed out for need bytes, split if the tail can hold
\* a block of its own.
Take(h, i, need) ==
  LET b    == h.list[i]
      size == SizeIn(h.mem, b)
      rest == RestOf(b, need)
  IN  IF size >= (need + MIN_SPLIT) % Word
        THEN LET split == SetHeader(SetHeader(h.mem, rest, size - need - HDR_SIZE, "FREE"),
                                    b, need, "USED")
             IN  merge_forward([mem |-> split, list |-> ReplaceAt(h.list, i, rest)], i)
        ELSE [mem |-> SetMagic(h.mem, b, "USED"), list |-> RemoveAt(h.list, i)]

-----------------------------------------------------------------------------
(* malloc, its search loop and the three calls that use it *)

Heap == [mem |-> mem, list |-> free_list]

NeedOf(size) == align8(IF size = 0 THEN 1 ELSE size)

Fits(need) == {i \in DOMAIN free_list : SizeIn(mem, free_list[i]) >= need}

malloc(size) ==
  /\ want = Idle /\ Cardinality(DOMAIN live) < MaxLive
  /\ want' = Wanted("malloc", size, size, NULL)
  /\ UNCHANGED <<mem, brk, free_list, live>>

\* Whether count elements fit a word; calloc returns NULL when not.
ProductFits(count, size) == count # 0 => size <= (Word - 1) \div count

calloc(count, size) ==
  /\ want = Idle /\ Cardinality(DOMAIN live) < MaxLive
  /\ ProductFits(count, size)
  /\ want' = Wanted("calloc", (count * size) % Word, count * size, NULL)
  /\ UNCHANGED <<mem, brk, free_list, live>>

\* sys_sbrk: the increment is added modulo 2^32, so a size above 2^31 lowers the
\* break; new bytes are zeroed.
sbrk(bytes) == (brk + bytes) % Word
\* Fault: the end of the window is passed by a granule.
sbrkOK_late(bytes) == WindowBase <= sbrk(bytes) /\ sbrk(bytes) <= WindowEnd + 8
sbrkOK(bytes) == WindowBase <= sbrk(bytes) /\ sbrk(bytes) <= WindowEnd

GrowBy(need) == align8(Max({(need + HDR_SIZE) % Word, GROW_MIN}))

\* No free block fits: the heap grows and the search starts again.
Grow ==
  LET need  == NeedOf(want.size)
      bytes == GrowBy(need)
      clear == Filled(mem, Payload(brk, sbrk(bytes) - brk), Zero)
      put   == list_insert([mem |-> SetHeader(clear, brk, bytes - HDR_SIZE, "FREE"),
                            list |-> free_list], brk)
  IN
  /\ want # Idle /\ Fits(need) = {} /\ sbrkOK(bytes)
  /\ brk' = sbrk(bytes) /\ mem' = put.mem /\ free_list' = put.list
  /\ UNCHANGED <<live, want>>

\* The window has no room: NULL, and realloc leaves the old block alone.
Refuse ==
  /\ want # Idle /\ Fits(NeedOf(want.size)) = {} /\ ~sbrkOK(GrowBy(NeedOf(want.size)))
  /\ want' = Idle
  /\ UNCHANGED <<mem, brk, free_list, live>>

\* What the program makes of its memory: it fills all it asked for with a tag
\* of its own, but leaves the zeroes of calloc.
FreshTag == Min(Tags \ {live[p].tag : p \in DOMAIN live})
Holding(held, p, size, tag) ==
  [q \in DOMAIN held \cup {p} |-> IF q = p THEN [size |-> size, tag |-> tag] ELSE held[q]]
Without(p) == Restrict(live, DOMAIN live \ {p})

First == Min(Fits(NeedOf(want.size)))
Taken == Take(Heap, First, NeedOf(want.size))
Pointer == free_list[First] + HDR_SIZE

MallocFound ==
  /\ want.kind = "malloc" /\ Fits(NeedOf(want.size)) # {}
  /\ mem' = Filled(Taken.mem, Payload(Pointer, want.size), Data(FreshTag))
  /\ free_list' = Taken.list
  /\ live' = Holding(live, Pointer, want.size, FreshTag)
  /\ want' = Idle /\ UNCHANGED brk

\* The memset of calloc.  Fault: fresh memory is trusted to be zero.
Cleared_trusted(m, p, n) == m
Cleared(m, p, n) == Filled(m, Payload(p, n), Zero)

CallocFound ==
  /\ want.kind = "calloc" /\ Fits(NeedOf(want.size)) # {}
  /\ mem' = Cleared(Taken.mem, Pointer, want.size)
  /\ free_list' = Taken.list
  /\ live' = Holding(live, Pointer, want.asked, 0)
  /\ want' = Idle /\ UNCHANGED brk

\* n bytes from p to q.
Copied(m, q, p, n) ==
  [g \in Granules |-> IF g \in Payload(q, n) THEN m[g - q \div 8 + p \div 8] ELSE m[g]]

\* realloc moves: the new block is taken, the old bytes copied, the old block
\* freed; the program fills what it gained.
ReallocFound ==
  LET old   == want.ptr
      tag   == live[old].tag
      moved == Copied(Taken.mem, Pointer, old, Min({SizeIn(mem, old - HDR_SIZE), want.size}))
      h     == Release([mem |-> moved, list |-> Taken.list], old - HDR_SIZE)
      gain  == Payload(Pointer, want.size) \ Payload(Pointer, live[old].size)
  IN
  /\ want.kind = "realloc" /\ Fits(NeedOf(want.size)) # {}
  /\ mem' = Filled(h.mem, gain, Data(tag)) /\ free_list' = h.list
  /\ live' = Holding(Without(old), Pointer, want.size, tag)
  /\ want' = Idle /\ UNCHANGED brk

\* realloc of a block with room enough.
Roomy(p, size) == SizeIn(mem, p - HDR_SIZE) >= align8(size)

ReallocSame(p, size) ==
  /\ want = Idle /\ size # 0 /\ Roomy(p, size)
  /\ mem' = Filled(mem, Payload(p, size) \ Payload(p, live[p].size), Data(live[p].tag))
  /\ live' = Holding(live, p, size, live[p].tag)
  /\ UNCHANGED <<brk, free_list, want>>

ReallocMove(p, size) ==
  /\ want = Idle /\ size # 0 /\ ~Roomy(p, size)
  /\ want' = Wanted("realloc", size, size, p)
  /\ UNCHANGED <<mem, brk, free_list, live>>

-----------------------------------------------------------------------------
(* free *)

Extent(p) == Payload(p - HDR_SIZE, HDR_SIZE + SizeIn(mem, p - HDR_SIZE))

\* A pointer that is not the program's: freed before, or never one.  Its header
\* lies outside every live block.  realloc answers NULL by the test free makes.
Stray(p) ==
  /\ p - HDR_SIZE \in FirstBreak .. brk - HDR_SIZE
  /\ \A q \in DOMAIN live : (p - HDR_SIZE) \div 8 \notin Extent(q)

free(p) ==
  LET b == p - HDR_SIZE
      h == Release(Heap, b)
  IN
  /\ want = Idle /\ (p \in DOMAIN live \/ Stray(p))
  /\ IF IsHeader(mem, b \div 8, "USED")
       THEN /\ mem' = h.mem /\ free_list' = h.list
            /\ live' = Without(p) /\ UNCHANGED <<brk, want>>
       ELSE UNCHANGED vars

\* realloc(NULL, n) is malloc(n), and realloc(p, 0) is free(p).
Next ==
  \/ \E n \in Requests : malloc(n)
  \/ \E k \in Counts, n \in Requests : calloc(k, n)
  \/ Grow \/ Refuse \/ MallocFound \/ CallocFound \/ ReallocFound
  \/ \E p \in DOMAIN live, n \in Requests : ReallocSame(p, n) \/ ReallocMove(p, n)
  \/ \E g \in Granules : free(8 * g)

Spec == Init /\ [][Next]_vars

-----------------------------------------------------------------------------
(* Properties *)

LiveBlocks == {p - HDR_SIZE : p \in DOMAIN live}
FreeBlocks == Range(free_list)
Blocks == LiveBlocks \cup FreeBlocks
End(b) == b + HDR_SIZE + SizeIn(mem, b)

\* The live and the free blocks tile the heap from the first break to the
\* present one: nothing is lost to malloc's splits and free's merges and nothing
\* is in two blocks.  The free list is in address order, which is what lets free look
\* for a touching neighbour only next to it, and between calls no two free blocks
\* touch, although malloc puts a block fresh from sbrk in the list without merging
\* it: a program that frees everything is left with one block.  The word BLK_USED is
\* left nowhere but in the headers of live blocks, so a pointer freed twice is
\* recognised however its block was merged since.
HeapTiles ==
  /\ LiveBlocks \cap FreeBlocks = {}
  /\ brk # FirstBreak => FirstBreak \in Blocks
  /\ \A b \in Blocks : End(b) = brk \/ End(b) \in Blocks
  /\ \A b, c \in Blocks : b < c => End(b) <= c
  /\ \A i \in 2 .. Len(free_list) :
       /\ free_list[i - 1] < free_list[i]
       /\ want = Idle => ~Touches(mem, free_list[i - 1], free_list[i])
  /\ \A g \in Granules : IsHeader(mem, g, "USED") => 8 * g \in LiveBlocks

\* The block behind a pointer has room for what was asked, and every byte a program
\* wrote, or calloc zeroed, is what it was, across splits, merges and moves of its
\* own and other blocks.
ContentsKept ==
  \A p \in DOMAIN live :
    /\ live[p].size <= SizeIn(mem, p - HDR_SIZE)
    /\ \A g \in Payload(p, live[p].size) : mem[g] = Data(live[p].tag)

\* malloc.c implements the abstract allocator.
Abstract == INSTANCE Allocator WITH
  Window <- FirstBreak .. WindowEnd - 1,
  regions <- [p \in DOMAIN live |-> live[p].size]
AllocatorRefined == Abstract!Spec

=============================================================================
