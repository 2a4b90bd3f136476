-------------------------------- MODULE Heap --------------------------------
(***************************************************************************)
(* The kernel's heap, kmalloc.c: pages divided into slots, a list of pages *)
(* with the newest first, first fit by the size of each page's largest     *)
(* gap, and the number of slots of a block kept ahead of it.               *)
(*                                                                         *)
(* kmalloc runs in four steps (choose a page, find a gap, take it, measure *)
(* the gaps again) and kfree in two. The callers are a process and the     *)
(* interrupt handlers, which allocate events; nothing in the code keeps    *)
(* one out while another is between two steps (Nested).                    *)
(***************************************************************************)
EXTENDS Integers, FiniteSets

CONSTANTS Caller,       \* what may be inside kmalloc or kfree at a time
          Slots,        \* KMALLOC_NUM_SLOTS, 454, less in an instance
          Sizes,        \* the requests, in bytes
          MaxPages,     \* bound: pages that memory_alloc_page has for the heap
          Nested        \* may a call be interrupted by another?

ASSUME HeapAssumption ==
    /\ Slots \in Nat \ {0}
    /\ Sizes \subseteq Nat
    /\ MaxPages \in Nat
    /\ Nested \in BOOLEAN

VARIABLES pages,    \* the number of pages; kmalloc_head is the page of that number
          free,     \* free[p][s]: is slot s of page p free?
          gap,      \* gap[p]: max_free_gap
          header,   \* header[p][s]: the number of slots stored at slot s
          blocks,   \* what callers hold: page, first slot and bytes asked for
          pc,       \* where each caller is
          asked,    \* size
          need,     \* slots_needed
          page,     \* page_info
          start     \* slots_start_index

heapVars == <<pages, free, gap, header, blocks, pc, asked, need, page, start>>

SlotSize == 8   \* KMALLOC_SLOT_SIZE
Header == 2     \* sizeof(uint16_t)

Page == 1 .. MaxPages
Slot == 0 .. Slots - 1
NoGap == -1     \* kmalloc_locate_sufficient_gap found none

Extent(first, n) == first .. first + n - 1

\* kmalloc: integer division, rounded up.
\* Mutant: rounded down.
SlotsTruncated(size) == (size + Header) \div SlotSize

SlotsNeeded(size) ==
    ((size + Header) \div SlotSize)
        + IF (size + Header) % SlotSize # 0 THEN 1 ELSE 0

\* n slots from s on are free in the vector f.
IsGap(f, s, n) ==
    /\ s + n <= Slots
    /\ \A t \in Extent(s, n) : f[t]

\* kmalloc_locate_sufficient_gap: the first of them.
IsFirstGap(f, s, n) ==
    \/ s \in Slot /\ IsGap(f, s, n) /\ \A t \in 0 .. s - 1 : ~IsGap(f, t, n)
    \/ s = NoGap /\ \A t \in Slot : ~IsGap(f, t, n)

\* kmalloc_get_largest_gap_size.
IsLargestGap(f, g) ==
    /\ g = 0 \/ \E s \in Slot : IsGap(f, s, g)
    /\ \A s \in Slot : ~IsGap(f, s, g + 1)

\* The walk from kmalloc_head: the first page whose max_free_gap is enough.
HasRoom(p, n) == gap[p] >= n

IsFirstWithRoom(p, n) ==
    /\ p \in 1 .. pages
    /\ HasRoom(p, n)
    /\ \A q \in p + 1 .. pages : ~HasRoom(q, n)

\* Interrupts would have to be disabled for the whole call.
MayBegin(c) ==
    /\ pc[c] = "out"
    /\ Nested \/ \A d \in Caller : pc[d] = "out"

HeapInit ==
    /\ pages = 0
    /\ free = [p \in Page |-> [s \in Slot |-> TRUE]]
    /\ gap = [p \in Page |-> Slots]
    /\ header = [p \in Page |-> [s \in {NoGap} \cup Slot |-> 0]]
    /\ blocks = {}
    /\ pc = [c \in Caller |-> "out"]
    /\ asked = [c \in Caller |-> 0]
    /\ need = [c \in Caller |-> 0]
    /\ page = [c \in Caller |-> 0]
    /\ start = [c \in Caller |-> 0]
-----------------------------------------------------------------------------
\* The page is in the list.
Choose(c, size, p) ==
    /\ MayBegin(c)
    /\ IsFirstWithRoom(p, SlotsNeeded(size))
    /\ asked' = [asked EXCEPT ![c] = size]
    /\ need' = [need EXCEPT ![c] = SlotsNeeded(size)]
    /\ page' = [page EXCEPT ![c] = p]
    /\ pc' = [pc EXCEPT ![c] = "locate"]
    /\ UNCHANGED <<pages, free, gap, header, blocks, start>>

\* kmalloc_get_page: a new page, all free, becomes the head of the list.
ChooseNew(c, size) ==
    /\ MayBegin(c)
    /\ \A p \in 1 .. pages : ~HasRoom(p, SlotsNeeded(size))
    /\ pages < MaxPages
    /\ pages' = pages + 1
    /\ asked' = [asked EXCEPT ![c] = size]
    /\ need' = [need EXCEPT ![c] = SlotsNeeded(size)]
    /\ page' = [page EXCEPT ![c] = pages + 1]
    /\ pc' = [pc EXCEPT ![c] = "locate"]
    /\ UNCHANGED <<free, gap, header, blocks, start>>

Locate(c) ==
    /\ pc[c] = "locate"
    /\ \E s \in {NoGap} \cup Slot :
         /\ IsFirstGap(free[page[c]], s, need[c])
         /\ start' = [start EXCEPT ![c] = s]
    /\ pc' = [pc EXCEPT ![c] = "take"]
    /\ UNCHANGED <<pages, free, gap, header, blocks, asked, need, page>>

\* The slots of an extent, taken or given back, in a page's free vector.
Marked(f, first, n, value) ==
    [s \in Slot |-> IF s \in Extent(first, n) THEN value ELSE f[s]]

\* The header is written and the slots marked; without a gap, slot -1 on.
Take(c) ==
    /\ pc[c] = "take"
    /\ header' = [header EXCEPT ![page[c]][start[c]] = need[c]]
    /\ free' = [free EXCEPT ![page[c]] = Marked(@, start[c], need[c], FALSE)]
    /\ blocks' = blocks \cup
                   {[page |-> page[c], first |-> start[c], size |-> asked[c]]}
    /\ pc' = [pc EXCEPT ![c] = "measure"]
    /\ UNCHANGED <<pages, gap, asked, need, page, start>>

\* kfree: kfree_mark_free believes the header. Nobody reads it again; the code
\* leaves it, the model clears it.
Release(c, b) ==
    /\ MayBegin(c)
    /\ b \in blocks
    /\ free' = [free EXCEPT ![b.page] =
                  Marked(@, b.first, header[b.page][b.first], TRUE)]
    /\ blocks' = blocks \ {b}
    /\ header' = [header EXCEPT ![b.page][b.first] = 0]
    /\ page' = [page EXCEPT ![c] = b.page]
    /\ pc' = [pc EXCEPT ![c] = "measure"]
    /\ UNCHANGED <<pages, gap, asked, need, start>>

\* Mutant: max_free_gap is left as it was.
MeasureSkipped(c) ==
    /\ pc[c] = "measure"
    /\ pc' = [pc EXCEPT ![c] = "out"]
    /\ UNCHANGED <<pages, free, gap, header, blocks, asked, need, page, start>>

\* The last statement of both; the caller's local variables are gone.
Measure(c) ==
    /\ pc[c] = "measure"
    /\ \E g \in 0 .. Slots :
         /\ IsLargestGap(free[page[c]], g)
         /\ gap' = [gap EXCEPT ![page[c]] = g]
    /\ asked' = [asked EXCEPT ![c] = 0]
    /\ need' = [need EXCEPT ![c] = 0]
    /\ page' = [page EXCEPT ![c] = 0]
    /\ start' = [start EXCEPT ![c] = 0]
    /\ pc' = [pc EXCEPT ![c] = "out"]
    /\ UNCHANGED <<pages, free, header, blocks>>

HeapNext ==
    \E c \in Caller :
        \/ \E size \in Sizes :
              ChooseNew(c, size) \/ \E p \in Page : Choose(c, size, p)
        \/ \E b \in blocks : Release(c, b)
        \/ Locate(c) \/ Take(c) \/ Measure(c)

HeapSpec == HeapInit /\ [][HeapNext]_heapVars
-----------------------------------------------------------------------------
BlockType == [page : Page, first : Slot, size : Sizes]

\* The types of the variables.
HeapTypeOK ==
    /\ pages \in 0 .. MaxPages
    /\ free \in [Page -> [Slot -> BOOLEAN]]
    /\ gap \in [Page -> 0 .. Slots]
    /\ header \in [Page -> [{NoGap} \cup Slot -> Nat]]
    /\ blocks \subseteq BlockType
    /\ pc \in [Caller -> {"out", "locate", "take", "measure"}]
    /\ asked \in [Caller -> {0} \cup Sizes]
    /\ need \in [Caller -> Nat]
    /\ page \in [Caller -> 0 .. MaxPages]
    /\ start \in [Caller -> {NoGap} \cup Slot]

\* The slots that the bytes of a block, and the header ahead of them, lie in.
SlotsOf(b) ==
    {s \in b.first .. b.first + b.size : (s - b.first) * SlotSize < b.size + Header}

\* kmalloc.h of the pointer: "allocated memory that needs to be kfree()'d to be
\* released". Till then the bytes asked for are the caller's alone: no block
\* reaches outside its page's slots and no two share one, whatever was
\* allocated and freed before.
BlocksDisjoint ==
    /\ \A b \in blocks : SlotsOf(b) \subseteq Slot
    /\ \A b, d \in blocks :
         b.page = d.page /\ b # d => SlotsOf(b) \cap SlotsOf(d) = {}

\* Between calls what a page says of itself is true, in its two forms. A slot is
\* taken in the vector when and only when a byte of a block someone holds lies in
\* it, so that when all is freed the page is one gap again; and max_free_gap, by
\* which kmalloc chooses a page without a look at its slots, is the size of the
\* largest gap: if it were larger a block would be put at slot -1, if it were
\* smaller space would never be used again.
PagesTrue ==
    /\ \A p \in Page, s \in Slot :
          ~free[p][s] <=> \E b \in blocks : b.page = p /\ s \in SlotsOf(b)
    /\ (\A c \in Caller : pc[c] = "out") =>
          \A p \in 1 .. pages : IsLargestGap(free[p], gap[p])
=============================================================================
