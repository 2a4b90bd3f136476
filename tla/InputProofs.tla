----------------------------- MODULE InputProofs ----------------------------
(***************************************************************************)
(* What the interrupt handlers hand on, for any number of keys, programs,  *)
(* slots, pages and callers: the heap keeps its blocks apart and its pages *)
(* true (Heap), keys and events come out in the order they went in         *)
(* (Input), and the mouse's pointer leaves the picture as it is (Screen).  *)
(***************************************************************************)
EXTENDS Heap, Input, Screen, SequenceTheorems, TLAPS
-----------------------------------------------------------------------------
(* Heap: as long as no call is interrupted by another and no request needs *)
(* more slots than a page has. Both are needed: see the README for what    *)
(* kmalloc.c does without them.                                            *)

\* Every request fits a page.
Fitting == \A size \in Sizes : SlotsNeeded(size) <= Slots

\* The slots a block occupies.
Occupied(b) == Extent(b.first, SlotsNeeded(b.size))

\* A block's header is the number of its slots, which the page has.
HeadersTrue ==
    \A b \in blocks :
        /\ header[b.page][b.first] = SlotsNeeded(b.size)
        /\ b.first + SlotsNeeded(b.size) <= Slots

\* No two blocks share a slot.
Apart ==
    \A b, d \in blocks :
        b.page = d.page /\ b # d => Occupied(b) \cap Occupied(d) = {}

\* The vector of a page says what its blocks occupy.
VectorTrue ==
    \A p \in Page, s \in Slot :
        ~free[p][s] <=> \E b \in blocks : b.page = p /\ s \in Occupied(b)

\* A page that nobody is about to measure knows its largest gap.
GapsTrue ==
    \A p \in Page :
        (\A c \in Caller : pc[c] = "measure" => page[c] # p)
            => IsLargestGap(free[p], gap[p])

\* A page that is not in the list has no blocks.
Unused == \A b \in blocks : b.page <= pages

\* One call at a time.
Alone == \A c, d \in Caller : pc[c] # "out" /\ pc[d] # "out" => c = d

\* What a call has found out is so until it is over.
Progress ==
    \A c \in Caller :
        /\ pc[c] # "out" => page[c] \in 1 .. pages
        /\ pc[c] \in {"locate", "take"} =>
             /\ asked[c] \in Sizes
             /\ need[c] = SlotsNeeded(asked[c])
        /\ pc[c] = "locate" => \E s \in Slot : IsGap(free[page[c]], s, need[c])
        /\ pc[c] = "take" =>
             /\ start[c] \in Slot
             /\ IsGap(free[page[c]], start[c], need[c])

Inv ==
    /\ HeapTypeOK
    /\ HeadersTrue
    /\ Apart
    /\ VectorTrue
    /\ GapsTrue
    /\ Unused
    /\ Alone
    /\ Progress
-----------------------------------------------------------------------------
\* kmalloc's rounding: at least one slot, and as many as hold the bytes and the
\* header and no more.
LEMMA NeededFacts ==
    ASSUME NEW size \in Nat
    PROVE  /\ SlotsNeeded(size) \in Nat \ {0}
           /\ SlotsNeeded(size) <= size + 1
           /\ (SlotsNeeded(size) - 1) * 8 < size + 2
           /\ size + 2 <= SlotsNeeded(size) * 8
BY DEF SlotsNeeded, SlotSize, Header

\* The slots that the bytes of a block lie in are those it occupies.
LEMMA SlotsOfOccupied ==
    ASSUME NEW b \in BlockType PROVE SlotsOf(b) = Occupied(b)
<1> DEFINE n == SlotsNeeded(b.size)
<1>1. b.first \in Int /\ b.size \in Nat
  <2>1. b.first \in Slot /\ b.size \in Sizes
    BY DEF BlockType
  <2>2. b.first \in Int
    BY <2>1, HeapAssumption DEF Slot
  <2>3. b.size \in Nat
    BY <2>1, HeapAssumption
  <2> QED
    BY <2>2, <2>3
<1>2. /\ n \in Nat \ {0} /\ n <= b.size + 1
      /\ (n - 1) * 8 < b.size + 2 /\ b.size + 2 <= n * 8
  BY <1>1, NeededFacts
<1> HIDE DEF n
<1>3. \A s \in Int : (s - b.first) * 8 < b.size + 2 <=> s - b.first < n
  BY <1>1, <1>2
<1>4. SlotsOf(b) = {s \in b.first .. b.first + b.size : s - b.first < n}
  BY <1>1, <1>3 DEF SlotsOf, SlotSize, Header
<1>5. {s \in b.first .. b.first + b.size : s - b.first < n} = b.first .. b.first + n - 1
  BY <1>1, <1>2
<1> QED
  BY <1>4, <1>5 DEF Occupied, Extent, n

\* A page that is all free is one gap, for every request.
LEMMA AllFree ==
    ASSUME NEW f \in [Slot -> BOOLEAN], \A s \in Slot : f[s]
    PROVE  /\ IsLargestGap(f, Slots)
           /\ \A n \in 0 .. Slots : IsGap(f, 0, n)
<1>1. \A n \in 0 .. Slots : IsGap(f, 0, n)
  BY HeapAssumption DEF IsGap, Extent, Slot
<1>2. 0 \in Slot /\ Slots \in 0 .. Slots
  BY HeapAssumption DEF Slot
<1>3. \A s \in Slot : ~IsGap(f, s, Slots + 1)
  BY HeapAssumption DEF IsGap, Slot
<1> QED
  BY <1>1, <1>2, <1>3 DEF IsLargestGap

\* The page that max_free_gap has promised has the gap.
LEMMA PromisedGap ==
    ASSUME NEW f \in [Slot -> BOOLEAN], NEW g \in 0 .. Slots,
           IsLargestGap(f, g), NEW n \in Nat \ {0}, n <= g
    PROVE  \E s \in Slot : IsGap(f, s, n)
<1>1. PICK s \in Slot : IsGap(f, s, g)
  BY DEF IsLargestGap
<1>2. IsGap(f, s, n)
  BY <1>1, HeapAssumption DEF IsGap, Extent, Slot
<1> QED
  BY <1>2

\* The heap begins empty.
LEMMA InitInv == HeapInit => Inv
<1> SUFFICES ASSUME HeapInit PROVE Inv
  OBVIOUS
<1> USE HeapAssumption DEF HeapInit
<1>1. HeapTypeOK
  BY DEF HeapTypeOK, Slot, NoGap
<1>2. HeadersTrue /\ Apart /\ VectorTrue /\ Unused
  BY DEF HeadersTrue, Apart, VectorTrue, Unused
<1>3. GapsTrue
  BY AllFree DEF GapsTrue
<1>4. Alone /\ Progress
  BY DEF Alone, Progress
<1> QED
  BY <1>1, <1>2, <1>3, <1>4 DEF Inv
-----------------------------------------------------------------------------
\* What no step of another kind changes is all the invariant is about.
LEMMA StutterInv ==
    ASSUME Inv, UNCHANGED heapVars PROVE Inv'
BY DEF Inv, heapVars, HeapTypeOK, HeadersTrue, Apart, VectorTrue, GapsTrue, Unused,
       Alone, Progress, Occupied, IsLargestGap, IsGap

\* A call begins alone.
LEMMA BeginsAlone ==
    ASSUME ~Nested, NEW c \in Caller, MayBegin(c)
    PROVE  \A d \in Caller : pc[d] = "out"
BY DEF MayBegin

\* kmalloc chooses the page with room for the request.
LEMMA ChooseInv ==
    ASSUME ~Nested, Inv, NEW c \in Caller, NEW size \in Sizes, NEW p \in Page,
           Choose(c, size, p)
    PROVE  Inv'
<1> DEFINE n == SlotsNeeded(size)
<1>1. /\ \A d \in Caller : pc[d] = "out"
      /\ p \in 1 .. pages /\ gap[p] >= n
  BY BeginsAlone DEF Choose, IsFirstWithRoom, HasRoom
<1>2. n \in Nat \ {0}
  BY HeapAssumption, NeededFacts
<1>3. HeapTypeOK'
  <2>1. /\ asked' = [asked EXCEPT ![c] = size] /\ need' = [need EXCEPT ![c] = n]
        /\ page' = [page EXCEPT ![c] = p] /\ pc' = [pc EXCEPT ![c] = "locate"]
        /\ UNCHANGED <<free, gap, header, blocks, start>> /\ pages' = pages
    BY DEF Choose
  <2>2. p \in 0 .. MaxPages /\ pages' \in 0 .. MaxPages
    BY <1>1, <2>1, HeapAssumption DEF Inv, HeapTypeOK, Page
  <2> HIDE DEF n
  <2> QED
    BY <1>2, <2>1, <2>2 DEF Inv, HeapTypeOK
<1>4. HeadersTrue' /\ Apart' /\ VectorTrue' /\ Unused'
  BY DEF Inv, Choose, HeadersTrue, Apart, VectorTrue, Unused, Occupied
<1>5. \A q \in Page : IsLargestGap(free[q], gap[q])
  BY <1>1 DEF Inv, GapsTrue
<1>6. GapsTrue'
  BY <1>5 DEF GapsTrue, Choose
<1>7. Alone'
  BY <1>1 DEF Inv, HeapTypeOK, Alone, Choose
<1>8. \E s \in Slot : IsGap(free[p], s, n)
  BY <1>1, <1>2, <1>5, PromisedGap DEF Inv, HeapTypeOK
<1>9. Progress'
  BY <1>1, <1>8 DEF Inv, HeapTypeOK, Progress, Choose
<1> QED
  BY <1>3, <1>4, <1>6, <1>7, <1>9 DEF Inv

\* kmalloc adds a page.
LEMMA ChooseNewInv ==
    ASSUME ~Nested, Fitting, Inv, NEW c \in Caller, NEW size \in Sizes,
           ChooseNew(c, size)
    PROVE  Inv'
<1> DEFINE n == SlotsNeeded(size)
           p == pages + 1
<1>1. /\ \A d \in Caller : pc[d] = "out"
      /\ pages \in Nat /\ p \in Page /\ pages' = p
  BY BeginsAlone, HeapAssumption DEF ChooseNew, Inv, HeapTypeOK, Page
<1>2. n \in Nat \ {0} /\ n <= Slots
  BY HeapAssumption, NeededFacts DEF Fitting
<1>3. HeapTypeOK'
  <2>1. /\ asked' = [asked EXCEPT ![c] = size] /\ need' = [need EXCEPT ![c] = n]
        /\ page' = [page EXCEPT ![c] = p] /\ pc' = [pc EXCEPT ![c] = "locate"]
        /\ UNCHANGED <<free, gap, header, blocks, start>>
    BY DEF ChooseNew
  <2>2. p \in 0 .. MaxPages /\ pages' \in 0 .. MaxPages
    BY <1>1, HeapAssumption DEF Page
  <2> HIDE DEF n, p
  <2> QED
    BY <1>2, <2>1, <2>2 DEF Inv, HeapTypeOK
<1>4. HeadersTrue' /\ Apart' /\ VectorTrue'
  BY DEF Inv, ChooseNew, HeadersTrue, Apart, VectorTrue, Occupied
<1>5. Unused'
  <2>1. \A b \in blocks : b.page \in Page
    BY DEF Inv, HeapTypeOK, BlockType
  <2> QED
    BY <1>1, <2>1 DEF Inv, Unused, ChooseNew, Page
<1>6. GapsTrue'
  BY <1>1 DEF Inv, GapsTrue, ChooseNew
<1>7. Alone'
  BY <1>1 DEF Inv, HeapTypeOK, Alone, ChooseNew
<1>8. IsGap(free[p], 0, n) /\ 0 \in Slot
  <2>1. \A s \in Slot : free[p][s]
    <3>1. \A b \in blocks : b.page # p
      BY <1>1 DEF Inv, Unused
    <3> QED
      BY <1>1, <3>1 DEF Inv, VectorTrue
  <2>2. free[p] \in [Slot -> BOOLEAN]
    BY <1>1 DEF Inv, HeapTypeOK
  <2>3. n \in 0 .. Slots
    BY <1>2, HeapAssumption
  <2>4. IsGap(free[p], 0, n)
    BY <2>1, <2>2, <2>3, AllFree
  <2> QED
    BY <2>4, HeapAssumption DEF Slot
<1>9. Progress'
  <2>1. /\ page' = [page EXCEPT ![c] = p] /\ need' = [need EXCEPT ![c] = n]
        /\ asked' = [asked EXCEPT ![c] = size] /\ pc' = [pc EXCEPT ![c] = "locate"]
        /\ free' = free /\ p \in 1 .. pages'
    BY <1>1 DEF ChooseNew
  <2> HIDE DEF p, n
  <2>2. \A d \in Caller : pc'[d] # "out" => d = c
    BY <1>1, <2>1 DEF Inv, HeapTypeOK
  <2>3. /\ page'[c] = p /\ need'[c] = n /\ asked'[c] = size /\ pc'[c] = "locate"
    BY <2>1 DEF Inv, HeapTypeOK
  <2> QED
    BY <1>8, <2>1, <2>2, <2>3 DEF Progress, n
<1> QED
  BY <1>3, <1>4, <1>5, <1>6, <1>7, <1>9 DEF Inv

\* kmalloc finds the first gap that is long enough.
LEMMA LocateInv ==
    ASSUME Inv, NEW c \in Caller, Locate(c) PROVE Inv'
<1>1. PICK s \in {NoGap} \cup Slot :
        /\ IsFirstGap(free[page[c]], s, need[c])
        /\ start' = [start EXCEPT ![c] = s]
  BY DEF Locate
<1>2. pc[c] = "locate" /\ pc' = [pc EXCEPT ![c] = "take"]
  BY DEF Locate
<1>3. \A d \in Caller : pc[d] # "out" => d = c
  BY <1>2 DEF Inv, Alone
<1>4. s \in Slot /\ IsGap(free[page[c]], s, need[c])
  BY <1>1, <1>2 DEF Inv, Progress, IsFirstGap
<1>5. HeapTypeOK'
  BY <1>1, <1>2 DEF Inv, HeapTypeOK, Locate
<1>6. HeadersTrue' /\ Apart' /\ VectorTrue' /\ Unused'
  BY DEF Inv, Locate, HeadersTrue, Apart, VectorTrue, Unused, Occupied
<1>7. GapsTrue'
  BY <1>2, <1>3 DEF Inv, HeapTypeOK, GapsTrue, Locate
<1>8. Alone'
  BY <1>2, <1>3 DEF Inv, HeapTypeOK, Alone
<1>9. Progress'
  BY <1>1, <1>2, <1>3, <1>4 DEF Inv, HeapTypeOK, Progress, Locate
<1> QED
  BY <1>5, <1>6, <1>7, <1>8, <1>9 DEF Inv
\* The slots from a gap become the new block's: they were nobody's.
LEMMA TakeInv ==
    ASSUME Inv, NEW c \in Caller, Take(c) PROVE Inv'
<1> DEFINE p == page[c]
           s == start[c]
           n == need[c]
           b == [page |-> p, first |-> s, size |-> asked[c]]
<1>1. /\ pc[c] = "take" /\ pc' = [pc EXCEPT ![c] = "measure"]
      /\ header' = [header EXCEPT ![p][s] = n]
      /\ free' = [free EXCEPT ![p] = Marked(@, s, n, FALSE)]
      /\ blocks' = blocks \cup {b}
      /\ UNCHANGED <<pages, gap, asked, need, page, start>>
  BY DEF Take
<1>2. \A d \in Caller : pc[d] # "out" => d = c
  BY <1>1 DEF Inv, Alone
<1>3. /\ p \in 1 .. pages /\ p \in Page
      /\ asked[c] \in Sizes /\ n = SlotsNeeded(asked[c])
      /\ s \in Slot /\ IsGap(free[p], s, n)
  <2>1. pages \in 0 .. MaxPages
    BY DEF Inv, HeapTypeOK
  <2>2. p \in 1 .. pages
    BY <1>1 DEF Inv, Progress
  <2>3. p \in Page
    BY <2>1, <2>2, HeapAssumption DEF Page
  <2> QED
    BY <1>1, <2>2, <2>3 DEF Inv, Progress
<1>4. n \in Nat \ {0} /\ s \in Nat
  <2>1. asked[c] \in Nat
    BY <1>3, HeapAssumption
  <2>2. SlotsNeeded(asked[c]) \in Nat \ {0}
    BY <2>1, NeededFacts
  <2>3. s \in Nat
    BY <1>3, HeapAssumption DEF Slot
  <2> QED
    BY <1>3, <2>2, <2>3
<1>5. b \in BlockType /\ Occupied(b) = Extent(s, n)
  BY <1>3 DEF BlockType, Occupied
<1>6. Extent(s, n) \subseteq Slot /\ s \in Extent(s, n) /\ s + n <= Slots
  BY <1>3, <1>4, HeapAssumption DEF IsGap, Extent, Slot
<1>7. \A t \in Extent(s, n) : free[p][t]
  BY <1>3 DEF IsGap
<1>8. \A d \in blocks : d.page = p => Occupied(d) \cap Occupied(b) = {}
  BY <1>3, <1>5, <1>6, <1>7 DEF Inv, VectorTrue
<1>9. \A d \in blocks : d \in BlockType
  BY DEF Inv, HeapTypeOK
<1>10. \A d \in blocks : d.page = p => d.first # s
  <2> SUFFICES ASSUME NEW d \in blocks, d.page = p, d.first = s PROVE FALSE
    OBVIOUS
  <2>1. SlotsNeeded(d.size) \in Nat \ {0}
    BY <1>9, HeapAssumption, NeededFacts DEF BlockType
  <2>2. s \in Occupied(d)
    BY <1>4, <2>1 DEF Occupied, Extent
  <2> QED
    BY <1>5, <1>6, <1>8, <2>2
<1> HIDE DEF p, s, n, b
<1>11. /\ header' \in [Page -> [{NoGap} \cup Slot -> Nat]]
       /\ header'[p][s] = n
       /\ \A q \in Page, t \in Slot : <<q, t>> # <<p, s>> => header'[q][t] = header[q][t]
  BY <1>1, <1>3, <1>4 DEF Inv, HeapTypeOK
<1>12. /\ free' \in [Page -> [Slot -> BOOLEAN]]
       /\ \A q \in Page : q # p => free'[q] = free[q]
       /\ \A t \in Slot : free'[p][t] <=> free[p][t] /\ t \notin Extent(s, n)
  BY <1>1, <1>3 DEF Inv, HeapTypeOK, Marked
<1>13. HeapTypeOK'
  BY <1>1, <1>5, <1>11, <1>12 DEF Inv, HeapTypeOK
<1>14. b.page = p /\ b.first = s /\ SlotsNeeded(b.size) = n
  BY <1>3 DEF b
<1>15. HeadersTrue'
  <2> SUFFICES ASSUME NEW d \in blocks'
               PROVE  /\ header'[d.page][d.first] = SlotsNeeded(d.size)
                      /\ d.first + SlotsNeeded(d.size) <= Slots
    BY DEF HeadersTrue
  <2>1. CASE d = b
    BY <1>6, <1>11, <1>14, <2>1
  <2>2. CASE d \in blocks
    <3>1. d.page \in Page /\ d.first \in Slot
      BY <1>9, <2>2 DEF BlockType
    <3>2. header'[d.page][d.first] = header[d.page][d.first]
      BY <1>10, <1>11, <2>2, <3>1
    <3> QED
      BY <2>2, <3>2 DEF Inv, HeadersTrue
  <2> QED
    BY <1>1, <2>1, <2>2
<1>16. Apart'
  BY <1>1, <1>8, <1>14 DEF Inv, Apart, Occupied
<1>17. VectorTrue'
  <2> SUFFICES ASSUME NEW q \in Page, NEW t \in Slot
               PROVE  ~free'[q][t] <=> \E d \in blocks' : d.page = q /\ t \in Occupied(d)
    BY DEF VectorTrue, Occupied
  <2>1. ~free[q][t] <=> \E d \in blocks : d.page = q /\ t \in Occupied(d)
    BY DEF Inv, VectorTrue
  <2>2. CASE q # p
    BY <1>1, <1>12, <1>14, <2>1, <2>2
  <2>3. CASE q = p
    <3>1. ~free'[q][t] <=> ~free[q][t] \/ t \in Occupied(b)
      BY <1>5, <1>12, <2>3
    <3> QED
      BY <1>1, <1>14, <2>1, <2>3, <3>1
  <2> QED
    BY <2>2, <2>3
<1>18. GapsTrue'
  <2> SUFFICES ASSUME NEW q \in Page,
                      \A d \in Caller : pc'[d] = "measure" => page'[d] # q
               PROVE  IsLargestGap(free'[q], gap'[q])
    BY DEF GapsTrue, IsLargestGap, IsGap
  <2>1. q # p
    BY <1>1 DEF Inv, HeapTypeOK, p
  <2>2. \A d \in Caller : pc[d] = "measure" => page[d] # q
    BY <1>1, <1>2
  <2> QED
    BY <1>1, <1>12, <2>1, <2>2 DEF Inv, GapsTrue
<1>19. Unused'
  BY <1>1, <1>3, <1>14 DEF Inv, Unused
<1>20. Alone' /\ Progress'
  BY <1>1, <1>2, <1>3 DEF Inv, HeapTypeOK, Alone, Progress, p
<1> QED
  BY <1>13, <1>15, <1>16, <1>17, <1>18, <1>19, <1>20 DEF Inv
\* The slots that the header counts were the block's and no one else's.
LEMMA ReleaseInv ==
    ASSUME ~Nested, Inv, NEW c \in Caller, NEW b \in blocks, Release(c, b)
    PROVE  Inv'
<1> DEFINE p == b.page
           n == SlotsNeeded(b.size)
<1>1. /\ \A d \in Caller : pc[d] = "out"
      /\ header' = [header EXCEPT ![p][b.first] = 0]
      /\ blocks' = blocks \ {b}
      /\ page' = [page EXCEPT ![c] = p] /\ pc' = [pc EXCEPT ![c] = "measure"]
      /\ UNCHANGED <<pages, gap, asked, need, start>>
  BY BeginsAlone DEF Release
<1>2. p \in Page /\ b.first \in Slot /\ b.size \in Sizes
  BY DEF Inv, HeapTypeOK, BlockType
<1>3. free' = [free EXCEPT ![p] = Marked(@, b.first, n, TRUE)]
  BY DEF Release, Inv, HeadersTrue
<1>4. Occupied(b) = Extent(b.first, n) /\ b.first \in Occupied(b)
  <2>1. b.size \in Nat /\ b.first \in Int
    <3>1. b.size \in Nat
      BY <1>2, HeapAssumption
    <3> QED
      BY <1>2, <3>1, HeapAssumption DEF Slot
  <2>2. n \in Nat \ {0}
    BY <2>1, NeededFacts
  <2> QED
    BY <2>1, <2>2 DEF Occupied, Extent
<1>5. \A d \in blocks : d \in BlockType
  BY DEF Inv, HeapTypeOK
<1>6. \A d \in blocks : d.page = p /\ d # b => Occupied(d) \cap Occupied(b) = {}
  BY DEF Inv, Apart
<1>7. \A d \in blocks : d.page = p /\ d # b => d.first # b.first
  <2> SUFFICES ASSUME NEW d \in blocks, d.page = p, d # b, d.first = b.first PROVE FALSE
    OBVIOUS
  <2>1. d.size \in Nat /\ d.first \in Int
    <3>1. d.size \in Sizes /\ d.first \in Slot
      BY <1>5 DEF BlockType
    <3>2. d.size \in Nat
      BY <3>1, HeapAssumption
    <3> QED
      BY <3>1, <3>2, HeapAssumption DEF Slot
  <2>2. SlotsNeeded(d.size) \in Nat \ {0}
    BY <2>1, NeededFacts
  <2>3. d.first \in Occupied(d)
    BY <2>1, <2>2 DEF Occupied, Extent
  <2> QED
    BY <1>4, <1>6, <2>3
<1> HIDE DEF p, n
<1>8. /\ header' \in [Page -> [{NoGap} \cup Slot -> Nat]]
      /\ \A q \in Page, t \in Slot :
           <<q, t>> # <<p, b.first>> => header'[q][t] = header[q][t]
  <2>1. header \in [Page -> [{NoGap} \cup Slot -> Nat]]
    BY DEF Inv, HeapTypeOK
  <2>2. header' \in [Page -> [{NoGap} \cup Slot -> Nat]]
    BY <1>1, <1>2, <2>1
  <2>3. \A q \in Page, t \in Slot :
          q # p \/ t # b.first => header'[q][t] = header[q][t]
    BY <1>1, <1>2, <2>1
  <2> QED
    BY <2>2, <2>3
<1>9. /\ free' \in [Page -> [Slot -> BOOLEAN]]
      /\ \A q \in Page : q # p => free'[q] = free[q]
      /\ \A t \in Slot : free'[p][t] <=> free[p][t] \/ t \in Occupied(b)
  BY <1>2, <1>3, <1>4 DEF Inv, HeapTypeOK, Marked, p
<1>10. HeapTypeOK'
  <2>1. p \in 0 .. MaxPages
    BY <1>2, HeapAssumption DEF p, Page
  <2> QED
    BY <1>1, <1>8, <1>9, <2>1 DEF Inv, HeapTypeOK
<1>11. HeadersTrue'
  <2> SUFFICES ASSUME NEW d \in blocks, d # b
               PROVE  /\ header'[d.page][d.first] = SlotsNeeded(d.size)
                      /\ d.first + SlotsNeeded(d.size) <= Slots
    BY <1>1 DEF HeadersTrue
  <2>1. d.page \in Page /\ d.first \in Slot
    BY <1>5 DEF BlockType
  <2>2. header'[d.page][d.first] = header[d.page][d.first]
    BY <1>7, <1>8, <2>1
  <2> QED
    BY <2>2 DEF Inv, HeadersTrue
<1>12. Apart' /\ Unused'
  BY <1>1 DEF Inv, Apart, Unused, Occupied
<1>13. VectorTrue'
  <2> SUFFICES ASSUME NEW q \in Page, NEW t \in Slot
               PROVE  ~free'[q][t] <=> \E d \in blocks' : d.page = q /\ t \in Occupied(d)
    BY DEF VectorTrue, Occupied
  <2>1. ~free[q][t] <=> \E d \in blocks : d.page = q /\ t \in Occupied(d)
    BY DEF Inv, VectorTrue
  <2>2. CASE q # p
    BY <1>1, <1>9, <2>1, <2>2 DEF p
  <2>3. CASE q = p
    <3>1. ~free'[q][t] <=> ~free[q][t] /\ t \notin Occupied(b)
      BY <1>9, <2>3
    <3> QED
      BY <1>1, <1>6, <2>1, <2>3, <3>1
  <2> QED
    BY <2>2, <2>3
<1>14. GapsTrue'
  <2> SUFFICES ASSUME NEW q \in Page,
                      \A d \in Caller : pc'[d] = "measure" => page'[d] # q
               PROVE  IsLargestGap(free'[q], gap'[q])
    BY DEF GapsTrue, IsLargestGap, IsGap
  <2>1. q # p
    BY <1>1 DEF Inv, HeapTypeOK
  <2> QED
    BY <1>1, <1>9, <2>1 DEF Inv, GapsTrue
<1>15. Alone'
  BY <1>1 DEF Inv, HeapTypeOK, Alone
<1>16. Progress'
  <2>1. p \in 1 .. pages
    BY <1>2, HeapAssumption DEF Inv, Unused, HeapTypeOK, Page, p
  <2>2. \A d \in Caller : pc'[d] # "out" => d = c
    BY <1>1 DEF Inv, HeapTypeOK
  <2>3. pc'[c] = "measure" /\ page'[c] = p
    BY <1>1 DEF Inv, HeapTypeOK
  <2> QED
    BY <1>1, <2>1, <2>2, <2>3 DEF Progress
<1> QED
  BY <1>10, <1>11, <1>12, <1>13, <1>14, <1>15, <1>16 DEF Inv

\* The page that was changed is measured before anyone else looks at it.
LEMMA MeasureInv ==
    ASSUME Inv, NEW c \in Caller, Measure(c) PROVE Inv'
<1>1. PICK g \in 0 .. Slots :
        IsLargestGap(free[page[c]], g) /\ gap' = [gap EXCEPT ![page[c]] = g]
  BY DEF Measure
<1>2. /\ pc[c] = "measure" /\ pc' = [pc EXCEPT ![c] = "out"]
      /\ asked' = [asked EXCEPT ![c] = 0] /\ need' = [need EXCEPT ![c] = 0]
      /\ page' = [page EXCEPT ![c] = 0] /\ start' = [start EXCEPT ![c] = 0]
      /\ UNCHANGED <<pages, free, header, blocks>>
  BY DEF Measure
<1>3. \A d \in Caller : pc[d] # "out" => d = c
  BY <1>2 DEF Inv, Alone
<1>4. HeapTypeOK'
  <2>1. 0 \in Slot /\ 0 \in 0 .. MaxPages
    BY HeapAssumption DEF Slot
  <2> QED
    BY <1>1, <1>2, <2>1 DEF Inv, HeapTypeOK
<1>5. HeadersTrue' /\ Apart' /\ VectorTrue' /\ Unused'
  BY <1>2 DEF Inv, HeadersTrue, Apart, VectorTrue, Unused, Occupied
<1>6. GapsTrue'
  <2> SUFFICES ASSUME NEW q \in Page PROVE IsLargestGap(free[q], gap'[q])
    BY <1>2 DEF GapsTrue, IsLargestGap, IsGap
  <2>1. CASE q = page[c]
    BY <1>1, <2>1 DEF Inv, HeapTypeOK
  <2>2. CASE q # page[c]
    <3>1. \A d \in Caller : pc[d] = "measure" => page[d] # q
      BY <1>3, <2>2
    <3> QED
      BY <1>1, <2>2, <3>1 DEF Inv, HeapTypeOK, GapsTrue
  <2> QED
    BY <2>1, <2>2
<1>7. Alone' /\ Progress'
  BY <1>2, <1>3 DEF Inv, HeapTypeOK, Alone, Progress
<1> QED
  BY <1>4, <1>5, <1>6, <1>7 DEF Inv

\* Every step keeps the invariant.
LEMMA NextInv ==
    ~Nested /\ Fitting /\ Inv /\ [HeapNext]_heapVars => Inv'
<1> SUFFICES ASSUME ~Nested, Fitting, Inv, [HeapNext]_heapVars PROVE Inv'
  OBVIOUS
<1>1. CASE UNCHANGED heapVars
  BY <1>1, StutterInv
<1>2. ASSUME NEW c \in Caller, NEW size \in Sizes, ChooseNew(c, size) PROVE Inv'
  BY <1>2, ChooseNewInv
<1>3. ASSUME NEW c \in Caller, NEW size \in Sizes, NEW p \in Page, Choose(c, size, p)
      PROVE  Inv'
  BY <1>3, ChooseInv
<1>4. ASSUME NEW c \in Caller, NEW b \in blocks, Release(c, b) PROVE Inv'
  BY <1>4, ReleaseInv
<1>5. ASSUME NEW c \in Caller, Locate(c) PROVE Inv'
  BY <1>5, LocateInv
<1>6. ASSUME NEW c \in Caller, Take(c) PROVE Inv'
  BY <1>6, TakeInv
<1>7. ASSUME NEW c \in Caller, Measure(c) PROVE Inv'
  BY <1>7, MeasureInv
<1> QED
  BY <1>1, <1>2, <1>3, <1>4, <1>5, <1>6, <1>7 DEF HeapNext

\* Inv is invariant.
THEOREM HeapInvariant ==
    ASSUME ~Nested, Fitting PROVE HeapSpec => []Inv
<1>1. HeapInit => Inv
  BY InitInv
<1>2. ~Nested /\ Fitting /\ Inv /\ [HeapNext]_heapVars => Inv'
  BY NextInv
<1> QED
  BY <1>1, <1>2, PTL DEF HeapSpec

\* kmalloc.h's "allocated memory": whatever was allocated and freed before, no two
\* blocks that callers hold share a byte and none reaches out of its page.
THEOREM HeapBlocksDisjoint ==
    ASSUME ~Nested, Fitting PROVE HeapSpec => []BlocksDisjoint
<1>1. Inv => BlocksDisjoint
  <2> SUFFICES ASSUME Inv PROVE BlocksDisjoint
    OBVIOUS
  <2>1. \A b \in blocks : b \in BlockType /\ SlotsOf(b) = Occupied(b)
    BY SlotsOfOccupied DEF Inv, HeapTypeOK
  <2>2. \A b \in blocks : SlotsOf(b) \subseteq Slot
    <3> SUFFICES ASSUME NEW b \in blocks PROVE Occupied(b) \subseteq Slot
      BY <2>1
    <3>1. b.first \in Slot /\ b.size \in Sizes /\ b.first + SlotsNeeded(b.size) <= Slots
      BY <2>1 DEF Inv, HeadersTrue, BlockType
    <3>2. b.size \in Nat
      BY <3>1, HeapAssumption
    <3>3. SlotsNeeded(b.size) \in Nat
      BY <3>2, NeededFacts
    <3> QED
      BY <3>1, <3>3, HeapAssumption DEF Occupied, Extent, Slot
  <2> QED
    BY <2>1, <2>2 DEF Inv, Apart, BlocksDisjoint
<1> QED
  BY <1>1, HeapInvariant, PTL

\* A slot is taken when and only when a byte of a block lies in it, and between
\* calls max_free_gap is the size of the largest gap.
THEOREM HeapPagesTrue ==
    ASSUME ~Nested, Fitting PROVE HeapSpec => []PagesTrue
<1>1. Inv => PagesTrue
  <2> SUFFICES ASSUME Inv PROVE PagesTrue
    OBVIOUS
  <2>1. \A b \in blocks : SlotsOf(b) = Occupied(b)
    BY SlotsOfOccupied DEF Inv, HeapTypeOK
  <2>2. \A p \in Page, s \in Slot :
          ~free[p][s] <=> \E b \in blocks : b.page = p /\ s \in SlotsOf(b)
    BY <2>1 DEF Inv, VectorTrue
  <2>3. \A p \in 1 .. pages : p \in Page
    BY HeapAssumption DEF Inv, HeapTypeOK, Page
  <2> QED
    BY <2>2, <2>3 DEF Inv, GapsTrue, PagesTrue
<1> QED
  BY <1>1, HeapInvariant, PTL

\* The variables keep their types: no block is ever put at slot -1.
THEOREM HeapTypes ==
    ASSUME ~Nested, Fitting PROVE HeapSpec => []HeapTypeOK
<1>1. Inv => HeapTypeOK
  BY DEF Inv
<1> QED
  BY <1>1, HeapInvariant, PTL
-----------------------------------------------------------------------------
(* Input: the numbers of the characters grow from the start of the line to *)
(* the end of the buffer, those of the events from a program's last event  *)
(* to the head of its queue, and none is beyond the last that was typed.   *)

InputTypes ==
    /\ typed \in Nat
    /\ buffer \in [0 .. Size - 1 -> [n : Nat, ends : BOOLEAN]]
    /\ buffer_read \in 0 .. Size - 1 /\ buffer_write \in 0 .. Size - 1
    /\ str_buffer \in Seq(Nat)
    /\ active_window \in Program \cup {None}
    /\ event_queue \in [Program -> Seq(Nat)]
    /\ seen \in [Program -> Nat]

\* How far write is ahead of read, and where the i-th place from read is.
Ahead(read, write) == (write + Size - read) % Size
PlaceOf(read, i) == (read + i - 1) % Size

\* The i-th character that is waiting.
Char(i) == buffer[PlaceOf(buffer_read, i)].n

\* The line, then the buffer, in the order typed.
KeysOrdered ==
    /\ \A i, j \in 1 .. Len(str_buffer) : i < j => str_buffer[i] < str_buffer[j]
    /\ \A i \in 1 .. Len(str_buffer) : str_buffer[i] <= typed
    /\ \A i, j \in 1 .. Unread : i < j => Char(i) < Char(j)
    /\ \A i \in 1 .. Unread : Char(i) <= typed
    /\ \A i \in 1 .. Len(str_buffer), j \in 1 .. Unread : str_buffer[i] < Char(j)

\* A program's queue, newest first, behind the last event it was given.
EventsOrdered ==
    \A p \in Program :
        /\ seen[p] <= typed
        /\ \A i, j \in 1 .. Len(event_queue[p]) : i < j => event_queue[p][i] > event_queue[p][j]
        /\ \A i \in 1 .. Len(event_queue[p]) :
              event_queue[p][i] > seen[p] /\ event_queue[p][i] <= typed

InputInv == InputTypes /\ KeysOrdered /\ EventsOrdered
-----------------------------------------------------------------------------
(* The ring. *)

\* The ring has a size.
LEMMA BufferSize == Size \in Nat \ {0}
BY InputAssumption DEF Size

\* A residue of less than two rounds.
LEMMA Residue ==
    ASSUME NEW s \in Nat \ {0}, NEW a \in 0 .. 2 * s - 1
    PROVE  a % s = IF a < s THEN a ELSE a - s
BY SMTT(30)

\* The ring's distances and places, without the modulus.
LEMMA RingFacts ==
    ASSUME NEW r \in 0 .. Size - 1, NEW w \in 0 .. Size - 1
    PROVE  /\ Ahead(r, w) = IF w >= r THEN w - r ELSE w + Size - r
           /\ \A i \in 1 .. Size :
                PlaceOf(r, i) = IF r + i - 1 < Size THEN r + i - 1 ELSE r + i - 1 - Size
           /\ (w + 1) % Size = IF w + 1 < Size THEN w + 1 ELSE 0
<1> PICK s \in Nat \ {0} : s = Size
  BY BufferSize
<1>1. \A a \in 0 .. 2 * s - 1 : a % s = IF a < s THEN a ELSE a - s
  BY Residue
<1>2. /\ w + s - r \in 0 .. 2 * s - 1 /\ w + 1 \in 0 .. 2 * s - 1
      /\ \A i \in 1 .. s : r + i - 1 \in 0 .. 2 * s - 1
  OBVIOUS
<1>3. (w + s - r) % s = IF w + s - r < s THEN w + s - r ELSE w + s - r - s
  BY <1>1, <1>2
<1>4. (w + 1) % s = IF w + 1 < s THEN w + 1 ELSE w + 1 - s
  BY <1>1, <1>2
<1>5. \A i \in 1 .. s : (r + i - 1) % s = IF r + i - 1 < s THEN r + i - 1 ELSE r + i - 1 - s
  BY <1>1, <1>2
<1> QED
  BY <1>3, <1>4, <1>5 DEF Ahead, PlaceOf

\* A character more at the end, unless it was the last free place: then none is left.
LEMMA PushFacts ==
    ASSUME NEW r \in 0 .. Size - 1, NEW w \in 0 .. Size - 1, NEW n, n = Ahead(r, w)
    PROVE  /\ n \in 0 .. Size - 1
           /\ (w + 1) % Size \in 0 .. Size - 1
           /\ n = Size - 1 => Ahead(r, (w + 1) % Size) = 0
           /\ n # Size - 1 => Ahead(r, (w + 1) % Size) = n + 1
           /\ PlaceOf(r, n + 1) = w
           /\ \A i \in 1 .. n : PlaceOf(r, i) \in 0 .. Size - 1 /\ PlaceOf(r, i) # w
<1> PICK s \in Nat \ {0} : s = Size
  BY BufferSize
<1> PICK v \in 0 .. s - 1 : v = (w + 1) % Size /\ v = IF w + 1 < s THEN w + 1 ELSE 0
  BY RingFacts
<1>1. Ahead(r, v) = IF v >= r THEN v - r ELSE v + s - r
  BY RingFacts
<1>2. Ahead(r, w) = IF w >= r THEN w - r ELSE w + s - r
  BY RingFacts
<1>3. \A i \in 1 .. s : PlaceOf(r, i) = IF r + i - 1 < s THEN r + i - 1 ELSE r + i - 1 - s
  BY RingFacts
<1>3a. (IF w >= r THEN w - r ELSE w + s - r) \in 0 .. s - 1
  OBVIOUS
<1>3b. n \in 0 .. s - 1 /\ n = IF w >= r THEN w - r ELSE w + s - r
  BY <1>2, <1>3a
<1>4. PlaceOf(r, n + 1) = w
  BY <1>3, <1>3b
<1>5. \A i \in 1 .. n : PlaceOf(r, i) \in 0 .. s - 1 /\ PlaceOf(r, i) # w
  BY <1>3, <1>3b
<1>6. /\ n = s - 1 => Ahead(r, v) = 0
      /\ n # s - 1 => Ahead(r, v) = n + 1
  BY <1>1, <1>3b
<1> QED
  BY <1>3b, <1>4, <1>5, <1>6

\* The first character gone.
LEMMA PopFacts ==
    ASSUME NEW r \in 0 .. Size - 1, NEW w \in 0 .. Size - 1, r # w
    PROVE  LET v == (r + 1) % Size IN
           /\ v \in 0 .. Size - 1
           /\ Ahead(r, w) \in 1 .. Size - 1
           /\ Ahead(v, w) = Ahead(r, w) - 1
           /\ PlaceOf(r, 1) = r
           /\ \A i \in 1 .. Ahead(r, w) - 1 : PlaceOf(v, i) = PlaceOf(r, i + 1)
<1> PICK s \in Nat \ {0} : s = Size
  BY BufferSize
<1> PICK v \in 0 .. s - 1 : v = (r + 1) % Size /\ v = IF r + 1 < s THEN r + 1 ELSE 0
  BY RingFacts
<1>1. Ahead(v, w) = IF w >= v THEN w - v ELSE w + s - v
  BY RingFacts
<1>1a. (IF w >= r THEN w - r ELSE w + s - r) \in 0 .. s - 1
  OBVIOUS
<1>2. Ahead(r, w) = IF w >= r THEN w - r ELSE w + s - r
  BY RingFacts
<1> PICK n \in 0 .. s - 1 : n = Ahead(r, w) /\ n = IF w >= r THEN w - r ELSE w + s - r
  BY <1>1a, <1>2
<1>3. \A i \in 1 .. s : PlaceOf(r, i) = IF r + i - 1 < s THEN r + i - 1 ELSE r + i - 1 - s
  BY RingFacts
<1>4. \A i \in 1 .. s : PlaceOf(v, i) = IF v + i - 1 < s THEN v + i - 1 ELSE v + i - 1 - s
  BY RingFacts
<1>5. n \in 1 .. s - 1 /\ Ahead(v, w) = n - 1
  BY <1>1
<1>6. PlaceOf(r, 1) = r
  BY <1>3
<1>7. \A i \in 1 .. n - 1 : PlaceOf(v, i) = PlaceOf(r, i + 1)
  <2> SUFFICES ASSUME NEW i \in 1 .. n - 1 PROVE PlaceOf(v, i) = PlaceOf(r, i + 1)
    OBVIOUS
  <2>1. i \in 1 .. s /\ i + 1 \in 1 .. s
    OBVIOUS
  <2>2. PlaceOf(r, i + 1) = IF r + (i + 1) - 1 < s THEN r + (i + 1) - 1 ELSE r + (i + 1) - 1 - s
    BY <1>3, <2>1
  <2>3. PlaceOf(v, i) = IF v + i - 1 < s THEN v + i - 1 ELSE v + i - 1 - s
    BY <1>4, <2>1
  <2> QED
    BY <2>2, <2>3
<1> QED
  BY <1>5, <1>6, <1>7
-----------------------------------------------------------------------------
(* The steps. *)

\* What is unread lies ahead of the read index.
LEMMA UnreadAhead == Unread = Ahead(buffer_read, buffer_write)
BY DEF Unread, Ahead

\* keyboard_interrupt adds its character at the end; with the write index at the end
\* and the read index at 0 it empties the buffer, and when the buffer is full it does
\* nothing.
LEMMA BufferFacts ==
    ASSUME InputTypes, NEW k \in [n : Nat, ends : BOOLEAN], Buffer(k), NEW n, n = Unread
    PROVE  /\ buffer' \in [0 .. Size - 1 -> [n : Nat, ends : BOOLEAN]]
           /\ buffer_write' \in 0 .. Size - 1
           /\ buffer_read' = buffer_read /\ str_buffer' = str_buffer
           /\ n \in 0 .. Size - 1
           /\ \/ Unread' = n /\ \A i \in 1 .. n : Char(i)' = Char(i)
              \/ Unread' = 0
              \/ /\ Unread' = n + 1 /\ Char(n + 1)' = k.n
                 /\ \A i \in 1 .. n : Char(i)' = Char(i)
           /\ n < Size - 1 =>
                 /\ Unread' = n + 1 /\ Char(n + 1)' = k.n
                 /\ \A i \in 1 .. n : Char(i)' = Char(i)
<1> PICK r \in 0 .. Size - 1, w \in 0 .. Size - 1 : r = buffer_read /\ w = buffer_write
  BY DEF InputTypes
<1>0. n = Ahead(r, w)
  BY UnreadAhead
<1>1. /\ n \in 0 .. Size - 1 /\ (w + 1) % Size \in 0 .. Size - 1
      /\ n = Size - 1 => Ahead(r, (w + 1) % Size) = 0
      /\ n # Size - 1 => Ahead(r, (w + 1) % Size) = n + 1
      /\ PlaceOf(r, n + 1) = w
      /\ \A i \in 1 .. n : PlaceOf(r, i) \in 0 .. Size - 1 /\ PlaceOf(r, i) # w
  <2>1. n \in 0 .. Size - 1 /\ (w + 1) % Size \in 0 .. Size - 1
    BY <1>0, PushFacts
  <2>2. n = Size - 1 => Ahead(r, (w + 1) % Size) = 0
    <3> SUFFICES ASSUME n = Size - 1 PROVE Ahead(r, (w + 1) % Size) = 0
      OBVIOUS
    <3>1. Size - 1 = Ahead(r, w)
      BY <1>0
    <3> QED
      BY <3>1, <1>0, PushFacts, Zenon
  <2>3. n # Size - 1 => Ahead(r, (w + 1) % Size) = n + 1
    BY <1>0, PushFacts
  <2>4. PlaceOf(r, n + 1) = w
    BY <1>0, PushFacts
  <2>5. \A i \in 1 .. n : PlaceOf(r, i) \in 0 .. Size - 1 /\ PlaceOf(r, i) # w
    BY <1>0, PushFacts
  <2> QED
    BY <2>1, <2>2, <2>3, <2>4, <2>5
<1>2. CASE IsFull(w, r)
  <2>1. UNCHANGED <<buffer, buffer_read, buffer_write, str_buffer>>
    BY <1>2 DEF Buffer, ring, line
  <2>2. Unread' = n /\ \A i \in 1 .. n : Char(i)' = Char(i)
    BY <2>1 DEF Unread, Char
  <2>3. ~(n < Size - 1)
    <3>1. r = w + 1
      <4> PICK s \in Nat \ {0} : s = Size
        BY BufferSize
      <4>0. r \in 0 .. 2 * s - 1 /\ r < s
        BY BufferSize
      <4>1. r % s = r
        BY <4>0, Residue
      <4> QED
        BY <1>2, <4>1 DEF IsFull
    <3>2. n = IF w >= r THEN w - r ELSE w + Size - r
      BY <1>0, RingFacts
    <3> QED
      BY <1>0, <3>1, <3>2, BufferSize
  <2> QED
    BY <1>1, <2>1, <2>2, <2>3 DEF InputTypes
<1>3. CASE ~IsFull(w, r)
  <2>1. /\ buffer' = [buffer EXCEPT ![w] = k] /\ buffer_write' = (w + 1) % Size
        /\ buffer_read' = r /\ str_buffer' = str_buffer
    BY <1>3 DEF Buffer
  <2>2. Unread' = Ahead(r, (w + 1) % Size)
    BY <2>1 DEF Unread, Ahead
  <2>3. Char(n + 1)' = k.n
    BY <1>1, <2>1 DEF Char, InputTypes
  <2>4. \A i \in 1 .. n : Char(i)' = Char(i)
    BY <1>1, <2>1 DEF Char, InputTypes
  <2>5. buffer' \in [0 .. Size - 1 -> [n : Nat, ends : BOOLEAN]]
    BY <2>1 DEF InputTypes
  <2>6. n = Size - 1 => Unread' = 0
    BY <1>1, <2>2
  <2>7. n # Size - 1 => Unread' = n + 1
    BY <1>1, <2>2
  <2>9. \/ Unread' = n /\ \A i \in 1 .. n : Char(i)' = Char(i)
        \/ Unread' = 0
        \/ /\ Unread' = n + 1 /\ Char(n + 1)' = k.n
           /\ \A i \in 1 .. n : Char(i)' = Char(i)
    BY <2>3, <2>4, <2>6, <2>7
  <2>10. n < Size - 1 =>
            /\ Unread' = n + 1 /\ Char(n + 1)' = k.n
            /\ \A i \in 1 .. n : Char(i)' = Char(i)
    <3>1. n < Size - 1 => n # Size - 1
      BY <1>1, BufferSize
    <3> QED
      BY <2>3, <2>4, <2>7, <3>1
  <2>8. buffer_write' \in 0 .. Size - 1
    BY <1>1, <2>1
  <2> QED
    BY <1>1, <2>1, <2>5, <2>8, <2>9, <2>10
<1> QED
  BY <1>2, <1>3

\* Unchanged but for time, the characters and the events stay in order.
LEMMA KeysStay ==
    ASSUME InputInv, typed' \in Nat, typed <= typed', UNCHANGED <<buffer, buffer_read, buffer_write, str_buffer>>
    PROVE  KeysOrdered'
<1>1. Unread' = Unread /\ \A i : Char(i)' = Char(i)
  BY DEF Unread, Char
<1>2. \A i \in 1 .. Unread : Char(i) \in Int
  <2>1. \A i \in 1 .. Unread : PlaceOf(buffer_read, i) \in 0 .. Size - 1
    BY PushFacts, UnreadAhead DEF InputInv, InputTypes
  <2> QED
    BY <2>1 DEF Char, InputInv, InputTypes
<1>3. \A i \in 1 .. Len(str_buffer) : str_buffer[i] \in Int
  BY ElementOfSeq DEF InputInv, InputTypes
<1> QED
  BY <1>1, <1>2, <1>3 DEF KeysOrdered, InputInv, InputTypes

\* Keys that are typed later leave the order of events alone.
LEMMA EventsStay ==
    ASSUME InputInv, typed' \in Nat, typed <= typed', UNCHANGED <<event_queue, seen>>
    PROVE  EventsOrdered'
<1>1. \A p \in Program : \A i \in 1 .. Len(event_queue[p]) : event_queue[p][i] \in Int
  BY ElementOfSeq DEF InputInv, InputTypes
<1> QED
  BY <1>1 DEF EventsOrdered, InputInv, InputTypes

\* An event goes to the head of the queue, newer than the rest.
LEMMA SendInv ==
    ASSUME InputInv, active_window # None, typed' = typed + 1, SendEvent(typed + 1),
           UNCHANGED <<buffer, buffer_read, buffer_write, str_buffer, active_window, seen>>
    PROVE  InputInv'
<1> PICK a \in Program, t \in Nat : a = active_window /\ t = typed
  BY DEF InputInv, InputTypes
<1> PICK q \in Seq(Nat) : q = event_queue[a]
  BY DEF InputInv, InputTypes
<1>1. /\ <<t + 1>> \o q \in Seq(Nat) /\ Len(<<t + 1>> \o q) = Len(q) + 1
      /\ \A i \in 1 .. Len(q) + 1 :
            (<<t + 1>> \o q)[i] = IF i = 1 THEN t + 1 ELSE q[i - 1]
  <2>1. <<t + 1>> \in Seq(Nat) /\ Len(<<t + 1>>) = 1 /\ <<t + 1>>[1] = t + 1 /\ Len(q) \in Nat
    BY LenProperties
  <2>2. /\ <<t + 1>> \o q \in Seq(Nat) /\ Len(<<t + 1>> \o q) = Len(<<t + 1>>) + Len(q)
        /\ \A i \in 1 .. Len(<<t + 1>>) + Len(q) :
              (<<t + 1>> \o q)[i] =
                IF i <= Len(<<t + 1>>) THEN <<t + 1>>[i] ELSE q[i - Len(<<t + 1>>)]
    BY <2>1, ConcatProperties
  <2> QED
    BY <2>1, <2>2
<1>2. event_queue' = [event_queue EXCEPT ![a] = <<t + 1>> \o q]
  BY DEF SendEvent
<1>3. event_queue' \in [Program -> Seq(Nat)]
  BY <1>1, <1>2 DEF InputInv, InputTypes
<1>4. EventsOrdered'
  <2> SUFFICES ASSUME NEW p \in Program
               PROVE  /\ seen[p] <= t + 1
                      /\ \A i, j \in 1 .. Len(event_queue'[p]) :
                            i < j => event_queue'[p][i] > event_queue'[p][j]
                      /\ \A i \in 1 .. Len(event_queue'[p]) :
                            event_queue'[p][i] > seen[p] /\ event_queue'[p][i] <= t + 1
    BY DEF EventsOrdered
  <2>1. seen[p] \in Nat /\ seen[p] <= t
    BY DEF InputInv, InputTypes, EventsOrdered
  <2>2. CASE p = a
    <3>1. event_queue'[p] = <<t + 1>> \o q
      BY <1>2, <2>2 DEF InputInv, InputTypes
    <3>2. /\ \A i, j \in 1 .. Len(q) : i < j => q[i] > q[j]
          /\ \A i \in 1 .. Len(q) : q[i] > seen[p] /\ q[i] <= t /\ q[i] \in Nat
      BY <2>2, ElementOfSeq DEF InputInv, EventsOrdered
    <3>3. Len(q) \in Nat /\ \A i \in 1 .. Len(q) + 1 : i = 1 \/ i - 1 \in 1 .. Len(q)
      BY LenProperties
    <3>4. \A i \in 1 .. Len(q) + 1 :
             (<<t + 1>> \o q)[i] > seen[p] /\ (<<t + 1>> \o q)[i] <= t + 1
      <4> SUFFICES ASSUME NEW i \in 1 .. Len(q) + 1
                   PROVE  (<<t + 1>> \o q)[i] > seen[p] /\ (<<t + 1>> \o q)[i] <= t + 1
        OBVIOUS
      <4>1. CASE i = 1
        BY <1>1, <2>1, <4>1
      <4>2. CASE i # 1
        <5>1. i - 1 \in 1 .. Len(q) /\ (<<t + 1>> \o q)[i] = q[i - 1]
          BY <1>1, <3>3, <4>2
        <5> QED
          BY <3>2, <5>1
      <4> QED
        BY <4>1, <4>2
    <3>5. \A i, j \in 1 .. Len(q) + 1 : i < j => (<<t + 1>> \o q)[i] > (<<t + 1>> \o q)[j]
      <4> SUFFICES ASSUME NEW i \in 1 .. Len(q) + 1, NEW j \in 1 .. Len(q) + 1, i < j
                   PROVE  (<<t + 1>> \o q)[i] > (<<t + 1>> \o q)[j]
        OBVIOUS
      <4>1. j - 1 \in 1 .. Len(q) /\ (<<t + 1>> \o q)[j] = q[j - 1]
        BY <1>1, <3>3
      <4>2. q[j - 1] <= t /\ q[j - 1] \in Nat
        BY <3>2, <4>1
      <4>3. CASE i = 1
        BY <1>1, <4>1, <4>2, <4>3
      <4>4. CASE i # 1
        <5>1. i - 1 \in 1 .. Len(q) /\ (<<t + 1>> \o q)[i] = q[i - 1]
          BY <1>1, <3>3, <4>4
        <5>2. i - 1 < j - 1
          BY <3>3
        <5> QED
          BY <3>2, <4>1, <5>1, <5>2
      <4> QED
        BY <4>3, <4>4
    <3> QED
      BY <1>1, <2>1, <3>1, <3>4, <3>5
  <2>3. CASE p # a
    <3>1. event_queue'[p] = event_queue[p]
      BY <1>2, <2>3
    <3>2. \A i \in 1 .. Len(event_queue[p]) : event_queue[p][i] \in Nat
      BY ElementOfSeq DEF InputInv, InputTypes
    <3> QED
      BY <2>1, <3>1, <3>2 DEF InputInv, EventsOrdered
  <2> QED
    BY <2>2, <2>3
<1>5. KeysOrdered'
  BY KeysStay
<1>6. InputTypes'
  BY <1>3 DEF InputInv, InputTypes
<1> QED
  BY <1>4, <1>5, <1>6 DEF InputInv

\* The characters that are unread.
LEMMA CharTypes ==
    ASSUME InputTypes
    PROVE  /\ Unread \in 0 .. Size - 1
           /\ \A i \in 1 .. Unread : Char(i) \in Nat
<1>1. Unread \in 0 .. Size - 1
  BY PushFacts, UnreadAhead DEF InputTypes
<1>2. \A i \in 1 .. Unread : PlaceOf(buffer_read, i) \in 0 .. Size - 1
  BY PushFacts, UnreadAhead DEF InputTypes
<1>3. \A i \in 1 .. Unread : Char(i) \in Nat
  BY <1>2 DEF Char, InputTypes
<1> QED
  BY <1>1, <1>3

\* A character goes to the end of the buffer, younger than the rest.
LEMMA BufferInv ==
    ASSUME InputInv, NEW e \in BOOLEAN, typed' = typed + 1, Buffer(Key(typed + 1, e)),
           UNCHANGED <<active_window, event_queue, seen>>
    PROVE  InputInv'
<1> PICK t \in Nat : t = typed
  BY DEF InputInv, InputTypes
<1> PICK n \in Nat : n = Unread
  BY CharTypes, BufferSize DEF InputInv
<1> PICK k \in [n : Nat, ends : BOOLEAN] : k = Key(t + 1, e) /\ k.n = t + 1
  BY DEF Key
<1>1. /\ buffer' \in [0 .. Size - 1 -> [n : Nat, ends : BOOLEAN]]
      /\ buffer_write' \in 0 .. Size - 1
      /\ buffer_read' = buffer_read /\ str_buffer' = str_buffer
      /\ \/ Unread' = n /\ \A i \in 1 .. n : Char(i)' = Char(i)
         \/ Unread' = 0
         \/ /\ Unread' = n + 1 /\ Char(n + 1)' = k.n
            /\ \A i \in 1 .. n : Char(i)' = Char(i)
  <2>1. Buffer(k) /\ InputTypes
    BY DEF InputInv
  <2> QED
    BY <2>1, BufferFacts
<1>2. InputTypes'
  BY <1>1 DEF InputInv, InputTypes
<1>3. /\ \A i, j \in 1 .. n : i < j => Char(i) < Char(j)
      /\ \A i \in 1 .. n : Char(i) <= t /\ Char(i) \in Nat
      /\ \A i \in 1 .. Len(str_buffer), j \in 1 .. n : str_buffer[i] < Char(j)
  BY CharTypes DEF InputInv, KeysOrdered
<1>4. /\ \A i \in 1 .. Len(str_buffer) : str_buffer[i] \in Nat /\ str_buffer[i] <= t
      /\ \A i, j \in 1 .. Len(str_buffer) : i < j => str_buffer[i] < str_buffer[j]
  BY ElementOfSeq DEF InputInv, InputTypes, KeysOrdered
<1>5. /\ \A i, j \in 1 .. Unread' : i < j => Char(i)' < Char(j)'
      /\ \A i \in 1 .. Unread' : Char(i)' <= t + 1
      /\ \A i \in 1 .. Len(str_buffer), j \in 1 .. Unread' : str_buffer[i] < Char(j)'
  <2>1. CASE Unread' = n /\ \A i \in 1 .. n : Char(i)' = Char(i)
    BY <1>3, <2>1
  <2>2. CASE Unread' = 0
    BY <2>2
  <2>3. CASE /\ Unread' = n + 1 /\ Char(n + 1)' = k.n
             /\ \A i \in 1 .. n : Char(i)' = Char(i)
    <3>1. \A i \in 1 .. n + 1 : i \in 1 .. n \/ i = n + 1
      OBVIOUS
    <3>2. \A i \in 1 .. n + 1 : Char(i)' = IF i = n + 1 THEN t + 1 ELSE Char(i)
      BY <2>3, <3>1
    <3>3. \A i, j \in 1 .. n + 1 : i < j => Char(i)' < Char(j)'
      <4> SUFFICES ASSUME NEW i \in 1 .. n + 1, NEW j \in 1 .. n + 1, i < j
                   PROVE  Char(i)' < Char(j)'
        OBVIOUS
      <4>1. i \in 1 .. n /\ Char(i)' = Char(i) /\ Char(i) \in Nat /\ Char(i) <= t
        BY <1>3, <3>2
      <4>2. CASE j = n + 1
        BY <3>2, <4>1, <4>2
      <4>3. CASE j # n + 1
        <5>1. j \in 1 .. n /\ Char(j)' = Char(j)
          BY <3>2, <4>3
        <5> QED
          BY <1>3, <4>1, <5>1
      <4> QED
        BY <4>2, <4>3
    <3>4. \A i \in 1 .. n + 1 : Char(i)' <= t + 1
      BY <1>3, <3>1, <3>2
    <3>5. \A i \in 1 .. Len(str_buffer), j \in 1 .. n + 1 : str_buffer[i] < Char(j)'
      BY <1>3, <1>4, <3>1, <3>2
    <3> QED
      BY <2>3, <3>3, <3>4, <3>5
  <2> QED
    BY <1>1, <2>1, <2>2, <2>3
<1>6. KeysOrdered'
  BY <1>1, <1>4, <1>5 DEF KeysOrdered
<1>7. EventsOrdered'
  BY EventsStay DEF InputInv, InputTypes
<1> QED
  BY <1>2, <1>6, <1>7 DEF InputInv

\* keyboard_read takes the oldest character, and it is younger than the line.
LEMMA ReadInv == InputInv /\ KeyboardRead => InputInv'
<1> SUFFICES ASSUME InputInv, KeyboardRead PROVE InputInv'
  OBVIOUS
<1>1. /\ buffer_read # buffer_write /\ buffer_read' = (buffer_read + 1) % Size
      /\ UNCHANGED <<typed, buffer, buffer_write, active_window, event_queue, seen>>
  BY DEF KeyboardRead, AfterRead, windows
<1> PICK r \in 0 .. Size - 1, w \in 0 .. Size - 1 : r = buffer_read /\ w = buffer_write /\ r # w
  BY <1>1 DEF InputInv, InputTypes
<1> PICK n \in Nat : n = Unread /\ n = Ahead(r, w)
  BY CharTypes, UnreadAhead, BufferSize DEF InputInv
<1>2. /\ buffer_read' \in 0 .. Size - 1 /\ n \in 1 .. Size - 1
      /\ Ahead(buffer_read', w) = n - 1 /\ PlaceOf(r, 1) = r
      /\ \A i \in 1 .. n - 1 : PlaceOf(buffer_read', i) = PlaceOf(r, i + 1)
  BY <1>1, PopFacts
<1>3. Unread' = n - 1 /\ \A i \in 1 .. n - 1 : Char(i)' = Char(i + 1)
  <2>1. Unread' = Ahead(buffer_read', w)
    BY <1>1 DEF Unread, Ahead
  <2>2. \A i \in 1 .. n - 1 : Char(i)' = buffer[PlaceOf(buffer_read', i)].n
    BY <1>1 DEF Char
  <2>3. \A i \in 1 .. n - 1 : Char(i + 1) = buffer[PlaceOf(r, i + 1)].n
    BY DEF Char
  <2> QED
    BY <1>2, <2>1, <2>2, <2>3
<1> PICK c \in Nat : c = Char(1) /\ c = buffer[r].n
  BY <1>2, CharTypes DEF Char, InputInv
<1> PICK s \in Seq(Nat), t \in Nat : s = str_buffer /\ t = typed
  BY DEF InputInv, InputTypes
<1>4. /\ \A i, j \in 1 .. n : i < j => Char(i) < Char(j)
      /\ \A i \in 1 .. n : Char(i) <= t /\ Char(i) \in Nat
      /\ \A i \in 1 .. Len(s), j \in 1 .. n : s[i] < Char(j)
      /\ \A i \in 1 .. Len(s) : s[i] \in Nat /\ s[i] <= t
      /\ \A i, j \in 1 .. Len(s) : i < j => s[i] < s[j]
      /\ Len(s) \in Nat
  BY CharTypes, ElementOfSeq, LenProperties DEF InputInv, KeysOrdered
<1>5. \/ str_buffer' = s
      \/ str_buffer' = Append(s, c)
  BY DEF KeyboardRead
<1>6. /\ str_buffer' \in Seq(Nat)
      /\ \A i, j \in 1 .. Len(str_buffer') : i < j => str_buffer'[i] < str_buffer'[j]
      /\ \A i \in 1 .. Len(str_buffer') : str_buffer'[i] <= t
      /\ \A i \in 1 .. Len(str_buffer') : str_buffer'[i] <= c
  <2>1. c <= t /\ \A i \in 1 .. Len(s) : s[i] < c
    BY <1>2, <1>4
  <2>2. CASE str_buffer' = s
    <3>1. \A i \in 1 .. Len(s) : s[i] <= c
      BY <1>4, <2>1
    <3>2. /\ s \in Seq(Nat)
          /\ \A i, j \in 1 .. Len(s) : i < j => s[i] < s[j]
          /\ \A i \in 1 .. Len(s) : s[i] <= t
      BY <1>4
    <3> QED
      BY ONLY <2>2, <3>1, <3>2
  <2>3. CASE str_buffer' = Append(s, c)
    <3>1. /\ Append(s, c) \in Seq(Nat) /\ Len(Append(s, c)) = Len(s) + 1
          /\ \A i \in 1 .. Len(s) : Append(s, c)[i] = s[i]
          /\ Append(s, c)[Len(s) + 1] = c
      BY AppendProperties
    <3>2. \A i \in 1 .. Len(s) + 1 : i \in 1 .. Len(s) \/ i = Len(s) + 1
      BY <1>4
    <3> QED
      BY <1>4, <2>1, <2>3, <3>1, <3>2
  <2> QED
    BY <1>5, <2>2, <2>3
<1>7. /\ \A i, j \in 1 .. n - 1 : i < j => Char(i + 1) < Char(j + 1)
      /\ \A i \in 1 .. n - 1 : Char(i + 1) <= t /\ c < Char(i + 1) /\ Char(i + 1) \in Nat
  <2>1. \A i \in 1 .. n - 1 : i + 1 \in 1 .. n /\ 1 < i + 1 /\ 1 \in 1 .. n
    OBVIOUS
  <2>2. \A i, j \in 1 .. n - 1 : i < j => i + 1 < j + 1
    OBVIOUS
  <2> QED
    BY <1>4, <2>1, <2>2
<1>8. \A i \in 1 .. Len(str_buffer') : str_buffer'[i] \in Nat
  BY <1>6, ElementOfSeq
<1>9. KeysOrdered'
  <2>1. /\ \A i, j \in 1 .. n - 1 : i < j => Char(i)' < Char(j)'
        /\ \A i \in 1 .. n - 1 : Char(i)' <= t
        /\ \A i \in 1 .. Len(str_buffer'), j \in 1 .. n - 1 : str_buffer'[i] < Char(j)'
    <3>1. \A i, j \in 1 .. n - 1 : i < j => Char(i)' < Char(j)'
      BY <1>3, <1>7
    <3>2. \A i \in 1 .. n - 1 : Char(i)' <= t
      BY <1>3, <1>7
    <3>3. ASSUME NEW i \in 1 .. Len(str_buffer'), NEW j \in 1 .. n - 1
          PROVE  str_buffer'[i] < Char(j)'
      <4>1. str_buffer'[i] <= c /\ str_buffer'[i] \in Nat
        BY <1>6, <1>8
      <4>2. Char(j)' = Char(j + 1) /\ c < Char(j + 1) /\ Char(j + 1) \in Nat
        BY <1>3, <1>7
      <4> QED
        BY <4>1, <4>2
    <3> QED
      BY <3>1, <3>2, <3>3
  <2> QED
    BY <1>1, <1>3, <1>6, <2>1 DEF KeysOrdered
<1>10. InputTypes'
  BY <1>1, <1>2, <1>6 DEF InputInv, InputTypes
<1>11. EventsOrdered'
  BY <1>1, EventsStay DEF InputInv, InputTypes
<1> QED
  BY <1>9, <1>10, <1>11 DEF InputInv

\* sys_get_event takes the oldest event: all others are younger.
LEMMA GetEventInv ==
    ASSUME InputInv, NEW p \in Program, GetEvent(p) PROVE InputInv'
<1>1. /\ event_queue[p] # <<>>
      /\ seen' = [seen EXCEPT ![p] = event_queue[p][Len(event_queue[p])]]
      /\ event_queue' = [event_queue EXCEPT
                           ![p] = SubSeq(event_queue[p], 1, Len(event_queue[p]) - 1)]
      /\ UNCHANGED <<typed, buffer, buffer_read, buffer_write, str_buffer, active_window>>
  BY DEF GetEvent, ring, line
<1> PICK q \in Seq(Nat), t \in Nat : q = event_queue[p] /\ q # <<>> /\ t = typed
  BY <1>1 DEF InputInv, InputTypes
<1> PICK n \in Nat : n = Len(q) /\ n > 0
  BY LenProperties, EmptySeq
<1>2. /\ SubSeq(q, 1, n - 1) \in Seq(Nat) /\ Len(SubSeq(q, 1, n - 1)) = n - 1
      /\ \A i \in 1 .. n - 1 : SubSeq(q, 1, n - 1)[i] = q[i]
  <2>1. \A i \in 1 .. n - 1 : q[i] \in Nat
    BY ElementOfSeq
  <2> QED
    BY <2>1, SubSeqProperties
<1>3. /\ \A i, j \in 1 .. n : i < j => q[i] > q[j]
      /\ \A i \in 1 .. n : q[i] > seen[p] /\ q[i] <= t /\ q[i] \in Nat
  BY ElementOfSeq DEF InputInv, EventsOrdered
<1>4. q[n] \in Nat /\ q[n] <= t
  BY <1>3
<1>5. seen' \in [Program -> Nat] /\ event_queue' \in [Program -> Seq(Nat)]
  BY <1>1, <1>2, <1>4 DEF InputInv, InputTypes
<1>6. EventsOrdered'
  <2> SUFFICES ASSUME NEW r \in Program
               PROVE  /\ seen'[r] <= t
                      /\ \A i, j \in 1 .. Len(event_queue'[r]) :
                            i < j => event_queue'[r][i] > event_queue'[r][j]
                      /\ \A i \in 1 .. Len(event_queue'[r]) :
                            event_queue'[r][i] > seen'[r] /\ event_queue'[r][i] <= t
    BY <1>1 DEF EventsOrdered
  <2>1. CASE r = p
    <3>1. seen'[r] = q[n] /\ event_queue'[r] = SubSeq(q, 1, n - 1)
      BY <1>1, <2>1 DEF InputInv, InputTypes
    <3>2. \A i \in 1 .. n - 1 : i \in 1 .. n /\ i < n /\ n \in 1 .. n
      OBVIOUS
    <3>3. \A i \in 1 .. n - 1 : q[i] > q[n] /\ q[i] <= t
      BY <1>3, <3>2
    <3>4. \A i, j \in 1 .. n - 1 : i < j => q[i] > q[j]
      BY <1>3, <3>2
    <3>5. Len(event_queue'[r]) = n - 1 /\ \A i \in 1 .. n - 1 : event_queue'[r][i] = q[i]
      BY <1>2, <3>1
    <3> QED
      BY <1>4, <3>1, <3>3, <3>4, <3>5
  <2>2. CASE r # p
    <3>1. seen'[r] = seen[r] /\ event_queue'[r] = event_queue[r]
      BY <1>1, <2>2 DEF InputInv, InputTypes
    <3> QED
      BY <3>1 DEF InputInv, EventsOrdered
  <2> QED
    BY <2>1, <2>2
<1>7. KeysOrdered'
  BY <1>1, KeysStay DEF InputInv, InputTypes
<1> QED
  BY <1>1, <1>5, <1>6, <1>7 DEF InputInv, InputTypes

\* The start, and the machine's next start.
LEMMA Cleared ==
    ASSUME Len(str_buffer) = 0, Unread = 0, typed = 0,
           \A p \in Program : Len(event_queue[p]) = 0 /\ seen[p] = 0
    PROVE  KeysOrdered /\ EventsOrdered
BY DEF KeysOrdered, EventsOrdered

\* Nothing has been typed.
LEMMA InputInitInv == Init => InputInv
<1> SUFFICES ASSUME Init PROVE InputInv
  OBVIOUS
<1>1. InputTypes
  BY BufferSize DEF Init, InputTypes, Key
<1>2. Unread = 0
  <2>1. Ahead(0, 0) = 0
    BY RingFacts, BufferSize
  <2> QED
    BY <2>1, UnreadAhead DEF Init
<1>3. KeysOrdered /\ EventsOrdered
  BY <1>2, Cleared DEF Init
<1> QED
  BY <1>1, <1>3 DEF InputInv

\* Every step keeps the invariant.
LEMMA InputNextInv == InputInv /\ [Next]_vars => InputInv'
<1> SUFFICES ASSUME InputInv, [Next]_vars PROVE InputInv'
  OBVIOUS
<1>1. typed \in Nat /\ typed + 1 \in Nat
  BY DEF InputInv, InputTypes
<1>2. ASSUME NEW code \in Codes, NEW down \in BOOLEAN, KeyboardSilent(code, down)
      PROVE  InputInv'
  <2>1. UNCHANGED <<typed, buffer, buffer_read, buffer_write, str_buffer, active_window,
                    event_queue, seen>>
    BY <1>2 DEF KeyboardSilent, ring, line, windows
  <2> QED
    BY <1>1, <2>1, KeysStay, EventsStay DEF InputInv, InputTypes
<1>3. ASSUME NEW code \in Codes, NEW down \in BOOLEAN, KeyboardInterrupt(code, down)
      PROVE  InputInv'
  <2> PICK e \in BOOLEAN : e = (keymap[code].normal = "CR")
    OBVIOUS
  <2>1. /\ typed' = typed + 1 /\ Deliver(typed + 1, e)
        /\ UNCHANGED <<active_window, seen>>
    BY <1>3 DEF KeyboardInterrupt
  <2>2. CASE active_window # None
    <3>1. SendEvent(typed + 1) /\ UNCHANGED <<buffer, buffer_read, buffer_write, str_buffer>>
      BY <2>1, <2>2 DEF Deliver, ring, line
    <3> QED
      BY <2>1, <2>2, <3>1, SendInv
  <2>3. CASE active_window = None
    <3>1. Buffer(Key(typed + 1, e)) /\ UNCHANGED event_queue
      BY <2>1, <2>3 DEF Deliver
    <3> QED
      BY <2>1, <3>1, BufferInv
  <2> QED
    BY <2>2, <2>3
<1>4. ASSUME SendEventMouseMove PROVE InputInv'
  <2>1. /\ active_window # None /\ typed' = typed + 1 /\ SendEvent(typed + 1)
        /\ UNCHANGED <<buffer, buffer_read, buffer_write, str_buffer, active_window, seen>>
    BY <1>4 DEF SendEventMouseMove, ring, line
  <2> QED
    BY <2>1, SendInv
<1>5. ASSUME NEW code \in Codes, Reboot(code) PROVE InputInv'
  <2>1. /\ typed' = 0 /\ buffer' = [i \in 0 .. Size - 1 |-> Key(0, FALSE)]
        /\ buffer_read' = 0 /\ buffer_write' = 0 /\ str_buffer' = <<>>
        /\ active_window' = None
        /\ event_queue' = [p \in Program |-> <<>>] /\ seen' = [p \in Program |-> 0]
    BY <1>5 DEF Reboot
  <2>2. InputTypes'
    BY <2>1, BufferSize DEF InputTypes, Key
  <2>3. Unread' = 0
    <3>1. Ahead(0, 0) = 0
      BY RingFacts, BufferSize
    <3>2. Unread' = Ahead(0, 0)
      BY <2>1 DEF Unread, Ahead
    <3> QED
      BY <3>1, <3>2
  <2>4. KeysOrdered' /\ EventsOrdered'
    BY <2>1, <2>3 DEF KeysOrdered, EventsOrdered
  <2> QED
    BY <2>2, <2>4 DEF InputInv
<1>6. ASSUME FindEmpty \/ ProcessWait PROVE InputInv'
  <2>1. UNCHANGED <<typed, buffer, buffer_read, buffer_write, str_buffer, active_window,
                    event_queue, seen>>
    BY <1>6 DEF FindEmpty, ProcessWait, ring, windows
  <2> QED
    BY <1>1, <2>1, KeysStay, EventsStay DEF InputInv, InputTypes
<1>7. ASSUME ReadStr PROVE InputInv'
  <2>1. /\ str_buffer' = <<>>
        /\ UNCHANGED <<typed, buffer, buffer_read, buffer_write, active_window,
                       event_queue, seen>>
    BY <1>7 DEF ReadStr, ring, windows
  <2>2. Unread' = Unread /\ \A i : Char(i)' = Char(i)
    BY <2>1 DEF Unread, Char
  <2>3. KeysOrdered'
    BY <2>1, <2>2 DEF KeysOrdered, InputInv
  <2>4. InputTypes'
    BY <2>1 DEF InputInv, InputTypes
  <2> QED
    BY <1>1, <2>1, <2>3, <2>4, EventsStay DEF InputInv
<1>8. ASSUME NEW p \in Program, WindowCreate(p) PROVE InputInv'
  <2>1. /\ event_queue' = [event_queue EXCEPT ![p] = <<>>] /\ active_window' = p
        /\ UNCHANGED <<typed, buffer, buffer_read, buffer_write, str_buffer, seen>>
    BY <1>8 DEF WindowCreate, ring, line
  <2>2. InputTypes'
    BY <2>1 DEF InputInv, InputTypes
  <2>3. \A r \in Program : event_queue'[r] = <<>> \/ event_queue'[r] = event_queue[r]
    BY <2>1 DEF InputInv, InputTypes
  <2>4. EventsOrdered'
    <3> SUFFICES ASSUME NEW r \in Program
                 PROVE  /\ seen[r] <= typed
                        /\ \A i, j \in 1 .. Len(event_queue'[r]) :
                              i < j => event_queue'[r][i] > event_queue'[r][j]
                        /\ \A i \in 1 .. Len(event_queue'[r]) :
                              event_queue'[r][i] > seen[r] /\ event_queue'[r][i] <= typed
      BY <2>1 DEF EventsOrdered
    <3> QED
      BY <2>3 DEF InputInv, EventsOrdered
  <2> QED
    BY <1>1, <2>1, <2>2, <2>4, KeysStay DEF InputInv
<1>9. ASSUME UNCHANGED vars PROVE InputInv'
  <2>1. UNCHANGED <<typed, buffer, buffer_read, buffer_write, str_buffer, active_window,
                    event_queue, seen>>
    BY <1>9 DEF vars, ring, line, windows
  <2> QED
    BY <1>1, <2>1, KeysStay, EventsStay DEF InputInv, InputTypes
<1> QED
  BY <1>2, <1>3, <1>4, <1>5, <1>6, <1>7, <1>8, <1>9, ReadInv, GetEventInv
  DEF Next, Interrupt, Shell

\* A concatenation, element by element.
LEMMA Joined ==
    ASSUME NEW S, NEW s \in Seq(S), NEW t \in Seq(S)
    PROVE  /\ s \o t \in Seq(S) /\ Len(s \o t) = Len(s) + Len(t)
           /\ \A k \in 1 .. Len(s) + Len(t) :
                 (s \o t)[k] = IF k <= Len(s) THEN s[k] ELSE t[k - Len(s)]
BY ConcatProperties

\* What is in the line, in the buffer and in the queues keeps its order.
THEOREM InputInvariant == Spec => []InputInv
BY InputInitInv, InputNextInv, PTL DEF Spec

\* keyboard.c, for every size of the buffer, whatever keys are pressed and
\* whenever: the shell gets the characters in the order typed and none twice. The
\* wrong test for a full buffer, which loses characters, disorders none.
THEOREM InputKeysInOrder == Spec => []KeysInOrder
<1>1. InputInv => KeysInOrder
  <2> SUFFICES ASSUME InputInv PROVE Increasing(str_buffer \o Waiting)
    BY DEF KeysInOrder
  <2> PICK s \in Seq(Nat), n \in Nat : s = str_buffer /\ n = Unread
    BY CharTypes, BufferSize DEF InputInv, InputTypes
  <2> PICK u \in Seq(Nat) : u = Waiting /\ Len(u) = n /\ \A i \in 1 .. n : u[i] = Char(i)
    <3>1. Waiting = [i \in 1 .. n |-> Char(i)]
      BY DEF Waiting, Char, PlaceOf
    <3>2. \A i \in 1 .. n : Char(i) \in Nat
      BY CharTypes DEF InputInv
    <3> QED
      BY <3>1, <3>2, LenProperties
  <2>2. /\ \A i, j \in 1 .. Len(s) : i < j => s[i] < s[j]
        /\ \A i, j \in 1 .. n : i < j => u[i] < u[j]
        /\ \A i \in 1 .. Len(s), j \in 1 .. n : s[i] < u[j]
        /\ Len(s) \in Nat
    BY LenProperties DEF InputInv, KeysOrdered
  <2>3. /\ s \o u \in Seq(Nat) /\ Len(s \o u) = Len(s) + n
        /\ \A k \in 1 .. Len(s) + n : (s \o u)[k] = IF k <= Len(s) THEN s[k] ELSE u[k - Len(s)]
    <3>1. /\ s \o u \in Seq(Nat) /\ Len(s \o u) = Len(s) + Len(u)
          /\ \A k \in 1 .. Len(s) + Len(u) :
                (s \o u)[k] = IF k <= Len(s) THEN s[k] ELSE u[k - Len(s)]
      BY Joined
    <3>2. Len(u) = n
      OBVIOUS
    <3> QED
      BY <3>1, <3>2
  <2>4. \A i, j \in 1 .. Len(s) + n : i < j => (s \o u)[i] < (s \o u)[j]
    <3> SUFFICES ASSUME NEW i \in 1 .. Len(s) + n, NEW j \in 1 .. Len(s) + n, i < j
                 PROVE  (s \o u)[i] < (s \o u)[j]
      OBVIOUS
    <3>1. CASE j <= Len(s)
      <4>1. i \in 1 .. Len(s) /\ j \in 1 .. Len(s)
        BY <2>2, <3>1
      <4> QED
        BY <2>2, <2>3, <3>1, <4>1
    <3>2. CASE i <= Len(s) /\ ~(j <= Len(s))
      <4>1. i \in 1 .. Len(s) /\ j - Len(s) \in 1 .. n
        BY <2>2, <3>2
      <4> QED
        BY <2>2, <2>3, <3>2, <4>1
    <3>3. CASE ~(i <= Len(s))
      <4>1. i - Len(s) \in 1 .. n /\ j - Len(s) \in 1 .. n /\ i - Len(s) < j - Len(s)
            /\ ~(j <= Len(s))
        BY <2>2, <3>3
      <4> QED
        BY <2>2, <2>3, <3>3, <4>1
    <3> QED
      BY <2>2, <3>1, <3>2, <3>3
  <2>5. DOMAIN (s \o u) = 1 .. Len(s) + n
    BY <2>3, LenProperties
  <2> QED
    BY <2>4, <2>5 DEF Increasing
<1> QED
  BY <1>1, InputInvariant, PTL

\* keyboard_interrupt, for every size of the buffer: while there is room a character
\* is added to those that wait, and no other is lost.
THEOREM InputLostOnlyWhenFull == Spec => LostOnlyWhenFull
<1>1. InputInv /\ [Next]_vars =>
        [typed' > typed /\ active_window = None /\ Unread < Size - 1
            => Waiting' = Append(Waiting, typed')]_vars
  <2> SUFFICES ASSUME InputInv, Next, typed' > typed, active_window = None, Unread < Size - 1
               PROVE  Waiting' = Append(Waiting, typed')
    BY DEF vars
  <2>1. typed \in Nat
    BY DEF InputInv, InputTypes
  <2>2. PICK e \in BOOLEAN : typed' = typed + 1 /\ Buffer(Key(typed + 1, e))
    <3>1. PICK code \in Codes, down \in BOOLEAN : KeyboardInterrupt(code, down)
      <4>1. ~SendEventMouseMove
        BY DEF SendEventMouseMove
      <4>2. \A code \in Codes, down \in BOOLEAN : ~KeyboardSilent(code, down)
        BY <2>1 DEF KeyboardSilent
      <4>3. ASSUME NEW code \in Codes, Reboot(code) PROVE FALSE
        <5>1. typed' = 0
          BY <4>3 DEF Reboot
        <5> QED
          BY <2>1, <5>1
      <4>4. ASSUME Shell PROVE FALSE
        <5>1. typed' = typed
          BY <4>4, Zenon DEF Shell, FindEmpty, ProcessWait, KeyboardRead, ReadStr
        <5> QED
          BY <2>1, <5>1
      <4>5. \A p \in Program : ~WindowCreate(p) /\ ~GetEvent(p)
        BY <2>1 DEF WindowCreate, GetEvent
      <4> QED
        BY <4>1, <4>2, <4>3, <4>4, <4>5 DEF Next, Interrupt
    <3> PICK e \in BOOLEAN : e = (keymap[code].normal = "CR")
      OBVIOUS
    <3>2. typed' = typed + 1 /\ Deliver(typed + 1, e)
      BY <3>1 DEF KeyboardInterrupt
    <3> QED
      BY <3>2 DEF Deliver
  <2> PICK t \in Nat : t = typed
    BY <2>1
  <2> PICK k \in [n : Nat, ends : BOOLEAN] : k = Key(t + 1, e) /\ k.n = t + 1
    BY <2>2 DEF Key
  <2> PICK n \in Nat : n = Unread
    BY CharTypes, BufferSize DEF InputInv
  <2>3. /\ Unread' = n + 1 /\ Char(n + 1)' = typed + 1
        /\ \A i \in 1 .. n : Char(i)' = Char(i)
    <3>1. Buffer(k) /\ InputTypes /\ n < Size - 1 /\ n = Unread
      BY <2>2 DEF InputInv
    <3> QED
      BY <3>1, BufferFacts
  <2>4. Waiting = [i \in 1 .. n |-> Char(i)]
    BY DEF Waiting, Char, PlaceOf
  <2>5. Waiting' = [i \in 1 .. n + 1 |-> IF i = n + 1 THEN typed + 1 ELSE Char(i)]
    <3>1. Waiting' = [i \in 1 .. n + 1 |-> Char(i)']
      BY <2>3 DEF Waiting, Char, PlaceOf
    <3>2. \A i \in 1 .. n + 1 : Char(i)' = IF i = n + 1 THEN typed + 1 ELSE Char(i)
      BY <2>3
    <3> QED
      BY <3>1, <3>2
  <2>6. Append(Waiting, typed + 1) = [i \in 1 .. n + 1 |-> IF i = n + 1 THEN typed + 1 ELSE Char(i)]
    <3>1. \A i \in 1 .. n : Char(i) \in Nat
      BY CharTypes DEF InputInv
    <3>2. Waiting \in Seq(Nat) /\ Len(Waiting) = n
      BY <2>4, <3>1, LenProperties
    <3> QED
      BY <2>1, <2>4, <3>2, AppendProperties
  <2> QED
    BY <2>2, <2>5, <2>6
<1> QED
  BY <1>1, InputInvariant, PTL DEF Spec, LostOnlyWhenFull

\* window_manager.c and sys_get_event: a program gets its events once and in order.
THEOREM InputEventsInOrder == Spec => []EventsInOrder
<1>1. InputInv => EventsInOrder
  <2> SUFFICES ASSUME InputInv, NEW p \in Program
               PROVE  /\ \A i, j \in DOMAIN event_queue[p] :
                            i < j => event_queue[p][i] > event_queue[p][j]
                      /\ \A i \in DOMAIN event_queue[p] : event_queue[p][i] > seen[p]
    BY DEF EventsInOrder
  <2>1. DOMAIN event_queue[p] = 1 .. Len(event_queue[p])
    BY LenProperties DEF InputInv, InputTypes
  <2> QED
    BY <2>1 DEF InputInv, EventsOrdered
<1> QED
  BY <1>1, InputInvariant, PTL
-----------------------------------------------------------------------------
(* Screen: as long as no interrupt falls inside plot_pixel and the pointer *)
(* fits the square that is saved for it, which it does at its size.        *)

\* The pointer of size s lies in the square that is saved for it.
PointerFits(s) == Pointer(s) \subseteq (1 - s .. s - 1) \X (1 - s .. s - 1)

\* The shapes of Screen's variables, as far as the proof needs them.
ScreenShapes ==
    /\ DOMAIN video = Pixel /\ DOMAIN picture = Pixel
    /\ DOMAIN mouse_draw_buffer = Area
    /\ mouse \in Int \X Int /\ mouse_byte \in Int
    /\ current \in Process
    /\ DOMAIN pen = Process /\ DOMAIN window = Process
    /\ \A q \in Process :
         pen[q] = [todo |-> pen[q].todo, clip |-> pen[q].clip,
                   at |-> pen[q].at, colour |-> pen[q].colour]

\* Who draws is clipped to the screen or to the window.
Clips ==
    \A q \in Process :
        /\ pen[q].clip \in {{}, Pixel, window[q].bounds}
        /\ \/ window[q] = NoWindow
           \/ \E f \in Frame :
                window[q] = [x |-> f[1], y |-> f[2], width |-> f[3],
                             height |-> f[4], bounds |-> Bounds(f)]

\* Only the process that runs has a pixel half drawn: one, of its pen's colour on
\* the screen as in the picture.
OneHalf ==
    /\ \A q \in Process \ {current} : pen[q].at = {}
    /\ pen[current].at # {} =>
         \E p \in Pixel : /\ pen[current].at = {p}
                          /\ video[p] = pen[current].colour
                          /\ picture[p] = pen[current].colour

\* What PictureKept says of a pixel.
PixelKept(p) ==
    LET a == Minus(p, mouse) IN
    /\ a \in Area => mouse_draw_buffer[a] = picture[p]
    /\ a \notin PointerShape => video[p] = picture[p]
    /\ a \in PointerShape => video[p] \in {picture[p], Green}

ScreenInv ==
    /\ ScreenShapes
    /\ Clips
    /\ OneHalf
    /\ \A p \in Pixel \ pen[current].at : PixelKept(p)

\* The screen after mouse_init.
LEMMA ScreenInitInv == ScreenInit => ScreenInv
<1> SUFFICES ASSUME ScreenInit PROVE ScreenInv
  OBVIOUS
<1>1. XRes \div 2 \in Int /\ YRes \div 2 \in Int
  BY ScreenAssumption
<1>2. ScreenShapes
  <2>1. DOMAIN video = Pixel /\ DOMAIN picture = Pixel /\ DOMAIN mouse_draw_buffer = Area
    BY DEF ScreenInit
  <2>2. mouse \in Int \X Int /\ mouse_byte \in Int
    BY <1>1 DEF ScreenInit
  <2>3. current \in Process /\ DOMAIN pen = Process /\ DOMAIN window = Process
    BY DEF ScreenInit
  <2>4. \A q \in Process :
          pen[q] = [todo |-> pen[q].todo, clip |-> pen[q].clip,
                    at |-> pen[q].at, colour |-> pen[q].colour]
    BY DEF ScreenInit, NoPen
  <2> QED
    BY <2>1, <2>2, <2>3, <2>4 DEF ScreenShapes
<1>3. Clips
  BY DEF ScreenInit, Clips, NoPen
<1>4. OneHalf
  BY DEF ScreenInit, OneHalf, NoPen
<1>5. \A p \in Pixel : video[p] = Black /\ picture[p] = Black
  BY DEF ScreenInit
<1>6. \A a \in Area : mouse_draw_buffer[a] = Black
  BY DEF ScreenInit
<1>7. \A p \in Pixel : PixelKept(p)
  BY <1>5, <1>6 DEF PixelKept
<1> QED
  BY <1>2, <1>3, <1>4, <1>7 DEF ScreenInv

\* A pen that begins a shape has nothing half drawn.
LEMMA DrawsInv ==
  ASSUME ScreenInv, NEW shape, NEW clip, Draws(shape, clip), Clips',
         DOMAIN window' = Process
  PROVE  ScreenInv'
<1>1. /\ pen[current].at = {} /\ UNCHANGED <<video, mice, current, picture>>
      /\ current \in Process /\ DOMAIN pen = Process
  BY DEF Draws, mine, ScreenInv, ScreenShapes
<1>2. /\ DOMAIN pen' = Process
      /\ \A q \in Process \ {current} : pen'[q] = pen[q]
      /\ pen'[current] = [todo |-> pen'[current].todo, clip |-> clip, at |-> {},
                          colour |-> Black]
  BY <1>1 DEF Draws, NoPen
<1>3. ScreenShapes'
  <2>1. \A q \in Process :
          pen'[q] = [todo |-> pen'[q].todo, clip |-> pen'[q].clip,
                     at |-> pen'[q].at, colour |-> pen'[q].colour]
    BY <1>2 DEF ScreenInv, ScreenShapes
  <2> QED
    BY <1>1, <1>2, <2>1 DEF ScreenInv, ScreenShapes, mice
<1>4. OneHalf'
  BY <1>1, <1>2 DEF ScreenInv, OneHalf
<1>5. \A p \in Pixel : PixelKept(p)'
  BY <1>1 DEF ScreenInv, PixelKept, mice
<1> QED
  BY <1>3, <1>4, <1>5 DEF ScreenInv

\* The clip is the window's, or the screen for the border of a new one.
LEMMA DrawsClips ==
  ASSUME ScreenInv, NEW shape, NEW clip, Draws(shape, clip)
  PROVE  /\ window' = window /\ clip = window[current].bounds => Clips' /\ DOMAIN window' = Process
         /\ \A f \in Frame :
              /\ clip = Pixel
              /\ window' = [window EXCEPT ![current] =
                   [x |-> f[1], y |-> f[2], width |-> f[3], height |-> f[4],
                    bounds |-> Bounds(f)]]
              => Clips' /\ DOMAIN window' = Process
<1>1. /\ current \in Process /\ DOMAIN pen = Process /\ DOMAIN window = Process
  BY DEF ScreenInv, ScreenShapes
<1>2. /\ \A q \in Process \ {current} : pen'[q] = pen[q]
      /\ pen'[current].clip = clip
  BY <1>1 DEF Draws, NoPen
<1>3. ASSUME window' = window, clip = window[current].bounds
      PROVE  Clips' /\ DOMAIN window' = Process
  BY <1>1, <1>2, <1>3 DEF ScreenInv, Clips
<1>4. ASSUME NEW f \in Frame, clip = Pixel,
             window' = [window EXCEPT ![current] =
                   [x |-> f[1], y |-> f[2], width |-> f[3], height |-> f[4],
                    bounds |-> Bounds(f)]]
      PROVE  Clips' /\ DOMAIN window' = Process
  <2>1. /\ DOMAIN window' = Process
        /\ \A q \in Process \ {current} : window'[q] = window[q]
        /\ window'[current] = [x |-> f[1], y |-> f[2], width |-> f[3], height |-> f[4],
                               bounds |-> Bounds(f)]
    BY <1>1, <1>4
  <2>2. ASSUME NEW q \in Process
        PROVE  /\ pen'[q].clip \in {{}, Pixel, window'[q].bounds}
               /\ \/ window'[q] = NoWindow
                  \/ \E g \in Frame :
                       window'[q] = [x |-> g[1], y |-> g[2], width |-> g[3],
                                     height |-> g[4], bounds |-> Bounds(g)]
    <3>1. CASE q = current
      BY <3>1, <2>1, <1>2, <1>4
    <3>2. CASE q # current
      BY <3>2, <2>1, <1>2 DEF ScreenInv, Clips
    <3> QED
      BY <3>1, <3>2
  <2> QED
    BY <2>1, <2>2 DEF Clips
<1> QED
  BY <1>3, <1>4

\* What is clipped to is on the screen.
LEMMA ClipOnScreen ==
  ASSUME ScreenInv, NEW q \in Process
  PROVE  pen[q].clip \subseteq Pixel
<1>1. ASSUME NEW f \in Frame PROVE Bounds(f) \subseteq Pixel
  <2>1. f[1] \in Int /\ f[2] \in Int /\ f[3] \in Int /\ f[4] \in Int
    BY ScreenAssumption
  <2>2. \A r, a, b \in Int : Most(0, a) .. Least(r, b) \subseteq 0 .. r
    BY DEF Most, Least
  <2>3. /\ XRes - 1 \in Int /\ YRes - 1 \in Int
        /\ f[1] + (f[3] + f[1]) \in Int /\ f[2] + (f[4] + f[2]) \in Int
    BY <2>1, ScreenAssumption
  <2>4. Most(0, f[1]) .. Least(XRes - 1, f[1] + (f[3] + f[1])) \subseteq 0 .. XRes - 1
    BY <2>1, <2>2, <2>3
  <2>5. Most(0, f[2]) .. Least(YRes - 1, f[2] + (f[4] + f[2])) \subseteq 0 .. YRes - 1
    BY <2>1, <2>2, <2>3
  <2> QED
    BY <2>4, <2>5 DEF Bounds, Pixel
<1>2. window[q].bounds \subseteq Pixel
  <2>1. CASE window[q] = NoWindow
    BY <2>1 DEF NoWindow
  <2>2. ASSUME NEW f \in Frame,
               window[q] = [x |-> f[1], y |-> f[2], width |-> f[3],
                            height |-> f[4], bounds |-> Bounds(f)]
        PROVE  window[q].bounds \subseteq Pixel
    <3>1. window[q].bounds = Bounds(f)
      BY <2>2
    <3> QED
      BY <3>1, <1>1
  <2> QED
    BY <2>1, <2>2 DEF ScreenInv, Clips
<1> QED
  BY <1>2 DEF ScreenInv, Clips

\* The system calls that draw only begin.
LEMMA DrawingInv ==
  ASSUME ScreenInv,
         \/ \E f \in Frame : CreateWindow(f)
         \/ \E s \in Stroke : DrawLine(s)
         \/ \E at \in Spot : DrawChar(at)
         \/ \E arc \in Arc : DrawArc(arc)
         \/ Clear \/ SetBorderColor
  PROVE  ScreenInv'
<1>1. ASSUME NEW shape, Draws(shape, window[current].bounds), window' = window
      PROVE  ScreenInv'
  BY <1>1, DrawsClips, DrawsInv
<1>2. ASSUME NEW f \in Frame, CreateWindow(f) PROVE ScreenInv'
  <2>1. Draws(In(Border(f), Grey), Pixel)
    BY <1>2 DEF CreateWindow
  <2>2. Clips' /\ DOMAIN window' = Process
    BY <1>2, <2>1, DrawsClips DEF CreateWindow
  <2> QED
    BY <2>1, <2>2, DrawsInv
<1>3. ASSUME NEW s \in Stroke, DrawLine(s) PROVE ScreenInv'
  BY <1>1, <1>3 DEF DrawLine
<1>4. ASSUME NEW at \in Spot, DrawChar(at) PROVE ScreenInv'
  BY <1>1, <1>4 DEF DrawChar
<1>5. ASSUME NEW arc \in Arc, DrawArc(arc) PROVE ScreenInv'
  BY <1>1, <1>5 DEF DrawArc
<1>6. ASSUME Clear PROVE ScreenInv'
  BY <1>1, <1>6 DEF Clear
<1>7. ASSUME SetBorderColor PROVE ScreenInv'
  BY <1>1, <1>7 DEF SetBorderColor
<1> QED
  BY <1>2, <1>3, <1>4, <1>5, <1>6, <1>7

\* A pen is lifted between two pixels.
LEMMA LiftedFacts ==
  ASSUME NEW r,
         r = [todo |-> r.todo, clip |-> r.clip, at |-> r.at, colour |-> r.colour]
  PROVE  \E todo, clip, colour :
           /\ Lifted(r) = [todo |-> todo, clip |-> clip, at |-> {}, colour |-> colour]
           /\ clip \in {{}, r.clip}
<1>1. CASE DOMAIN r.todo = {}
  BY <1>1 DEF Lifted, NoPen
<1>2. CASE DOMAIN r.todo # {}
  <2>1. Lifted(r) = [r EXCEPT !.at = {}, !.colour = Black]
    BY <1>2 DEF Lifted
  <2>2. Lifted(r) = [todo |-> r.todo, clip |-> r.clip, at |-> {}, colour |-> Black]
    BY <2>1
  <2> QED
    BY <2>2
<1> QED
  BY <1>1, <1>2

\* The pen of the process that runs changes, its clip to nothing at most.
LEMMA PenInv ==
  ASSUME ScreenInv,
         DOMAIN pen' = Process,
         \A q \in Process \ {current} : pen'[q] = pen[q],
         pen'[current] = [todo |-> pen'[current].todo, clip |-> pen'[current].clip,
                          at |-> pen'[current].at, colour |-> pen'[current].colour],
         pen'[current].clip \in {{}, pen[current].clip},
         UNCHANGED <<mouse, mouse_byte, current, window>>,
         DOMAIN video' = Pixel, DOMAIN picture' = Pixel, DOMAIN mouse_draw_buffer' = Area
  PROVE  /\ ScreenShapes' /\ Clips'
         /\ \A q \in Process \ {current} : pen'[q].at = {}
<1>1. /\ current \in Process /\ DOMAIN pen = Process /\ DOMAIN window = Process
  BY DEF ScreenInv, ScreenShapes
<1>3. \A q \in Process \ {current} : pen'[q].at = {}
  BY DEF ScreenInv, OneHalf
<1>4. \A q \in Process :
          pen'[q] = [todo |-> pen'[q].todo, clip |-> pen'[q].clip,
                     at |-> pen'[q].at, colour |-> pen'[q].colour]
  BY DEF ScreenInv, ScreenShapes
<1>5. ScreenShapes'
  BY <1>1, <1>4 DEF ScreenInv, ScreenShapes
<1>6. \A q \in Process : pen'[q].clip \in {{}, Pixel, window[q].bounds}
  BY <1>1 DEF ScreenInv, Clips
<1>7. Clips'
  BY <1>6 DEF ScreenInv, Clips
<1> QED
  BY <1>3, <1>5, <1>7

\* plot_pixel's first half: a pixel on the screen and in the picture.
LEMMA WritePixelInv ==
  ASSUME ScreenInv, WritePixel
  PROVE  ScreenInv'
<1> PICK p : p = NextPixel
  OBVIOUS
<1> PICK c : c = mine.todo[p]
  OBVIOUS
<1> PICK rest : rest = [mine EXCEPT !.todo = [q \in DOMAIN mine.todo \ {p} |-> mine.todo[q]]]
  OBVIOUS
<1>1. /\ current \in Process /\ DOMAIN pen = Process
      /\ DOMAIN video = Pixel /\ DOMAIN picture = Pixel /\ DOMAIN mouse_draw_buffer = Area
      /\ pen[current] = [todo |-> pen[current].todo, clip |-> pen[current].clip,
                         at |-> pen[current].at, colour |-> pen[current].colour]
  BY DEF ScreenInv, ScreenShapes
<1>2. mine = pen[current] /\ mine.at = {}
  BY DEF WritePixel, mine
<1>3. /\ rest = [todo |-> rest.todo, clip |-> rest.clip, at |-> rest.at,
                 colour |-> rest.colour]
      /\ rest.clip = pen[current].clip
  BY <1>1, <1>2
<1>4. UNCHANGED <<mice, current, window>>
  BY DEF WritePixel
<1>5. CASE p \in mine.clip
  <2>1. /\ video' = [video EXCEPT ![p] = c]
        /\ picture' = [picture EXCEPT ![p] = c]
        /\ pen' = [pen EXCEPT ![current] =
             [rest EXCEPT !.at = {p}, !.colour = c]]
    BY <1>5 DEF WritePixel
  <2>2. /\ DOMAIN pen' = Process
        /\ \A q \in Process \ {current} : pen'[q] = pen[q]
        /\ pen'[current] = [todo |-> rest.todo, clip |-> pen[current].clip,
                            at |-> {p}, colour |-> c]
    BY <1>1, <1>3, <2>1
  <2>3. p \in Pixel
    BY <1>1, <1>2, <1>5, ClipOnScreen
  <2>4. /\ ScreenShapes' /\ Clips'
        /\ \A q \in Process \ {current} : pen'[q].at = {}
    <3>1. DOMAIN video' = Pixel /\ DOMAIN picture' = Pixel /\ DOMAIN mouse_draw_buffer' = Area
      BY <1>1, <1>4, <2>1 DEF mice
    <3>2. /\ pen'[current] = [todo |-> pen'[current].todo, clip |-> pen'[current].clip,
                              at |-> pen'[current].at, colour |-> pen'[current].colour]
          /\ pen'[current].clip = pen[current].clip
      BY <2>2
    <3> QED
      BY <1>4, <2>2, <3>1, <3>2, PenInv DEF mice
  <2>5. OneHalf'
    BY <1>1, <1>4, <2>1, <2>2, <2>3, <2>4 DEF OneHalf
  <2>6. ASSUME NEW q \in Pixel, q # p PROVE PixelKept(q)'
    <3>1. video'[q] = video[q] /\ picture'[q] = picture[q]
      BY <1>1, <2>1, <2>6
    <3> QED
      BY <1>2, <1>4, <3>1 DEF ScreenInv, PixelKept, mice
  <2> QED
    BY <1>4, <2>2, <2>4, <2>5, <2>6 DEF ScreenInv
<1>6. CASE p \notin mine.clip
  <2>1. /\ pen' = [pen EXCEPT ![current] = Lifted(rest)]
        /\ UNCHANGED <<video, picture>>
    BY <1>6 DEF WritePixel
  <2>2. /\ DOMAIN pen' = Process
        /\ \A q \in Process \ {current} : pen'[q] = pen[q]
        /\ pen'[current] = [todo |-> pen'[current].todo, clip |-> pen'[current].clip,
                            at |-> pen'[current].at, colour |-> pen'[current].colour]
        /\ pen'[current].at = {} /\ pen'[current].clip \in {{}, pen[current].clip}
    <3>0. rest = [todo |-> rest.todo, clip |-> rest.clip, at |-> rest.at,
                  colour |-> rest.colour]
      BY <1>3
    <3>1. PICK todo, clip, colour :
            /\ Lifted(rest) = [todo |-> todo, clip |-> clip, at |-> {}, colour |-> colour]
            /\ clip \in {{}, rest.clip}
      BY ONLY <3>0, LiftedFacts
    <3>2. /\ DOMAIN pen' = Process
          /\ \A q \in Process \ {current} : pen'[q] = pen[q]
          /\ pen'[current] = Lifted(rest)
      BY <1>1, <2>1
    <3> QED
      BY <1>3, <3>1, <3>2
  <2>3. /\ ScreenShapes' /\ Clips'
        /\ \A q \in Process \ {current} : pen'[q].at = {}
    BY <1>1, <1>4, <2>1, <2>2, PenInv DEF mice
  <2>4. OneHalf'
    BY <1>4, <2>2, <2>3 DEF OneHalf
  <2>5. \A q \in Pixel : PixelKept(q)'
    BY <1>2, <1>4, <2>1 DEF ScreenInv, PixelKept, mice
  <2> QED
    BY <1>4, <2>3, <2>4, <2>5 DEF ScreenInv
<1> QED
  BY <1>5, <1>6

\* A pixel and its place in the square around the mouse.
LEMMA PlaceInSquare ==
  ASSUME NEW m \in Int \X Int
  PROVE  /\ \A p, q \in Pixel : Minus(p, m) = Minus(q, m) => p = q
         /\ \A p \in Pixel : Plus(m, Minus(p, m)) = p
<1>1. ASSUME NEW p \in Pixel
      PROVE  p = <<p[1], p[2]>> /\ p[1] \in Int /\ p[2] \in Int
  BY ScreenAssumption DEF Pixel
<1>2. m[1] \in Int /\ m[2] \in Int
  OBVIOUS
<1>3. ASSUME NEW p \in Pixel, NEW q \in Pixel, Minus(p, m) = Minus(q, m)
      PROVE  p = q
  <2>1. p[1] - m[1] = q[1] - m[1] /\ p[2] - m[2] = q[2] - m[2]
    BY <1>3 DEF Minus
  <2>2. p[1] = q[1] /\ p[2] = q[2]
    BY <2>1, <1>1, <1>2
  <2> QED
    BY <2>2, <1>1
<1>4. ASSUME NEW p \in Pixel PROVE Plus(m, Minus(p, m)) = p
  <2>1. m[1] + (p[1] - m[1]) = p[1] /\ m[2] + (p[2] - m[2]) = p[2]
    BY <1>1, <1>2
  <2>2. Plus(m, Minus(p, m)) = <<p[1], p[2]>>
    BY <2>1 DEF Plus, Minus
  <2> QED
    BY <2>2, <1>1
<1> QED
  BY <1>3, <1>4

\* Its second half: the pixel under the pointer, which lies on it again.
LEMMA PixelUnderInv ==
  ASSUME ScreenInv, PixelUnder, PointerFits(MOUSE_SIDE_2)
  PROVE  ScreenInv'
<1>1. /\ current \in Process /\ DOMAIN pen = Process /\ mouse \in Int \X Int
      /\ DOMAIN video = Pixel /\ DOMAIN picture = Pixel /\ DOMAIN mouse_draw_buffer = Area
      /\ pen[current] = [todo |-> pen[current].todo, clip |-> pen[current].clip,
                         at |-> pen[current].at, colour |-> pen[current].colour]
  BY DEF ScreenInv, ScreenShapes
<1>2. PICK p \in Pixel : /\ mine.at = {p}
                         /\ video[p] = mine.colour /\ picture[p] = mine.colour
  BY DEF ScreenInv, OneHalf, PixelUnder, mine
<1>3. /\ UNCHANGED <<mouse, mouse_cycle, mouse_byte, current, window, picture>>
      /\ pen' = [pen EXCEPT ![current] = Lifted(pen[current])]
      /\ IF Minus(p, mouse) \in Area
         THEN /\ mouse_draw_buffer' =
                   [mouse_draw_buffer EXCEPT ![Minus(p, mouse)] = mine.colour]
              /\ video' = WithPointer(video, mouse)
         ELSE UNCHANGED <<mouse_draw_buffer, video>>
  BY <1>2 DEF PixelUnder
<1>4. DOMAIN video' = Pixel /\ DOMAIN mouse_draw_buffer' = Area
  BY <1>1, <1>3 DEF WithPointer
<1>5. /\ ScreenShapes' /\ Clips'
      /\ pen'[current].at = {}
      /\ \A q \in Process \ {current} : pen'[q].at = {}
  <2>1. PICK todo, clip, colour :
          /\ Lifted(pen[current])
               = [todo |-> todo, clip |-> clip, at |-> {}, colour |-> colour]
          /\ clip \in {{}, pen[current].clip}
    BY <1>1, LiftedFacts
  <2>2. /\ DOMAIN pen' = Process
        /\ \A q \in Process \ {current} : pen'[q] = pen[q]
        /\ pen'[current] = Lifted(pen[current])
    BY <1>1, <1>3
  <2>3. /\ pen'[current] = [todo |-> pen'[current].todo, clip |-> pen'[current].clip,
                            at |-> pen'[current].at, colour |-> pen'[current].colour]
        /\ pen'[current].at = {} /\ pen'[current].clip \in {{}, pen[current].clip}
    BY <2>1, <2>2
  <2> QED
    BY <1>1, <1>3, <1>4, <2>2, <2>3, PenInv
<1>6. OneHalf'
  BY <1>3, <1>5 DEF OneHalf
<1>7. PointerShape \subseteq Area
  BY DEF PointerFits, PointerShape, Area
<1>8. \A q \in Pixel : q # p => PixelKept(q)
  BY <1>2 DEF ScreenInv, mine
<1>9. ASSUME NEW q \in Pixel PROVE PixelKept(q)'
  <2>1. CASE Minus(p, mouse) \in Area
    <3>1. /\ mouse_draw_buffer'[Minus(p, mouse)] = mine.colour
          /\ \A a \in Area : a # Minus(p, mouse) => mouse_draw_buffer'[a] = mouse_draw_buffer[a]
          /\ video'[q] = IF Minus(q, mouse) \in PointerShape THEN Green ELSE video[q]
      BY <1>1, <1>3, <2>1 DEF WithPointer
    <3>2. CASE q = p
      BY <1>2, <1>3, <2>1, <3>1, <3>2 DEF PixelKept
    <3>3. CASE q # p
      <4>1. Minus(q, mouse) # Minus(p, mouse)
        BY <1>1, <3>3, PlaceInSquare
      <4> QED
        BY <1>3, <1>8, <3>1, <3>3, <4>1 DEF PixelKept
    <3> QED
      BY <3>2, <3>3
  <2>2. CASE Minus(p, mouse) \notin Area
    <3>1. CASE q = p
      BY <1>2, <1>3, <1>7, <2>2, <3>1 DEF PixelKept
    <3>2. CASE q # p
      BY <1>3, <1>8, <2>2, <3>2 DEF PixelKept
    <3> QED
      BY <3>1, <3>2
  <2> QED
    BY <2>1, <2>2
<1> QED
  BY <1>5, <1>6, <1>9 DEF ScreenInv

\* The next process finds no pixel half drawn.
LEMMA SwitchInv ==
  ASSUME ScreenInv, ~MidPixel, NEW p \in Process, Switch(p)
  PROVE  ScreenInv'
<1>1. /\ current' = p /\ pen[current].at = {}
      /\ UNCHANGED <<video, mice, window, pen, picture>>
  BY DEF Switch, MayInterrupt, mine
<1>2. \A q \in Process : pen[q].at = {}
  BY <1>1 DEF ScreenInv, OneHalf
<1>3. ScreenShapes'
  BY <1>1 DEF ScreenInv, ScreenShapes, mice
<1>4. Clips'
  BY <1>1 DEF ScreenInv, Clips
<1>5. OneHalf'
  BY <1>1, <1>2 DEF OneHalf
<1>6. \A q \in Pixel : PixelKept(q)'
  BY <1>1 DEF ScreenInv, PixelKept, mice
<1> QED
  BY <1>3, <1>4, <1>5, <1>6 DEF ScreenInv

\* The first two bytes of a packet change nothing on the screen.
LEMMA MouseByteInv ==
  ASSUME ScreenInv, NEW b \in Move, MouseByte(b)
  PROVE  ScreenInv'
<1>1. UNCHANGED <<video, mouse, mouse_draw_buffer, current, window, pen, picture>>
  BY DEF MouseByte
<1>2. mouse_byte' \in Int
  BY ScreenAssumption DEF MouseByte
<1>3. ScreenShapes'
  BY <1>1, <1>2 DEF ScreenInv, ScreenShapes
<1>4. Clips'
  BY <1>1 DEF ScreenInv, Clips
<1>5. OneHalf'
  BY <1>1 DEF ScreenInv, OneHalf
<1>6. \A q \in Pixel \ pen[current].at : PixelKept(q)'
  BY <1>1 DEF ScreenInv, PixelKept
<1> QED
  BY <1>1, <1>3, <1>4, <1>5, <1>6 DEF ScreenInv

\* What graphics_mouse puts back is the picture.
LEMMA RestoredPicture ==
  ASSUME ScreenInv, pen[current].at = {}, PointerFits(MOUSE_SIDE_2), NEW p \in Pixel
  PROVE  Restored(video, mouse, mouse_draw_buffer)[p] = picture[p]
<1>1. PixelKept(p)
  BY DEF ScreenInv
<1>2. PointerShape \subseteq Area
  BY DEF PointerFits, PointerShape, Area
<1> QED
  BY <1>1, <1>2 DEF Restored, PixelKept

\* The third moves the pointer.
LEMMA MouseMovesInv ==
  ASSUME ScreenInv, ~MidPixel, PointerFits(MOUSE_SIDE_2), NEW b \in Move, MouseMoves(b)
  PROVE  ScreenInv'
<1>1. /\ pen[current].at = {}
      /\ mouse_byte' = 0
      /\ UNCHANGED <<current, window, pen, picture>>
  BY DEF MouseMoves, MayInterrupt, mine
<1> PICK m : m = <<Clamped(mouse[1] + mouse_byte, XRes), Clamped(mouse[2] - b, YRes)>>
  OBVIOUS
<1>2. m \in Int \X Int
  <2>1. \A n \in Int, res \in Nat : Clamped(n, res) \in Int
    BY DEF Clamped
  <2>2. mouse[1] + mouse_byte \in Int /\ mouse[2] - b \in Int
    BY ScreenAssumption DEF ScreenInv, ScreenShapes
  <2> QED
    BY <2>1, <2>2, ScreenAssumption
<1>3. /\ mouse' = m
      /\ IF m # mouse
         THEN /\ mouse_draw_buffer' = Saved(Restored(video, mouse, mouse_draw_buffer), m)
              /\ video' = WithPointer(Restored(video, mouse, mouse_draw_buffer), m)
         ELSE UNCHANGED <<mouse_draw_buffer, video>>
  BY DEF MouseMoves, Kept
<1>4. DOMAIN video' = Pixel /\ DOMAIN mouse_draw_buffer' = Area
  BY <1>3 DEF WithPointer, Saved, ScreenInv, ScreenShapes
<1>5. ScreenShapes'
  BY <1>1, <1>2, <1>3, <1>4 DEF ScreenInv, ScreenShapes
<1>6. Clips'
  BY <1>1 DEF ScreenInv, Clips
<1>7. OneHalf'
  BY <1>1 DEF ScreenInv, OneHalf
<1>8. ASSUME NEW p \in Pixel PROVE PixelKept(p)'
  <2>1. CASE m = mouse
    <3>1. mouse' = mouse /\ UNCHANGED <<mouse_draw_buffer, video>>
      BY <1>3, <2>1
    <3> QED
      BY <1>1, <3>1 DEF ScreenInv, PixelKept
  <2>2. CASE m # mouse
    <3> PICK v : v = Restored(video, mouse, mouse_draw_buffer)
      OBVIOUS
    <3>1. v[p] = picture[p]
      BY <1>1, RestoredPicture
    <3>2. mouse_draw_buffer' = Saved(v, m) /\ video' = WithPointer(v, m)
      BY <1>3, <2>2
    <3>3. video'[p] = IF Minus(p, m) \in PointerShape THEN Green ELSE picture[p]
      BY <3>1, <3>2 DEF WithPointer
    <3>4. ASSUME Minus(p, m) \in Area PROVE mouse_draw_buffer'[Minus(p, m)] = picture[p]
      <4>1. Plus(m, Minus(p, m)) = p
        BY <1>2, PlaceInSquare
      <4> QED
        BY <3>1, <3>2, <3>4, <4>1 DEF Saved
    <3> QED
      BY <1>1, <1>3, <3>3, <3>4 DEF PixelKept
  <2> QED
    BY <2>1, <2>2
<1> QED
  BY <1>1, <1>5, <1>6, <1>7, <1>8 DEF ScreenInv

\* ScreenInv holds throughout, while no interrupt falls inside plot_pixel and the
\* pointer fits the square that is saved for it.
THEOREM ScreenInvariant ==
  ASSUME ~MidPixel, PointerFits(MOUSE_SIDE_2)
  PROVE  ScreenSpec => []ScreenInv
<1>1. ScreenInv /\ [ScreenNext]_screenVars => ScreenInv'
  <2> SUFFICES ASSUME ScreenInv, [ScreenNext]_screenVars PROVE ScreenInv'
    OBVIOUS
  <2>1. CASE UNCHANGED screenVars
    <3>1. UNCHANGED <<video, mouse, mouse_draw_buffer, mouse_byte, current, window, pen,
                      picture>>
      BY <2>1 DEF screenVars, mice
    <3>2. ScreenShapes'
      BY <3>1 DEF ScreenInv, ScreenShapes
    <3>3. Clips'
      BY <3>1 DEF ScreenInv, Clips
    <3>4. OneHalf'
      BY <3>1 DEF ScreenInv, OneHalf
    <3>5. \A p \in Pixel \ pen[current].at : PixelKept(p)'
      BY <3>1 DEF ScreenInv, PixelKept
    <3> QED
      BY <3>1, <3>2, <3>3, <3>4, <3>5 DEF ScreenInv
  <2>2. CASE ScreenNext
    <3>1. ASSUME \/ \E f \in Frame : CreateWindow(f)
                 \/ \E s \in Stroke : DrawLine(s)
                 \/ \E at \in Spot : DrawChar(at)
                 \/ \E arc \in Arc : DrawArc(arc)
                 \/ Clear \/ SetBorderColor
          PROVE  ScreenInv'
      BY <3>1, DrawingInv
    <3>2. ASSUME WritePixel PROVE ScreenInv'
      BY <3>2, WritePixelInv
    <3>3. ASSUME PixelUnder PROVE ScreenInv'
      BY <3>3, PixelUnderInv
    <3>4. ASSUME NEW p \in Process, Switch(p) PROVE ScreenInv'
      BY <3>4, SwitchInv
    <3>5. ASSUME NEW b \in Move, MouseByte(b) PROVE ScreenInv'
      BY <3>5, MouseByteInv
    <3>6. ASSUME NEW b \in Move, MouseMoves(b) PROVE ScreenInv'
      BY <3>6, MouseMovesInv
    <3> QED
      BY <2>2, <3>1, <3>2, <3>3, <3>4, <3>5, <3>6 DEF ScreenNext
  <2> QED
    BY <2>1, <2>2
<1> QED
  BY <1>1, ScreenInitInv, PTL DEF ScreenSpec

\* graphics.c and mouse.c: the pointer lies over the picture and never changes it,
\* wherever the mouse goes and whoever draws in between.
THEOREM ScreenPictureKept ==
  ASSUME ~MidPixel, PointerFits(MOUSE_SIDE_2), PointerFits(POINTER_SIDE_2)
  PROVE  ScreenSpec => []PictureKept
<1>1. ScreenInv => PictureKept
  <2> SUFFICES ASSUME ScreenInv PROVE PictureKept
    OBVIOUS
  <2>1. PointerSaved
    <3> SUFFICES ASSUME NEW d \in PointerDrawn
                 PROVE  /\ Abs(Plus(mouse, d)[1] - mouse[1]) < POINTER_SIDE_2
                        /\ Abs(Plus(mouse, d)[2] - mouse[2]) < POINTER_SIDE_2
      BY DEF PointerSaved
    <3>1. /\ d[1] \in 1 - POINTER_SIDE_2 .. POINTER_SIDE_2 - 1
          /\ d[2] \in 1 - POINTER_SIDE_2 .. POINTER_SIDE_2 - 1
      BY DEF PointerFits, PointerDrawn
    <3>2. mouse[1] \in Int /\ mouse[2] \in Int
      BY DEF ScreenInv, ScreenShapes
    <3>3. Plus(mouse, d)[1] = mouse[1] + d[1] /\ Plus(mouse, d)[2] = mouse[2] + d[2]
      BY DEF Plus
    <3>4. \A n, a \in Int : (n + a) - n = a
      OBVIOUS
    <3>5. POINTER_SIDE_2 \in Int
      BY ScreenAssumption
    <3>6. \A s \in Int : \A a \in 1 - s .. s - 1 : Abs(a) < s
      BY DEF Abs
    <3> QED
      BY <3>1, <3>2, <3>3, <3>4, <3>5, <3>6
  <2>2. pen[current].at \subseteq HalfDrawn
    BY DEF HalfDrawn, ScreenInv, ScreenShapes
  <2>3. \A p \in Pixel \ HalfDrawn : PixelKept(p)
    BY <2>2 DEF ScreenInv
  <2> QED
    BY <2>1, <2>3 DEF PictureKept, PixelKept
<1> QED
  BY <1>1, ScreenInvariant, PTL

\* The clipping of window.c, for every window and screen: no drawing left of the
\* window or above it, nor past its other edges by more than its distance from the
\* corner.
THEOREM ScreenNearWindow ==
  ASSUME ~MidPixel, PointerFits(MOUSE_SIDE_2)
  PROVE  ScreenSpec => NearWindow
<1>1. ASSUME ScreenInv, [ScreenNext]_screenVars, NEW p \in Pixel,
             picture'[p] # picture[p], mine.clip # Pixel
      PROVE  LET w == window[current]
             IN p \in Rect(w.x, w.y, w.width + w.x + 1, w.height + w.y + 1)
  <2>1. WritePixel
    <3>1. picture' # picture
      BY <1>1
    <3> QED
      BY <1>1, <3>1
      DEF ScreenNext, screenVars, CreateWindow, DrawLine, DrawChar, DrawArc, Clear,
          SetBorderColor, Draws, PixelUnder, Switch, MouseByte, MouseMoves
  <2>2. p \in mine.clip
    <3>1. NextPixel \in mine.clip /\ picture' = [picture EXCEPT ![NextPixel] = mine.todo[NextPixel]]
      BY <1>1, <2>1 DEF WritePixel
    <3> QED
      BY <1>1, <3>1
  <2>3. current \in Process /\ mine = pen[current]
    BY <1>1 DEF ScreenInv, ScreenShapes, mine
  <2>4. p \in window[current].bounds /\ window[current] # NoWindow
    BY <1>1, <2>2, <2>3 DEF ScreenInv, Clips, NoWindow
  <2>5. PICK f \in Frame :
          window[current] = [x |-> f[1], y |-> f[2], width |-> f[3],
                             height |-> f[4], bounds |-> Bounds(f)]
    BY <1>1, <2>3, <2>4 DEF ScreenInv, Clips
  <2>6. p \in Bounds(f)
    BY <2>4, <2>5
  <2>7. /\ f[1] \in Int /\ f[2] \in Int /\ f[3] \in Int /\ f[4] \in Int
    BY ScreenAssumption
  <2>8. \A r, a, n \in Int :
          Most(0, a) .. Least(r, a + (n + a)) \subseteq a .. a + (n + a + 1) - 1
    BY DEF Most, Least
  <2>9. Bounds(f) \subseteq Rect(f[1], f[2], f[3] + f[1] + 1, f[4] + f[2] + 1)
    BY <2>7, <2>8, ScreenAssumption DEF Bounds, Rect
  <2> QED
    BY <2>5, <2>6, <2>9
<1>2. ScreenInv /\ [ScreenNext]_screenVars
        => [\A p \in Pixel : picture'[p] # picture[p] /\ mine.clip # Pixel =>
              LET w == window[current] IN
              p \in Rect(w.x, w.y, w.width + w.x + 1, w.height + w.y + 1)]_screenVars
  BY <1>1
<1> QED
  BY <1>2, ScreenInvariant, PTL DEF ScreenSpec, NearWindow

\* The pointer of mouse.h, MOUSE_SIDE_2 = 15, fits the square that is saved for it.
THEOREM MousePointerFits == PointerFits(15)
<1>0. /\ \A n \in Int : n < 0 => SignOf(n) = -1 /\ Abs(n) = 0 - n
      /\ \A n \in Int : n >= 0 => SignOf(n) = 1 /\ Abs(n) = n
  BY DEF SignOf, Abs
<1> DEFINE Square == (1 - 15 .. 15 - 1) \X (1 - 15 .. 15 - 1)
<1>1. Line(0, 0, 5, 12) \subseteq Square
  <2>1. Line(0, 0, 5, 12) = LineRight(0, 0, 5, 12)
    BY DEF Line
  <2>2. SignOf(12) = 1 /\ Abs(12) = 12
    BY <1>0
  <2>3. ASSUME NEW n \in 0 .. 5,
               NEW k \in Steps(n, 5, 12)
                           .. Most(Steps(n, 5, 12), Steps(n + 1, 5, 12) - 1)
        PROVE  <<0 + n, 0 + SignOf(12) * k>> \in Square
    <3>1. k \in 0 .. 13
      BY <2>2 DEF Steps, Most
    <3> QED
      BY <2>2, <3>1
  <2> QED
    BY <2>1, <2>3 DEF LineRight
<1>2. Line(0, 0, 14, 5) \subseteq Square
  <2>1. Line(0, 0, 14, 5) = LineRight(0, 0, 14, 5)
    BY DEF Line
  <2>2. SignOf(5) = 1 /\ Abs(5) = 5
    BY <1>0
  <2>3. ASSUME NEW n \in 0 .. 14,
               NEW k \in Steps(n, 14, 5)
                           .. Most(Steps(n, 14, 5), Steps(n + 1, 14, 5) - 1)
        PROVE  <<0 + n, 0 + SignOf(5) * k>> \in Square
    <3>1. k \in 0 .. 5
      BY <2>2 DEF Steps, Most
    <3> QED
      BY <2>2, <3>1
  <2> QED
    BY <2>1, <2>3 DEF LineRight
<1>3. Line(5, 14, 7, 10) \subseteq Square
  <2>1. Line(5, 14, 7, 10) = LineRight(5, 14, 2, 10 - 14)
    BY DEF Line
  <2>2. SignOf(10 - 14) = -1 /\ Abs(10 - 14) = 4
    BY <1>0
  <2>3. ASSUME NEW n \in 0 .. 2,
               NEW k \in Steps(n, 2, 10 - 14)
                           .. Most(Steps(n, 2, 10 - 14), Steps(n + 1, 2, 10 - 14) - 1)
        PROVE  <<5 + n, 14 + SignOf(10 - 14) * k>> \in Square
    <3>1. k \in 0 .. 5
      BY <2>2 DEF Steps, Most
    <3> QED
      BY <2>2, <3>1
  <2> QED
    BY <2>1, <2>3 DEF LineRight
<1>4. Line(14, 5, 10, 7) \subseteq Square
  <2>1. Line(14, 5, 10, 7) = LineRight(10, 7, 4, 5 - 7)
    BY DEF Line
  <2>2. SignOf(5 - 7) = -1 /\ Abs(5 - 7) = 2
    BY <1>0
  <2>3. ASSUME NEW n \in 0 .. 4,
               NEW k \in Steps(n, 4, 5 - 7)
                           .. Most(Steps(n, 4, 5 - 7), Steps(n + 1, 4, 5 - 7) - 1)
        PROVE  <<10 + n, 7 + SignOf(5 - 7) * k>> \in Square
    <3>1. k \in 0 .. 2
      BY <2>2 DEF Steps, Most
    <3> QED
      BY <2>2, <3>1
  <2> QED
    BY <2>1, <2>3 DEF LineRight
<1>5. Line(7, 10, 10, 14) \subseteq Square
  <2>1. Line(7, 10, 10, 14) = LineRight(7, 10, 3, 4)
    BY DEF Line
  <2>2. SignOf(4) = 1 /\ Abs(4) = 4
    BY <1>0
  <2>3. ASSUME NEW n \in 0 .. 3,
               NEW k \in Steps(n, 3, 4)
                           .. Most(Steps(n, 3, 4), Steps(n + 1, 3, 4) - 1)
        PROVE  <<7 + n, 10 + SignOf(4) * k>> \in Square
    <3>1. k \in 0 .. 4
      BY <2>2 DEF Steps, Most
    <3> QED
      BY <2>2, <3>1
  <2> QED
    BY <2>1, <2>3 DEF LineRight
<1>6. Line(10, 7, 14, 10) \subseteq Square
  <2>1. Line(10, 7, 14, 10) = LineRight(10, 7, 4, 3)
    BY DEF Line
  <2>2. SignOf(3) = 1 /\ Abs(3) = 3
    BY <1>0
  <2>3. ASSUME NEW n \in 0 .. 4,
               NEW k \in Steps(n, 4, 3)
                           .. Most(Steps(n, 4, 3), Steps(n + 1, 4, 3) - 1)
        PROVE  <<10 + n, 7 + SignOf(3) * k>> \in Square
    <3>1. k \in 0 .. 3
      BY <2>2 DEF Steps, Most
    <3> QED
      BY <2>2, <3>1
  <2> QED
    BY <2>1, <2>3 DEF LineRight
<1>7. Line(10, 14, 14, 10) \subseteq Square
  <2>1. Line(10, 14, 14, 10) = LineRight(10, 14, 4, 10 - 14)
    BY DEF Line
  <2>2. SignOf(10 - 14) = -1 /\ Abs(10 - 14) = 4
    BY <1>0
  <2>3. ASSUME NEW n \in 0 .. 4,
               NEW k \in Steps(n, 4, 10 - 14)
                           .. Most(Steps(n, 4, 10 - 14), Steps(n + 1, 4, 10 - 14) - 1)
        PROVE  <<10 + n, 14 + SignOf(10 - 14) * k>> \in Square
    <3>1. k \in 0 .. 4
      BY <2>2 DEF Steps, Most
    <3> QED
      BY <2>2, <3>1
  <2> QED
    BY <2>1, <2>3 DEF LineRight
<1>8. /\ 15 \div 3 = 5 /\ 15 - 3 = 12 /\ 15 - 1 = 14 /\ 15 \div 2 = 7
      /\ (2 * 15) \div 3 = 10
  OBVIOUS
<1>9. Pointer(15)
        = Line(0, 0, 5, 12) \cup Line(0, 0, 14, 5) \cup Line(5, 14, 7, 10)
          \cup Line(14, 5, 10, 7) \cup Line(7, 10, 10, 14) \cup Line(10, 7, 14, 10)
          \cup Line(10, 14, 14, 10)
  BY <1>8 DEF Pointer, Edge
<1> QED
  BY <1>1, <1>2, <1>3, <1>4, <1>5, <1>6, <1>7, <1>9 DEF PointerFits
=============================================================================
