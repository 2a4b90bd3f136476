------------------------- MODULE AddressSpaceProofs -------------------------
(***************************************************************************)
(* Pages are private, for any number of pages, processes and tables, as    *)
(* long as no interrupt arrives inside memory_alloc_page.                  *)
(***************************************************************************)
EXTENDS AddressSpace, TLAPS

PageOrNone == Page \cup {None}

Places == [Proc -> [Part -> PageOrNone]]

\* PrivatePages of a free map, a heap and an assignment of pages.
Private(f, h, a) ==
    /\ \A p, q \in Proc : \A x, y \in Part :
         a[p][x] # None /\ a[p][x] = a[q][y] => p = q /\ x = y
    /\ \A p \in Proc : \A x \in Part : a[p][x] # None => a[p][x] \notin f \cup h
    /\ h \cap f = {}

\* A page that has been found is still free, and is for a child's next part.
FoundIsFree ==
    \A p \in Proc : found[p] # None =>
        found[p] \in free /\ making[p] \in Proc /\ todo[p] # <<>>

\* Nobody else is inside memory_alloc_page.
OneFinds == \A p, q \in Proc : found[p] # None /\ found[q] # None => p = q

\* Whoever has parts to allocate makes a child.
TodoForChild == \A p \in Proc : todo[p] # <<>> => making[p] \in Proc

Inv ==
    /\ SpaceTypeOK
    /\ PrivatePages
    /\ FoundIsFree
    /\ OneFinds
    /\ TodoForChild
-----------------------------------------------------------------------------
\* The parts are what they are made to be.
LEMMA PartFacts ==
    /\ {Struct, Directory, KernelStack} \subseteq Part
    /\ \A i \in Index : Table(i) \in Part
    /\ \A i \in UserIndex, j \in Index : Memory(i, j) \in Part
    /\ \A i, j : Memory(i, j) # Table(i)
    /\ UserIndex \subseteq Index
BY AddressSpaceAssumption
DEF Part, Struct, Directory, KernelStack, Table, Memory, Index, UserIndex

\* A page that was free and goes to one place is private there.
LEMMA TakeFacts ==
    ASSUME NEW f \in SUBSET Page, NEW h \in SUBSET Page, NEW a \in Places,
           NEW p \in Proc, NEW x \in Part, NEW page \in f,
           Private(f, h, a)
    PROVE  /\ [a EXCEPT ![p][x] = page] \in Places
           /\ Private(f \ {page}, h, [a EXCEPT ![p][x] = page])
<1> DEFINE b == [a EXCEPT ![p][x] = page]
<1>1. page \in Page /\ page # None
  BY AddressSpaceAssumption
<1>2. b \in Places
  BY <1>1 DEF Places, PageOrNone
<1>3. /\ b[p][x] = page
      /\ \A q \in Proc : \A y \in Part :
            ~(q = p /\ y = x) => b[q][y] = a[q][y]
  BY DEF Places
<1>4. \A q \in Proc : \A y \in Part : a[q][y] # page
  BY <1>1 DEF Private
<1> HIDE DEF b
<1>5. Private(f \ {page}, h, b)
  BY <1>1, <1>3, <1>4 DEF Private
<1> QED
  BY <1>2, <1>5 DEF b

\* The pages of p, and no others, can be given back when p is forgotten.
LEMMA GiveBackFacts ==
    ASSUME NEW f \in SUBSET Page, NEW h \in SUBSET Page, NEW a \in Places,
           NEW p \in Proc, NEW g,
           \A page \in g : page # None /\ \E x \in Part : a[p][x] = page,
           Private(f, h, a)
    PROVE  /\ f \cup g \in SUBSET Page
           /\ [a EXCEPT ![p] = NoParts] \in Places
           /\ Private(f \cup g, h, [a EXCEPT ![p] = NoParts])
<1> DEFINE b == [a EXCEPT ![p] = NoParts]
<1>1. g \subseteq Page
  BY DEF Places, PageOrNone
<1>2. NoParts \in [Part -> PageOrNone]
  BY DEF NoParts, PageOrNone
<1>3. b \in Places
  BY <1>2 DEF Places
<1>4. /\ \A x \in Part : b[p][x] = None
      /\ \A q \in Proc \ {p} : b[q] = a[q]
  BY DEF Places, NoParts
<1> HIDE DEF b
<1>5. \A q \in Proc \ {p} : \A y \in Part : a[q][y] # None => a[q][y] \notin g
  BY DEF Private
<1>6. h \cap g = {}
  BY DEF Private
<1>7. Private(f \cup g, h, b)
  BY <1>4, <1>5, <1>6 DEF Private
<1> QED
  BY <1>1, <1>3, <1>7 DEF b

\* What process_cleanup gives back are pages of the process.
LEMMA GivenBackFacts ==
    ASSUME NEW p \in Proc
    PROVE  \A page \in GivenBack(p) :
               page # None /\ \E x \in Part : at[p][x] = page
BY DEF GivenBack, Has

\* The plan of process_create is a sequence of parts.
LEMMA PlanType == Plan \in Seq(Part)
<1>1. <<Struct, Directory>> \in Seq(Part)
  BY PartFacts
<1>2. [k \in 1 .. KernelTables |-> Table(k - 1)] \in Seq(Part)
  <2>1. \A k \in 1 .. KernelTables : k - 1 \in Index
    BY AddressSpaceAssumption DEF Index
  <2> QED
    BY <2>1, PartFacts, AddressSpaceAssumption
<1>3. [k \in 1 .. Len(Image) |-> Memory(Image[k][1], Image[k][2])] \in Seq(Part)
  <2>1. Len(Image) \in Nat
    BY AddressSpaceAssumption
  <2>2. \A k \in 1 .. Len(Image) : Image[k] \in UserIndex \X Index
    BY AddressSpaceAssumption DEF Address
  <2>3. \A k \in 1 .. Len(Image) : Memory(Image[k][1], Image[k][2]) \in Part
    BY <2>2, PartFacts
  <2> QED
    BY <2>1, <2>3
<1>4. <<KernelStack>> \in Seq(Part)
  BY PartFacts
<1> HIDE DEF Part
<1> QED
  BY <1>1, <1>2, <1>3, <1>4 DEF Plan
-----------------------------------------------------------------------------
\* After boot the kernel and the heap have their pages, the free map the rest.
LEMMA InitInv == SpaceInit => Inv
<1> SUFFICES ASSUME SpaceInit PROVE Inv
  OBVIOUS
<1> USE AddressSpaceAssumption
<1> DEFINE rootAt ==
        [x \in Part |->
            CASE x = Struct -> 0
              [] x = Directory -> 1
              [] x = KernelStack -> 2 + KernelTables
              [] x[1] = "table" /\ x[2] < KernelTables -> 2 + x[2]
              [] OTHER -> None]
<1>1. at = [p \in Proc |-> IF p = Shell THEN rootAt ELSE NoParts]
  BY DEF SpaceInit
<1>2. \A x \in Part :
        \/ x = Struct /\ rootAt[x] = 0
        \/ x = Directory /\ rootAt[x] = 1
        \/ x = KernelStack /\ rootAt[x] = 2 + KernelTables
        \/ \E i \in Index : /\ x = Table(i)
                            /\ i < KernelTables
                            /\ rootAt[x] = 2 + i
        \/ rootAt[x] = None
  <2> SUFFICES ASSUME NEW x \in Part, x \notin {Struct, Directory, KernelStack}
               PROVE  \/ \E i \in Index : /\ x = Table(i)
                                          /\ i < KernelTables
                                          /\ rootAt[x] = 2 + i
                      \/ rootAt[x] = None
    BY DEF Struct, Directory, KernelStack
  <2>1. CASE \E i \in Index : x = Table(i)
    <3>1. PICK i \in Index : x = Table(i)
      BY <2>1
    <3>2. x[1] = "table" /\ x[2] = i
      BY <3>1 DEF Table
    <3> QED
      BY <3>1, <3>2
  <2>2. CASE \E i \in UserIndex, j \in Index : x = Memory(i, j)
    <3>1. x[1] = "memory"
      BY <2>2 DEF Memory
    <3> QED
      BY <3>1
  <2> QED
    BY <2>1, <2>2 DEF Part
<1> HIDE DEF rootAt
<1>3. \A x \in Part : rootAt[x] # None => rootAt[x] \in Page \ free
  <2>1. free = 3 + KernelTables .. PageCount - 1
    BY DEF SpaceInit
  <2> HIDE DEF Part
  <2> SUFFICES ASSUME NEW x \in Part, rootAt[x] # None
               PROVE  rootAt[x] \in 0 .. 2 + KernelTables
    BY <2>1 DEF Page
  <2>2. \A i \in Index : i \in Nat
    BY DEF Index
  <2> QED
    BY <1>2, <2>2
<1>4. \A x, y \in Part : rootAt[x] # None /\ rootAt[x] = rootAt[y] => x = y
  <2> HIDE DEF Part
  <2> QED
    BY <1>2 DEF Index
<1>5. rootAt \in [Part -> Page \cup {None}]
  <2>1. \A x \in Part : rootAt[x] \in Page \cup {None}
    BY <1>3
  <2> QED
    BY <2>1 DEF rootAt
<1>6. NoParts \in [Part -> Page \cup {None}]
  BY DEF NoParts
<1>7. SpaceTypeOK
  BY <1>1, <1>5, <1>6 DEF SpaceInit, SpaceTypeOK, Page
<1>8. PrivatePages
  <2>1. \A p \in Proc : \A x \in Part :
           at[p][x] # None => p = Shell /\ at[p][x] = rootAt[x]
    BY <1>1 DEF NoParts
  <2>2. heap = {}
    BY DEF SpaceInit
  <2> HIDE DEF Part
  <2>3. \A p, q \in Proc : \A x, y \in Part :
           at[p][x] # None /\ at[p][x] = at[q][y] => p = q /\ x = y
    BY <2>1, <1>4
  <2>4. \A p \in Proc : \A x \in Part : at[p][x] # None => at[p][x] \notin free
    BY <2>1, <1>3
  <2> QED
    BY <2>2, <2>3, <2>4 DEF PrivatePages, Has
<1> QED
  BY <1>7, <1>8 DEF Inv, SpaceInit, FoundIsFree, OneFinds, TodoForChild
-----------------------------------------------------------------------------
\* sys_run begins process_create.
LEMMA RunCreateInv ==
    ASSUME NEW p \in Proc, NEW c \in Proc, Inv, ~Unprotected, CreateBegins(p, c)
    PROVE  Inv'
<1> USE DEF CreateBegins
<1>1. \A q \in Proc : found[q] = None
  BY DEF AtUserLevel, Calm
<1>2. SpaceTypeOK'
  <2> HIDE DEF Part, Page
  <2> QED
    BY PlanType DEF Inv, SpaceTypeOK
<1>3. PrivatePages'
  BY DEF Inv, PrivatePages, Has
<1>4. FoundIsFree' /\ OneFinds'
  BY <1>1 DEF FoundIsFree, OneFinds
<1>5. TodoForChild'
  BY DEF Inv, SpaceTypeOK, TodoForChild
<1> QED
  BY <1>2, <1>3, <1>4, <1>5 DEF Inv

\* memory_alloc_page finds a bit that is set.
LEMMA AllocFindInv ==
    ASSUME NEW p \in Proc, Inv, ~Unprotected, AllocFind(p)
    PROVE  Inv'
<1>1. PICK page \in Page :
        IsFirst(page, free) /\ found' = [found EXCEPT ![p] = page]
  BY DEF AllocFind
<1> USE DEF AllocFind
<1>2. \A q \in Proc : found[q] = None
  BY DEF Calm
<1>3. SpaceTypeOK'
  BY <1>1 DEF Inv, SpaceTypeOK
<1>4. PrivatePages'
  BY DEF Inv, PrivatePages, Has
<1>5. \A q \in Proc : found'[q] # None => q = p /\ found'[q] = page
  BY <1>1, <1>2 DEF Inv, SpaceTypeOK
<1>6. page \in free /\ making[p] \in Proc
  BY <1>1 DEF Inv, TodoForChild, IsFirst
<1>7. FoundIsFree'
  BY <1>5, <1>6 DEF FoundIsFree
<1>8. OneFinds'
  BY <1>5 DEF OneFinds
<1>9. TodoForChild'
  BY DEF Inv, TodoForChild
<1> QED
  BY <1>3, <1>4, <1>7, <1>8, <1>9 DEF Inv

\* What remains of a plan is a sequence of parts.
LEMMA AfterPartType ==
    ASSUME NEW p \in Proc, NEW c \in Proc, SpaceTypeOK, todo[p] # <<>>
    PROVE  Head(todo[p]) \in Part /\ AfterPart(p, c) \in Seq(Part)
<1> DEFINE x == Head(todo[p])
<1>1. todo[p] \in Seq(Part)
  BY DEF SpaceTypeOK
<1>2. x \in Part /\ Tail(todo[p]) \in Seq(Part)
  <2> HIDE DEF Part
  <2> QED
    BY <1>1
<1>3. x[1] = "memory" => Table(x[2]) \in Part
  <2>1. x \in {Struct, Directory, KernelStack} => x[1] # "memory"
    BY DEF Struct, Directory, KernelStack
  <2>2. \A i : x = Table(i) => x[1] # "memory"
    BY DEF Table
  <2>3. \A i, j : x = Memory(i, j) => x[2] = i
    BY DEF Memory
  <2> QED
    BY <1>2, <2>1, <2>2, <2>3, PartFacts DEF Part
<1> HIDE DEF Part
<1>4. x[1] = "memory" => <<Table(x[2])>> \o Tail(todo[p]) \in Seq(Part)
  BY <1>2, <1>3
<1> QED
  BY <1>2, <1>4 DEF AfterPart

\* It clears the bit; the page is the caller's.
LEMMA AllocTakeInv ==
    ASSUME NEW p \in Proc, Inv, AllocTake(p)
    PROVE  Inv'
<1> USE DEF AllocTake
<1> DEFINE x == Head(todo[p])
           c == making[p]
<1>1. c \in Proc /\ found[p] \in free /\ todo[p] # <<>>
  BY DEF Inv, FoundIsFree
<1>2. x \in Part /\ AfterPart(p, c) \in Seq(Part)
  BY <1>1, AfterPartType DEF Inv
<1>3. free \in SUBSET Page /\ heap \in SUBSET Page /\ at \in Places
  BY DEF Inv, SpaceTypeOK, Places, PageOrNone
<1>4. Private(free, heap, at)
  BY DEF Inv, PrivatePages, Private, Has
<1> HIDE DEF x, c
<1>5. at' = [at EXCEPT ![c][x] = found[p]] /\ free' = free \ {found[p]}
  BY DEF x, c
<1>6. at' \in Places /\ Private(free', heap, at')
  <2> HIDE DEF AllocTake
  <2>1. /\ [at EXCEPT ![c][x] = found[p]] \in Places
        /\ Private(free \ {found[p]}, heap, [at EXCEPT ![c][x] = found[p]])
    BY <1>1, <1>2, <1>3, <1>4, TakeFacts
  <2> QED
    BY <1>5, <2>1
<1>7. PrivatePages'
  BY <1>6 DEF PrivatePages, Private, Has
<1>8. SpaceTypeOK'
  <2> HIDE DEF Part, Page
  <2>1. todo' \in [Proc -> Seq(Part)]
    BY <1>2 DEF Inv, SpaceTypeOK, c
  <2> QED
    BY <1>3, <1>5, <1>6, <2>1 DEF Inv, SpaceTypeOK, Places, PageOrNone
<1>9. \A q \in Proc : found'[q] = None
  BY DEF Inv, OneFinds, SpaceTypeOK
<1>10. FoundIsFree' /\ OneFinds'
  BY <1>9 DEF FoundIsFree, OneFinds
<1>11. TodoForChild'
  BY <1>1 DEF Inv, SpaceTypeOK, TodoForChild, c
<1> QED
  BY <1>7, <1>8, <1>10, <1>11 DEF Inv

\* sys_run starts the child with all its pages.
LEMMA RunStartInv ==
    ASSUME NEW p \in Proc, Inv, ~Unprotected, CreateEnds(p)
    PROVE  Inv'
<1> USE DEF CreateEnds, Created
<1>1. \A q \in Proc : found[q] = None
  BY DEF Calm
<1>2. SpaceTypeOK'
  <2> HIDE DEF Part, Page
  <2> QED
    BY DEF Inv, SpaceTypeOK
<1>3. PrivatePages'
  BY DEF Inv, PrivatePages, Has
<1>4. FoundIsFree' /\ OneFinds'
  BY <1>1 DEF FoundIsFree, OneFinds
<1>5. TodoForChild'
  BY DEF Inv, SpaceTypeOK, TodoForChild
<1> QED
  BY <1>2, <1>3, <1>4, <1>5 DEF Inv

\* process_cleanup keeps pages private.
LEMMA CleanupFacts ==
    ASSUME NEW p \in Proc, Inv, ProcessCleanup(p), UNCHANGED heap
    PROVE  /\ free' \in SUBSET Page
           /\ at' \in Places
           /\ PrivatePages'
<1> USE DEF ProcessCleanup
<1>1. free \in SUBSET Page /\ heap \in SUBSET Page /\ at \in Places
  BY DEF Inv, SpaceTypeOK, Places, PageOrNone
<1>2. Private(free, heap, at)
  BY DEF Inv, PrivatePages, Private, Has
<1>3. \A page \in GivenBack(p) : page # None /\ \E x \in Part : at[p][x] = page
  BY GivenBackFacts
<1>4. /\ free' \in SUBSET Page
      /\ at' \in Places
      /\ Private(free', heap, at')
  <2> HIDE DEF Page, Part
  <2> QED
    BY <1>1, <1>2, <1>3, GiveBackFacts
<1> QED
  BY <1>4 DEF PrivatePages, Private, Has

\* sys_run gives back what the child had so far.
LEMMA RunFailsInv ==
    ASSUME NEW p \in Proc, Inv, ~Unprotected, CreateFails(p)
    PROVE  Inv'
<1> USE DEF CreateFails, Created
<1>1. \A q \in Proc : found[q] = None
  BY DEF Calm
<1>2. making[p] \in Proc
  BY DEF Inv, SpaceTypeOK
<1>3. /\ free' \in SUBSET Page
      /\ at' \in Places
      /\ PrivatePages'
  BY <1>2, CleanupFacts
<1>4. SpaceTypeOK'
  <2> HIDE DEF Part, Page
  <2> QED
    BY <1>3 DEF Inv, SpaceTypeOK, Places, PageOrNone
<1>5. FoundIsFree' /\ OneFinds'
  BY <1>1 DEF FoundIsFree, OneFinds
<1>6. TodoForChild'
  BY DEF Inv, SpaceTypeOK, TodoForChild
<1> QED
  BY <1>3, <1>4, <1>5, <1>6 DEF Inv

\* process_cleanup gives back the pages of a process, through pagetable_delete.
LEMMA ExitInv ==
    ASSUME NEW p \in Proc, Inv, ~Unprotected, ProcessExit(p)
    PROVE  Inv'
<1> USE DEF ProcessExit
<1>1. \A q \in Proc : found[q] = None
  BY DEF AtUserLevel, Calm
<1>2. /\ free' \in SUBSET Page
      /\ at' \in Places
      /\ PrivatePages'
  BY CleanupFacts
<1>3. SpaceTypeOK'
  <2> HIDE DEF Part, Page
  <2> QED
    BY <1>2 DEF Inv, SpaceTypeOK, Places, PageOrNone
<1>4. FoundIsFree' /\ OneFinds' /\ TodoForChild'
  BY <1>1 DEF Inv, FoundIsFree, OneFinds, TodoForChild
<1> QED
  BY <1>2, <1>3, <1>4 DEF Inv

\* A page fault maps a page that was free.
LEMMA PageFaultInv ==
    ASSUME NEW p \in Proc, NEW i \in UserIndex, NEW j \in Index,
           Inv, ~Unprotected, HandlePageFault(p, i, j)
    PROVE  Inv'
<1> DEFINE m == Memory(i, j)
           t == Table(i)
<1>1. /\ \A q \in Proc : found[q] = None
      /\ UNCHANGED <<heap, alive, making, todo, found>>
  BY DEF HandlePageFault, AtUserLevel, Calm
<1>2. m \in Part /\ t \in Part /\ m # t
  BY PartFacts
<1>3. free \in SUBSET Page /\ heap \in SUBSET Page /\ at \in Places
  BY DEF Inv, SpaceTypeOK, Places, PageOrNone
<1>4. Private(free, heap, at)
  BY DEF Inv, PrivatePages, Private, Has
<1> HIDE DEF m, t
<1>5. PICK page \in Page, table \in Page :
        /\ page \in free
        /\ \/ /\ table \in free \ {page}
              /\ free' = free \ {page, table}
              /\ at' = [at EXCEPT ![p][m] = page, ![p][t] = table]
           \/ /\ free' = free \ {page}
              /\ at' = [at EXCEPT ![p][m] = page]
  BY DEF HandlePageFault, IsFirst, m, t
<1> DEFINE f == free \ {page}
           b == [at EXCEPT ![p][m] = page]
<1>6. f \in SUBSET Page /\ b \in Places /\ Private(f, heap, b)
  BY <1>2, <1>3, <1>4, <1>5, TakeFacts
<1>7. free' \in SUBSET Page /\ at' \in Places /\ Private(free', heap, at')
  <2>1. CASE free' = f /\ at' = b
    BY <1>6, <2>1
  <2>2. CASE /\ table \in f
             /\ free' = free \ {page, table}
             /\ at' = [at EXCEPT ![p][m] = page, ![p][t] = table]
    <3>1. free' = f \ {table}
      BY <2>2
    <3>2. at' = [b EXCEPT ![p][t] = table]
      BY <1>2, <1>3, <2>2
    <3> HIDE DEF f, b
    <3>3. /\ [b EXCEPT ![p][t] = table] \in Places
          /\ Private(f \ {table}, heap, [b EXCEPT ![p][t] = table])
      BY <1>2, <1>3, <1>6, <2>2, TakeFacts
    <3> QED
      BY <1>6, <3>1, <3>2, <3>3
  <2> QED
    BY <1>5, <2>1, <2>2
<1>8. PrivatePages'
  BY <1>1, <1>7 DEF PrivatePages, Private, Has
<1>9. SpaceTypeOK'
  <2> HIDE DEF Part, Page
  <2> QED
    BY <1>1, <1>7 DEF Inv, SpaceTypeOK, Places, PageOrNone
<1>10. FoundIsFree' /\ OneFinds' /\ TodoForChild'
  BY <1>1 DEF Inv, FoundIsFree, OneFinds, TodoForChild
<1> QED
  BY <1>8, <1>9, <1>10 DEF Inv

\* kmalloc takes a page for the heap.
LEMMA HeapGrowInv ==
    ASSUME Inv, ~Unprotected, HeapGrow
    PROVE  Inv'
<1>1. /\ \A q \in Proc : found[q] = None
      /\ UNCHANGED <<at, alive, making, todo, found>>
  BY DEF HeapGrow, Calm
<1>2. PICK page \in free : free' = free \ {page} /\ heap' = heap \cup {page}
  BY DEF HeapGrow, IsFirst
<1>3. SpaceTypeOK'
  <2> HIDE DEF Part, Page
  <2> QED
    BY <1>1, <1>2 DEF Inv, SpaceTypeOK
<1>4. PrivatePages'
  BY <1>1, <1>2 DEF Inv, PrivatePages, Has
<1>5. FoundIsFree' /\ OneFinds' /\ TodoForChild'
  BY <1>1 DEF Inv, FoundIsFree, OneFinds, TodoForChild
<1> QED
  BY <1>3, <1>4, <1>5 DEF Inv
-----------------------------------------------------------------------------
\* Every step keeps the invariant.
LEMMA NextInv ==
    ASSUME Inv, ~Unprotected, [SpaceNext]_spaceVars
    PROVE  Inv'
<1>1. ASSUME NEW p \in Proc, NEW a \in Address, HandlePageFault(p, a[1], a[2])
      PROVE  Inv'
  <2>1. a[1] \in UserIndex /\ a[2] \in Index
    BY DEF Address
  <2> QED
    BY <1>1, <2>1, PageFaultInv
<1>2. CASE UNCHANGED spaceVars
  <2> USE <1>2 DEF spaceVars
  <2>1. SpaceTypeOK' /\ PrivatePages'
    BY DEF Inv, SpaceTypeOK, PrivatePages, Has
  <2>2. FoundIsFree' /\ OneFinds' /\ TodoForChild'
    BY DEF Inv, FoundIsFree, OneFinds, TodoForChild
  <2> QED
    BY <2>1, <2>2 DEF Inv
<1>3. CASE SpaceNext
  BY <1>1, <1>3, HeapGrowInv, RunCreateInv, AllocFindInv, AllocTakeInv,
     RunStartInv, RunFailsInv, ExitInv DEF SpaceNext
<1> QED
  BY <1>2, <1>3

\* The first process has no memory of its own yet.
LEMMA InitMapped == SpaceInit => MappedThroughTable
<1> SUFFICES ASSUME SpaceInit, NEW p \in Proc, NEW i \in UserIndex, NEW j \in Index
             PROVE  ~Has(p, Memory(i, j))
  BY DEF MappedThroughTable
<1>1. Memory(i, j) \in Part
  BY PartFacts
<1>2. /\ Memory(i, j)[1] = "memory"
      /\ Memory(i, j) \notin {Struct, Directory, KernelStack}
  BY DEF Memory, Struct, Directory, KernelStack
<1> QED
  BY <1>1, <1>2 DEF SpaceInit, Has, NoParts

\* A page is put into the child's memory, and its table is next unless it is there;
\* or the table is put there for which a page was waiting.
LEMMA AllocTakeMapped ==
    ASSUME NEW p \in Proc, Inv, MappedThroughTable, AllocTake(p)
    PROVE  MappedThroughTable'
<1> DEFINE c == making[p]
           x == Head(todo[p])
<1>1. /\ c \in Proc /\ todo[p] # <<>> /\ found[p] \in Page /\ found[p] # None
  BY AddressSpaceAssumption DEF Inv, SpaceTypeOK, FoundIsFree, AllocTake
<1>2. x \in Part
  BY <1>1, AfterPartType DEF Inv
<1>3. /\ at' = [at EXCEPT ![c][x] = found[p]]
      /\ todo' = [todo EXCEPT ![p] = AfterPart(p, c)]
      /\ making' = making
  BY DEF AllocTake
<1>4. \A q \in Proc : \A y \in Part : at[q][y] # None => at'[q][y] # None
  BY <1>1, <1>2, <1>3 DEF Inv, SpaceTypeOK
<1>5. at'[c][x] # None
  BY <1>1, <1>2, <1>3 DEF Inv, SpaceTypeOK
<1>6. \A q \in Proc : \A y \in Part :
        at'[q][y] # None /\ at[q][y] = None => q = c /\ y = x
  BY <1>1, <1>2, <1>3 DEF Inv, SpaceTypeOK
<1>7. /\ \A q \in Proc : q # p => todo'[q] = todo[q]
      /\ todo'[p] = AfterPart(p, c)
  BY <1>3 DEF Inv, SpaceTypeOK
<1> HIDE DEF c, x
<1> SUFFICES ASSUME NEW r \in Proc, NEW i \in UserIndex, NEW j \in Index,
                    at'[r][Memory(i, j)] # None, at'[r][Table(i)] = None
             PROVE  \E q \in Proc : /\ making'[q] = r
                                    /\ todo'[q] # <<>>
                                    /\ Head(todo'[q]) = Table(i)
  BY DEF MappedThroughTable, Has
<1>8. Memory(i, j) \in Part /\ Table(i) \in Part
  BY PartFacts
<1>9. at[r][Table(i)] = None
  BY <1>4, <1>8
<1>10. CASE at[r][Memory(i, j)] # None
  <2>1. PICK q \in Proc : making[q] = r /\ todo[q] # <<>> /\ Head(todo[q]) = Table(i)
    BY <1>9, <1>10 DEF MappedThroughTable, Has
  <2>2. q # p
    BY <1>5, <2>1 DEF c, x
  <2> QED
    BY <1>3, <1>7, <2>1, <2>2
<1>11. CASE at[r][Memory(i, j)] = None
  <2>1. r = c /\ Memory(i, j) = x
    BY <1>6, <1>8, <1>11
  <2>2. x[1] = "memory" /\ x[2] = i
    BY <2>1 DEF Memory
  <2>3. AfterPart(p, c) = <<Table(i)>> \o Tail(todo[p])
    BY <1>9, <2>1, <2>2 DEF AfterPart, TableMissing, Has, x
  <2>4. Tail(todo[p]) \in Seq(Part)
    BY <1>1 DEF Inv, SpaceTypeOK
  <2>5. AfterPart(p, c) # <<>> /\ Head(AfterPart(p, c)) = Table(i)
    BY <2>3, <2>4, <1>8
  <2> QED
    BY <1>3, <1>7, <2>1, <2>5 DEF c
<1> QED
  BY <1>10, <1>11

\* Every step keeps the pages of a table mapped.
LEMMA NextMapped ==
    Inv /\ MappedThroughTable /\ [SpaceNext]_spaceVars => MappedThroughTable'
<1> SUFFICES ASSUME Inv, MappedThroughTable, [SpaceNext]_spaceVars PROVE MappedThroughTable'
  OBVIOUS
<1>1. CASE UNCHANGED spaceVars
  BY <1>1 DEF MappedThroughTable, Has, spaceVars
<1>2. CASE HeapGrow
  BY <1>2 DEF HeapGrow, MappedThroughTable, Has
<1>3. ASSUME NEW p \in Proc, NEW c \in Proc, CreateBegins(p, c) PROVE MappedThroughTable'
  <2>1. \A q \in Proc : making[q] # None => making'[q] = making[q] /\ todo'[q] = todo[q]
    BY <1>3 DEF CreateBegins, AtUserLevel, Inv, SpaceTypeOK
  <2>2. None \notin Proc
    BY AddressSpaceAssumption
  <2> QED
    BY <1>3, <2>1, <2>2 DEF CreateBegins, MappedThroughTable, Has
<1>4. ASSUME NEW p \in Proc, AllocFind(p) PROVE MappedThroughTable'
  BY <1>4 DEF AllocFind, MappedThroughTable, Has
<1>5. ASSUME NEW p \in Proc, AllocTake(p) PROVE MappedThroughTable'
  BY <1>5, AllocTakeMapped
<1>6. ASSUME NEW p \in Proc, CreateEnds(p) PROVE MappedThroughTable'
  <2>1. \A q \in Proc : todo[q] # <<>> => making'[q] = making[q] /\ todo'[q] = todo[q]
    BY <1>6 DEF CreateEnds, Created, Inv, SpaceTypeOK
  <2> QED
    BY <1>6, <2>1 DEF CreateEnds, MappedThroughTable, Has
<1>7. ASSUME NEW p \in Proc, CreateFails(p) PROVE MappedThroughTable'
  <2>1. \A q \in Proc : todo[q] # <<>> => making'[q] = making[q] /\ todo'[q] = todo[q]
    BY <1>7 DEF CreateFails, Created, Inv, SpaceTypeOK
  <2>2. \A q \in Proc : at'[q] = at[q] \/ at'[q] = NoParts
    BY <1>7 DEF CreateFails, ProcessCleanup, Inv, SpaceTypeOK
  <2> QED
    BY <2>1, <2>2, PartFacts DEF MappedThroughTable, Has, NoParts
<1>8. ASSUME NEW p \in Proc, ProcessExit(p) PROVE MappedThroughTable'
  <2>1. \A q \in Proc : at'[q] = at[q] \/ at'[q] = NoParts
    BY <1>8 DEF ProcessExit, ProcessCleanup, Inv, SpaceTypeOK
  <2> QED
    BY <1>8, <2>1, PartFacts DEF ProcessExit, MappedThroughTable, Has, NoParts
<1>9. ASSUME NEW p \in Proc, NEW i \in UserIndex, NEW j \in Index, HandlePageFault(p, i, j)
      PROVE  MappedThroughTable'
  <2>1. PICK page \in Page, table \in Page :
          IF TableMissing(p, i)
          THEN at' = [at EXCEPT ![p][Memory(i, j)] = page, ![p][Table(i)] = table]
          ELSE at' = [at EXCEPT ![p][Memory(i, j)] = page]
    BY <1>9 DEF HandlePageFault
  <2>2. Memory(i, j) \in Part /\ Table(i) \in Part /\ None \notin Page
    BY PartFacts, AddressSpaceAssumption
  <2>3. at'[p][Table(i)] # None
    BY <2>1, <2>2 DEF TableMissing, Has, Inv, SpaceTypeOK
  <2>4. \A q \in Proc : \A y \in Part :
          /\ at[q][y] # None => at'[q][y] # None
          /\ at'[q][y] # None => at[q][y] # None \/ (q = p /\ y \in {Memory(i, j), Table(i)})
    BY <2>1, <2>2 DEF Inv, SpaceTypeOK
  <2> SUFFICES ASSUME NEW r \in Proc, NEW k \in UserIndex, NEW l \in Index,
                      at'[r][Memory(k, l)] # None, at'[r][Table(k)] = None
               PROVE  \E q \in Proc : /\ making'[q] = r
                                      /\ todo'[q] # <<>>
                                      /\ Head(todo'[q]) = Table(k)
    BY DEF MappedThroughTable, Has
  <2>5. Memory(k, l) \in Part /\ Table(k) \in Part
    BY PartFacts
  <2>6. at[r][Table(k)] = None
    BY <2>4, <2>5
  <2>7. at[r][Memory(k, l)] # None
    <3>1. Memory(k, l) = Memory(i, j) => k = i
      BY DEF Memory
    <3>2. Memory(k, l) # Table(i)
      BY DEF Memory, Table
    <3> QED
      BY <2>3, <2>4, <2>5, <3>1, <3>2
  <2> QED
    BY <1>9, <2>6, <2>7 DEF HandlePageFault, MappedThroughTable, Has
<1>10. ASSUME NEW p \in Proc, NEW a \in Address, HandlePageFault(p, a[1], a[2])
       PROVE  MappedThroughTable'
  BY <1>9, <1>10 DEF Address
<1> QED
  BY <1>1, <1>2, <1>3, <1>4, <1>5, <1>6, <1>7, <1>8, <1>10 DEF SpaceNext

\* While no interrupt arrives inside memory_alloc_page, Inv is invariant.
THEOREM AddressSpaceInvariant ==
    ASSUME ~Unprotected PROVE SpaceSpec => []Inv
<1>1. SpaceInit => Inv
  BY InitInv
<1>2. ~Unprotected /\ Inv /\ [SpaceNext]_spaceVars => Inv'
  BY NextInv
<1> QED
  BY <1>1, <1>2, PTL DEF SpaceSpec

\* The README's "private to that process": whatever is created, fails, faults
\* and ends, no page serves two processes or two purposes, and none in use is
\* free.
THEOREM AddressSpacePrivatePages ==
    ASSUME ~Unprotected PROVE SpaceSpec => []PrivatePages
<1>1. Inv => PrivatePages
  BY DEF Inv
<1> QED
  BY <1>1, AddressSpaceInvariant, PTL

\* The variables keep their types: what process_create still has to allocate is
\* always a sequence of parts of a process.
THEOREM AddressSpaceTypeOK ==
    ASSUME ~Unprotected PROVE SpaceSpec => []SpaceTypeOK
<1>1. Inv => SpaceTypeOK
  BY DEF Inv
<1> QED
  BY <1>1, AddressSpaceInvariant, PTL

\* pagetable_map takes the page before the table, and process_create can be
\* interrupted between the two: a page in a process's memory is behind a table, or
\* its table is what is allocated next.
THEOREM AddressSpaceMappedThroughTable ==
    ASSUME ~Unprotected PROVE SpaceSpec => []MappedThroughTable
<1>1. SpaceInit => MappedThroughTable
  BY InitMapped
<1>2. Inv /\ MappedThroughTable /\ [SpaceNext]_spaceVars => MappedThroughTable'
  BY NextMapped
<1> QED
  BY <1>1, <1>2, AddressSpaceInvariant, PTL DEF SpaceSpec
=============================================================================
