---------------------------- MODULE AddressSpace ----------------------------
(***************************************************************************)
(* Physical pages and who has them: the free map of memory_raw.c, the page *)
(* tables of pagetable.c, process_create and process_cleanup.              *)
(*                                                                         *)
(* A process has pages for its struct process, its page directory, its     *)
(* tables, its kernel stack and its own memory.  Directory entries below   *)
(* KernelTables map the kernel's half directly: they have a table, but no  *)
(* pages of the process behind it.                                         *)
(*                                                                         *)
(* sys_run calls process_create after it has waited for the drive, with    *)
(* interrupts enabled: others run between its allocations and, if          *)
(* Unprotected, between the two halves of one.  Page faults, the end of a  *)
(* process and the handlers that grow the heap run with them disabled.     *)
(***************************************************************************)
EXTENDS Integers, Sequences, FiniteSets

CONSTANTS Proc, Shell, None,
          PageCount,     \* pages the free map has left after memory_init
          Entries,       \* ENTRIES_PER_TABLE
          KernelTables,  \* directory entries that pagetable_init fills
          Image,         \* what process_create maps: code, then stack
          MaxHeap,       \* bound: the pages the heap may take
          Unprotected    \* may interrupts arrive inside memory_alloc_page?

Page == 0 .. PageCount - 1
Index == 0 .. Entries - 1
UserIndex == KernelTables .. Entries - 1
Address == UserIndex \X Index

ASSUME AddressSpaceAssumption ==
    /\ Shell \in Proc
    /\ PageCount \in Nat
    /\ None \notin Proc \cup Page
    /\ Entries \in Nat
    /\ KernelTables \in Nat
    /\ KernelTables <= Entries
    /\ 3 + KernelTables <= PageCount
    /\ Image \in Seq(Address)
    /\ MaxHeap \in Nat
    /\ Unprotected \in BOOLEAN

Struct == <<"struct", 0, 0>>
Directory == <<"directory", 0, 0>>
KernelStack == <<"kstack", 0, 0>>
Table(i) == <<"table", i, 0>>
Memory(i, j) == <<"memory", i, j>>

\* What a process can have a page for.
Part ==
    {Struct, Directory, KernelStack}
        \cup {Table(i) : i \in Index}
        \cup {Memory(i, j) : i \in UserIndex, j \in Index}

VARIABLES free,    \* freemap: the pages whose bit is set
          heap,    \* the pages of kmalloc.c
          at,      \* the page each process has for each of its parts
          alive,   \* the processes that run
          making,  \* the child a process creates in sys_run
          todo,    \* the parts process_create still allocates, in order
          found    \* the page memory_alloc_page has found free, not yet taken

spaceVars == <<free, heap, at, alive, making, todo, found>>

NoParts == [x \in Part |-> None]

\* pagetable_create and pagetable_init for the kernel's half, the image, and the
\* kernel stack, in the order of process_create.
Plan ==
    <<Struct, Directory>>
        \o [k \in 1 .. KernelTables |-> Table(k - 1)]
        \o [k \in 1 .. Len(Image) |-> Memory(Image[k][1], Image[k][2])]
        \o <<KernelStack>>

\* process_init: the first process has no image; its pages are the lowest.
SpaceInit ==
    /\ at = [p \in Proc |->
                IF p = Shell
                THEN [x \in Part |->
                        CASE x = Struct -> 0
                          [] x = Directory -> 1
                          [] x = KernelStack -> 2 + KernelTables
                          [] x[1] = "table" /\ x[2] < KernelTables -> 2 + x[2]
                          [] OTHER -> None]
                ELSE NoParts]
    /\ free = 3 + KernelTables .. PageCount - 1
    /\ heap = {}
    /\ alive = {Shell}
    /\ making = [p \in Proc |-> None]
    /\ todo = [p \in Proc |-> <<>>]
    /\ found = [p \in Proc |-> None]
-----------------------------------------------------------------------------
\* No process is interrupted inside memory_alloc_page.
Calm == Unprotected \/ \A p \in Proc : found[p] = None

AtUserLevel(p) == Calm /\ p \in alive /\ making[p] = None

\* The first page whose bit is set in f.
IsFirst(page, f) == page \in f /\ \A other \in f : page <= other

Has(p, x) == at[p][x] # None

\* Mutant: pagetable_map takes the table for granted.
NoTable(p, i) == FALSE

\* pagetable_map: no table for directory entry i yet.
TableMissing(p, i) == ~Has(p, Table(i))

\* sys_run begins process_create.
CreateBegins(p, c) ==
    /\ AtUserLevel(p)
    /\ c \notin alive
    /\ \A q \in Proc : making[q] # c
    /\ making' = [making EXCEPT ![p] = c]
    /\ todo' = [todo EXCEPT ![p] = Plan]
    /\ UNCHANGED <<free, heap, at, alive, found>>

\* memory_alloc_page finds a bit set ...
AllocFind(p) ==
    /\ Calm
    /\ todo[p] # <<>>
    /\ found[p] = None
    /\ \E page \in Page :
         /\ IsFirst(page, free)
         /\ found' = [found EXCEPT ![p] = page]
    /\ UNCHANGED <<free, heap, at, alive, making, todo>>

\* pagetable_map allocates the page first and then, if it must, the table.
AfterPart(p, c) ==
    LET x == Head(todo[p]) IN
    IF x[1] = "memory" /\ TableMissing(c, x[2])
    THEN <<Table(x[2])>> \o Tail(todo[p])
    ELSE Tail(todo[p])

\* Mutant: the bit is not cleared.
AllocKeepsBit(p) ==
    /\ found[p] # None
    /\ at' = [at EXCEPT ![making[p]][Head(todo[p])] = found[p]]
    /\ todo' = [todo EXCEPT ![p] = AfterPart(p, making[p])]
    /\ found' = [found EXCEPT ![p] = None]
    /\ UNCHANGED <<free, heap, alive, making>>

\* ... and clears it.
AllocTake(p) ==
    /\ found[p] # None
    /\ free' = free \ {found[p]}
    /\ at' = [at EXCEPT ![making[p]][Head(todo[p])] = found[p]]
    /\ todo' = [todo EXCEPT ![p] = AfterPart(p, making[p])]
    /\ found' = [found EXCEPT ![p] = None]
    /\ UNCHANGED <<heap, alive, making>>

Created(p) == Calm /\ making[p] # None /\ todo[p] = <<>>

\* The child is put into ready_list.
CreateEnds(p) ==
    /\ Created(p)
    /\ alive' = alive \cup {making[p]}
    /\ making' = [making EXCEPT ![p] = None]
    /\ UNCHANGED <<free, heap, at, todo, found>>

\* What process_cleanup gives back. pagetable_delete looks at the entry with the
\* directory's index in every table, not at each of its entries, and nobody
\* frees the directory itself. In sys_run this can be interrupted, which is left
\* out: setting a bit a second time, as the loop does for the entry it looks at,
\* takes back a page given to another meanwhile if the image has such an entry,
\* that is, from 513 pages of code on.
GivenBack(p) ==
    {at[p][x] : x \in {y \in Part :
        /\ Has(p, y)
        /\ \/ y \in {Struct, KernelStack}
           \/ y[1] = "table"
           \/ y[1] = "memory" /\ y[2] = y[3] /\ Has(p, Table(y[2]))}}

ProcessCleanup(p) ==
    /\ free' = free \cup GivenBack(p)
    /\ at' = [at EXCEPT ![p] = NoParts]

\* One of the error returns of sys_run.
CreateFails(p) ==
    /\ Created(p)
    /\ ProcessCleanup(making[p])
    /\ making' = [making EXCEPT ![p] = None]
    /\ UNCHANGED <<heap, alive, todo, found>>

\* process_exit, from sys_exit or an exception.
ProcessExit(p) ==
    /\ AtUserLevel(p)
    /\ p # Shell
    /\ ProcessCleanup(p)
    /\ alive' = alive \ {p}
    /\ UNCHANGED <<heap, making, todo, found>>

\* exception_handle_pagefault at an address that is not mapped, the process
\* being within its maximum.
HandlePageFault(p, i, j) ==
    /\ AtUserLevel(p)
    /\ p # Shell
    /\ ~Has(p, Memory(i, j))
    /\ \E page, table \in Page :
         /\ IsFirst(page, free)
         /\ IF TableMissing(p, i)
            THEN /\ IsFirst(table, free \ {page})
                 /\ free' = free \ {page, table}
                 /\ at' = [at EXCEPT ![p][Memory(i, j)] = page,
                                     ![p][Table(i)] = table]
            ELSE /\ table = page
                 /\ free' = free \ {page}
                 /\ at' = [at EXCEPT ![p][Memory(i, j)] = page]
    /\ UNCHANGED <<heap, alive, making, todo, found>>

\* kmalloc_get_page, in a handler or a system call.
HeapGrow ==
    /\ Calm
    /\ Cardinality(heap) < MaxHeap
    /\ \E page \in Page :
         /\ IsFirst(page, free)
         /\ free' = free \ {page}
         /\ heap' = heap \cup {page}
    /\ UNCHANGED <<at, alive, making, todo, found>>

SpaceNext ==
    \/ HeapGrow
    \/ \E p \in Proc :
         \/ \E c \in Proc : CreateBegins(p, c)
         \/ AllocFind(p) \/ AllocTake(p)
         \/ CreateEnds(p) \/ CreateFails(p) \/ ProcessExit(p)
         \/ \E a \in Address : HandlePageFault(p, a[1], a[2])

SpaceSpec == SpaceInit /\ [][SpaceNext]_spaceVars
-----------------------------------------------------------------------------
\* The types of the variables.
SpaceTypeOK ==
    /\ free \subseteq Page
    /\ heap \subseteq Page
    /\ at \in [Proc -> [Part -> Page \cup {None}]]
    /\ alive \subseteq Proc
    /\ making \in [Proc -> Proc \cup {None}]
    /\ todo \in [Proc -> Seq(Part)]
    /\ found \in [Proc -> Page \cup {None}]

\* README, "Virtual Memory Layout": the upper half "is private to that process".
\* No page serves two purposes or two processes, and none in use is free,
\* whatever is created, fails, faults and ends in which order.
PrivatePages ==
    /\ \A p \in Proc : \A x \in Part : Has(p, x) =>
         /\ at[p][x] \notin free \cup heap
         /\ \A q \in Proc : \A y \in Part : at[q][y] = at[p][x] => p = q /\ x = y
    /\ heap \cap free = {}

\* A page in a process's memory is behind a table, or its table is what
\* process_create allocates next: pagetable_map takes the page first.
MappedThroughTable ==
    \A p \in Proc : \A i \in UserIndex, j \in Index :
        Has(p, Memory(i, j)) =>
            \/ Has(p, Table(i))
            \/ \E q \in Proc : /\ making[q] = p
                               /\ todo[q] # <<>>
                               /\ Head(todo[q]) = Table(i)

\* pagetable.h on pagetable_delete: "delete all its contents and free the
\* physical memory mapped to the virtual addresses": every page is free or used.
NothingLost ==
    \A page \in Page :
        \/ page \in free \cup heap
        \/ \E p \in Proc : \E x \in Part : at[p][x] = page
=============================================================================
