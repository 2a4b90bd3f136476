---------------------------- MODULE Containment ----------------------------
(***************************************************************************)
(* Who may use how many pages: the capability table, sys_run, the page     *)
(* fault handler and process_cleanup, with the counters they keep in       *)
(* struct process.                                                         *)
(*                                                                         *)
(* A process is the page that holds its struct process, a Slot; the page   *)
(* of a dead process is given out again, so a stale pointer finds the next *)
(* process there. System calls run with interrupts disabled, each one      *)
(* action. sys_run alone goes on with interrupts enabled once it has       *)
(* waited for the drive: between its statements other processes run, if    *)
(* Preempted.                                                              *)
(***************************************************************************)
EXTENDS Integers, FiniteSetsExt

CONSTANTS Slot, Nil, Root,
          Total,       \* memory_pages_total()
          Identifiers, \* MAX_NUMBER_OF_PERMISSIONS
          Word,        \* 2^32, less in an instance
          MaxRequest,  \* bound: the most pages asked for in a system call
          Preempted,   \* may sys_run be preempted where interrupts are enabled?
          Patient,     \* do programs end only after their children?
          TableFills   \* do programs ask for capabilities when none is left?

ASSUME ContainmentAssumption ==
    /\ Root \in Slot
    /\ Nil \notin Slot
    /\ IsFiniteSet(Slot)
    /\ Total \in Nat
    /\ Identifiers \in Nat \ {0}
    /\ Word \in Nat \ {0}
    /\ MaxRequest \in Nat
    /\ {Preempted, Patient, TableFills} \subseteq BOOLEAN

DEFAULT_FRACTION_OF_MEMORY == 3

Identifier == 0 .. Identifiers - 1

VARIABLES status,  \* what each slot holds: "free", "embryo" or "live"
          parent,  \* struct process: parent
          using,   \*   number_of_pages_using
          max,     \*   permissions->max_number_of_pages
          faulted, \* pages the page fault handler has given the process
          table,   \* permissions_table
          pc,      \* where each process is in sys_run
          ident,   \* sys_run's permissions_identifier
          before,  \*   page_count_before_child
          child    \*   child_proc

processes == <<status, parent, using, max, faulted>>
locals == <<ident, before, child>>
vars == <<processes, table, pc, locals>>

\* The stretch of sys_run between the count and the test, without a wait.
InSection(p) == pc[p] \in {"counted", "created", "measured", "restored"}

MayRun(p) ==
    /\ status[p] = "live"
    /\ Preempted \/ \A q \in Slot \ {p} : ~InSection(q)

InUserMode(p) == MayRun(p) /\ pc[p] = "user"

NoCapability == [owner |-> Nil, max |-> 0]

\* capability_for_identifier finds one.
Exists(i) == table[i] # NoCapability

OwnedBy(i, p) == Exists(i) /\ table[i].owner = p

Init ==
    /\ status = [s \in Slot |-> IF s = Root THEN "live" ELSE "free"]
    /\ parent = [s \in Slot |-> Nil]
    /\ using = [s \in Slot |-> 0]
    /\ max = [s \in Slot |-> IF s = Root THEN Total ELSE 0]
    /\ faulted = [s \in Slot |-> 0]
    /\ table = [i \in Identifier |-> NoCapability]
    /\ pc = [s \in Slot |-> "user"]
    /\ ident = [s \in Slot |-> 0]
    /\ before = [s \in Slot |-> 0]
    /\ child = [s \in Slot |-> Nil]
-----------------------------------------------------------------------------
(***************************************************************************)
(* Capabilities.                                                           *)
(***************************************************************************)

FreeIdentifiers == {i \in Identifier \ {0} : ~Exists(i)}

\* Mutant: the search takes the first place whether or not it is free.
IsFirstIdentifier(i) == i = 1

\* generate_new_identifier: the first free place, or 0.
IsNewIdentifier(i) ==
    IF FreeIdentifiers = {}
    THEN i = 0
    ELSE i \in FreeIdentifiers /\ \A j \in FreeIdentifiers : i <= j

DefaultMax(p) == max[p] \div DEFAULT_FRACTION_OF_MEMORY

CapabilityCreate(p) ==
    /\ InUserMode(p)
    /\ TableFills \/ FreeIdentifiers # {}
    /\ \E i \in Identifier :
         /\ IsNewIdentifier(i)
         /\ table' = [table EXCEPT ![i] = [owner |-> p, max |-> DefaultMax(p)]]
    /\ UNCHANGED <<processes, pc, locals>>

CapabilityDelete(p, i) ==
    /\ InUserMode(p)
    /\ OwnedBy(i, p)
    /\ table' = [table EXCEPT ![i] = NoCapability]
    /\ UNCHANGED <<processes, pc, locals>>

\* pages_left is an int, compared with an unsigned.
PagesLeft(p) == (max[p] - using[p]) % Word

CapabilitySetMaxMemory(p, i, pages) ==
    /\ InUserMode(p)
    /\ OwnedBy(i, p)
    /\ pages <= PagesLeft(p)
    /\ table' = [table EXCEPT ![i].max = pages]
    /\ UNCHANGED <<processes, pc, locals>>
-----------------------------------------------------------------------------
(***************************************************************************)
(* The end of a process.                                                   *)
(***************************************************************************)

\* Mutant: the owner of each capability is not looked at.
TableAll(p) == table

\* delete_capabilities_owned_by_process: place 0 is never looked at.
TableWithout(p) ==
    [i \in Identifier |->
        IF i # 0 /\ OwnedBy(i, p) THEN NoCapability ELSE table[i]]

\* Mutant: what p used comes back, not what it was promised.
UsedComesBack(p) == using[p]

ComesBack(p) == max[p]

\* process_cleanup(p), when charged is what its parent's counter holds. What is
\* written to a free page is lost: it is cleared before it is used again.
Cleanup(p, charged) ==
    /\ status' = [status EXCEPT ![p] = "free"]
    /\ using' = [charged EXCEPT
                   ![parent[p]] = IF status[parent[p]] = "free" THEN 0
                                  ELSE @ - ComesBack(p),
                   ![p] = 0]
    /\ parent' = [parent EXCEPT ![p] = Nil]
    /\ max' = [max EXCEPT ![p] = 0]
    /\ faulted' = [faulted EXCEPT ![p] = 0]
    /\ table' = TableWithout(p)

HasChildren(p) == \E c \in Slot : status[c] # "free" /\ parent[c] = p

MayEnd(p) == p # Root /\ (Patient => ~HasChildren(p))

\* sys_exit, and an exception that kills the process.
Exit(p) ==
    /\ InUserMode(p)
    /\ MayEnd(p)
    /\ Cleanup(p, using)
    /\ UNCHANGED <<pc, locals>>
-----------------------------------------------------------------------------
(***************************************************************************)
(* exception_handle_pagefault. The root process is the kernel's own, all   *)
(* of its memory is mapped.                                                *)
(***************************************************************************)

HasPage(p) == max[p] - using[p] > 0

PageFault(p) ==
    /\ InUserMode(p)
    /\ p # Root
    /\ \/ /\ HasPage(p)
          /\ using' = [using EXCEPT ![p] = @ + 1]
          /\ faulted' = [faulted EXCEPT ![p] = @ + 1]
          /\ UNCHANGED <<status, parent, max, table>>
       \/ /\ ~HasPage(p)
          /\ MayEnd(p)
          /\ Cleanup(p, using)
    /\ UNCHANGED <<pc, locals>>
-----------------------------------------------------------------------------
(***************************************************************************)
(* sys_run(path, i, p).                                                    *)
(***************************************************************************)

Goto(p, l) == pc' = [pc EXCEPT ![p] = l]

\* sys_run returns to its caller, its local variables are gone.
Leave(p) ==
    /\ Goto(p, "user")
    /\ ident' = [ident EXCEPT ![p] = 0]
    /\ before' = [before EXCEPT ![p] = 0]
    /\ child' = [child EXCEPT ![p] = Nil]

\* The capability is checked, then the file is looked up: sys_run waits.
RunOpen(p, i) ==
    /\ InUserMode(p)
    /\ OwnedBy(i, p)
    /\ Goto(p, "opening")
    /\ ident' = [ident EXCEPT ![p] = i]
    /\ UNCHANGED <<processes, table, before, child>>

RunNotFound(p) ==
    /\ MayRun(p)
    /\ pc[p] = "opening"
    /\ Leave(p)
    /\ UNCHANGED <<processes, table>>

\* Line 47.
RunCount(p) ==
    /\ MayRun(p)
    /\ pc[p] = "opening"
    /\ Goto(p, "counted")
    /\ before' = [before EXCEPT ![p] = using[p]]
    /\ UNCHANGED <<processes, table, ident, child>>

\* process_create, in a page that is zeroed; nobody's pages are counted.
RunCreate(p, c) ==
    /\ MayRun(p)
    /\ pc[p] = "counted"
    /\ status[c] = "free"
    /\ Goto(p, "created")
    /\ status' = [status EXCEPT ![c] = "embryo"]
    /\ child' = [child EXCEPT ![p] = c]
    /\ UNCHANGED <<parent, using, max, faulted, table, ident, before>>

\* Lines 60 to 66.
RunMeasure(p) ==
    /\ MayRun(p)
    /\ pc[p] = "created"
    /\ Goto(p, "measured")
    /\ max' = [max EXCEPT ![child[p]] = table[ident[p]].max]
    /\ parent' = [parent EXCEPT ![child[p]] = p]
    /\ using' = [using EXCEPT ![child[p]] = @ + (using[p] - before[p])]
    /\ UNCHANGED <<status, faulted, table, locals>>

\* Line 67.
RunRestore(p) ==
    /\ MayRun(p)
    /\ pc[p] = "measured"
    /\ Goto(p, "restored")
    /\ using' = [using EXCEPT ![p] = before[p]]
    /\ UNCHANGED <<status, parent, max, faulted, table, locals>>

\* Mutant: the test comes before the child is added.
FitsBefore(p, c, charged) == using[p] <= max[p] /\ using[c] <= max[c]

Fits(p, c, charged) == charged[p] <= max[p] /\ using[c] <= max[c]

\* Lines 70 to 85, and the wait for the file's first block.
RunCharge(p) ==
    /\ MayRun(p)
    /\ pc[p] = "restored"
    /\ LET new == child[p]
           charged == [using EXCEPT ![p] = @ + max[new]]
       IN  \/ /\ Fits(p, new, charged)
              /\ Goto(p, "copying")
              /\ using' = charged
              /\ UNCHANGED <<status, parent, max, faulted, table, locals>>
           \/ /\ ~Fits(p, new, charged)
              /\ Cleanup(new, charged)
              /\ Leave(p)

\* The binary cannot be read.
RunFails(p) ==
    /\ MayRun(p)
    /\ pc[p] = "copying"
    /\ Cleanup(child[p], using)
    /\ Leave(p)

\* The child is put into ready_list.
RunStart(p) ==
    /\ MayRun(p)
    /\ pc[p] = "copying"
    /\ status' = [status EXCEPT ![child[p]] = "live"]
    /\ Leave(p)
    /\ UNCHANGED <<parent, using, max, faulted, table>>

Run(p) ==
    \/ \E i \in Identifier : RunOpen(p, i)
    \/ RunNotFound(p) \/ RunCount(p)
    \/ \E c \in Slot : RunCreate(p, c)
    \/ RunMeasure(p) \/ RunRestore(p) \/ RunCharge(p)
    \/ RunFails(p) \/ RunStart(p)

Next ==
    \E p \in Slot :
        \/ CapabilityCreate(p)
        \/ \E i \in Identifier :
              \/ CapabilityDelete(p, i)
              \/ \E n \in 0 .. MaxRequest : CapabilitySetMaxMemory(p, i, n)
        \/ Exit(p) \/ PageFault(p) \/ Run(p)

Spec == Init /\ [][Next]_vars
-----------------------------------------------------------------------------
\* The types of the variables.
TypeOK ==
    /\ status \in [Slot -> {"free", "embryo", "live"}]
    /\ parent \in [Slot -> Slot \cup {Nil}]
    /\ using \in [Slot -> Int]
    /\ max \in [Slot -> Nat]
    /\ faulted \in [Slot -> Nat]
    /\ table \in [Identifier -> [owner : Slot, max : Nat] \cup {NoCapability}]
    /\ pc \in [Slot -> {"user", "opening", "counted", "created", "measured",
                        "restored", "copying"}]
    /\ ident \in [Slot -> Identifier]
    /\ before \in [Slot -> Int]
    /\ child \in [Slot -> Slot \cup {Nil}]

\* The children whose maximum p's counter includes.
Charged(p) ==
    {c \in Slot : /\ parent[c] = p
                  /\ \/ status[c] = "live"
                     \/ \E q \in Slot : child[q] = c /\ pc[q] = "copying"}

\* sys_current_memory_usage: what a process is told it uses is what it has
\* faulted in and what it has promised to its children, neither lost nor counted
\* twice whatever the order in which children start, fail and end. Nothing else is
\* in it: CapabilityCreate and CapabilityDelete change no counter, although
\* sys_permissions.h says that a capability counts until it is deleted.
Accounting ==
    \A p \in Slot : status[p] = "live" =>
        using[p] = faulted[p] + MapThenSumSet(LAMBDA c : max[c], Charged(p))

\* sys_max_memory, "The maximum number of pages the process can use."
WithinMaximum ==
    \A p \in Slot : status[p] = "live" => faulted[p] <= max[p]

\* delete_capabilities_owned_by_process "Deletes all capabilities owned by the
\* given process": none is left to whoever gets its page next.
CapabilityOwnersLive ==
    \A i \in Identifier : Exists(i) => status[table[i].owner] = "live"

\* The capability that sys_run checked before it waited for the drive is still
\* the caller's when permissions_from_identifier reads it afterwards.
CapabilityStillOwned ==
    \A p \in Slot :
        pc[p] \in {"opening", "counted", "created"} => OwnedBy(ident[p], p)

\* The tree of budgets that the counters are meant to be.
Members ==
    {p \in Slot : \/ status[p] = "live"
                  \/ \E q \in Slot : child[q] = p /\ pc[q] = "copying"}

Of(f, none) == [p \in Slot |-> IF p \in Members THEN f[p] ELSE none]

Promise == INSTANCE Budget
           WITH Proc <- Slot, None <- Nil, member <- Members,
                boss <- Of(parent, Nil), allot <- Of(max, 0), used <- faulted

\* sys_run, the page fault handler and process_cleanup contain each process in
\* what its parent gave it.
ImplementsBudget == Promise!Spec
=============================================================================
