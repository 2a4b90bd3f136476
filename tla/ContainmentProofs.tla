------------------------- MODULE ContainmentProofs -------------------------
(***************************************************************************)
(* Capabilities have live owners, and stay with them through sys_run, for  *)
(* any number of processes and capabilities, whether or not sys_run is     *)
(* preempted and processes end before their children, as long as no one    *)
(* asks for a capability when the table is full. And, when sys_run is not  *)
(* preempted and processes end after their children: the counters add up,  *)
(* and the tree of processes keeps within its budget.                      *)
(*                                                                         *)
(* The last part is about Shell, whose paths are measured with the same    *)
(* sums: paths fit their buffer, a command gets the words that were typed, *)
(* and the line on the screen is the line that is taken.                   *)
(***************************************************************************)
EXTENDS Containment, Shell, SequenceTheorems, FiniteSetTheorems, TLAPS

\* Place 0, which the end of a process passes over, stays empty.
FirstPlaceEmpty == ~Exists(0)

\* Only live processes are in sys_run.
RunnersLive == \A p \in Slot : pc[p] # "user" => status[p] = "live"

\* Between process_create and the start or the failure, the child is an embryo.
HasEmbryo(p) == pc[p] \in {"created", "measured", "restored", "copying"}

ChildIsEmbryo ==
    \A p \in Slot :
        HasEmbryo(p) => child[p] \in Slot /\ status[child[p]] = "embryo"

\* No two processes create the same child.
ChildrenDiffer ==
    \A p, q \in Slot :
        HasEmbryo(p) /\ HasEmbryo(q) /\ child[p] = child[q] => p = q

Inv ==
    /\ TypeOK
    /\ FirstPlaceEmpty
    /\ CapabilityOwnersLive
    /\ CapabilityStillOwned
    /\ RunnersLive
    /\ ChildIsEmbryo
    /\ ChildrenDiffer

USE DEF HasEmbryo, Exists, OwnedBy, NoCapability, Identifier

\* The first process runs, with all the memory and no capability.
LEMMA InitInv == Init => Inv
<1> SUFFICES ASSUME Init PROVE Inv
  OBVIOUS
<1> USE ContainmentAssumption DEF Init
<1>1. 0 \in Identifier
  OBVIOUS
<1>2. TypeOK
  BY <1>1 DEF TypeOK
<1>3. FirstPlaceEmpty /\ CapabilityOwnersLive /\ CapabilityStillOwned
  BY <1>1 DEF FirstPlaceEmpty, CapabilityOwnersLive, CapabilityStillOwned
<1>4. RunnersLive /\ ChildIsEmbryo /\ ChildrenDiffer
  BY DEF RunnersLive, ChildIsEmbryo, ChildrenDiffer
<1> QED
  BY <1>2, <1>3, <1>4 DEF Inv
-----------------------------------------------------------------------------
(***************************************************************************)
(* The operations on capabilities.                                         *)
(***************************************************************************)

\* A capability is stored at the first free place.
LEMMA CreateInv ==
    ASSUME Inv, ~TableFills, NEW p \in Slot, CapabilityCreate(p)
    PROVE  Inv'
<1> USE ContainmentAssumption
<1>1. PICK i \in Identifier :
        /\ IsNewIdentifier(i)
        /\ table' = [table EXCEPT ![i] = [owner |-> p, max |-> DefaultMax(p)]]
  BY DEF CapabilityCreate
<1>2. i # 0 /\ ~Exists(i)
  BY <1>1 DEF CapabilityCreate, IsNewIdentifier, FreeIdentifiers
<1>3. UNCHANGED <<processes, pc, locals>> /\ status[p] = "live" /\ pc[p] = "user"
  BY DEF CapabilityCreate, InUserMode, MayRun
<1>4. DefaultMax(p) \in Nat
  BY DEF Inv, TypeOK, DefaultMax, DEFAULT_FRACTION_OF_MEMORY
<1>5. TypeOK'
  BY <1>1, <1>3, <1>4 DEF Inv, TypeOK, processes, locals
<1>6. \A j \in Identifier : j # i => table'[j] = table[j]
  BY <1>1 DEF Inv, TypeOK
<1>7. table'[i].owner = p /\ table'[i] # NoCapability
  BY <1>1 DEF Inv, TypeOK
<1>8. FirstPlaceEmpty'
  BY <1>2, <1>6 DEF Inv, FirstPlaceEmpty
<1>9. CapabilityOwnersLive'
  BY <1>3, <1>6, <1>7 DEF Inv, CapabilityOwnersLive, processes
<1>10. CapabilityStillOwned'
  BY <1>2, <1>3, <1>6 DEF Inv, TypeOK, CapabilityStillOwned, processes, locals
<1>11. (RunnersLive /\ ChildIsEmbryo /\ ChildrenDiffer)'
  BY <1>3 DEF Inv, RunnersLive, ChildIsEmbryo, ChildrenDiffer, processes, locals
<1> QED
  BY <1>5, <1>8, <1>9, <1>10, <1>11 DEF Inv

\* A capability is deleted by its owner.
LEMMA DeleteInv ==
    ASSUME Inv, NEW p \in Slot, NEW i \in Identifier, CapabilityDelete(p, i)
    PROVE  Inv'
<1> USE ContainmentAssumption
<1>1. /\ UNCHANGED <<processes, pc, locals>> /\ pc[p] = "user"
      /\ table' = [table EXCEPT ![i] = NoCapability]
      /\ OwnedBy(i, p)
  BY DEF CapabilityDelete, InUserMode
<1>2. TypeOK'
  BY <1>1 DEF Inv, TypeOK, processes, locals
<1>3. /\ \A j \in Identifier : j # i => table'[j] = table[j]
      /\ table'[i] = NoCapability
  BY <1>1 DEF Inv, TypeOK
<1>4. FirstPlaceEmpty' /\ CapabilityOwnersLive'
  BY <1>1, <1>3 DEF Inv, FirstPlaceEmpty, CapabilityOwnersLive, processes
<1>5. CapabilityStillOwned'
  BY <1>1, <1>3, SMTT(40) DEF Inv, TypeOK, CapabilityStillOwned, processes, locals
<1>6. (RunnersLive /\ ChildIsEmbryo /\ ChildrenDiffer)'
  BY <1>1 DEF Inv, RunnersLive, ChildIsEmbryo, ChildrenDiffer, processes, locals
<1> QED
  BY <1>2, <1>4, <1>5, <1>6 DEF Inv

\* The owner of a capability sets its maximum.
LEMMA SetMaxInv ==
    ASSUME Inv, NEW p \in Slot, NEW i \in Identifier, NEW n \in 0 .. MaxRequest,
           CapabilitySetMaxMemory(p, i, n)
    PROVE  Inv'
<1> USE ContainmentAssumption
<1>1. /\ UNCHANGED <<processes, pc, locals>>
      /\ table' = [table EXCEPT ![i].max = n]
      /\ OwnedBy(i, p)
  BY DEF CapabilitySetMaxMemory
<1>2. TypeOK'
  <2> DEFINE Entry == [owner : Slot, max : Nat] \cup {NoCapability}
  <2>1. /\ table \in [Identifier -> Entry]
        /\ table[i] \in [owner : Slot, max : Nat]
        /\ n \in Nat
    BY <1>1, SMTT(40) DEF Inv, TypeOK
  <2>2. [table[i] EXCEPT !.max = n] \in [owner : Slot, max : Nat]
    BY <2>1
  <2>3. table' = [table EXCEPT ![i] = [table[i] EXCEPT !.max = n]]
    BY <1>1
  <2>4. table' \in [Identifier -> Entry]
    <3>1. [table[i] EXCEPT !.max = n] \in Entry
      BY <2>2
    <3> DEFINE e == [table[i] EXCEPT !.max = n]
    <3>2. table' = [table EXCEPT ![i] = e] /\ e \in Entry
      BY <2>3, <3>1
    <3> HIDE DEF Entry, e
    <3> QED
      BY <2>1, <3>2
  <2> QED
    BY <1>1, <2>4 DEF Inv, TypeOK, processes, locals
<1>3. /\ \A j \in Identifier : j # i => table'[j] = table[j]
      /\ table'[i].owner = p
      /\ p # Nil
  BY <1>1 DEF Inv, TypeOK
<1>4. table'[i] # NoCapability /\ table[i] # NoCapability
  BY <1>1, <1>3
<1>5. FirstPlaceEmpty' /\ CapabilityOwnersLive'
  BY <1>1, <1>3, <1>4
     DEF Inv, FirstPlaceEmpty, CapabilityOwnersLive, processes
<1>6. CapabilityStillOwned'
  <2>1. \A j \in Identifier, q \in Slot : OwnedBy(j, q) => OwnedBy(j, q)'
    BY <1>1, <1>3, <1>4
  <2> QED
    BY <1>1, <2>1 DEF Inv, TypeOK, CapabilityStillOwned, processes, locals
<1>7. (RunnersLive /\ ChildIsEmbryo /\ ChildrenDiffer)'
  BY <1>1 DEF Inv, RunnersLive, ChildIsEmbryo, ChildrenDiffer, processes, locals
<1> QED
  BY <1>2, <1>5, <1>6, <1>7 DEF Inv
-----------------------------------------------------------------------------
(***************************************************************************)
(* The end of a process, and of an embryo.                                 *)
(***************************************************************************)

\* What process_cleanup does: the slot is free, its capabilities are gone and
\* those of the others are not touched.
LEMMA CleanupFacts ==
    ASSUME Inv, NEW p \in Slot, NEW charged \in [Slot -> Int],
           Cleanup(p, charged)
    PROVE  /\ status' = [status EXCEPT ![p] = "free"]
           /\ status' \in [Slot -> {"free", "embryo", "live"}]
           /\ parent' \in [Slot -> Slot \cup {Nil}]
           /\ using' \in [Slot -> Int]
           /\ max' \in [Slot -> Nat]
           /\ faulted' \in [Slot -> Nat]
           /\ table' \in [Identifier -> [owner : Slot, max : Nat] \cup {NoCapability}]
           /\ ~OwnedBy(0, p)
           /\ \A i \in Identifier :
                 table'[i] = IF OwnedBy(i, p) THEN NoCapability ELSE table[i]
<1> USE ContainmentAssumption
<1>1. /\ status' = [status EXCEPT ![p] = "free"]
      /\ parent' = [parent EXCEPT ![p] = Nil]
      /\ max' = [max EXCEPT ![p] = 0]
      /\ faulted' = [faulted EXCEPT ![p] = 0]
      /\ table' = TableWithout(p)
  BY DEF Cleanup
<1>2. /\ status' \in [Slot -> {"free", "embryo", "live"}]
      /\ parent' \in [Slot -> Slot \cup {Nil}]
      /\ max' \in [Slot -> Nat]
      /\ faulted' \in [Slot -> Nat]
  BY <1>1 DEF Inv, TypeOK
<1>3. using' \in [Slot -> Int]
  <2>1. CASE parent[p] \in Slot
    <3> DEFINE back == IF status[parent[p]] = "free" THEN 0
                        ELSE charged[parent[p]] - ComesBack(p)
    <3>1. charged[parent[p]] \in Int /\ max[p] \in Int
      BY <2>1 DEF Inv, TypeOK
    <3>2. back \in Int
      BY <3>1 DEF ComesBack
    <3>3. using' = [[charged EXCEPT ![parent[p]] = back] EXCEPT ![p] = 0]
      BY <2>1 DEF Cleanup
    <3> HIDE DEF back
    <3> QED
      BY <2>1, <3>2, <3>3
  <2>2. CASE parent[p] = Nil
    BY <2>2 DEF Cleanup
  <2> QED
    BY <2>1, <2>2 DEF Inv, TypeOK
<1>4. ~OwnedBy(0, p)
  BY DEF Inv, FirstPlaceEmpty
<1>5. \A i \in Identifier :
        table'[i] = IF OwnedBy(i, p) THEN NoCapability ELSE table[i]
  BY <1>1, <1>4 DEF TableWithout
<1>6. table' \in [Identifier -> [owner : Slot, max : Nat] \cup {NoCapability}]
  <2>1. \A i \in Identifier :
          table'[i] \in [owner : Slot, max : Nat] \cup {NoCapability}
    BY <1>5 DEF Inv, TypeOK
  <2> QED
    BY <1>1, <2>1 DEF TableWithout
<1> QED
  BY <1>1, <1>2, <1>3, <1>4, <1>5, <1>6

\* A process that is not in sys_run goes, with its capabilities.
LEMMA EndInv ==
    ASSUME Inv, NEW p \in Slot, InUserMode(p), Cleanup(p, using),
           UNCHANGED <<pc, locals>>
    PROVE  Inv'
<1> USE ContainmentAssumption
<1>1. using \in [Slot -> Int]
  BY DEF Inv, TypeOK
<1>2. /\ status' = [status EXCEPT ![p] = "free"]
      /\ \A i \in Identifier :
           table'[i] = IF OwnedBy(i, p) THEN NoCapability ELSE table[i]
  BY <1>1, CleanupFacts
<1>3. TypeOK'
  BY <1>1, CleanupFacts DEF Inv, TypeOK, locals
<1>4. pc[p] = "user"
  BY DEF InUserMode
<1>5. FirstPlaceEmpty'
  BY <1>2 DEF Inv, FirstPlaceEmpty
<1>6. CapabilityOwnersLive'
  <2> SUFFICES ASSUME NEW i \in Identifier, Exists(i)'
               PROVE  (status[table[i].owner] = "live")'
    BY DEF CapabilityOwnersLive
  <2>1. table'[i] = table[i] /\ Exists(i) /\ table[i].owner # p
    BY <1>2
  <2>2. table[i].owner \in Slot /\ status[table[i].owner] = "live"
    BY <2>1 DEF Inv, TypeOK, CapabilityOwnersLive
  <2> QED
    BY <1>2, <2>1, <2>2 DEF Inv, TypeOK
<1>7. CapabilityStillOwned'
  BY <1>2, <1>4 DEF Inv, TypeOK, CapabilityStillOwned, locals
<1>8. (RunnersLive /\ ChildIsEmbryo /\ ChildrenDiffer)'
  <2>1. status[p] = "live"
    BY DEF InUserMode, MayRun
  <2> QED
    BY <1>2, <1>4, <2>1
       DEF Inv, TypeOK, RunnersLive, ChildIsEmbryo, ChildrenDiffer, locals
<1> QED
  BY <1>3, <1>5, <1>6, <1>7, <1>8 DEF Inv

\* An embryo goes; it never owned a capability.
LEMMA AbortInv ==
    ASSUME Inv, NEW p \in Slot, HasEmbryo(p), NEW charged \in [Slot -> Int],
           Cleanup(child[p], charged), Leave(p)
    PROVE  Inv'
<1> USE ContainmentAssumption
<1>1. child[p] \in Slot /\ status[child[p]] = "embryo" /\ status[p] = "live"
  BY DEF Inv, ChildIsEmbryo, RunnersLive
<1>2. /\ status' = [status EXCEPT ![child[p]] = "free"]
      /\ \A i \in Identifier :
           table'[i] = IF OwnedBy(i, child[p]) THEN NoCapability ELSE table[i]
  BY <1>1, CleanupFacts
<1>3. \A i \in Identifier : table'[i] = table[i]
  BY <1>1, <1>2 DEF Inv, CapabilityOwnersLive
<1>4. /\ pc' = [pc EXCEPT ![p] = "user"]
      /\ ident' = [ident EXCEPT ![p] = 0]
      /\ before' = [before EXCEPT ![p] = 0]
      /\ child' = [child EXCEPT ![p] = Nil]
  BY DEF Leave, Goto
<1>5. TypeOK'
  <2>1. 0 \in Identifier
    OBVIOUS
  <2>2. /\ pc' \in [Slot -> {"user", "opening", "counted", "created",
                            "measured", "restored", "copying"}]
        /\ ident' \in [Slot -> Identifier]
        /\ before' \in [Slot -> Int]
        /\ child' \in [Slot -> Slot \cup {Nil}]
    BY <1>4, <2>1 DEF Inv, TypeOK
  <2> HIDE DEF Identifier, NoCapability
  <2> QED
    BY <1>1, <2>2, CleanupFacts DEF TypeOK
<1>6. FirstPlaceEmpty'
  BY <1>3 DEF Inv, FirstPlaceEmpty
<1>7. CapabilityOwnersLive'
  <2> SUFFICES ASSUME NEW i \in Identifier, Exists(i)'
               PROVE  (status[table[i].owner] = "live")'
    BY DEF CapabilityOwnersLive
  <2>1. table'[i] = table[i] /\ Exists(i)
    BY <1>3
  <2>2. table[i].owner \in Slot /\ status[table[i].owner] = "live"
    BY <2>1 DEF Inv, TypeOK, CapabilityOwnersLive
  <2> QED
    BY <1>1, <1>2, <2>1, <2>2 DEF Inv, TypeOK
<1>8. CapabilityStillOwned'
  BY <1>3, <1>4, SMTT(40) DEF Inv, TypeOK, CapabilityStillOwned
<1>9. RunnersLive'
  BY <1>1, <1>2, <1>4 DEF Inv, TypeOK, RunnersLive
<1>10. (ChildIsEmbryo /\ ChildrenDiffer)'
  BY <1>2, <1>4 DEF Inv, TypeOK, ChildIsEmbryo, ChildrenDiffer
<1> QED
  BY <1>5, <1>6, <1>7, <1>8, <1>9, <1>10 DEF Inv

\* A page is given, or the process killed.
LEMMA PageFaultInv ==
    ASSUME Inv, NEW p \in Slot, PageFault(p)
    PROVE  Inv'
<1>1. CASE HasPage(p) /\ UNCHANGED <<status, parent, max, table, pc, locals>>
           /\ using' = [using EXCEPT ![p] = @ + 1]
           /\ faulted' = [faulted EXCEPT ![p] = @ + 1]
  <2>1. TypeOK'
    BY <1>1, SMTT(40) DEF Inv, TypeOK, locals
  <2>2. (FirstPlaceEmpty /\ CapabilityOwnersLive /\ CapabilityStillOwned)'
    BY <1>1 DEF Inv, FirstPlaceEmpty, CapabilityOwnersLive,
                CapabilityStillOwned, locals
  <2>3. (RunnersLive /\ ChildIsEmbryo /\ ChildrenDiffer)'
    BY <1>1 DEF Inv, RunnersLive, ChildIsEmbryo, ChildrenDiffer, locals
  <2> QED
    BY <2>1, <2>2, <2>3 DEF Inv
<1>2. CASE Cleanup(p, using)
  BY <1>2, EndInv DEF PageFault
<1> QED
  BY <1>1, <1>2 DEF PageFault
-----------------------------------------------------------------------------
(***************************************************************************)
(* sys_run.                                                                *)
(***************************************************************************)

\* Until the child is created, and when there is none: only the place changes.
LEMMA OpenInv ==
    ASSUME Inv, NEW p \in Slot, NEW i \in Identifier, RunOpen(p, i)
    PROVE  Inv'
<1>1. /\ UNCHANGED <<processes, table, before, child>>
      /\ pc' = [pc EXCEPT ![p] = "opening"]
      /\ ident' = [ident EXCEPT ![p] = i]
      /\ OwnedBy(i, p)
      /\ status[p] = "live"
  BY DEF RunOpen, Goto, InUserMode, MayRun
<1>2. TypeOK'
  BY <1>1 DEF Inv, TypeOK, processes
<1>3. (FirstPlaceEmpty /\ CapabilityOwnersLive /\ CapabilityStillOwned)'
  BY <1>1 DEF Inv, TypeOK, FirstPlaceEmpty, CapabilityOwnersLive,
              CapabilityStillOwned, processes
<1>4. (RunnersLive /\ ChildIsEmbryo /\ ChildrenDiffer)'
  BY <1>1 DEF Inv, TypeOK, RunnersLive, ChildIsEmbryo, ChildrenDiffer, processes
<1> QED
  BY <1>2, <1>3, <1>4 DEF Inv

\* sys_run does not find the program and goes back.
LEMMA NotFoundInv ==
    ASSUME Inv, NEW p \in Slot, RunNotFound(p)
    PROVE  Inv'
<1> USE ContainmentAssumption
<1>1. /\ UNCHANGED <<processes, table>>
      /\ pc' = [pc EXCEPT ![p] = "user"]
      /\ ident' = [ident EXCEPT ![p] = 0]
      /\ before' = [before EXCEPT ![p] = 0]
      /\ child' = [child EXCEPT ![p] = Nil]
  BY DEF RunNotFound, Leave, Goto
<1>2. TypeOK'
  BY <1>1, SMTT(40) DEF Inv, TypeOK, processes
<1>3. (FirstPlaceEmpty /\ CapabilityOwnersLive /\ CapabilityStillOwned)'
  BY <1>1 DEF Inv, TypeOK, FirstPlaceEmpty, CapabilityOwnersLive,
              CapabilityStillOwned, processes
<1>4. (RunnersLive /\ ChildIsEmbryo /\ ChildrenDiffer)'
  BY <1>1 DEF Inv, TypeOK, RunnersLive, ChildIsEmbryo, ChildrenDiffer, processes
<1> QED
  BY <1>2, <1>3, <1>4 DEF Inv

\* sys_run saves the counter of its caller.
LEMMA CountInv ==
    ASSUME Inv, NEW p \in Slot, RunCount(p)
    PROVE  Inv'
<1>1. /\ UNCHANGED <<processes, table, ident, child>>
      /\ pc[p] = "opening"
      /\ pc' = [pc EXCEPT ![p] = "counted"]
      /\ before' = [before EXCEPT ![p] = using[p]]
  BY DEF RunCount, Goto
<1>2. TypeOK'
  BY <1>1 DEF Inv, TypeOK, processes
<1>3. (FirstPlaceEmpty /\ CapabilityOwnersLive /\ CapabilityStillOwned)'
  BY <1>1 DEF Inv, TypeOK, FirstPlaceEmpty, CapabilityOwnersLive,
              CapabilityStillOwned, processes
<1>4. (RunnersLive /\ ChildIsEmbryo /\ ChildrenDiffer)'
  BY <1>1 DEF Inv, TypeOK, RunnersLive, ChildIsEmbryo, ChildrenDiffer, processes
<1> QED
  BY <1>2, <1>3, <1>4 DEF Inv

\* The embryo's page was free: it is nobody's child yet and owns nothing.
LEMMA CreateChildInv ==
    ASSUME Inv, NEW p \in Slot, NEW c \in Slot, RunCreate(p, c)
    PROVE  Inv'
<1>1. /\ UNCHANGED <<parent, using, max, faulted, table, ident, before>>
      /\ pc[p] = "counted" /\ status[c] = "free" /\ status[p] = "live"
      /\ pc' = [pc EXCEPT ![p] = "created"]
      /\ status' = [status EXCEPT ![c] = "embryo"]
      /\ child' = [child EXCEPT ![p] = c]
  BY DEF RunCreate, Goto, MayRun
<1>2. TypeOK'
  BY <1>1 DEF Inv, TypeOK
<1>3. FirstPlaceEmpty' /\ CapabilityStillOwned'
  BY <1>1 DEF Inv, TypeOK, FirstPlaceEmpty, CapabilityStillOwned
<1>4. CapabilityOwnersLive'
  <2> SUFFICES ASSUME NEW i \in Identifier, Exists(i)
               PROVE  status'[table[i].owner] = "live"
    BY <1>1 DEF CapabilityOwnersLive
  <2>1. table[i].owner \in Slot /\ status[table[i].owner] = "live"
    BY DEF Inv, TypeOK, CapabilityOwnersLive
  <2> QED
    BY <1>1, <2>1 DEF Inv, TypeOK
<1>5. RunnersLive'
  BY <1>1 DEF Inv, TypeOK, RunnersLive
<1>6. ChildIsEmbryo' /\ ChildrenDiffer'
  BY <1>1 DEF Inv, TypeOK, ChildIsEmbryo, ChildrenDiffer
<1> QED
  BY <1>2, <1>3, <1>4, <1>5, <1>6 DEF Inv

\* The child gets its maximum, its parent and what was measured.
LEMMA MeasureInv ==
    ASSUME Inv, NEW p \in Slot, RunMeasure(p)
    PROVE  Inv'
<1>1. /\ UNCHANGED <<status, faulted, table, locals>>
      /\ pc[p] = "created"
      /\ pc' = [pc EXCEPT ![p] = "measured"]
      /\ max' = [max EXCEPT ![child[p]] = table[ident[p]].max]
      /\ parent' = [parent EXCEPT ![child[p]] = p]
      /\ using' = [using EXCEPT ![child[p]] = @ + (using[p] - before[p])]
  BY DEF RunMeasure, Goto
<1>2. child[p] \in Slot
  BY <1>1 DEF Inv, ChildIsEmbryo
<1>3. TypeOK'
  <2>1. ident[p] \in Identifier
    BY DEF Inv, TypeOK
  <2>2. table[ident[p]].max \in Nat
    BY <2>1 DEF Inv, TypeOK
  <2>3. using' \in [Slot -> Int]
    <3>1. using[p] - before[p] \in Int
      BY DEF Inv, TypeOK
    <3> QED
      BY <1>1, <1>2, <3>1 DEF Inv, TypeOK
  <2> QED
    BY <1>1, <1>2, <2>2, <2>3 DEF Inv, TypeOK, locals
<1>4. (FirstPlaceEmpty /\ CapabilityOwnersLive /\ CapabilityStillOwned)'
  BY <1>1 DEF Inv, TypeOK, FirstPlaceEmpty, CapabilityOwnersLive,
              CapabilityStillOwned, locals
<1>5. \A q \in Slot : HasEmbryo(q)' <=> HasEmbryo(q)
  BY <1>1 DEF Inv, TypeOK
<1>6. (RunnersLive /\ ChildIsEmbryo /\ ChildrenDiffer)'
  <2>1. RunnersLive'
    BY <1>1 DEF Inv, TypeOK, RunnersLive
  <2>2. ChildIsEmbryo'
    BY <1>1, <1>5 DEF Inv, ChildIsEmbryo, locals
  <2>3. ChildrenDiffer'
    BY <1>1, <1>5 DEF Inv, ChildrenDiffer, locals
  <2> QED
    BY <2>1, <2>2, <2>3
<1> QED
  BY <1>3, <1>4, <1>6 DEF Inv

\* Steps of sys_run that change a counter and the place only.
LEMMA CounterInv ==
    ASSUME Inv, NEW p \in Slot, HasEmbryo(p), NEW l \in {"restored", "copying"},
           pc' = [pc EXCEPT ![p] = l],
           using' \in [Slot -> Int],
           UNCHANGED <<status, parent, max, faulted, table, locals>>
    PROVE  Inv'
<1>1. TypeOK'
  BY DEF Inv, TypeOK, locals
<1>2. (FirstPlaceEmpty /\ CapabilityOwnersLive /\ CapabilityStillOwned)'
  BY DEF Inv, TypeOK, FirstPlaceEmpty, CapabilityOwnersLive,
         CapabilityStillOwned, locals
<1>3. \A q \in Slot : HasEmbryo(q)' <=> HasEmbryo(q)
  BY DEF Inv, TypeOK
<1>4. (RunnersLive /\ ChildIsEmbryo /\ ChildrenDiffer)'
  <2>1. RunnersLive'
    BY DEF Inv, TypeOK, RunnersLive
  <2>2. ChildIsEmbryo'
    BY <1>3 DEF Inv, ChildIsEmbryo, locals
  <2>3. ChildrenDiffer'
    BY <1>3 DEF Inv, ChildrenDiffer, locals
  <2> QED
    BY <2>1, <2>2, <2>3
<1> QED
  BY <1>1, <1>2, <1>4 DEF Inv

\* sys_run puts the saved counter back.
LEMMA RestoreInv ==
    ASSUME Inv, NEW p \in Slot, RunRestore(p)
    PROVE  Inv'
<1>1. HasEmbryo(p) /\ using' \in [Slot -> Int]
  BY DEF RunRestore, Inv, TypeOK
<1> QED
  BY <1>1, CounterInv DEF RunRestore, Goto

\* sys_run charges its caller with the child's maximum, or gives up.
LEMMA ChargeInv ==
    ASSUME Inv, NEW p \in Slot, RunCharge(p)
    PROVE  Inv'
<1> DEFINE charged == [using EXCEPT ![p] = @ + max[child[p]]]
<1>1. HasEmbryo(p)
  BY DEF RunCharge
<1>2. child[p] \in Slot
  BY <1>1 DEF Inv, ChildIsEmbryo
<1>3. charged \in [Slot -> Int]
  <2>1. using[p] + max[child[p]] \in Int
    BY <1>2 DEF Inv, TypeOK
  <2> QED
    BY <2>1 DEF Inv, TypeOK
<1>4. CASE Goto(p, "copying") /\ using' = charged
           /\ UNCHANGED <<status, parent, max, faulted, table, locals>>
  BY <1>1, <1>3, <1>4, CounterInv DEF Goto
<1>5. CASE Cleanup(child[p], charged) /\ Leave(p)
  BY <1>1, <1>3, <1>5, AbortInv
<1> QED
  BY <1>4, <1>5 DEF RunCharge

\* The program cannot be copied: the child is cleaned up.
LEMMA FailsInv ==
    ASSUME Inv, NEW p \in Slot, RunFails(p)
    PROVE  Inv'
<1>1. HasEmbryo(p) /\ using \in [Slot -> Int]
  BY DEF RunFails, Inv, TypeOK
<1> QED
  BY <1>1, AbortInv DEF RunFails

\* The embryo comes to life; no one else is creating it.
LEMMA StartInv ==
    ASSUME Inv, NEW p \in Slot, RunStart(p)
    PROVE  Inv'
<1> USE ContainmentAssumption
<1>1. /\ UNCHANGED <<parent, using, max, faulted, table>>
      /\ pc[p] = "copying" /\ status[p] = "live"
      /\ status' = [status EXCEPT ![child[p]] = "live"]
      /\ pc' = [pc EXCEPT ![p] = "user"]
      /\ ident' = [ident EXCEPT ![p] = 0]
      /\ before' = [before EXCEPT ![p] = 0]
      /\ child' = [child EXCEPT ![p] = Nil]
  BY DEF RunStart, Leave, Goto, MayRun
<1>2. child[p] \in Slot /\ status[child[p]] = "embryo"
  BY <1>1 DEF Inv, ChildIsEmbryo
<1>3. TypeOK'
  <2>1. status' \in [Slot -> {"free", "embryo", "live"}]
    BY <1>1, <1>2 DEF Inv, TypeOK
  <2>2. /\ pc' \in [Slot -> {"user", "opening", "counted", "created",
                            "measured", "restored", "copying"}]
        /\ ident' \in [Slot -> Identifier]
        /\ before' \in [Slot -> Int]
        /\ child' \in [Slot -> Slot \cup {Nil}]
    BY <1>1 DEF Inv, TypeOK
  <2> HIDE DEF Identifier, NoCapability
  <2> QED
    BY <1>1, <2>1, <2>2 DEF Inv, TypeOK
<1>4. FirstPlaceEmpty' /\ CapabilityStillOwned'
  BY <1>1 DEF Inv, TypeOK, FirstPlaceEmpty, CapabilityStillOwned
<1>5. CapabilityOwnersLive'
  <2> SUFFICES ASSUME NEW i \in Identifier, Exists(i)
               PROVE  status'[table[i].owner] = "live"
    BY <1>1 DEF CapabilityOwnersLive
  <2>1. table[i].owner \in Slot /\ status[table[i].owner] = "live"
    BY DEF Inv, TypeOK, CapabilityOwnersLive
  <2> QED
    BY <1>1, <2>1 DEF Inv, TypeOK
<1>6. RunnersLive'
  BY <1>1, <1>2 DEF Inv, TypeOK, RunnersLive
<1>7. ChildIsEmbryo' /\ ChildrenDiffer'
  BY <1>1 DEF Inv, TypeOK, ChildIsEmbryo, ChildrenDiffer
<1> QED
  BY <1>3, <1>4, <1>5, <1>6, <1>7 DEF Inv
-----------------------------------------------------------------------------
\* Every step keeps the invariant.
LEMMA NextInv ==
    ASSUME Inv, ~TableFills, [Next]_vars
    PROVE  Inv'
<1>1. ASSUME NEW p \in Slot, Run(p) PROVE Inv'
  BY <1>1, OpenInv, NotFoundInv, CountInv, CreateChildInv, MeasureInv,
     RestoreInv, ChargeInv, FailsInv, StartInv DEF Run
<1>2. ASSUME NEW p \in Slot, Exit(p) PROVE Inv'
  BY <1>2, EndInv DEF Exit
<1>3. CASE UNCHANGED vars
  <2> USE <1>3 DEF vars, processes, locals
  <2>1. TypeOK'
    BY DEF Inv, TypeOK
  <2>2. (FirstPlaceEmpty /\ CapabilityOwnersLive /\ CapabilityStillOwned)'
    BY DEF Inv, FirstPlaceEmpty, CapabilityOwnersLive, CapabilityStillOwned
  <2>3. (RunnersLive /\ ChildIsEmbryo /\ ChildrenDiffer)'
    BY DEF Inv, RunnersLive, ChildIsEmbryo, ChildrenDiffer
  <2> QED
    BY <2>1, <2>2, <2>3 DEF Inv
<1>4. CASE Next
  BY <1>1, <1>2, <1>4, CreateInv, DeleteInv, SetMaxInv, PageFaultInv DEF Next
<1> QED
  BY <1>3, <1>4

\* While the table is never asked for more than it holds, Inv is invariant.
THEOREM ContainmentInvariant ==
    ASSUME ~TableFills PROVE Spec => []Inv
<1>1. Init => Inv
  BY InitInv
<1>2. ~TableFills /\ Inv /\ [Next]_vars => Inv'
  BY NextInv
<1> QED
  BY <1>1, <1>2, PTL DEF Spec

\* The variables keep their types: no maximum becomes negative, and the places,
\* children and capabilities sys_run remembers are real ones.
THEOREM ContainmentTypeOK ==
    ASSUME ~TableFills PROVE Spec => []TypeOK
<1>1. Inv => TypeOK
  BY DEF Inv
<1> QED
  BY <1>1, ContainmentInvariant, PTL

\* delete_capabilities_owned_by_process leaves none to the next process that
\* gets the page.
THEOREM ContainmentCapabilityOwnersLive ==
    ASSUME ~TableFills PROVE Spec => []CapabilityOwnersLive
<1>1. Inv => CapabilityOwnersLive
  BY DEF Inv
<1> QED
  BY <1>1, ContainmentInvariant, PTL

\* What sys_run checked before it waited still holds when it uses it.
THEOREM ContainmentCapabilityStillOwned ==
    ASSUME ~TableFills PROVE Spec => []CapabilityStillOwned
<1>1. Inv => CapabilityStillOwned
  BY DEF Inv
<1> QED
  BY <1>1, ContainmentInvariant, PTL
-----------------------------------------------------------------------------
(***************************************************************************)
(* Sums over finite sets. MapThenSumSet takes the members in an order of   *)
(* its own; what it computes does not depend on it.                        *)
(***************************************************************************)

Sum(f, S) == MapThenSumSet(LAMBDA c : f[c], S)

\* The one of a set that the fold takes next, and the function the fold defines.
Chosen(s) == CHOOSE x \in s : TRUE

IsFold(f, S, i) ==
    i = [s \in SUBSET S |->
            IF s = {} THEN 0 ELSE f[Chosen(s)] + i[s \ {Chosen(s)}]]

\* Sum is the fold of the community modules, named.
LEMMA SumIsFold ==
    ASSUME NEW f, NEW S
    PROVE  Sum(f, S) = (CHOOSE i : IsFold(f, S, i))[S]
BY Zenon DEF Sum, MapThenSumSet, MapThenFoldSet, IsFold, Chosen

\* The element the fold takes next is one of the set.
LEMMA ChosenIn == ASSUME NEW S, S # {} PROVE Chosen(S) \in S
BY Zenon DEF Chosen

\* Induction, for a set: one that holds 0 and the successors of its members
\* holds every natural number.
LEMMA SetInduction ==
    ASSUME NEW S, 0 \in S, \A n \in Nat : n \in S => n + 1 \in S
    PROVE  Nat \subseteq S
<1> SUFFICES ASSUME NEW m \in Nat, m \notin S PROVE FALSE
  OBVIOUS
<1> DEFINE T == (0 .. m) \cap S
           f == [n \in T |-> n + 1]
<1>1. IsFiniteSet(T)
  <2>1. IsFiniteSet(0 .. m)
    BY FS_Interval
  <2> QED
    BY <2>1, FS_Subset
<1>2. f \in Injection(T, T)
  BY DEF Injection, IsInjective
<1>3. f \in Surjection(T, T)
  BY <1>1, <1>2, FS_Injection
<1>4. 0 \in T
  OBVIOUS
<1>5. PICK n \in T : f[n] = 0
  BY <1>3, <1>4 DEF Surjection
<1> QED
  BY <1>5

\* What holds of a finite set's subsets if it holds of each for which it holds of
\* all that have fewer members: good is the set of those of which it holds.
LEMMA SubsetInduction ==
    ASSUME NEW S, IsFiniteSet(S), NEW good,
           ASSUME NEW T \in SUBSET S, \A x \in T : T \ {x} \in good
           PROVE  T \in good
    PROVE  SUBSET S \subseteq good
<1> DEFINE N == {n \in Nat : \A T \in SUBSET S : Cardinality(T) = n => T \in good}
<1>1. ASSUME NEW T \in SUBSET S
      PROVE  IsFiniteSet(T) /\ Cardinality(T) \in Nat
  BY FS_Subset, FS_CardinalityType
<1>2. 0 \in N
  <2> SUFFICES ASSUME NEW T \in SUBSET S, Cardinality(T) = 0 PROVE T \in good
    OBVIOUS
  <2>1. T = {}
    BY <1>1, FS_EmptySet
  <2> QED
    BY <2>1
<1>3. ASSUME NEW n \in Nat, n \in N PROVE n + 1 \in N
  <2> SUFFICES ASSUME NEW T \in SUBSET S, Cardinality(T) = n + 1 PROVE T \in good
    BY <1>3
  <2>1. ASSUME NEW x \in T PROVE T \ {x} \in good
    <3>1. Cardinality(T \ {x}) = n
      BY <1>1, FS_RemoveElement
    <3> QED
      BY <1>3, <3>1
  <2> QED
    BY <2>1
<1> HIDE DEF N
<1>4. Nat \subseteq N
  BY <1>2, <1>3, SetInduction
<1> SUFFICES ASSUME NEW T \in SUBSET S PROVE T \in good
  OBVIOUS
<1>5. Cardinality(T) \in N
  BY <1>1, <1>4
<1> QED
  BY <1>5 DEF N

\* Two folds of one set agree.
LEMMA FoldUnique ==
    ASSUME NEW S, IsFiniteSet(S), NEW f, NEW i, NEW j, IsFold(f, S, i), IsFold(f, S, j)
    PROVE  i = j
<1> DEFINE good == {T \in SUBSET S : i[T] = j[T]}
<1>1. ASSUME NEW T \in SUBSET S, \A x \in T : T \ {x} \in good PROVE T \in good
  <2>1. CASE T = {}
    <3>1. i[T] = 0
      BY <2>1, Zenon DEF IsFold
    <3>2. j[T] = 0
      BY <2>1, Zenon DEF IsFold
    <3> QED
      BY <3>1, <3>2
  <2>2. CASE T # {}
    <3>1. Chosen(T) \in T
      BY <2>2, ChosenIn
    <3>2. i[T \ {Chosen(T)}] = j[T \ {Chosen(T)}]
      BY <1>1, <3>1
    <3>3. i[T] = f[Chosen(T)] + i[T \ {Chosen(T)}]
      BY <2>2, Zenon DEF IsFold
    <3>4. j[T] = f[Chosen(T)] + j[T \ {Chosen(T)}]
      BY <2>2, Zenon DEF IsFold
    <3> QED
      BY <3>2, <3>3, <3>4
  <2> QED
    BY <2>1, <2>2
<1> HIDE DEF good
<1>2. SUBSET S \subseteq good
  BY <1>1, SubsetInduction
<1>3. \A T \in SUBSET S : i[T] = j[T]
  BY <1>2 DEF good
<1> DEFINE rest(k) == [s \in SUBSET S |->
                          IF s = {} THEN 0 ELSE f[Chosen(s)] + k[s \ {Chosen(s)}]]
<1>4. i = rest(i) /\ j = rest(j)
  BY DEF IsFold
<1>5. i = [s \in SUBSET S |-> i[s]] /\ j = [s \in SUBSET S |-> j[s]]
  BY <1>4
<1> QED
  BY <1>3, <1>5

\* A fold of a set is, for its subsets, their sum.
LEMMA FoldBelow ==
    ASSUME NEW S, IsFiniteSet(S), NEW f, NEW i, IsFold(f, S, i), NEW T \in SUBSET S
    PROVE  i[T] = Sum(f, T)
<1> DEFINE below == [s \in SUBSET T |-> i[s]]
           one == CHOOSE j : IsFold(f, T, j)
<1>1. IsFold(f, T, below)
  <2>1. ASSUME NEW s \in SUBSET T
        PROVE  i[s] = IF s = {} THEN 0 ELSE f[Chosen(s)] + below[s \ {Chosen(s)}]
    <3>1. s \in SUBSET S
      OBVIOUS
    <3>2. i[s] = IF s = {} THEN 0 ELSE f[Chosen(s)] + i[s \ {Chosen(s)}]
      BY <3>1, Zenon DEF IsFold
    <3>3. below[s \ {Chosen(s)}] = i[s \ {Chosen(s)}]
      OBVIOUS
    <3> QED
      BY <3>2, <3>3
  <2>2. below = [s \in SUBSET T |->
                   IF s = {} THEN 0 ELSE f[Chosen(s)] + below[s \ {Chosen(s)}]]
    BY <2>1
  <2> QED
    BY <2>2 DEF IsFold
<1>2. IsFold(f, T, one)
  BY <1>1, Zenon
<1>3. IsFiniteSet(T)
  BY FS_Subset
<1>4. one = below
  <2> HIDE DEF one, below
  <2> QED
    BY <1>1, <1>2, <1>3, FoldUnique
<1>5. Sum(f, T) = one[T]
  BY SumIsFold
<1>6. below[T] = i[T]
  OBVIOUS
<1> QED
  BY <1>4, <1>5, <1>6

\* A finite set has a fold.
LEMMA FoldExists ==
    ASSUME NEW S, IsFiniteSet(S), NEW f
    PROVE  \E i : IsFold(f, S, i)
<1> DEFINE good == {T \in SUBSET S : \E i : IsFold(f, T, i)}
<1>1. ASSUME NEW T \in SUBSET S, \A x \in T : T \ {x} \in good PROVE T \in good
  <2> DEFINE next(s) == IF s = {} THEN 0 ELSE f[Chosen(s)] + Sum(f, s \ {Chosen(s)})
             i == [s \in SUBSET T |-> next(s)]
  <2>1. ASSUME NEW s \in SUBSET T, s # {}
        PROVE  Sum(f, s \ {Chosen(s)}) = next(s \ {Chosen(s)})
    <3> DEFINE x == Chosen(s)
               w == s \ {x}
    <3>1. x \in T
      BY <2>1, ChosenIn
    <3>2. PICK k : IsFold(f, T \ {x}, k)
      BY <1>1, <3>1
    <3>3. IsFiniteSet(T \ {x}) /\ w \in SUBSET (T \ {x})
      BY FS_Subset
    <3> HIDE DEF w, x
    <3>4. k[w] = Sum(f, w) /\ k[w \ {Chosen(w)}] = Sum(f, w \ {Chosen(w)})
      BY <3>2, <3>3, FoldBelow
    <3>5. k[w] = IF w = {} THEN 0 ELSE f[Chosen(w)] + k[w \ {Chosen(w)}]
      BY <3>2, <3>3, Zenon DEF IsFold
    <3>6. Sum(f, w) = next(w)
      BY <3>4, <3>5
    <3> QED
      BY <3>6 DEF w, x
  <2>2. ASSUME NEW s \in SUBSET T
        PROVE  next(s) = IF s = {} THEN 0 ELSE f[Chosen(s)] + i[s \ {Chosen(s)}]
    <3>1. s # {} => i[s \ {Chosen(s)}] = next(s \ {Chosen(s)})
      OBVIOUS
    <3> QED
      BY <2>1, <3>1
  <2>3. IsFold(f, T, i)
    BY <2>2 DEF IsFold
  <2> QED
    BY <2>3
<1> HIDE DEF good
<1>2. SUBSET S \subseteq good
  BY <1>1, SubsetInduction
<1>3. S \in good
  BY <1>2
<1> QED
  BY <1>3 DEF good
\* The sum is that of the element taken first and of the rest.
LEMMA SumNext ==
    ASSUME NEW S, IsFiniteSet(S), NEW f, S # {}
    PROVE  Sum(f, S) = f[Chosen(S)] + Sum(f, S \ {Chosen(S)})
<1>1. PICK i : IsFold(f, S, i)
  BY FoldExists
<1>2. i[S] = f[Chosen(S)] + i[S \ {Chosen(S)}]
  BY <1>1, Zenon DEF IsFold
<1>3. S \in SUBSET S /\ S \ {Chosen(S)} \in SUBSET S
  OBVIOUS
<1>4. i[S] = Sum(f, S)
  BY <1>1, <1>3, FoldBelow
<1>5. i[S \ {Chosen(S)}] = Sum(f, S \ {Chosen(S)})
  BY <1>1, <1>3, FoldBelow
<1> QED
  BY <1>2, <1>4, <1>5

\* Nothing sums up to nothing.
LEMMA SumEmpty == ASSUME NEW f PROVE Sum(f, {}) = 0
<1>1. PICK i : IsFold(f, {}, i)
  BY FoldExists, FS_EmptySet
<1>2. i[{}] = 0
  BY <1>1, Zenon DEF IsFold
<1>3. i[{}] = Sum(f, {})
  BY <1>1, FoldBelow, FS_EmptySet
<1> QED
  BY <1>2, <1>3

\* A sum of integers is one.
LEMMA SumType ==
    ASSUME NEW S, IsFiniteSet(S), NEW f, \A x \in S : f[x] \in Int
    PROVE  Sum(f, S) \in Int
<1> DEFINE good == {T \in SUBSET S : Sum(f, T) \in Int}
<1>1. ASSUME NEW T \in SUBSET S, \A x \in T : T \ {x} \in good PROVE T \in good
  <2>1. CASE T = {}
    BY <2>1, SumEmpty
  <2>2. CASE T # {}
    <3>1. Chosen(T) \in T
      BY <2>2, ChosenIn
    <3>2. Sum(f, T) = f[Chosen(T)] + Sum(f, T \ {Chosen(T)})
      BY <2>2, SumNext, FS_Subset
    <3> QED
      BY <1>1, <3>1, <3>2
  <2> QED
    BY <2>1, <2>2
<1> HIDE DEF good
<1>2. S \in good
  BY <1>1, SubsetInduction
<1> QED
  BY <1>2 DEF good

\* A sum of natural numbers is one.
LEMMA SumOfNat ==
    ASSUME NEW S, IsFiniteSet(S), NEW f, \A x \in S : f[x] \in Nat
    PROVE  Sum(f, S) \in Nat
<1> DEFINE good == {T \in SUBSET S : Sum(f, T) \in Nat}
<1>1. ASSUME NEW T \in SUBSET S, \A x \in T : T \ {x} \in good PROVE T \in good
  <2>1. CASE T = {}
    BY <2>1, SumEmpty
  <2>2. CASE T # {}
    <3>1. Chosen(T) \in T
      BY <2>2, ChosenIn
    <3>2. Sum(f, T) = f[Chosen(T)] + Sum(f, T \ {Chosen(T)})
      BY <2>2, SumNext, FS_Subset
    <3> QED
      BY <1>1, <3>1, <3>2
  <2> QED
    BY <2>1, <2>2
<1> HIDE DEF good
<1>2. S \in good
  BY <1>1, SubsetInduction
<1> QED
  BY <1>2 DEF good

\* The order in which the fold takes them does not matter: one taken out of a sum.
LEMMA SumWithout ==
    ASSUME NEW S, IsFiniteSet(S), NEW f, \A x \in S : f[x] \in Int, NEW c \in S
    PROVE  Sum(f, S) = f[c] + Sum(f, S \ {c})
<1> DEFINE good == {T \in SUBSET S : \A x \in T : Sum(f, T) = f[x] + Sum(f, T \ {x})}
<1>1. ASSUME NEW T \in SUBSET S, \A x \in T : T \ {x} \in good PROVE T \in good
  <2> SUFFICES ASSUME NEW x \in T PROVE Sum(f, T) = f[x] + Sum(f, T \ {x})
    OBVIOUS
  <2> DEFINE y == Chosen(T)
  <2>1. y \in T
    BY ChosenIn
  <2>2. Sum(f, T) = f[y] + Sum(f, T \ {y})
    BY SumNext, FS_Subset
  <2>3. CASE x = y
    BY <2>2, <2>3
  <2>4. CASE x # y
    <3> DEFINE rest == T \ {x, y}
    <3>1. T \ {y} \in good /\ T \ {x} \in good /\ x \in T \ {y} /\ y \in T \ {x}
      BY <1>1, <2>1, <2>4
    <3>2. (T \ {y}) \ {x} = rest /\ (T \ {x}) \ {y} = rest
      OBVIOUS
    <3>3. Sum(f, T \ {y}) = f[x] + Sum(f, rest) /\ Sum(f, T \ {x}) = f[y] + Sum(f, rest)
      BY <3>1, <3>2
    <3>4. Sum(f, rest) \in Int
      BY FS_Subset, SumType
    <3>5. f[x] \in Int /\ f[y] \in Int
      BY <2>1
    <3> HIDE DEF y, rest
    <3> QED
      BY <2>2, <3>3, <3>4, <3>5
  <2> QED
    BY <2>3, <2>4
<1> HIDE DEF good
<1>2. S \in good
  BY <1>1, SubsetInduction
<1> QED
  BY <1>2 DEF good

\* One element more adds its value.
LEMMA SumWith ==
    ASSUME NEW S, IsFiniteSet(S), NEW f, \A x \in S : f[x] \in Int, NEW c, c \notin S,
           f[c] \in Int
    PROVE  Sum(f, S \cup {c}) = Sum(f, S) + f[c]
<1>1. IsFiniteSet(S \cup {c})
  BY FS_AddElement
<1>2. (S \cup {c}) \ {c} = S /\ c \in S \cup {c} /\ \A x \in S \cup {c} : f[x] \in Int
  OBVIOUS
<1>3. Sum(f, S \cup {c}) = f[c] + Sum(f, S)
  BY <1>1, <1>2, SumWithout
<1> QED
  BY <1>3, SumType

\* A sum is determined by the values of its elements.
LEMMA SumAgrees ==
    ASSUME NEW S, IsFiniteSet(S), NEW f, NEW g, \A x \in S : f[x] = g[x]
    PROVE  Sum(f, S) = Sum(g, S)
<1> DEFINE good == {T \in SUBSET S : Sum(f, T) = Sum(g, T)}
<1>1. ASSUME NEW T \in SUBSET S, \A x \in T : T \ {x} \in good PROVE T \in good
  <2>1. CASE T = {}
    BY <2>1, SumEmpty
  <2>2. CASE T # {}
    <3>1. Chosen(T) \in T
      BY <2>2, ChosenIn
    <3>2. Sum(f, T) = f[Chosen(T)] + Sum(f, T \ {Chosen(T)})
      BY <2>2, SumNext, FS_Subset
    <3>3. Sum(g, T) = g[Chosen(T)] + Sum(g, T \ {Chosen(T)})
      BY <2>2, SumNext, FS_Subset
    <3> QED
      BY <1>1, <3>1, <3>2, <3>3
  <2> QED
    BY <2>1, <2>2
<1> HIDE DEF good
<1>2. S \in good
  BY <1>1, SubsetInduction
<1> QED
  BY <1>2 DEF good
-----------------------------------------------------------------------------
(***************************************************************************)
(* The tree of processes and its counters.                                 *)
(***************************************************************************)

\* A page that is free, or holds a process under construction, counts nothing.
CountersClean ==
    \A s \in Slot :
        /\ status[s] = "free" => using[s] = 0 /\ faulted[s] = 0 /\ max[s] = 0 /\ parent[s] = Nil
        /\ status[s] = "embryo" => using[s] = 0 /\ faulted[s] = 0

\* Parents are alive, and a child that is measured has its parent.
ParentsLive == \A s \in Slot : parent[s] # Nil => status[parent[s]] = "live"

ParentSet ==
    \A p \in Slot :
        pc[p] \in {"measured", "restored", "copying"} => parent[child[p]] = p

\* sys_run measures alone, and nothing is measured.
SectionAlone == \A p, q \in Slot : InSection(p) /\ InSection(q) => p = q

BeforeTrue == \A p \in Slot : InSection(p) => before[p] = using[p]

\* No counter is above its maximum, no maximum above the memory there is.
UsingBelow ==
    /\ \A p \in Slot : status[p] = "live" => using[p] <= max[p]
    /\ \A p \in Members : max[p] <= Total

TreeInv ==
    /\ status[Root] = "live"
    /\ CountersClean
    /\ ParentsLive
    /\ ParentSet
    /\ SectionAlone
    /\ BeforeTrue
    /\ UsingBelow
    /\ Accounting

Copying(c) == \E q \in Slot : child[q] = c /\ pc[q] = "copying"

\* Members, and those of them a process is charged for.
LEMMA ChargedFacts ==
    /\ \A c \in Slot : c \in Members <=> status[c] = "live" \/ Copying(c)
    /\ Members \subseteq Slot
    /\ \A p \in Slot : Charged(p) = {c \in Members : parent[c] = p}
BY Zenon DEF Members, Charged, Copying

\* Accounting in terms of Sum,
LEMMA AccountingIs ==
    Accounting <=> \A p \in Slot : status[p] = "live" =>
                      using[p] = faulted[p] + Sum(max, Charged(p))
BY Zenon DEF Accounting, Sum

\* and the same in the next state.
LEMMA AccountingWillBe ==
    Accounting' <=> \A p \in Slot : status'[p] = "live" =>
                      using'[p] = faulted'[p] + Sum(max', Charged(p)')
<1> DEFINE Adds == \A p \in Slot : status[p] = "live" =>
                      using[p] = faulted[p] + Sum(max, Charged(p))
<1>1. Accounting <=> Adds
  BY AccountingIs
<1>2. Accounting' <=> Adds'
  <2> HIDE DEF Adds
  <2> QED
    BY <1>1, PTL
<1>3. Adds' <=> \A p \in Slot : status'[p] = "live" =>
                      using'[p] = faulted'[p] + Sum(max', Charged(p)')
  OBVIOUS
<1> QED
  BY <1>2, <1>3

\* A process is charged for finitely many children.
LEMMA ChargedFinite ==
    ASSUME TypeOK, NEW p \in Slot
    PROVE  /\ IsFiniteSet(Charged(p)) /\ Charged(p) \subseteq Slot
           /\ \A c \in Charged(p) : max[c] \in Nat /\ max[c] \in Int
           /\ Sum(max, Charged(p)) \in Nat
<1>1. IsFiniteSet(Charged(p)) /\ Charged(p) \subseteq Slot
  BY ContainmentAssumption, FS_Subset DEF Charged
<1>2. \A c \in Charged(p) : max[c] \in Nat
  BY <1>1 DEF TypeOK
<1>3. Sum(max, Charged(p)) \in Nat
  BY <1>1, <1>2, SumOfNat
<1> QED
  BY <1>1, <1>2, <1>3

\* What is charged stays the same when members, parents and maxima do.
LEMMA ChargedSame ==
    ASSUME TypeOK, Members' = Members,
           \A c \in Members : parent'[c] = parent[c] /\ max'[c] = max[c],
           NEW p \in Slot
    PROVE  Charged(p)' = Charged(p) /\ Sum(max', Charged(p)') = Sum(max, Charged(p))
<1>1. Charged(p)' = {c \in Members' : parent'[c] = p}
  BY Zenon DEF Members, Charged
<1>2. Charged(p)' = Charged(p)
  BY <1>1, ChargedFacts
<1>3. \A c \in Charged(p) : max'[c] = max[c]
  BY ChargedFacts
<1>4. Sum(max', Charged(p)) = Sum(max, Charged(p))
  BY <1>3, ChargedFinite, SumAgrees
<1> QED
  BY <1>2, <1>4

\* A step that changes nothing of the members, nor what they use.
LEMMA InertAccounting ==
    ASSUME TypeOK, Accounting, Members' = Members,
           \A c \in Members : parent'[c] = parent[c] /\ max'[c] = max[c],
           \A q \in Slot : status'[q] = "live" =>
               status[q] = "live" /\ using'[q] = using[q] /\ faulted'[q] = faulted[q]
    PROVE  Accounting'
<1> SUFFICES ASSUME NEW q \in Slot, status'[q] = "live"
             PROVE  using'[q] = faulted'[q] + Sum(max', Charged(q)')
  BY AccountingWillBe
<1>1. Sum(max', Charged(q)') = Sum(max, Charged(q))
  BY ChargedSame
<1> QED
  BY <1>1, AccountingIs

\* Budget's functions depend on the members alone.
LEMMA OfSame ==
    ASSUME Members' = Members, NEW f, NEW g, NEW none, \A c \in Members : f[c] = g[c]
    PROVE  [p \in Slot |-> IF p \in Members' THEN f[p] ELSE none]
             = [p \in Slot |-> IF p \in Members THEN g[p] ELSE none]
OBVIOUS

\* A step that changes none of them changes nothing of Budget.
LEMMA InertBudget ==
    ASSUME TypeOK, Members' = Members,
           \A c \in Members : parent'[c] = parent[c] /\ max'[c] = max[c],
           faulted' = faulted
    PROVE  UNCHANGED Promise!vars
<1>1. Of(parent, Nil)' = Of(parent, Nil)
  BY DEF Of
<1>2. Of(max, 0)' = Of(max, 0)
  BY DEF Of
<1> QED
  BY <1>1, <1>2 DEF Promise!vars
-----------------------------------------------------------------------------
Below == [Promise!Next]_(Promise!vars)

\* What a step leaves of the members when no one starts or ends copying.
LEMMA MembersSame ==
    ASSUME \A q \in Slot : status'[q] = "live" <=> status[q] = "live",
           \A q \in Slot : pc'[q] = "copying" <=> pc[q] = "copying",
           \A q \in Slot : pc[q] = "copying" => child'[q] = child[q]
    PROVE  Members' = Members
BY DEF Members

\* Steps that move no page and create nobody.
LEMMA PlaceTree ==
    ASSUME ~Preempted, Inv, TreeInv, NEW p \in Slot, MayRun(p),
           UNCHANGED processes,
           pc[p] \in {"user", "opening"}, pc'[p] \in {"user", "opening", "counted"},
           pc'[p] = "counted" => before'[p] = using[p],
           \A q \in Slot \ {p} :
               pc'[q] = pc[q] /\ child'[q] = child[q] /\ before'[q] = before[q]
    PROVE  TreeInv' /\ Below
<1> USE DEF processes
<1>1. Members' = Members
  BY MembersSame
<1>2. Accounting'
  BY <1>1, InertAccounting DEF Inv, TreeInv
<1>3. (CountersClean /\ ParentsLive /\ UsingBelow /\ status[Root] = "live")'
  BY <1>1 DEF TreeInv, CountersClean, ParentsLive, UsingBelow
<1>4. ParentSet'
  BY DEF TreeInv, ParentSet
<1>5. \A q \in Slot \ {p} : ~InSection(q) /\ ~InSection(q)'
  BY DEF MayRun, InSection
<1>6. SectionAlone' /\ BeforeTrue'
  BY <1>5 DEF SectionAlone, BeforeTrue, InSection
<1>7. Below
  BY <1>1, InertBudget DEF Inv, Below
<1> QED
  BY <1>2, <1>3, <1>4, <1>6, <1>7 DEF TreeInv

\* Capabilities are created and deleted beside the tree.
LEMMA CapabilityTree ==
    ASSUME ~Preempted, Inv, TreeInv, UNCHANGED <<processes, pc, locals>>
    PROVE  TreeInv' /\ Below
<1> USE DEF processes, locals
<1>1. Members' = Members
  BY MembersSame
<1>2. Accounting'
  BY <1>1, InertAccounting DEF Inv, TreeInv
<1>3. (CountersClean /\ ParentsLive /\ UsingBelow /\ status[Root] = "live")'
  BY <1>1 DEF TreeInv, CountersClean, ParentsLive, UsingBelow
<1>4. ParentSet' /\ SectionAlone' /\ BeforeTrue'
  BY DEF TreeInv, ParentSet, SectionAlone, BeforeTrue, InSection
<1>5. Below
  BY <1>1, InertBudget DEF Inv, Below
<1> QED
  BY <1>2, <1>3, <1>4, <1>5 DEF TreeInv

\* sys_run starts to look for the program.
LEMMA OpenTree ==
    ASSUME ~Preempted, Inv, TreeInv, NEW p \in Slot, NEW i \in Identifier, RunOpen(p, i)
    PROVE  TreeInv' /\ Below
<1>1. /\ UNCHANGED <<processes, before, child>> /\ MayRun(p) /\ pc[p] = "user"
      /\ pc' = [pc EXCEPT ![p] = "opening"]
  BY DEF RunOpen, Goto, InUserMode
<1>2. pc'[p] = "opening" /\ \A q \in Slot \ {p} : pc'[q] = pc[q]
  BY <1>1 DEF Inv, TypeOK
<1> QED
  BY <1>1, <1>2, PlaceTree

\* It does not find it.
LEMMA NotFoundTree ==
    ASSUME ~Preempted, Inv, TreeInv, NEW p \in Slot, RunNotFound(p)
    PROVE  TreeInv' /\ Below
<1>1. /\ UNCHANGED <<processes, table>> /\ MayRun(p) /\ pc[p] = "opening"
      /\ pc' = [pc EXCEPT ![p] = "user"]
      /\ before' = [before EXCEPT ![p] = 0]
      /\ child' = [child EXCEPT ![p] = Nil]
  BY DEF RunNotFound, Leave, Goto
<1>2. pc'[p] = "user" /\ \A q \in Slot \ {p} :
        pc'[q] = pc[q] /\ child'[q] = child[q] /\ before'[q] = before[q]
  BY <1>1 DEF Inv, TypeOK
<1> QED
  BY <1>1, <1>2, PlaceTree

\* It saves its caller's counter.
LEMMA CountTree ==
    ASSUME ~Preempted, Inv, TreeInv, NEW p \in Slot, RunCount(p)
    PROVE  TreeInv' /\ Below
<1>1. /\ UNCHANGED <<processes, table, ident, child>> /\ MayRun(p) /\ pc[p] = "opening"
      /\ pc' = [pc EXCEPT ![p] = "counted"]
      /\ before' = [before EXCEPT ![p] = using[p]]
  BY DEF RunCount, Goto
<1>2. pc'[p] = "counted" /\ before'[p] = using[p] /\ \A q \in Slot \ {p} :
        pc'[q] = pc[q] /\ child'[q] = child[q] /\ before'[q] = before[q]
  BY <1>1 DEF Inv, TypeOK
<1> QED
  BY <1>1, <1>2, PlaceTree

\* A free page becomes an embryo: no member yet.
LEMMA CreateTree ==
    ASSUME ~Preempted, Inv, TreeInv, NEW p \in Slot, NEW c \in Slot, RunCreate(p, c)
    PROVE  TreeInv' /\ Below
<1>1. /\ UNCHANGED <<parent, using, max, faulted, table, ident, before>>
      /\ pc[p] = "counted" /\ status[c] = "free" /\ status[p] = "live" /\ MayRun(p)
      /\ pc' = [pc EXCEPT ![p] = "created"]
      /\ status' = [status EXCEPT ![c] = "embryo"]
      /\ child' = [child EXCEPT ![p] = c]
  BY DEF RunCreate, Goto, MayRun
<1>2. /\ pc'[p] = "created" /\ status'[c] = "embryo"
      /\ \A q \in Slot \ {p} : pc'[q] = pc[q] /\ child'[q] = child[q]
      /\ \A q \in Slot \ {c} : status'[q] = status[q]
  BY <1>1 DEF Inv, TypeOK
<1>3. Members' = Members
  BY <1>1, <1>2, MembersSame
<1>4. Accounting'
  BY <1>1, <1>2, <1>3, InertAccounting DEF Inv, TreeInv
<1>5. CountersClean'
  BY <1>1, <1>2 DEF TreeInv, CountersClean
<1>6. UsingBelow' /\ status'[Root] = "live"
  BY <1>1, <1>2, <1>3, ContainmentAssumption DEF TreeInv, UsingBelow
<1>7. ParentsLive'
  <2> SUFFICES ASSUME NEW s \in Slot, parent[s] # Nil PROVE status'[parent[s]] = "live"
    BY <1>1 DEF ParentsLive
  <2>1. status[parent[s]] = "live" /\ parent[s] \in Slot
    BY DEF TreeInv, ParentsLive, Inv, TypeOK
  <2> QED
    BY <1>1, <1>2, <2>1
<1>8. ParentSet'
  BY <1>1, <1>2 DEF TreeInv, ParentSet
<1>9. SectionAlone' /\ BeforeTrue'
  BY <1>1, <1>2 DEF TreeInv, SectionAlone, BeforeTrue, InSection
<1>10. Below
  BY <1>1, <1>3, InertBudget DEF Inv, Below
<1> QED
  BY <1>4, <1>5, <1>6, <1>7, <1>8, <1>9, <1>10 DEF TreeInv

\* Who is under construction, and where.
LEMMA EmbryoFacts ==
    ASSUME Inv, TreeInv, NEW p \in Slot, HasEmbryo(p)
    PROVE  /\ child[p] \in Slot /\ status[child[p]] = "embryo" /\ status[p] = "live"
           /\ child[p] # p /\ child[p] # Root
           /\ using[child[p]] = 0 /\ faulted[child[p]] = 0
           /\ pc[p] # "copying" => child[p] \notin Members
           /\ \A s \in Slot : parent[s] # child[p]
           /\ pc[child[p]] = "user"
<1>1. child[p] \in Slot /\ status[child[p]] = "embryo" /\ status[p] = "live"
  BY DEF Inv, ChildIsEmbryo, RunnersLive
<1>2. child[p] # p /\ child[p] # Root /\ pc[child[p]] = "user"
  BY <1>1 DEF TreeInv, Inv, RunnersLive
<1>3. using[child[p]] = 0 /\ faulted[child[p]] = 0
  BY <1>1 DEF TreeInv, CountersClean
<1>4. ASSUME pc[p] # "copying" PROVE child[p] \notin Members
  BY <1>1, <1>4 DEF Members, Inv, ChildrenDiffer
<1>5. \A s \in Slot : parent[s] # child[p]
  BY <1>1, ContainmentAssumption DEF TreeInv, ParentsLive
<1> QED
  BY <1>1, <1>2, <1>3, <1>4, <1>5

\* The child gets its maximum, its parent and what the counter has grown by.
LEMMA MeasureTree ==
    ASSUME ~Preempted, Inv, TreeInv, NEW p \in Slot, RunMeasure(p)
    PROVE  TreeInv' /\ Below
<1>1. /\ UNCHANGED <<status, faulted, table, locals>>
      /\ pc[p] = "created" /\ MayRun(p)
      /\ pc' = [pc EXCEPT ![p] = "measured"]
      /\ max' = [max EXCEPT ![child[p]] = table[ident[p]].max]
      /\ parent' = [parent EXCEPT ![child[p]] = p]
      /\ using' = [using EXCEPT ![child[p]] = @ + (using[p] - before[p])]
  BY DEF RunMeasure, Goto
<1> PICK c \in Slot : c = child[p]
  BY <1>1, EmbryoFacts
<1>2. /\ status[c] = "embryo" /\ status[p] = "live" /\ c # p /\ c # Root /\ c \notin Members
      /\ using[c] = 0 /\ faulted[c] = 0
  BY <1>1, EmbryoFacts
<1>3. using[p] = before[p] /\ using[p] \in Int
  BY <1>1 DEF TreeInv, BeforeTrue, InSection, Inv, TypeOK
<1>4. /\ pc'[p] = "measured" /\ parent'[c] = p /\ using'[c] = 0
      /\ \A q \in Slot \ {p} : pc'[q] = pc[q]
      /\ \A q \in Slot \ {c} :
            max'[q] = max[q] /\ parent'[q] = parent[q] /\ using'[q] = using[q]
  BY <1>1, <1>2, <1>3 DEF Inv, TypeOK
<1>5. Members' = Members
  BY <1>1, <1>4, MembersSame DEF locals
<1>6. \A m \in Members : m \in Slot \ {c}
  BY <1>2, ChargedFacts
<1>7. Accounting'
  BY <1>1, <1>2, <1>4, <1>5, <1>6, InertAccounting DEF Inv, TreeInv
<1>8. CountersClean'
  BY <1>1, <1>2, <1>4 DEF TreeInv, CountersClean
<1>9. UsingBelow' /\ status'[Root] = "live"
  BY <1>1, <1>2, <1>4, <1>5, <1>6 DEF TreeInv, UsingBelow
<1>10. ParentsLive'
  BY <1>1, <1>2, <1>4 DEF TreeInv, ParentsLive
<1>11. ParentSet'
  <2> SUFFICES ASSUME NEW q \in Slot, pc'[q] \in {"measured", "restored", "copying"}
               PROVE  parent'[child[q]] = q
    BY <1>1 DEF ParentSet, locals
  <2>1. CASE q = p
    BY <1>4, <2>1
  <2>2. CASE q # p
    <3>1. pc[q] = pc'[q] /\ parent[child[q]] = q
      BY <1>4, <2>2 DEF TreeInv, ParentSet
    <3>2. child[q] \in Slot /\ child[q] # c
      BY <1>1, <2>2, <3>1 DEF Inv, ChildIsEmbryo, ChildrenDiffer
    <3> QED
      BY <1>4, <3>1, <3>2
  <2> QED
    BY <2>1, <2>2
<1>12. SectionAlone' /\ BeforeTrue'
  BY <1>1, <1>2, <1>4 DEF TreeInv, SectionAlone, BeforeTrue, InSection, MayRun, locals
<1>13. Below
  BY <1>1, <1>4, <1>5, <1>6, InertBudget DEF Inv, Below
<1> QED
  BY <1>7, <1>8, <1>9, <1>10, <1>11, <1>12, <1>13 DEF TreeInv

\* The saved counter is put back.
LEMMA RestoreTree ==
    ASSUME ~Preempted, Inv, TreeInv, NEW p \in Slot, RunRestore(p)
    PROVE  TreeInv' /\ Below
<1>1. /\ UNCHANGED <<status, parent, max, faulted, table, locals>>
      /\ pc[p] = "measured" /\ MayRun(p)
      /\ pc' = [pc EXCEPT ![p] = "restored"]
      /\ using' = [using EXCEPT ![p] = before[p]]
  BY DEF RunRestore, Goto
<1>2. using[p] = before[p]
  BY <1>1 DEF TreeInv, BeforeTrue, InSection
<1>3. using' = using
  BY <1>1, <1>2 DEF Inv, TypeOK
<1>4. pc'[p] = "restored" /\ \A q \in Slot \ {p} : pc'[q] = pc[q]
  BY <1>1 DEF Inv, TypeOK
<1>5. Members' = Members
  BY <1>1, <1>4, MembersSame DEF locals
<1>6. Accounting'
  BY <1>1, <1>3, <1>5, InertAccounting DEF Inv, TreeInv
<1>7. (CountersClean /\ ParentsLive /\ UsingBelow /\ status[Root] = "live")'
  BY <1>1, <1>3, <1>5 DEF TreeInv, CountersClean, ParentsLive, UsingBelow
<1>8. ParentSet' /\ SectionAlone' /\ BeforeTrue'
  BY <1>1, <1>3, <1>4 DEF TreeInv, ParentSet, SectionAlone, BeforeTrue, InSection, locals
<1>9. Below
  BY <1>1, <1>5, InertBudget DEF Inv, Below
<1> QED
  BY <1>6, <1>7, <1>8, <1>9 DEF TreeInv
-----------------------------------------------------------------------------
(* One member more, one member less. *)

\* A child joins and its parent is charged for it.
LEMMA JoinAccounting ==
    ASSUME TypeOK, Accounting, NEW c \in Slot, c \notin Members, Members' = Members \cup {c},
           parent' = parent, max' = max, parent[c] \in Slot,
           \A q \in Slot : status'[q] = "live" =>
               /\ status[q] = "live" /\ faulted'[q] = faulted[q]
               /\ q = parent[c] => using'[q] = using[q] + max[c]
               /\ q # parent[c] => using'[q] = using[q]
    PROVE  Accounting'
<1> SUFFICES ASSUME NEW q \in Slot, status'[q] = "live"
             PROVE  using'[q] = faulted'[q] + Sum(max', Charged(q)')
  BY AccountingWillBe
<1>1. Charged(q)' = {m \in Members' : parent'[m] = q}
  BY Zenon DEF Members, Charged
<1>2. using[q] = faulted[q] + Sum(max, Charged(q))
  BY AccountingIs
<1>3. CASE q = parent[c]
  <2>1. Charged(q)' = Charged(q) \cup {c} /\ c \notin Charged(q)
    BY <1>1, <1>3, ChargedFacts
  <2>2. Sum(max, Charged(q) \cup {c}) = Sum(max, Charged(q)) + max[c]
    <3>1. max[c] \in Int
      BY DEF TypeOK
    <3> QED
      BY <2>1, <3>1, ChargedFinite, SumWith
  <2>3. Sum(max', Charged(q)') = Sum(max, Charged(q)) + max[c]
    BY <2>1, <2>2
  <2>4. Sum(max, Charged(q)) \in Nat /\ max[c] \in Nat /\ faulted[q] \in Nat
    BY ChargedFinite DEF TypeOK
  <2> QED
    BY <1>2, <1>3, <2>3, <2>4
<1>4. CASE q # parent[c]
  <2>1. Charged(q)' = Charged(q)
    BY <1>1, <1>4, ChargedFacts
  <2> QED
    BY <1>2, <1>4, <2>1
<1> QED
  BY <1>3, <1>4

\* A child without children leaves and its parent is given back its maximum.
LEMMA LeaveAccounting ==
    ASSUME TypeOK, Accounting, NEW c \in Members, Members' = Members \ {c},
           \A m \in Members \ {c} : parent'[m] = parent[m] /\ max'[m] = max[m],
           \A q \in Slot : status'[q] = "live" =>
               /\ status[q] = "live" /\ faulted'[q] = faulted[q]
               /\ q = parent[c] => using'[q] = using[q] - max[c]
               /\ q # parent[c] => using'[q] = using[q]
    PROVE  Accounting'
<1> SUFFICES ASSUME NEW q \in Slot, status'[q] = "live"
             PROVE  using'[q] = faulted'[q] + Sum(max', Charged(q)')
  BY AccountingWillBe
<1>1. Charged(q)' = {m \in Members' : parent'[m] = q}
  BY Zenon DEF Members, Charged
<1>2. using[q] = faulted[q] + Sum(max, Charged(q))
  BY AccountingIs
<1>3. Charged(q)' = Charged(q) \ {c}
  BY <1>1, ChargedFacts
<1>4. Sum(max', Charged(q) \ {c}) = Sum(max, Charged(q) \ {c})
  <2>1. IsFiniteSet(Charged(q) \ {c})
    BY ChargedFinite, FS_Subset
  <2>2. \A m \in Charged(q) \ {c} : max'[m] = max[m]
    BY ChargedFacts
  <2> QED
    BY <2>1, <2>2, SumAgrees
<1>5. CASE q = parent[c]
  <2>1. c \in Charged(q)
    BY <1>5, ChargedFacts
  <2>2. Sum(max, Charged(q)) = max[c] + Sum(max, Charged(q) \ {c})
    BY <2>1, ChargedFinite, SumWithout
  <2>3. Sum(max, Charged(q) \ {c}) \in Int
    <3>1. IsFiniteSet(Charged(q) \ {c})
      BY ChargedFinite, FS_Subset
    <3>2. \A m \in Charged(q) \ {c} : max[m] \in Int
      BY ChargedFinite
    <3> QED
      BY <3>1, <3>2, SumType
  <2>4. max[c] \in Int /\ faulted[q] \in Int
    BY ChargedFacts DEF TypeOK
  <2>5. using'[q] = using[q] - max[c] /\ faulted'[q] = faulted[q]
    BY <1>5
  <2>6. Sum(max', Charged(q)') = Sum(max, Charged(q) \ {c})
    BY <1>3, <1>4
  <2> HIDE DEF Sum
  <2> QED
    BY <1>2, <2>2, <2>3, <2>4, <2>5, <2>6
<1>6. CASE q # parent[c]
  <2>1. Charged(q) \ {c} = Charged(q)
    BY <1>6, ChargedFacts
  <2> QED
    BY <1>2, <1>3, <1>4, <1>6, <2>1
<1> QED
  BY <1>5, <1>6

\* What a process has left is what the kernel's counters leave it.
LEMMA LeftIs ==
    ASSUME Inv, TreeInv, NEW p \in Slot, status[p] = "live"
    PROVE  Promise!Left(p) = max[p] - using[p] /\ Of(max, 0)[p] = max[p] /\ p \in Members
<1>1. p \in Members
  BY ChargedFacts
<1>2. Of(max, 0)[p] = max[p]
  BY <1>1 DEF Of
<1>3. Promise!Children(p) = Charged(p)
  BY ChargedFacts DEF Promise!Children, Of
<1>4. Promise!Given(p) = Sum(Of(max, 0), Charged(p))
  BY <1>3, Zenon DEF Promise!Given, Sum, MapThenSumSet, MapThenFoldSet,
     Promise!MapThenSumSet, Promise!MapThenFoldSet
<1>5. \A c \in Charged(p) : Of(max, 0)[c] = max[c]
  BY ChargedFacts DEF Of
<1>6. Sum(Of(max, 0), Charged(p)) = Sum(max, Charged(p))
  BY <1>5, ChargedFinite, SumAgrees DEF Inv
<1>7. using[p] = faulted[p] + Sum(max, Charged(p))
  BY AccountingIs DEF TreeInv
<1>8. Sum(max, Charged(p)) \in Nat /\ max[p] \in Nat /\ faulted[p] \in Nat
  BY ChargedFinite DEF Inv, TypeOK
<1>9. Promise!Left(p) = max[p] - faulted[p] - Sum(max, Charged(p))
  BY <1>2, <1>4, <1>6 DEF Promise!Left
<1> QED
  BY <1>1, <1>2, <1>7, <1>8, <1>9

\* A child that joins within what its parent has left starts in Budget,
LEMMA JoinBudget ==
    ASSUME Inv, TreeInv, NEW p \in Slot, status[p] = "live",
           NEW c \in Slot, c \notin Members, Members' = Members \cup {c},
           parent' = parent, max' = max, faulted' = faulted, parent[c] = p,
           using[p] + max[c] <= max[p]
    PROVE  Promise!Start(p, c, max[c]) /\ max[c] \in 0 .. Total
<1>1. Promise!Left(p) = max[p] - using[p] /\ p \in Members
  BY LeftIs
<1>2. max[c] \in Nat /\ max[p] \in Nat /\ using[p] \in Int
  BY DEF Inv, TypeOK
<1>3. using[p] >= 0
  <2>1. using[p] = faulted[p] + Sum(max, Charged(p))
    BY AccountingIs DEF TreeInv
  <2>2. faulted[p] \in Nat /\ Sum(max, Charged(p)) \in Nat
    BY ChargedFinite DEF Inv, TypeOK
  <2> QED
    BY <2>1, <2>2
<1>4. max[p] <= Total /\ Total \in Nat
  BY <1>1, ContainmentAssumption DEF TreeInv, UsingBelow
<1>5. max[c] <= Promise!Left(p) /\ max[c] \in 0 .. Total
  BY <1>1, <1>2, <1>3, <1>4
<1>6. Of(parent, Nil)' = [Of(parent, Nil) EXCEPT ![c] = p]
  BY DEF Of
<1>7. Of(max, 0)' = [Of(max, 0) EXCEPT ![c] = max[c]]
  BY DEF Of
<1> QED
  BY <1>1, <1>5, <1>6, <1>7, Zenon DEF Promise!Start

\* and one that leaves ends there.
LEMMA LeaveBudget ==
    ASSUME NEW c \in Members, c # Root, \A m \in Members : parent[m] # c,
           Members' = Members \ {c},
           \A m \in Members \ {c} : parent'[m] = parent[m] /\ max'[m] = max[m],
           faulted' = [faulted EXCEPT ![c] = 0]
    PROVE  Promise!End(c)
<1>1. Promise!Children(c) = {}
  BY DEF Promise!Children, Of, Members
<1>2. Of(parent, Nil)' = [Of(parent, Nil) EXCEPT ![c] = Nil]
  BY DEF Of
<1>3. Of(max, 0)' = [Of(max, 0) EXCEPT ![c] = 0]
  BY DEF Of
<1> QED
  BY <1>1, <1>2, <1>3, Zenon DEF Promise!End

\* An end is a step of Budget,
LEMMA EndIsBelow == ASSUME NEW c \in Slot, Promise!End(c) PROVE Below
BY DEF Below, Promise!Next

\* and so is a start.
LEMMA StartIsBelow ==
    ASSUME NEW p \in Slot, NEW c \in Slot, NEW n \in 0 .. Total, Promise!Start(p, c, n)
    PROVE  Below
BY DEF Below, Promise!Next

\* What process_cleanup leaves in the counters: its maximum goes back.
LEMMA CleanupCounters ==
    ASSUME Inv, TreeInv, NEW p \in Slot, NEW charged \in [Slot -> Int],
           Cleanup(p, charged), parent[p] # p
    PROVE  /\ status'[p] = "free" /\ parent'[p] = Nil /\ using'[p] = 0
           /\ max'[p] = 0 /\ faulted'[p] = 0
           /\ faulted' = [faulted EXCEPT ![p] = 0]
           /\ \A s \in Slot \ {p} :
                 /\ status'[s] = status[s] /\ parent'[s] = parent[s]
                 /\ max'[s] = max[s] /\ faulted'[s] = faulted[s]
                 /\ s = parent[p] => using'[s] = charged[s] - max[p]
                 /\ s # parent[p] => using'[s] = charged[s]
<1>1. /\ status' = [status EXCEPT ![p] = "free"]
      /\ parent' = [parent EXCEPT ![p] = Nil]
      /\ max' = [max EXCEPT ![p] = 0]
      /\ faulted' = [faulted EXCEPT ![p] = 0]
  BY DEF Cleanup
<1>2. /\ status'[p] = "free" /\ parent'[p] = Nil /\ max'[p] = 0 /\ faulted'[p] = 0
      /\ \A s \in Slot \ {p} :
            /\ status'[s] = status[s] /\ parent'[s] = parent[s]
            /\ max'[s] = max[s] /\ faulted'[s] = faulted[s]
  BY <1>1 DEF Inv, TypeOK
<1>3. /\ using'[p] = 0
      /\ \A s \in Slot \ {p} :
            /\ s = parent[p] => using'[s] = charged[s] - max[p]
            /\ s # parent[p] => using'[s] = charged[s]
  <2>1. CASE parent[p] \in Slot
    <3>1. status[parent[p]] # "free"
      BY <2>1, ContainmentAssumption DEF TreeInv, ParentsLive
    <3>2. using' = [charged EXCEPT ![parent[p]] = charged[parent[p]] - max[p], ![p] = 0]
      BY <2>1, <3>1 DEF Cleanup, ComesBack
    <3> QED
      BY <2>1, <3>2
  <2>2. CASE parent[p] = Nil
    <3>1. Nil \notin Slot
      BY ContainmentAssumption
    <3>2. using' = [charged EXCEPT ![p] = 0]
      BY <2>2, <3>1 DEF Cleanup
    <3> QED
      BY <2>2, <3>1, <3>2
  <2> QED
    BY <2>1, <2>2 DEF Inv, TypeOK
<1> QED
  BY <1>1, <1>2, <1>3
-----------------------------------------------------------------------------
(* The steps that take a member in or let one go. *)

\* The caller is charged with the child, or the child is cleaned up.
LEMMA ChargeTree ==
    ASSUME ~Preempted, Inv, TreeInv, NEW p \in Slot, RunCharge(p)
    PROVE  TreeInv' /\ Below
<1>1. pc[p] = "restored" /\ MayRun(p) /\ HasEmbryo(p)
  BY DEF RunCharge
<1> PICK c \in Slot : c = child[p]
  BY <1>1, EmbryoFacts
<1>2. /\ status[c] = "embryo" /\ status[p] = "live" /\ c # p /\ c # Root /\ c \notin Members
      /\ using[c] = 0 /\ faulted[c] = 0 /\ \A s \in Slot : parent[s] # c
  BY <1>1, EmbryoFacts
<1>3. parent[c] = p
  BY <1>1 DEF TreeInv, ParentSet
<1> DEFINE charged == [using EXCEPT ![p] = @ + max[c]]
<1>4. /\ charged \in [Slot -> Int] /\ charged[p] = using[p] + max[c]
      /\ using[p] \in Int /\ max[c] \in Nat
      /\ \A s \in Slot \ {p} : charged[s] = using[s]
  BY DEF Inv, TypeOK
<1> HIDE DEF charged
<1>5. CASE /\ charged[p] <= max[p] /\ Goto(p, "copying") /\ using' = charged
           /\ UNCHANGED <<status, parent, max, faulted, table, locals>>
  <2>1. pc'[p] = "copying" /\ \A q \in Slot \ {p} : pc'[q] = pc[q]
    BY <1>5 DEF Inv, TypeOK, Goto
  <2>2. Members' = Members \cup {c}
    <3>1. ASSUME NEW m \in Slot
          PROVE  (\E q \in Slot : child'[q] = m /\ pc'[q] = "copying")
                   <=> m = c \/ (\E q \in Slot : child[q] = m /\ pc[q] = "copying")
      BY <1>1, <1>5, <2>1 DEF locals
    <3> QED
      BY <1>5, <3>1 DEF Members
  <2>3. Accounting'
    BY <1>2, <1>3, <1>4, <1>5, <2>2, JoinAccounting DEF Inv, TreeInv
  <2>4. Below
    <3>1. using[p] + max[c] <= max[p]
      BY <1>4, <1>5
    <3> QED
      BY <1>2, <1>3, <1>5, <2>2, <3>1, JoinBudget, StartIsBelow
  <2>5. CountersClean' /\ ParentsLive'
    BY <1>2, <1>4, <1>5 DEF TreeInv, CountersClean, ParentsLive
  <2>6. UsingBelow'
    <3>1. max[c] <= Total
      BY <1>2, <1>3, <1>4, <1>5, <2>2, JoinBudget
    <3> QED
      BY <1>4, <1>5, <2>2, <3>1 DEF TreeInv, UsingBelow
  <2>7. ParentSet'
    BY <1>1, <1>5, <2>1 DEF TreeInv, ParentSet, locals
  <2>8. SectionAlone' /\ BeforeTrue'
    BY <1>1, <1>4, <1>5, <2>1 DEF TreeInv, SectionAlone, BeforeTrue, InSection, MayRun, locals
  <2> QED
    BY <1>5, <2>3, <2>4, <2>5, <2>6, <2>7, <2>8 DEF TreeInv
<1>6. CASE Cleanup(c, charged) /\ Leave(p)
  <2>1. /\ status'[c] = "free" /\ parent'[c] = Nil /\ using'[c] = 0
        /\ max'[c] = 0 /\ faulted'[c] = 0
        /\ faulted' = [faulted EXCEPT ![c] = 0]
        /\ \A s \in Slot \ {c} :
              /\ status'[s] = status[s] /\ parent'[s] = parent[s]
              /\ max'[s] = max[s] /\ faulted'[s] = faulted[s]
              /\ s = p => using'[s] = charged[s] - max[c]
              /\ s # p => using'[s] = charged[s]
    BY <1>2, <1>3, <1>4, <1>6, CleanupCounters
  <2>2. \A s \in Slot : using'[s] = using[s]
    BY <1>2, <1>4, <2>1
  <2>3. faulted' = faulted
    BY <1>2, <2>1 DEF Inv, TypeOK
  <2>4. /\ pc'[p] = "user"
        /\ \A q \in Slot \ {p} :
              pc'[q] = pc[q] /\ child'[q] = child[q] /\ before'[q] = before[q]
    BY <1>6 DEF Inv, TypeOK, Leave, Goto
  <2>5. Members' = Members
    BY <1>1, <1>2, <2>1, <2>4, MembersSame
  <2>6. \A m \in Members : m \in Slot \ {c}
    BY <1>2, ChargedFacts
  <2>7. Accounting'
    BY <1>2, <2>1, <2>2, <2>5, <2>6, InertAccounting DEF Inv, TreeInv
  <2>8. Below
    BY <2>1, <2>3, <2>5, <2>6, InertBudget DEF Inv, Below
  <2>9. CountersClean'
    BY <1>2, <2>1, <2>2 DEF TreeInv, CountersClean
  <2>10. ParentsLive'
    <3> SUFFICES ASSUME NEW s \in Slot, parent'[s] # Nil PROVE status'[parent'[s]] = "live"
      BY DEF ParentsLive
    <3>1. s # c /\ parent'[s] = parent[s] /\ status[parent[s]] = "live"
      BY <1>2, <2>1 DEF TreeInv, ParentsLive
    <3>2. parent[s] \in Slot \ {c}
      BY <1>2, <2>1, <3>1 DEF Inv, TypeOK
    <3> QED
      BY <1>2, <2>1, <3>1, <3>2
  <2>11. UsingBelow' /\ status'[Root] = "live"
    BY <1>2, <2>1, <2>2, <2>5, <2>6, ContainmentAssumption DEF TreeInv, UsingBelow
  <2>12. ParentSet'
    <3> SUFFICES ASSUME NEW q \in Slot, pc'[q] \in {"measured", "restored", "copying"}
                 PROVE  parent'[child'[q]] = q
      BY DEF ParentSet
    <3>1. q # p /\ pc[q] = pc'[q] /\ child'[q] = child[q] /\ parent[child[q]] = q
      BY <2>4 DEF TreeInv, ParentSet
    <3>2. child[q] \in Slot /\ child[q] # c
      BY <1>1, <3>1 DEF Inv, ChildIsEmbryo, ChildrenDiffer
    <3> QED
      BY <2>1, <3>1, <3>2
  <2>13. SectionAlone' /\ BeforeTrue'
    BY <2>2, <2>4 DEF TreeInv, SectionAlone, BeforeTrue, InSection
  <2> QED
    BY <2>7, <2>8, <2>9, <2>10, <2>11, <2>12, <2>13 DEF TreeInv
<1> QED
  BY <1>5, <1>6 DEF RunCharge, Fits, charged

\* The embryo was counted since its charge: starting it changes nothing.
LEMMA StartTree ==
    ASSUME ~Preempted, Inv, TreeInv, NEW p \in Slot, RunStart(p)
    PROVE  TreeInv' /\ Below
<1>1. /\ UNCHANGED <<parent, using, max, faulted, table>>
      /\ pc[p] = "copying" /\ MayRun(p) /\ HasEmbryo(p)
      /\ status' = [status EXCEPT ![child[p]] = "live"]
      /\ pc' = [pc EXCEPT ![p] = "user"]
      /\ before' = [before EXCEPT ![p] = 0]
      /\ child' = [child EXCEPT ![p] = Nil]
  BY DEF RunStart, Leave, Goto
<1> PICK c \in Slot : c = child[p]
  BY <1>1, EmbryoFacts
<1>2. /\ status[c] = "embryo" /\ status[p] = "live" /\ c # p /\ c # Root
      /\ using[c] = 0 /\ faulted[c] = 0 /\ \A s \in Slot : parent[s] # c
  BY <1>1, EmbryoFacts
<1>3. /\ pc'[p] = "user" /\ status'[c] = "live"
      /\ \A q \in Slot \ {p} :
            pc'[q] = pc[q] /\ child'[q] = child[q] /\ before'[q] = before[q]
      /\ \A q \in Slot \ {c} : status'[q] = status[q]
  BY <1>1 DEF Inv, TypeOK
<1>4. Members' = Members
  <2>1. ASSUME NEW m \in Slot PROVE m \in Members' <=> m \in Members
    <3>1. CASE m = c
      BY <1>1, <1>3, <3>1 DEF Members
    <3>2. CASE m # c
      BY <1>1, <1>3, <3>2, ContainmentAssumption DEF Members
    <3> QED
      BY <3>1, <3>2
  <2> QED
    BY <2>1 DEF Members
<1>5. Accounting'
  <2> SUFFICES ASSUME NEW q \in Slot, status'[q] = "live"
               PROVE  using'[q] = faulted'[q] + Sum(max', Charged(q)')
    BY AccountingWillBe
  <2>1. Sum(max', Charged(q)') = Sum(max, Charged(q))
    BY <1>1, <1>4, ChargedSame DEF Inv
  <2>2. CASE q # c
    BY <1>1, <1>3, <2>1, <2>2, AccountingIs DEF TreeInv
  <2>3. CASE q = c
    <3>1. Charged(q) = {}
      BY <1>2, <2>3 DEF Charged
    <3>2. Sum(max, Charged(q)) = 0
      BY <3>1, SumEmpty
    <3> QED
      BY <1>1, <1>2, <2>1, <2>3, <3>2
  <2> QED
    BY <2>2, <2>3
<1>6. Below
  BY <1>1, <1>4, InertBudget DEF Inv, Below
<1>7. CountersClean' /\ ParentsLive'
  BY <1>1, <1>2, <1>3 DEF TreeInv, CountersClean, ParentsLive
<1>8. UsingBelow' /\ status'[Root] = "live"
  <2>1. max[c] \in Nat
    BY DEF Inv, TypeOK
  <2> QED
    BY <1>1, <1>2, <1>3, <1>4, <2>1, ContainmentAssumption DEF TreeInv, UsingBelow
<1>9. ParentSet'
  BY <1>1, <1>3 DEF TreeInv, ParentSet
<1>10. SectionAlone' /\ BeforeTrue'
  BY <1>1, <1>3 DEF TreeInv, SectionAlone, BeforeTrue, InSection
<1> QED
  BY <1>5, <1>6, <1>7, <1>8, <1>9, <1>10 DEF TreeInv

\* The program cannot be copied: the child is cleaned up and given back.
LEMMA FailsTree ==
    ASSUME ~Preempted, Inv, TreeInv, NEW p \in Slot, RunFails(p)
    PROVE  TreeInv' /\ Below
<1>1. pc[p] = "copying" /\ MayRun(p) /\ HasEmbryo(p) /\ Cleanup(child[p], using) /\ Leave(p)
  BY DEF RunFails
<1> PICK c \in Slot : c = child[p]
  BY <1>1, EmbryoFacts
<1>2. /\ status[c] = "embryo" /\ status[p] = "live" /\ c # p /\ c # Root
      /\ using[c] = 0 /\ faulted[c] = 0 /\ \A s \in Slot : parent[s] # c
  BY <1>1, EmbryoFacts
<1>3. parent[c] = p /\ c \in Members
  BY <1>1 DEF TreeInv, ParentSet, Members
<1>4. /\ status'[c] = "free" /\ parent'[c] = Nil /\ using'[c] = 0
      /\ max'[c] = 0 /\ faulted'[c] = 0
      /\ faulted' = [faulted EXCEPT ![c] = 0]
      /\ \A s \in Slot \ {c} :
            /\ status'[s] = status[s] /\ parent'[s] = parent[s]
            /\ max'[s] = max[s] /\ faulted'[s] = faulted[s]
            /\ s = p => using'[s] = using[s] - max[c]
            /\ s # p => using'[s] = using[s]
  <2>1. using \in [Slot -> Int]
    BY DEF Inv, TypeOK
  <2>2. Cleanup(c, using) /\ parent[c] = p /\ parent[c] # c
    BY <1>1, <1>2, <1>3
  <2> QED
    BY <2>1, <2>2, CleanupCounters
<1>5. /\ pc'[p] = "user"
      /\ \A q \in Slot \ {p} :
            pc'[q] = pc[q] /\ child'[q] = child[q] /\ before'[q] = before[q]
      /\ child'[p] = Nil
  BY <1>1 DEF Inv, TypeOK, Leave, Goto
<1>6. \A q \in Slot : HasEmbryo(q) /\ q # p => child[q] \in Slot /\ child[q] # c
  BY <1>1 DEF Inv, ChildIsEmbryo, ChildrenDiffer
<1>7. Members' = Members \ {c}
  <2>1. ASSUME NEW m \in Slot PROVE m \in Members' <=> m \in Members /\ m # c
    <3>1. CASE m = c
      BY <1>4, <1>5, <1>6, <3>1 DEF Members
    <3>2. CASE m # c
      BY <1>1, <1>4, <1>5, <3>2 DEF Members
    <3> QED
      BY <3>1, <3>2
  <2> QED
    BY <2>1 DEF Members
<1>8. \A m \in Members \ {c} : m \in Slot \ {c}
  BY ChargedFacts
<1>9. Accounting'
  BY <1>2, <1>3, <1>4, <1>7, <1>8, LeaveAccounting DEF Inv, TreeInv
<1>10. Below
  <2>1. \A m \in Members : parent[m] # c
    BY <1>2, ChargedFacts
  <2> QED
    BY <1>2, <1>3, <1>4, <1>7, <1>8, <2>1, LeaveBudget, EndIsBelow
<1>11. CountersClean'
  BY <1>2, <1>4 DEF TreeInv, CountersClean
<1>12. ParentsLive'
  <2> SUFFICES ASSUME NEW s \in Slot, parent'[s] # Nil PROVE status'[parent'[s]] = "live"
    BY DEF ParentsLive
  <2>1. s # c /\ parent'[s] = parent[s] /\ status[parent[s]] = "live"
    BY <1>2, <1>4 DEF TreeInv, ParentsLive
  <2>2. parent[s] \in Slot \ {c}
    BY <1>2, <1>4, <2>1 DEF Inv, TypeOK
  <2> QED
    BY <1>2, <1>4, <2>1, <2>2
<1>13. UsingBelow' /\ status'[Root] = "live"
  <2>1. max[c] \in Nat /\ using[p] \in Int /\ max[p] \in Int
    BY DEF Inv, TypeOK
  <2> QED
    BY <1>2, <1>4, <1>7, <1>8, <2>1, ContainmentAssumption DEF TreeInv, UsingBelow
<1>14. ParentSet'
  <2> SUFFICES ASSUME NEW q \in Slot, pc'[q] \in {"measured", "restored", "copying"}
               PROVE  parent'[child'[q]] = q
    BY DEF ParentSet
  <2>1. q # p /\ pc[q] = pc'[q] /\ child'[q] = child[q] /\ parent[child[q]] = q
    BY <1>5 DEF TreeInv, ParentSet
  <2>2. child[q] \in Slot /\ child[q] # c
    BY <1>6, <2>1
  <2> QED
    BY <1>4, <2>1, <2>2
<1>15. SectionAlone' /\ BeforeTrue'
  BY <1>1, <1>4, <1>5, <1>6 DEF TreeInv, SectionAlone, BeforeTrue, InSection, MayRun
<1> QED
  BY <1>9, <1>10, <1>11, <1>12, <1>13, <1>14, <1>15 DEF TreeInv

\* A process ends in user mode, after its children.
LEMMA ExitTree ==
    ASSUME ~Preempted, Patient, Inv, TreeInv, NEW p \in Slot, InUserMode(p), MayEnd(p),
           Cleanup(p, using), UNCHANGED <<pc, locals>>
    PROVE  TreeInv' /\ Below
<1>1. status[p] = "live" /\ pc[p] = "user" /\ MayRun(p) /\ p # Root
  BY DEF InUserMode, MayRun, MayEnd
<1>2. \A s \in Slot : parent[s] # p
  <2> SUFFICES ASSUME NEW s \in Slot, parent[s] = p PROVE FALSE
    OBVIOUS
  <2>1. status[s] # "free"
    BY ContainmentAssumption DEF TreeInv, CountersClean
  <2> QED
    BY <2>1 DEF MayEnd, HasChildren
<1>3. p \in Members
  BY <1>1 DEF Members
<1>4. /\ status'[p] = "free" /\ parent'[p] = Nil /\ using'[p] = 0
      /\ max'[p] = 0 /\ faulted'[p] = 0
      /\ faulted' = [faulted EXCEPT ![p] = 0]
      /\ \A s \in Slot \ {p} :
            /\ status'[s] = status[s] /\ parent'[s] = parent[s]
            /\ max'[s] = max[s] /\ faulted'[s] = faulted[s]
            /\ s = parent[p] => using'[s] = using[s] - max[p]
            /\ s # parent[p] => using'[s] = using[s]
  <2>1. using \in [Slot -> Int]
    BY DEF Inv, TypeOK
  <2> QED
    BY <1>2, <2>1, CleanupCounters
<1>5. \A q \in Slot : HasEmbryo(q) => child[q] \in Slot /\ child[q] # p /\ status[child[q]] = "embryo"
  BY <1>1 DEF Inv, ChildIsEmbryo
<1>6. Members' = Members \ {p}
  <2>1. ASSUME NEW m \in Slot PROVE m \in Members' <=> m \in Members /\ m # p
    <3>1. CASE m = p
      BY <1>4, <1>5, <3>1 DEF Members, locals
    <3>2. CASE m # p
      BY <1>4, <3>2 DEF Members, locals
    <3> QED
      BY <3>1, <3>2
  <2> QED
    BY <2>1 DEF Members
<1>7. \A m \in Members \ {p} : m \in Slot \ {p}
  BY ChargedFacts
<1>8. Accounting'
  BY <1>3, <1>4, <1>6, <1>7, LeaveAccounting DEF Inv, TreeInv
<1>9. Below
  <2>1. \A m \in Members : parent[m] # p
    BY <1>2, ChargedFacts
  <2> QED
    BY <1>1, <1>3, <1>4, <1>6, <1>7, <2>1, LeaveBudget, EndIsBelow
<1>10. CountersClean'
  <2>1. ASSUME NEW s \in Slot, s # p, status[s] # "live" PROVE using'[s] = using[s]
    <3>1. s # parent[p]
      BY <2>1, ContainmentAssumption DEF TreeInv, ParentsLive
    <3> QED
      BY <1>4, <2>1, <3>1
  <2> QED
    BY <1>4, <2>1 DEF TreeInv, CountersClean
<1>11. ParentsLive'
  <2> SUFFICES ASSUME NEW s \in Slot, parent'[s] # Nil PROVE status'[parent'[s]] = "live"
    BY DEF ParentsLive
  <2>1. s # p /\ parent'[s] = parent[s] /\ status[parent[s]] = "live"
    BY <1>4 DEF TreeInv, ParentsLive
  <2>2. parent[s] \in Slot \ {p}
    BY <1>2, <1>4, <2>1 DEF Inv, TypeOK
  <2> QED
    BY <1>4, <2>1, <2>2
<1>12. UsingBelow' /\ status'[Root] = "live"
  <2>1. max[p] \in Nat /\ \A s \in Slot : using[s] \in Int /\ max[s] \in Int
    BY DEF Inv, TypeOK
  <2>2. \A s \in Slot \ {p} : using'[s] <= using[s]
    BY <1>4, <2>1
  <2>3. \A s \in Slot \ {p} : using'[s] \in Int
    BY <1>4, <2>1
  <2> QED
    BY <1>1, <1>4, <1>6, <1>7, <2>1, <2>2, <2>3, ContainmentAssumption DEF TreeInv, UsingBelow
<1>13. ParentSet'
  <2> SUFFICES ASSUME NEW q \in Slot, pc[q] \in {"measured", "restored", "copying"}
               PROVE  parent'[child[q]] = q
    BY DEF ParentSet, locals
  <2>1. parent[child[q]] = q
    BY DEF TreeInv, ParentSet
  <2> QED
    BY <1>4, <1>5, <2>1
<1>14. SectionAlone' /\ BeforeTrue'
  <2>1. \A q \in Slot : ~InSection(q)
    BY <1>1 DEF MayRun, InSection
  <2> QED
    BY <2>1 DEF SectionAlone, BeforeTrue, InSection
<1> QED
  BY <1>8, <1>9, <1>10, <1>11, <1>12, <1>13, <1>14 DEF TreeInv

\* A page fault within the maximum counts the page.
LEMMA PageFaultTree ==
    ASSUME ~Preempted, Patient, Inv, TreeInv, NEW p \in Slot, PageFault(p)
    PROVE  TreeInv' /\ Below
<1>1. InUserMode(p) /\ UNCHANGED <<pc, locals>>
  BY DEF PageFault
<1>2. CASE /\ HasPage(p) /\ UNCHANGED <<status, parent, max, table>>
           /\ using' = [using EXCEPT ![p] = @ + 1]
           /\ faulted' = [faulted EXCEPT ![p] = @ + 1]
  <2>1. status[p] = "live" /\ pc[p] = "user" /\ MayRun(p)
    BY <1>1 DEF InUserMode, MayRun
  <2>2. /\ using'[p] = using[p] + 1 /\ faulted'[p] = faulted[p] + 1
        /\ \A s \in Slot \ {p} : using'[s] = using[s] /\ faulted'[s] = faulted[s]
    BY <1>2 DEF Inv, TypeOK
  <2>3. Members' = Members
    BY <1>1, <1>2, MembersSame DEF locals
  <2>4. Accounting'
    <3> SUFFICES ASSUME NEW q \in Slot, status[q] = "live"
                 PROVE  using'[q] = faulted'[q] + Sum(max', Charged(q)')
      BY <1>2, AccountingWillBe
    <3>1. Sum(max', Charged(q)') = Sum(max, Charged(q))
      BY <1>2, <2>3, ChargedSame DEF Inv
    <3>2. using[q] = faulted[q] + Sum(max, Charged(q))
      BY AccountingIs DEF TreeInv
    <3>3. faulted[q] \in Nat /\ Sum(max, Charged(q)) \in Nat
      BY ChargedFinite DEF Inv, TypeOK
    <3>4. CASE q = p
      BY <2>2, <3>1, <3>2, <3>3, <3>4
    <3>5. CASE q # p
      BY <2>2, <3>1, <3>2, <3>5
    <3> QED
      BY <3>4, <3>5
  <2>5. Below
    <3>1. Promise!Left(p) > 0 /\ p \in Members
      BY <1>2, <2>1, LeftIs DEF HasPage
    <3>2. UNCHANGED <<Members, Of(parent, Nil), Of(max, 0)>>
      BY <1>2, <2>3 DEF Of
    <3>3. Promise!Take(p)
      BY <1>2, <3>1, <3>2 DEF Promise!Take
    <3> QED
      BY <3>3 DEF Below, Promise!Next
  <2>6. CountersClean' /\ ParentsLive' /\ status'[Root] = "live"
    BY <1>2, <2>1, <2>2 DEF TreeInv, CountersClean, ParentsLive
  <2>7. UsingBelow'
    <3>1. using[p] \in Int /\ max[p] \in Int
      BY DEF Inv, TypeOK
    <3> QED
      BY <1>2, <2>2, <2>3, <3>1 DEF TreeInv, UsingBelow, HasPage
  <2>8. ParentSet' /\ SectionAlone'
    BY <1>1, <1>2 DEF TreeInv, ParentSet, SectionAlone, InSection, locals
  <2>9. BeforeTrue'
    BY <1>1, <2>1, <2>2 DEF TreeInv, BeforeTrue, InSection, locals
  <2> QED
    BY <2>4, <2>5, <2>6, <2>7, <2>8, <2>9 DEF TreeInv
<1>3. CASE Cleanup(p, using) /\ MayEnd(p)
  BY <1>1, <1>3, ExitTree
<1> QED
  BY <1>1, <1>2, <1>3 DEF PageFault
-----------------------------------------------------------------------------
\* The first process is the tree.
LEMMA InitTree == Init => TreeInv /\ Promise!Init
<1> SUFFICES ASSUME Init PROVE TreeInv /\ Promise!Init
  OBVIOUS
<1> USE ContainmentAssumption
<1>1. Members = {Root}
  BY DEF Init, Members
<1>2. TypeOK
  BY InitInv DEF Inv
<1>3. Accounting
  <2> SUFFICES ASSUME NEW p \in Slot
               PROVE  using[p] = faulted[p] + Sum(max, Charged(p))
    BY AccountingIs
  <2>1. Charged(p) = {}
    BY DEF Init, Charged
  <2>2. Sum(max, Charged(p)) = 0
    BY <2>1, SumEmpty
  <2> QED
    BY <2>2 DEF Init
<1>4. CountersClean /\ ParentsLive /\ ParentSet /\ SectionAlone /\ BeforeTrue /\ status[Root] = "live"
  BY DEF Init, CountersClean, ParentsLive, ParentSet, SectionAlone, BeforeTrue, InSection
<1>5. UsingBelow
  BY <1>1 DEF Init, UsingBelow
<1>6. Promise!Init
  BY <1>1 DEF Init, Promise!Init, Of
<1> QED
  BY <1>3, <1>4, <1>5, <1>6 DEF TreeInv

\* Every step keeps the tree and is one of Budget.
LEMMA NextTree ==
    ASSUME ~Preempted, Patient, Inv, TreeInv, [Next]_vars
    PROVE  TreeInv' /\ Below
<1>1. ASSUME NEW p \in Slot, Run(p) PROVE TreeInv' /\ Below
  BY <1>1, OpenTree, NotFoundTree, CountTree, CreateTree, MeasureTree,
     RestoreTree, ChargeTree, FailsTree, StartTree DEF Run
<1>2. ASSUME NEW p \in Slot, Exit(p) PROVE TreeInv' /\ Below
  BY <1>2, ExitTree DEF Exit
<1>3. ASSUME NEW p \in Slot,
             \/ CapabilityCreate(p)
             \/ \E i \in Identifier :
                   \/ CapabilityDelete(p, i)
                   \/ \E n \in 0 .. MaxRequest : CapabilitySetMaxMemory(p, i, n)
      PROVE  TreeInv' /\ Below
  <2>1. UNCHANGED <<processes, pc, locals>>
    BY <1>3 DEF CapabilityCreate, CapabilityDelete, CapabilitySetMaxMemory
  <2> QED
    BY <2>1, CapabilityTree
<1>4. CASE UNCHANGED vars
  <2>1. UNCHANGED <<processes, pc, locals>>
    BY <1>4 DEF vars
  <2> QED
    BY <2>1, CapabilityTree
<1>5. CASE Next
  BY <1>1, <1>2, <1>3, <1>5, PageFaultTree DEF Next
<1> QED
  BY <1>4, <1>5

\* While sys_run is not preempted between its count and its test, and processes end
\* after their children, the tree and its counters stay as they should be.
THEOREM ContainmentTree ==
    ASSUME ~TableFills, ~Preempted, Patient PROVE Spec => []TreeInv
<1>1. Init => TreeInv
  BY InitTree
<1>2. ~Preempted /\ Patient /\ Inv /\ TreeInv /\ [Next]_vars => TreeInv'
  BY NextTree
<1> QED
  BY <1>1, <1>2, ContainmentInvariant, PTL DEF Spec

\* sys_current_memory_usage: number_of_pages_using is what a process has faulted in
\* and what it has promised to its children, whatever starts, fails and ends.
THEOREM ContainmentAccounting ==
    ASSUME ~TableFills, ~Preempted, Patient PROVE Spec => []Accounting
<1>1. TreeInv => Accounting
  BY DEF TreeInv
<1> QED
  BY <1>1, ContainmentTree, PTL

\* sys_max_memory: no process has more pages than it was given.
THEOREM ContainmentWithinMaximum ==
    ASSUME ~TableFills, ~Preempted, Patient PROVE Spec => []WithinMaximum
<1>1. Inv /\ TreeInv => WithinMaximum
  <2> SUFFICES ASSUME Inv, TreeInv, NEW p \in Slot, status[p] = "live"
               PROVE  faulted[p] <= max[p]
    BY DEF WithinMaximum
  <2>1. using[p] = faulted[p] + Sum(max, Charged(p)) /\ using[p] <= max[p]
    BY AccountingIs DEF TreeInv, UsingBelow
  <2>2. faulted[p] \in Nat /\ max[p] \in Nat /\ Sum(max, Charged(p)) \in Nat
    BY ChargedFinite DEF Inv, TypeOK
  <2> QED
    BY <2>1, <2>2
<1> QED
  BY <1>1, ContainmentInvariant, ContainmentTree, PTL

\* Each step of sys_run, the page fault handler and process_cleanup is one of Budget's
\* or changes nothing of it.
THEOREM ContainmentImplementsBudget ==
    ASSUME ~TableFills, ~Preempted, Patient PROVE Spec => ImplementsBudget
<1>1. Init => Promise!Init
  BY InitTree
<1>2. ~Preempted /\ Patient /\ Inv /\ TreeInv /\ [Next]_vars => [Promise!Next]_(Promise!vars)
  BY NextTree DEF Below
<1> QED
  BY <1>1, <1>2, ContainmentInvariant, ContainmentTree, PTL
     DEF Spec, ImplementsBudget, Promise!Spec

\* The promise of process containment, at every level of the tree of processes: what a
\* process uses and what it has given to its children is within what it was given.
THEOREM ContainmentContained ==
    ASSUME ~TableFills, ~Preempted, Patient PROVE Spec => []Promise!Contained
<1>1. Inv /\ TreeInv => Promise!Contained
  <2> SUFFICES ASSUME Inv, TreeInv, NEW p \in Members PROVE Promise!Left(p) >= 0
    BY DEF Promise!Contained
  <2>1. p \in Slot /\ (status[p] = "live" \/ Copying(p))
    BY ChargedFacts
  <2>2. CASE status[p] = "live"
    <3>1. Promise!Left(p) = max[p] - using[p] /\ using[p] <= max[p]
      BY <2>1, <2>2, LeftIs DEF TreeInv, UsingBelow
    <3>2. max[p] \in Int /\ using[p] \in Int
      BY <2>1 DEF Inv, TypeOK
    <3> QED
      BY <3>1, <3>2
  <2>3. CASE Copying(p)
    <3>1. PICK q \in Slot : child[q] = p /\ pc[q] = "copying"
      BY <2>3 DEF Copying
    <3>2. faulted[p] = 0 /\ \A s \in Slot : parent[s] # p
      BY <3>1, EmbryoFacts
    <3>3. Promise!Children(p) = {}
      BY <3>2, ChargedFacts DEF Promise!Children, Of
    <3>4. Promise!Given(p) = Sum(Of(max, 0), {})
      BY <3>3, Zenon DEF Promise!Given, Sum, MapThenSumSet, MapThenFoldSet,
         Promise!MapThenSumSet, Promise!MapThenFoldSet
    <3>5. Promise!Given(p) = 0
      BY <3>4, SumEmpty
    <3>6. Of(max, 0)[p] = max[p] /\ max[p] \in Nat
      BY <2>1 DEF Of, Inv, TypeOK
    <3> QED
      BY <3>2, <3>5, <3>6 DEF Promise!Left
  <2> QED
    BY <2>1, <2>2, <2>3
<1> QED
  BY <1>1, ContainmentInvariant, ContainmentTree, PTL
-----------------------------------------------------------------------------
(***************************************************************************)
(* Shell. What a recursion over the positions of a sequence computes: it   *)
(* has a value at every position, and only one.                            *)
(***************************************************************************)

\* step[i][b] is the value at position i, if b is that at the one before.
Steps(n, A, step) == \A i \in 1 .. n, b \in A : step[i][b] \in A

Walks(n, A, a, step) ==
    \E k \in [0 .. n -> A] : k[0] = a /\ \A i \in 1 .. n : k[i] = step[i][k[i - 1]]

LEMMA WalkExists ==
    ASSUME NEW n \in Nat, NEW A, NEW a \in A, NEW step, Steps(n, A, step)
    PROVE  Walks(n, A, a, step)
<1> USE DEF Steps
<1> DEFINE Reaches(m) == \E k \in [0 .. m -> A] :
                        k[0] = a /\ \A i \in 1 .. m : k[i] = step[i][k[i - 1]]
           N == {m \in Nat : m <= n => Reaches(m)}
<1>1. 0 \in N
  <2>1. PICK k \in [0 .. 0 -> A] : k = [i \in 0 .. 0 |-> a]
    OBVIOUS
  <2>2. Reaches(0)
    BY <2>1
  <2> HIDE DEF Reaches
  <2> QED
    BY <2>2
<1>2. ASSUME NEW m \in Nat, m \in N PROVE m + 1 \in N
  <2> SUFFICES ASSUME m + 1 <= n PROVE Reaches(m + 1)
    <3> HIDE DEF Reaches
    <3> QED
      OBVIOUS
  <2>1. PICK k \in [0 .. m -> A] : k[0] = a /\ \A i \in 1 .. m : k[i] = step[i][k[i - 1]]
    BY <1>2
  <2> DEFINE l == [i \in 0 .. m + 1 |-> IF i <= m THEN k[i] ELSE step[m + 1][k[m]]]
  <2>2. step[m + 1][k[m]] \in A
    BY <2>1
  <2>3. l \in [0 .. m + 1 -> A]
    BY <2>2
  <2>4. l[0] = a
    BY <2>1
  <2>5. ASSUME NEW i \in 1 .. m + 1 PROVE l[i] = step[i][l[i - 1]]
    BY <2>1
  <2> QED
    BY <2>3, <2>4, <2>5
<1> HIDE DEF N
<1>3. n \in N
  BY <1>1, <1>2, SetInduction
<1> QED
  BY <1>3 DEF N, Walks

\* Two agree everywhere if they begin alike and every step keeps them so.
LEMMA WalkUnique ==
    ASSUME NEW n \in Nat, NEW k, NEW l, k[0] = l[0],
           \A i \in 1 .. n : k[i - 1] = l[i - 1] => k[i] = l[i]
    PROVE  \A i \in 0 .. n : k[i] = l[i]
<1> DEFINE N == {m \in Nat : m <= n => k[m] = l[m]}
<1>1. 0 \in N
  OBVIOUS
<1>2. ASSUME NEW m \in Nat, m \in N PROVE m + 1 \in N
  <2> SUFFICES ASSUME m + 1 <= n PROVE k[m + 1] = l[m + 1]
    OBVIOUS
  <2>1. m + 1 \in 1 .. n /\ (m + 1) - 1 = m /\ k[m] = l[m]
    BY <1>2
  <2> QED
    BY <2>1
<1> HIDE DEF N
<1>3. Nat \subseteq N
  BY <1>1, <1>2, SetInduction
<1> QED
  BY <1>3 DEF N
-----------------------------------------------------------------------------
(***************************************************************************)
(* Paths.                                                                  *)
(***************************************************************************)

Name == DOMAIN NameLength

\* The room each name of a path takes, with the slash before it.
Room(path) == [i \in DOMAIN path |-> 1 + NameLength[path[i]]]

LEMMA PathLengthIs ==
    ASSUME NEW path
    PROVE  PathLength(path) = IF path = <<>> THEN 1 ELSE Sum(Room(path), DOMAIN path)
BY Zenon DEF PathLength, Sum, Room

LEMMA RoomType ==
    ASSUME NEW path \in Seq(Name)
    PROVE  IsFiniteSet(DOMAIN path) /\ \A i \in DOMAIN path : Room(path)[i] \in Nat
<1>1. DOMAIN path = 1 .. Len(path) /\ Len(path) \in Nat
  OBVIOUS
<1>2. IsFiniteSet(DOMAIN path)
  BY <1>1, FS_Interval
<1>3. ASSUME NEW i \in DOMAIN path PROVE Room(path)[i] \in Nat
  BY ShellAssumption DEF Room, Name
<1> QED
  BY <1>2, <1>3

\* The length of a path is a number.
LEMMA PathLengthType ==
    ASSUME NEW path \in Seq(Name)
    PROVE  PathLength(path) \in Nat
BY PathLengthIs, RoomType, SumOfNat

\* A name more makes it longer by the name and a slash.
LEMMA PathLengthAppend ==
    ASSUME NEW path \in Seq(Name), NEW name \in Name
    PROVE  PathLength(Append(path, name)) =
               (IF path = <<>> THEN 0 ELSE PathLength(path)) + 1 + NameLength[name]
<1> DEFINE longer == Append(path, name)
           n == Len(path) + 1
<1>1. longer \in Seq(Name) /\ longer # <<>>
  BY AppendProperties
<1>2. DOMAIN longer = DOMAIN path \cup {n} /\ n \notin DOMAIN path
  OBVIOUS
<1>3. \A i \in DOMAIN path : Room(longer)[i] = Room(path)[i]
  <2> SUFFICES ASSUME NEW i \in DOMAIN path PROVE Room(longer)[i] = Room(path)[i]
    OBVIOUS
  <2>1. longer[i] = path[i] /\ i \in DOMAIN longer
    OBVIOUS
  <2> HIDE DEF longer
  <2> QED
    BY <2>1 DEF Room
<1>4. Room(longer)[n] = 1 + NameLength[name]
  <2>1. longer[n] = name /\ n \in DOMAIN longer
    OBVIOUS
  <2> HIDE DEF longer
  <2> QED
    BY <2>1 DEF Room
<1>5. IsFiniteSet(DOMAIN path) /\ \A i \in DOMAIN path : Room(longer)[i] \in Int
  BY <1>3, RoomType
<1>6. Room(longer)[n] \in Int
  BY <1>4, ShellAssumption DEF Name
<1> HIDE DEF longer, n
<1>7. Sum(Room(longer), DOMAIN longer) = Sum(Room(longer), DOMAIN path) + Room(longer)[n]
  BY <1>2, <1>5, <1>6, SumWith
<1>8. Sum(Room(longer), DOMAIN path) = Sum(Room(path), DOMAIN path)
  BY <1>3, RoomType, SumAgrees
<1>9. PathLength(longer) = Sum(Room(path), DOMAIN path) + (1 + NameLength[name])
  BY <1>1, <1>4, <1>7, <1>8, PathLengthIs
<1>10. Sum(Room(path), DOMAIN path) = IF path = <<>> THEN 0 ELSE PathLength(path)
  <2>1. CASE path = <<>>
    <3>1. DOMAIN path = {}
      BY <2>1
    <3> QED
      BY <2>1, <3>1, SumEmpty
  <2>2. CASE path # <<>>
    BY <2>2, PathLengthIs
  <2> QED
    BY <2>1, <2>2
<1>11. NameLength[name] \in Nat /\ PathLength(path) \in Nat
  BY PathLengthType, ShellAssumption DEF Name
<1>12. PathLength(longer) =
           (IF path = <<>> THEN 0 ELSE PathLength(path)) + 1 + NameLength[name]
  BY <1>9, <1>10, <1>11
<1> QED
  BY <1>12 DEF longer

\* A name less does not make it longer.
LEMMA PathLengthFront ==
    ASSUME NEW path \in Seq(Name), path # <<>>
    PROVE  Front(path) \in Seq(Name) /\ PathLength(Front(path)) <= PathLength(path)
<1> DEFINE name == path[Len(path)]
<1>1. Front(path) \in Seq(Name) /\ name \in Name /\ path = Append(Front(path), name)
  BY DEF Front
<1>2. PICK rest \in Seq(Name) : rest = Front(path)
  BY <1>1
<1>3. PathLength(path) =
          (IF rest = <<>> THEN 0 ELSE PathLength(rest)) + 1 + NameLength[name]
  BY <1>1, <1>2, PathLengthAppend
<1>4. PathLength(rest) \in Nat /\ NameLength[name] \in Nat
  BY <1>1, PathLengthType, ShellAssumption DEF Name
<1>5. rest = <<>> => PathLength(rest) = 1
  BY PathLengthIs
<1>6. PathLength(rest) <= PathLength(path)
  BY <1>3, <1>4, <1>5
<1> QED
  BY <1>2, <1>6

(***************************************************************************)
(* The path under way and the working directory are sequences of names     *)
(* that fit their buffers.                                                 *)
(***************************************************************************)

PathTypes ==
    /\ abs_path \in Seq(Name) \cup {NoPath}
    /\ parts \in Seq({".", ".."} \cup Name)
    /\ cur_path \in Seq(Name)

HasRoom(path) == PathLength(path) + 1 <= WORKING_DIRECTORY_PATH_BUFFER_SIZE

CwdFits == cur_path # NoPath /\ HasRoom(cur_path)

PathInv == PathTypes /\ CwdFits /\ PathFits

\* The root fits, whatever it takes.
LEMMA RootFits == HasRoom(<<>>)
BY ShellAssumption, PathLengthIs DEF HasRoom

LEMMA InitPath == ShellInit => PathInv
<1> SUFFICES ASSUME ShellInit PROVE PathInv
  OBVIOUS
<1>1. abs_path = <<>> /\ parts = <<>> /\ cur_path = <<>>
  BY DEF ShellInit
<1>2. <<>> # NoPath
  BY DEF NoPath
<1> QED
  BY <1>1, <1>2, RootFits, ShellAssumption
  DEF PathInv, PathTypes, CwdFits, PathFits, HasRoom

LEMMA GetAbsPathInv ==
    ASSUME PathInv, NEW path \in Paths, GetAbsPath(path), UNCHANGED cur_path
    PROVE  PathInv'
<1>1. abs_path' \in Seq(Name) /\ HasRoom(abs_path')
  BY RootFits DEF PathInv, PathTypes, CwdFits, GetAbsPath
<1>2. parts' \in Seq({".", ".."} \cup Name)
  BY ShellAssumption DEF GetAbsPath, Name
<1> QED
  BY <1>1, <1>2 DEF PathInv, PathTypes, CwdFits, PathFits, HasRoom

LEMMA ReturnPath ==
    ASSUME PathInv, Return, UNCHANGED cur_path
    PROVE  PathInv'
BY RootFits DEF PathInv, PathTypes, CwdFits, PathFits, HasRoom, Return

\* A part of the path: up, down, or nowhere.
LEMMA PartInv ==
    ASSUME PathInv, Part
    PROVE  PathInv'
<1>1. PICK path \in Seq(Name) : path = abs_path /\ HasRoom(path)
  BY DEF PathInv, PathTypes, PathFits, Part, HasRoom
<1>2. PICK part \in {".", ".."} \cup Name : part = Head(parts)
  BY DEF Part, PathInv, PathTypes
<1>3. parts' \in Seq({".", ".."} \cup Name)
  BY DEF Part, PathInv, PathTypes
<1>4. abs_path' = CASE part = "." -> path
                    [] part = ".." -> Up(path)
                    [] OTHER -> Into(path, part)
  BY <1>1, <1>2 DEF Part
<1>5. abs_path' = NoPath \/ (abs_path' \in Seq(Name) /\ HasRoom(abs_path'))
  <2>1. CASE part = "."
    BY <1>1, <1>4, <2>1
  <2>2. CASE part = ".."
    <3>1. abs_path' = Up(path)
      BY <1>4, <2>2
    <3>2. CASE path = <<>>
      BY <3>1, <3>2 DEF Up
    <3>3. CASE path # <<>>
      <4>1. PICK front \in Seq(Name) : front = Front(path) /\ PathLength(front) <= PathLength(path)
        BY <3>3, PathLengthFront
      <4>2. PathLength(front) \in Nat /\ PathLength(path) \in Nat
        BY PathLengthType
      <4>3. HasRoom(front)
        BY <1>1, <4>1, <4>2, ShellAssumption DEF HasRoom
      <4>4. abs_path' = front
        BY <3>1, <3>3, <4>1 DEF Up
      <4> QED
        BY <4>3, <4>4
    <3> QED
      BY <3>2, <3>3
  <2>3. CASE part \notin {".", ".."}
    <3>1. part \in Name
      BY <2>3
    <3>2. abs_path' = Into(path, part)
      BY <1>4, <2>3
    <3>3. CASE NameFits(path, part)
      <4>1. PICK longer : longer = Append(path, part)
        OBVIOUS
      <4>2. abs_path' = longer /\ longer \in Seq(Name)
        BY <3>1, <3>2, <3>3, <4>1 DEF Into
      <4>3. PathLength(longer) =
                (IF path = <<>> THEN 0 ELSE PathLength(path)) + 1 + NameLength[part]
        BY <3>1, <4>1, PathLengthAppend
      <4>4. PathLength(path) \in Nat /\ NameLength[part] \in Nat
        BY <3>1, PathLengthType, ShellAssumption DEF Name
      <4>5. path = <<>> => PathLength(path) = 1
        BY PathLengthIs
      <4>6. HasRoom(longer)
        BY <3>3, <4>3, <4>4, <4>5, ShellAssumption DEF HasRoom, NameFits
      <4> QED
        BY <4>2, <4>6
    <3>4. CASE ~NameFits(path, part)
      BY <3>2, <3>4 DEF Into
    <3> QED
      BY <3>3, <3>4
  <2> QED
    BY <2>1, <2>2, <2>3
<1>6. cur_path' = cur_path
  BY DEF Part
<1> QED
  BY <1>3, <1>5, <1>6 DEF PathInv, PathTypes, CwdFits, PathFits, HasRoom

LEMMA ChangeDirectoryInv ==
    ASSUME PathInv, ChangeDirectory
    PROVE  PathInv'
<1>1. CASE abs_path \notin Dirs
  BY <1>1, ReturnPath DEF ChangeDirectory
<1>2. CASE abs_path \in Dirs
  <2>1. cur_path' = abs_path /\ abs_path # NoPath
    BY <1>2, ShellAssumption DEF ChangeDirectory
  <2>2. abs_path \in Seq(Name) /\ HasRoom(abs_path)
    BY <2>1 DEF PathInv, PathTypes, PathFits, HasRoom
  <2>3. abs_path' = <<>> /\ parts' = <<>>
    BY DEF ChangeDirectory, Return
  <2> QED
    BY <1>2, <2>1, <2>2, <2>3, RootFits
    DEF PathInv, PathTypes, CwdFits, PathFits, HasRoom
<1> QED
  BY <1>1, <1>2

LEMMA PathsSame ==
    ASSUME PathInv, UNCHANGED paths
    PROVE  PathInv'
BY DEF PathInv, PathTypes, CwdFits, PathFits, HasRoom, paths

LEMMA NextPath ==
    ASSUME PathInv, [ShellNext]_shellVars
    PROVE  PathInv'
<1>1. CASE ShowPrompt
  BY <1>1, PathsSame DEF ShowPrompt
<1>2. ASSUME NEW ch \in Key, Type(ch) PROVE PathInv'
  BY <1>2, PathsSame DEF Type
<1>3. ASSUME NEW ch \in Key \cup {Newline}, EndLine(ch) PROVE PathInv'
  BY <1>3, PathsSame DEF EndLine
<1>4. ASSUME NEW string \in Output, Command(string) PROVE PathInv'
  BY <1>4, ReturnPath DEF Command
<1>5. ASSUME NEW string \in Output, List(string) PROVE PathInv'
  BY <1>5, ReturnPath, GetAbsPathInv DEF List
<1>6. ASSUME NEW command, NEW path \in Paths, Resolve(command, path) PROVE PathInv'
  BY <1>6, GetAbsPathInv DEF Resolve
<1>7. CASE Part
  BY <1>7, PartInv
<1>8. CASE ChangeDirectory
  BY <1>8, ChangeDirectoryInv
<1>9. CASE Heartbeat
  BY <1>9, PathsSame DEF Heartbeat
<1>10. CASE UNCHANGED shellVars
  BY <1>10, PathsSame DEF shellVars
<1> QED
  BY <1>1, <1>2, <1>3, <1>4, <1>5, <1>6, <1>7, <1>8, <1>9, <1>10 DEF ShellNext

LEMMA ShellPathInvariant == ShellSpec => []PathInv
<1>1. PathInv /\ [ShellNext]_shellVars => PathInv'
  BY NextPath
<1> QED
  BY <1>1, InitPath, PTL DEF ShellSpec

\* A path under way, with the zero at its end, fits its buffer: get_abs_path,
\* move_into_directory and move_up_directory, for any names and any size.
THEOREM ShellPathFits == ShellSpec => []PathFits
<1>1. PathInv => PathFits
  BY DEF PathInv
<1> QED
  BY <1>1, ShellPathInvariant, PTL
-----------------------------------------------------------------------------
(***************************************************************************)
(* The line: what is left when the backspaces have taken their keys.       *)
(***************************************************************************)

Line == Seq(Key)

IsStripping(line, k) ==
    k = [n \in 0 .. Len(line) |-> IF n = 0 THEN <<>> ELSE Edited(k[n - 1], line[n])]

LEMMA StripIs ==
    ASSUME NEW line
    PROVE  Strip(line) = (CHOOSE k : IsStripping(line, k))[Len(line)]
BY Zenon DEF Strip, IsStripping

LEMMA EditedType ==
    ASSUME NEW kept \in Line, NEW ch \in Key
    PROVE  Edited(kept, ch) \in Line
<1>1. CASE ch # Backspace
  <2>1. Append(kept, ch) \in Line
    BY AppendProperties, Zenon DEF Line
  <2> QED
    BY <1>1, <2>1 DEF Edited
<1>2. CASE ch = Backspace /\ kept = <<>>
  BY <1>2 DEF Edited
<1>3. CASE ch = Backspace /\ kept # <<>>
  <2>1. Front(kept) \in Line
    BY <1>3 DEF Front, Line
  <2> QED
    BY <1>3, <2>1 DEF Edited
<1> QED
  BY <1>1, <1>2, <1>3

LEMMA StrippingExists ==
    ASSUME NEW line \in Line
    PROVE  \E k \in [0 .. Len(line) -> Line] : IsStripping(line, k)
<1>1. PICK n \in Nat : n = Len(line) /\ \A i \in 1 .. n : line[i] \in Key
  BY DEF Line
<1>2. PICK step : step = [i \in 1 .. n |-> [b \in Line |-> Edited(b, line[i])]]
  OBVIOUS
<1>3. \A i \in 1 .. n, b \in Line : step[i][b] = Edited(b, line[i]) /\ step[i][b] \in Line
  BY <1>1, <1>2, EditedType
<1>4. <<>> \in Line
  BY DEF Line
<1>5. PICK k \in [0 .. n -> Line] : k[0] = <<>> /\ \A i \in 1 .. n : k[i] = step[i][k[i - 1]]
  <2>1. Steps(n, Line, step)
    BY <1>3 DEF Steps
  <2>2. Walks(n, Line, <<>>, step)
    BY <1>4, <2>1, WalkExists
  <2> QED
    BY <2>2 DEF Walks
<1>6. ASSUME NEW i \in 0 .. n, i # 0 PROVE k[i] = Edited(k[i - 1], line[i])
  <2>1. i \in 1 .. n /\ k[i - 1] \in Line
    BY <1>6
  <2> QED
    BY <1>3, <1>5, <2>1
<1>7. k = [i \in 0 .. n |-> IF i = 0 THEN <<>> ELSE Edited(k[i - 1], line[i])]
  BY <1>5, <1>6
<1> QED
  BY <1>1, <1>7 DEF IsStripping

\* Any function that strips the line as strip_backspace does finds what Strip does.
LEMMA StripByAny ==
    ASSUME NEW line \in Line, NEW k, IsStripping(line, k)
    PROVE  Strip(line) = k[Len(line)]
<1>1. PICK l : l = CHOOSE j : IsStripping(line, j)
  OBVIOUS
<1>2. IsStripping(line, l)
  BY <1>1, Zenon
<1>3. Len(line) \in Nat
  BY DEF Line
<1>4. k[0] = l[0]
  BY <1>2, <1>3 DEF IsStripping
<1>5. ASSUME NEW i \in 1 .. Len(line), k[i - 1] = l[i - 1] PROVE k[i] = l[i]
  <2>1. i \in 0 .. Len(line) /\ i # 0
    BY <1>3
  <2>2. k[i] = Edited(k[i - 1], line[i]) /\ l[i] = Edited(l[i - 1], line[i])
    BY <1>2, <2>1 DEF IsStripping
  <2> QED
    BY <1>5, <2>2
<1>6. k[Len(line)] = l[Len(line)]
  <2>1. \A i \in 1 .. Len(line) : k[i - 1] = l[i - 1] => k[i] = l[i]
    BY <1>5
  <2>2. \A i \in 0 .. Len(line) : k[i] = l[i]
    BY ONLY <1>3, <1>4, <2>1, WalkUnique
  <2> QED
    BY <1>3, <2>2
<1> QED
  BY <1>1, <1>6, StripIs

LEMMA StripEmpty == Strip(<<>>) = <<>>
<1>1. <<>> \in Line /\ Len(<<>>) = 0
  BY DEF Line
<1>2. PICK k : k = [n \in 0 .. 0 |-> <<>>]
  OBVIOUS
<1>3. IsStripping(<<>>, k)
  BY <1>2 DEF IsStripping
<1>4. Strip(<<>>) = k[0]
  BY <1>1, <1>3, StripByAny
<1> QED
  BY <1>2, <1>4

LEMMA StripType ==
    ASSUME NEW line \in Line
    PROVE  Strip(line) \in Line
<1>1. PICK k \in [0 .. Len(line) -> Line] : IsStripping(line, k)
  BY StrippingExists
<1>2. Len(line) \in 0 .. Len(line)
  BY DEF Line
<1> QED
  BY <1>1, <1>2, StripByAny

\* A key more is kept or takes one away.
LEMMA StripAppend ==
    ASSUME NEW line \in Line, NEW ch \in Key
    PROVE  Strip(Append(line, ch)) = Edited(Strip(line), ch)
<1>1. PICK k \in [0 .. Len(line) -> Line] : IsStripping(line, k)
  BY StrippingExists
<1>2. PICK n \in Nat : n = Len(line)
  BY DEF Line
<1>3. PICK longer \in Line : longer = Append(line, ch)
  BY DEF Line
<1>4. Len(longer) = n + 1 /\ longer[n + 1] = ch /\ \A i \in 1 .. n : longer[i] = line[i]
  <2>1. Len(longer) = n + 1
    BY <1>2, <1>3 DEF Line
  <2>2. longer[n + 1] = ch
    BY <1>2, <1>3, AppendProperties DEF Line
  <2>3. \A i \in 1 .. n : longer[i] = line[i]
    BY <1>2, <1>3, AppendProperties DEF Line
  <2> QED
    BY <2>1, <2>2, <2>3
<1>5. PICK l : l = [i \in 0 .. n + 1 |-> IF i <= n THEN k[i] ELSE Edited(k[n], ch)]
  OBVIOUS
<1>6. ASSUME NEW i \in 0 .. n + 1
      PROVE  l[i] = IF i = 0 THEN <<>> ELSE Edited(l[i - 1], longer[i])
  <2>1. CASE i = 0
    <3>1. k[0] = <<>>
      BY <1>1, <1>2 DEF IsStripping
    <3> QED
      BY <1>5, <2>1, <3>1
  <2>2. CASE i \in 1 .. n
    <3>1. k[i] = Edited(k[i - 1], line[i])
      BY <1>1, <1>2, <2>2 DEF IsStripping
    <3>2. l[i] = k[i] /\ l[i - 1] = k[i - 1]
      BY <1>5, <2>2
    <3> QED
      BY <1>4, <2>2, <3>1, <3>2
  <2>3. CASE i = n + 1
    <3>1. l[i] = Edited(k[n], ch) /\ l[i - 1] = k[n] /\ i # 0
      BY <1>5, <2>3
    <3> QED
      BY <1>4, <2>3, <3>1
  <2> QED
    BY <2>1, <2>2, <2>3
<1>7. l = [i \in 0 .. n + 1 |-> IF i = 0 THEN <<>> ELSE Edited(l[i - 1], longer[i])]
  BY <1>5, <1>6
<1>8. IsStripping(longer, l)
  BY <1>4, <1>7 DEF IsStripping
<1>9. Strip(longer) = l[n + 1]
  BY <1>4, <1>8, StripByAny
<1>10. Strip(line) = k[n]
  BY <1>1, <1>2, StripByAny
<1>11. l[n + 1] = Edited(k[n], ch)
  BY <1>5
<1> QED
  BY <1>3, <1>9, <1>10, <1>11

\* A line without backspaces is left as it is.
LEMMA StripNothing ==
    ASSUME NEW line \in Line, \A i \in DOMAIN line : line[i] # Backspace
    PROVE  Strip(line) = line
<1>1. PICK n \in Nat : n = Len(line) /\ DOMAIN line = 1 .. n
  BY DEF Line
<1>2. PICK k : k = [i \in 0 .. n |-> SubSeq(line, 1, i)]
  OBVIOUS
<1>3. ASSUME NEW i \in 0 .. n
      PROVE  k[i] = IF i = 0 THEN <<>> ELSE Edited(k[i - 1], line[i])
  <2>1. k[i] = SubSeq(line, 1, i)
    BY <1>2
  <2>2. CASE i = 0
    BY <2>1, <2>2 DEF Line
  <2>3. CASE i # 0
    <3>1. k[i - 1] = SubSeq(line, 1, i - 1) /\ i \in DOMAIN line
      BY <1>1, <1>2, <2>3, SMTT(40)
    <3>2. SubSeq(line, 1, i) = Append(SubSeq(line, 1, i - 1), line[i])
      BY <1>1, <2>3 DEF Line
    <3> QED
      BY <2>1, <2>3, <3>1, <3>2 DEF Edited
  <2> QED
    BY <2>2, <2>3
<1>4. k = [i \in 0 .. n |-> IF i = 0 THEN <<>> ELSE Edited(k[i - 1], line[i])]
  BY <1>2, <1>3
<1>5. IsStripping(line, k)
  BY <1>1, <1>4 DEF IsStripping
<1>6. Strip(line) = k[n]
  BY <1>1, <1>5, StripByAny
<1>7. SubSeq(line, 1, n) = line
  BY <1>1 DEF Line
<1> QED
  BY <1>2, <1>6, <1>7
-----------------------------------------------------------------------------
(***************************************************************************)
(* The words of a line.                                                    *)
(***************************************************************************)

\* A set of natural numbers that has a member has a least one.
LEMMA LeastExists ==
    ASSUME NEW S \in SUBSET Nat, S # {}
    PROVE  \E m \in S : \A x \in S : m <= x
<1> SUFFICES ASSUME \A m \in S : \E x \in S : ~(m <= x) PROVE FALSE
  OBVIOUS
<1> DEFINE N == {n \in Nat : \A x \in S : ~(x <= n)}
<1>1. 0 \in N
  <2>1. ASSUME NEW x \in S, x <= 0 PROVE FALSE
    <3>1. PICK y \in S : ~(x <= y)
      OBVIOUS
    <3> QED
      BY <2>1, <3>1
  <2> QED
    BY <2>1
<1>2. ASSUME NEW n \in Nat, n \in N PROVE n + 1 \in N
  <2>1. ASSUME NEW x \in S, x <= n + 1 PROVE FALSE
    <3>1. PICK y \in S : ~(x <= y)
      OBVIOUS
    <3>2. y \in Nat /\ x \in Nat /\ y <= n
      BY <2>1, <3>1
    <3> QED
      BY <1>2, <3>2
  <2> QED
    BY <2>1
<1> HIDE DEF N
<1>3. Nat \subseteq N
  BY <1>1, <1>2, SetInduction
<1>4. PICK x \in S : x \in N
  BY <1>3
<1> QED
  BY <1>4 DEF N

\* The first word of a line that begins with it ends before the first space.
LEMMA FirstWordIs ==
    ASSUME NEW line \in Line, NEW j \in DOMAIN line, line[j] = Space, line[1] # Space
    PROVE  \E s \in DOMAIN line :
               s > 1 /\ line[s] = Space /\ FirstWord(line) = SubSeq(line, 1, s - 1)
<1>1. PICK n \in Nat : n = Len(line) /\ DOMAIN line = 1 .. n
  BY DEF Line
<1>2. PICK spaces : spaces = {i \in 1 .. n : line[i] = Space}
  OBVIOUS
<1>3. PICK s \in spaces : \A x \in spaces : s <= x
  <2>1. spaces \in SUBSET Nat
    BY <1>2
  <2>2. spaces # {}
    BY <1>1, <1>2
  <2> QED
    BY <2>1, <2>2, LeastExists
<1>4. s \in 1 .. n /\ line[s] = Space /\ s > 1
  BY <1>2, <1>3
<1>5. PICK letters \in SUBSET (1 .. n) : letters = {i \in DOMAIN line : line[i] # Space}
  BY <1>1
<1>6. 1 \in letters
  BY <1>1, <1>4, <1>5
<1>7. Min(letters) = 1
  <2>1. \A y \in letters : 1 <= y
    BY <1>5
  <2>2. \A x \in letters : (\A y \in letters : x <= y) => x = 1
    BY <1>5, <1>6
  <2> QED
    BY <1>6, <2>1, <2>2 DEF Min
<1>8. PICK runs : runs = {i \in letters : 1 .. i \subseteq letters}
  OBVIOUS
<1>9. s - 1 \in runs
  <2>1. ASSUME NEW i \in 1 .. s - 1 PROVE i \in letters
    <3>1. i \in 1 .. n /\ i < s
      BY <1>4
    <3>2. i \notin spaces
      BY <1>3, <1>4, <3>1
    <3> QED
      BY <1>1, <1>2, <1>5, <3>1, <3>2
  <2>2. s - 1 \in letters
    BY <1>4, <2>1
  <2> QED
    BY <1>8, <2>1, <2>2
<1>10. ASSUME NEW i \in runs PROVE i \in Nat /\ i <= s - 1
  <2>1. i \in 1 .. n /\ 1 .. i \subseteq letters
    BY <1>5, <1>8
  <2>2. s \notin letters
    BY <1>4, <1>5
  <2>3. ~(s <= i)
    BY <1>4, <2>1, <2>2
  <2> QED
    BY <1>4, <2>1, <2>3
<1>11. Max(runs) = s - 1
  <2>1. \A y \in runs : s - 1 >= y
    BY <1>4, <1>10
  <2>2. \A x \in runs : (\A y \in runs : x >= y) => x = s - 1
    BY <1>4, <1>9, <1>10
  <2> QED
    BY <1>9, <2>1, <2>2 DEF Max
<1>12. FirstWord(line) = SubSeq(line, 1, s - 1)
  <2>1. FirstWord(line) =
            IF letters = {} THEN <<>>
            ELSE SubSeq(line, Min(letters),
                        Max({i \in letters : Min(letters) .. i \subseteq letters}))
    BY <1>5, Zenon DEF FirstWord
  <2> QED
    BY <1>6, <1>7, <1>8, <1>11, <2>1
<1> QED
  BY <1>1, <1>4, <1>12

\* Words are those of the line; the line is one of keys.
WordsInv ==
    /\ str_buffer \in Seq(Key)
    /\ WordsTyped

\* A sequence is what comes before a place, what is there, and what comes after it.
LEMMA CutAt ==
    ASSUME NEW A, NEW line \in Seq(A), NEW s \in DOMAIN line, s > 1
    PROVE  line = SubSeq(line, 1, s - 1) \o <<line[s]>> \o SubSeq(line, s + 1, Len(line))
<1>1. PICK n \in Nat : n = Len(line) /\ DOMAIN line = 1 .. n
  OBVIOUS
<1>2. s \in 1 .. n /\ \A i \in 1 .. n : line[i] \in A
  BY <1>1
<1>3. PICK a : a = SubSeq(line, 1, s - 1)
  OBVIOUS
<1>4. a \in Seq(A) /\ Len(a) = s - 1 /\ \A i \in 1 .. s - 1 : a[i] = line[i]
  <2>1. 1 \in Int /\ s - 1 \in Int /\ 1 <= s - 1 /\ \A i \in 1 .. s - 1 : line[i] \in A
    BY <1>2
  <2>2. /\ a \in Seq(A) /\ Len(a) = (s - 1) - 1 + 1
        /\ \A i \in 1 .. (s - 1) - 1 + 1 : a[i] = line[1 + i - 1]
    BY <1>3, <2>1, SubSeqProperties
  <2> QED
    BY <1>2, <2>2
<1>5. PICK b : b = SubSeq(line, s + 1, n)
  OBVIOUS
<1>6. b \in Seq(A) /\ Len(b) = n - s /\ \A i \in 1 .. n - s : b[i] = line[s + i]
  <2>1. n \in Int /\ s + 1 \in Int /\ \A i \in s + 1 .. n : line[i] \in A
    BY <1>2
  <2>2. /\ b \in Seq(A) /\ Len(b) = IF s + 1 <= n THEN n - (s + 1) + 1 ELSE 0
        /\ \A i \in 1 .. n - (s + 1) + 1 : b[i] = line[(s + 1) + i - 1]
    BY <1>5, <2>1, SubSeqProperties
  <2> QED
    BY <1>2, <2>2
<1>7. PICK c : c = a \o <<line[s]>>
  OBVIOUS
<1>8. /\ c \in Seq(A) /\ Len(c) = s
      /\ \A i \in 1 .. s : c[i] = line[i]
  <2>1. PICK mid : mid = <<line[s]>>
    OBVIOUS
  <2>2. line[s] \in A
    BY <1>2
  <2>3. mid \in Seq(A) /\ Len(mid) = 1 /\ mid[1] = line[s]
    BY ONLY <2>1, <2>2
  <2>4. c = a \o mid
    BY <1>7, <2>1
  <2>5. /\ c \in Seq(A) /\ Len(c) = Len(a) + Len(mid)
        /\ \A i \in 1 .. Len(a) + Len(mid) :
               c[i] = IF i <= Len(a) THEN a[i] ELSE mid[i - Len(a)]
    BY ONLY <1>4, <2>3, <2>4, ConcatProperties
  <2> QED
    BY <1>2, <1>4, <2>3, <2>5
<1>9. PICK whole : whole = c \o b
  OBVIOUS
<1>10. /\ whole \in Seq(A) /\ Len(whole) = n
       /\ \A i \in 1 .. n : whole[i] = IF i <= s THEN c[i] ELSE b[i - s]
  <2>1. /\ whole \in Seq(A) /\ Len(whole) = Len(c) + Len(b)
        /\ \A i \in 1 .. Len(c) + Len(b) :
               whole[i] = IF i <= Len(c) THEN c[i] ELSE b[i - Len(c)]
    BY ONLY <1>6, <1>8, <1>9, ConcatProperties
  <2>2. Len(c) = s /\ Len(c) + Len(b) = n
    BY <1>2, <1>6, <1>8
  <2> QED
    BY <2>1, <2>2
<1>11. Len(whole) = n
  BY <1>2, <1>10
<1>12. ASSUME NEW i \in 1 .. n PROVE whole[i] = line[i]
  <2>1. CASE i <= s
    BY <1>2, <1>8, <1>10, <2>1
  <2>2. CASE i > s
    <3>1. i - s \in 1 .. n - s /\ s + (i - s) = i
      BY <1>2, <2>2
    <3> QED
      BY <1>2, <1>6, <1>10, <2>2, <3>1, SMTT(40)
  <2> QED
    BY <1>2, <2>1, <2>2
<1>13. whole = line
  BY <1>1, <1>10, <1>11, <1>12, SeqEqual
<1> QED
  BY <1>1, <1>3, <1>5, <1>7, <1>9, <1>13

LEMMA EndLineWords ==
    ASSUME WordsInv, NEW ch, EndLine(ch)
    PROVE  WordsInv'
<1>1. PICK line \in Line : line = str_buffer
  BY ShellAssumption DEF WordsInv, Line
<1>2. str_buffer' = line /\ str_buffer' \in Seq(Key)
  BY <1>1 DEF EndLine, WordsInv
<1>3. SUFFICES ASSUME Backspace \notin ToSet(line), line[1] # Space, Space \in ToSet(line)
               PROVE  line = words'.first \o <<Space>> \o words'.rest
  BY <1>2 DEF WordsInv, WordsTyped
<1>4. \A i \in DOMAIN line : line[i] # Backspace
  BY <1>3 DEF ToSet
<1>5. PICK j \in DOMAIN line : line[j] = Space
  BY <1>3 DEF ToSet
<1>6. PICK s \in DOMAIN line :
          s > 1 /\ line[s] = Space /\ FirstWord(line) = SubSeq(line, 1, s - 1)
  BY <1>3, <1>5, FirstWordIs
<1>7. PICK word : word = FirstWord(line)
  OBVIOUS
<1>8. Strip(line) = line
  BY <1>4, StripNothing
<1>9. words' = [first |-> word, rest |-> Rest(word, line)]
  BY <1>1, <1>7, <1>8 DEF EndLine
<1>10. Len(word) = s - 1 /\ s <= Len(line) /\ s \in Nat
  BY <1>6, <1>7 DEF Line
<1>11. Rest(word, line) = SubSeq(line, s + 1, Len(line))
  <2>1. Len(word) # Len(line) /\ Len(word) + 2 = s + 1
    BY <1>10
  <2> QED
    BY <2>1 DEF Rest
<1>12. line = word \o <<Space>> \o SubSeq(line, s + 1, Len(line))
  <2>1. line \in Seq(Key)
    BY DEF Line
  <2>2. line = SubSeq(line, 1, s - 1) \o <<line[s]>> \o SubSeq(line, s + 1, Len(line))
    BY <1>6, <2>1, CutAt
  <2> QED
    BY <1>6, <1>7, <2>2
<1> QED
  BY <1>9, <1>11, <1>12

LEMMA NextWords ==
    ASSUME WordsInv, [ShellNext]_shellVars
    PROVE  WordsInv'
<1>1. CASE ShowPrompt
  BY <1>1 DEF WordsInv, WordsTyped, ShowPrompt
<1>2. ASSUME NEW ch \in Key, Type(ch) PROVE WordsInv'
  BY <1>2 DEF WordsInv, WordsTyped, Type
<1>3. ASSUME NEW ch \in Key \cup {Newline}, EndLine(ch) PROVE WordsInv'
  BY <1>3, EndLineWords
<1>4. ASSUME NEW string \in Output, Command(string) PROVE WordsInv'
  BY <1>4 DEF WordsInv, WordsTyped, Command, Return
<1>5. ASSUME NEW string \in Output, List(string) PROVE WordsInv'
  <2>1. CASE Return
    BY <2>1 DEF WordsInv, WordsTyped, Return
  <2>2. CASE UNCHANGED <<phase, str_buffer, words>>
    BY <1>5, <2>2 DEF WordsInv, WordsTyped, List
  <2> QED
    BY <1>5, <2>1, <2>2 DEF List
<1>6. ASSUME NEW command \in {"cd", "ls", "cat"}, NEW path, Resolve(command, path)
      PROVE  WordsInv'
  BY <1>6 DEF WordsInv, WordsTyped, Resolve
<1>7. CASE Part
  BY <1>7 DEF WordsInv, WordsTyped, Part
<1>8. CASE ChangeDirectory
  BY <1>8 DEF WordsInv, WordsTyped, ChangeDirectory, Return
<1>9. CASE Heartbeat
  BY <1>9 DEF WordsInv, WordsTyped, Heartbeat
<1>10. CASE UNCHANGED shellVars
  BY <1>10 DEF WordsInv, WordsTyped, shellVars
<1> QED
  BY <1>1, <1>2, <1>3, <1>4, <1>5, <1>6, <1>7, <1>8, <1>9, <1>10 DEF ShellNext

LEMMA ShellWordsInvariant == ShellSpec => []WordsInv
<1>1. ShellInit => WordsInv
  BY DEF ShellInit, WordsInv, WordsTyped
<1>2. WordsInv /\ [ShellNext]_shellVars => WordsInv'
  BY NextWords
<1> QED
  BY <1>1, <1>2, PTL DEF ShellSpec

\* A command gets the words that were typed (cmd_line_attempt, strtok), on lines without
\* backspaces that begin with a word: of any length, with any characters.
THEOREM ShellWordsTyped == ShellSpec => []WordsTyped
<1>1. WordsInv => WordsTyped
  BY DEF WordsInv
<1> QED
  BY <1>1, ShellWordsInvariant, PTL
-----------------------------------------------------------------------------
(***************************************************************************)
(* The console: cells, and places counted along the lines.                 *)
(***************************************************************************)

LEMMA DivMod ==
    ASSUME NEW q \in Nat, NEW m \in Nat \ {0}
    PROVE  q % m \in 0 .. m - 1 /\ q \div m \in Nat /\ q = (q \div m) * m + (q % m)
OBVIOUS

LEMMA DivModUnique ==
    ASSUME NEW m \in Nat \ {0}, NEW a \in Nat, NEW b \in Nat, NEW x \in 0 .. m - 1,
           NEW y \in 0 .. m - 1, a * m + x = b * m + y
    PROVE  a = b /\ x = y
<1>1. ASSUME a > b PROVE FALSE
  <2>1. (a - b) * m >= m
    BY <1>1, SMTT(20)
  <2>2. (a - b) * m = a * m - b * m
    BY SMTT(20)
  <2>3. a * m \in Nat /\ b * m \in Nat /\ (a - b) * m \in Int
    BY <1>1, SMTT(20)
  <2> QED
    BY <2>1, <2>2, <2>3
<1>2. ASSUME b > a PROVE FALSE
  <2>1. (b - a) * m >= m
    BY <1>2, SMTT(20)
  <2>2. (b - a) * m = b * m - a * m
    BY SMTT(20)
  <2>3. a * m \in Nat /\ b * m \in Nat /\ (b - a) * m \in Int
    BY <1>2, SMTT(20)
  <2> QED
    BY <2>1, <2>2, <2>3
<1>3. a = b
  BY <1>1, <1>2
<1>4. a * m \in Nat
  BY SMTT(20)
<1> QED
  BY <1>3, <1>4

CellAt(q) == <<q % xsize, q \div xsize>>
Place(s) == s.ypos * xsize + s.xpos
Cursor(s) == <<s.xpos, s.ypos>>

\* What the cells show: a function of the cells.
Picture(c) == c = [cell \in Cell |-> c[cell]]

\* The console with its cursor at x, y; and on the screen.
At(x, y, c) == [xpos |-> x, ypos |-> y, cell |-> c]

OnScreen(s) ==
    \E x \in 0 .. xsize - 1, y \in 0 .. ysize - 1 : \E c : Picture(c) /\ s = At(x, y, c)

\* The cell of a place is the one it was counted from.
LEMMA PlaceOfCursor ==
    ASSUME NEW s, OnScreen(s)
    PROVE  Place(s) \in Nat /\ CellAt(Place(s)) = Cursor(s)
<1>1. PICK x \in 0 .. xsize - 1, y \in 0 .. ysize - 1 : x = s.xpos /\ y = s.ypos
  BY DEF OnScreen, At
<1>2. xsize \in Nat \ {0} /\ ysize \in Nat \ {0} /\ y \in Nat
  BY <1>1, ShellAssumption
<1>3. PICK q : q = y * xsize + x
  OBVIOUS
<1>4. q \in Nat
  <2>1. y * xsize \in Nat
    BY <1>2, SMTT(20)
  <2> QED
    BY <1>1, <1>2, <1>3, <2>1
<1>5. q % xsize \in 0 .. xsize - 1 /\ q \div xsize \in Nat
      /\ q = (q \div xsize) * xsize + (q % xsize)
  BY <1>2, <1>4, DivMod
<1>6. q \div xsize = y /\ q % xsize = x
  <2>1. PICK m \in Nat \ {0} : m = xsize
    BY <1>2
  <2>2. PICK a \in Nat, b \in 0 .. m - 1 : a = q \div m /\ b = q % m
    BY <1>5, <2>1
  <2>3. a * m + b = y * m + x /\ x \in 0 .. m - 1 /\ y \in Nat
    BY <1>1, <1>2, <1>3, <1>5, <2>1, <2>2
  <2>4. a = y /\ b = x
    BY <2>3, DivModUnique
  <2> QED
    BY <2>1, <2>2, <2>4
<1> QED
  BY <1>1, <1>3, <1>4, <1>6 DEF Place, CellAt, Cursor

\* Different places are different cells, and a place before one on the screen is on it.
LEMMA PlacesDiffer ==
    ASSUME NEW q \in Nat, NEW r \in Nat, CellAt(q) = CellAt(r)
    PROVE  q = r
<1>1. xsize \in Nat \ {0}
  BY ShellAssumption
<1>2. q % xsize = r % xsize /\ q \div xsize = r \div xsize
  BY DEF CellAt
<1>3. q = (q \div xsize) * xsize + (q % xsize) /\ r = (r \div xsize) * xsize + (r % xsize)
  BY <1>1, DivMod
<1> QED
  BY <1>2, <1>3

LEMMA PlaceOnScreen ==
    ASSUME NEW s, OnScreen(s), NEW q \in Nat, q <= Place(s)
    PROVE  CellAt(q) \in Cell
<1>1. PICK x \in 0 .. xsize - 1, y \in 0 .. ysize - 1 : x = s.xpos /\ y = s.ypos
  BY DEF OnScreen, At
<1>2. PICK m \in Nat \ {0} : m = xsize
  BY ShellAssumption
<1>3. PICK a \in Nat, b \in 0 .. m - 1 : a = q \div m /\ b = q % m /\ q = a * m + b
  BY DivMod
<1>4. y \in Nat /\ ysize \in Nat
  BY <1>1, ShellAssumption
<1>5. ASSUME a > y PROVE FALSE
  <2>1. a * m >= (y + 1) * m
    BY <1>4, <1>5, SMTT(20)
  <2>2. (y + 1) * m = y * m + m
    BY <1>4, SMTT(20)
  <2>3. a * m \in Nat /\ y * m \in Nat
    BY <1>4, SMTT(20)
  <2>4. a * m + b <= y * m + x
    BY <1>1, <1>2, <1>3 DEF Place
  <2> QED
    BY <1>1, <1>2, <2>1, <2>2, <2>3, <2>4
<1>6. a \in 0 .. ysize - 1
  BY <1>1, <1>4, <1>5
<1> QED
  BY <1>2, <1>3, <1>6 DEF CellAt, Cell

(***************************************************************************)
(* What console_putchar does to a cursor on the screen.                    *)
(***************************************************************************)

\* One cell drawn.
Drawn(c, x, y, ch) == [c EXCEPT ![<<x, y>>] = ch]

LEMMA DrawnIs ==
    ASSUME NEW x, NEW y, <<x, y>> \in Cell, NEW c, Picture(c), NEW ch
    PROVE  /\ Picture(Drawn(c, x, y, ch))
           /\ \A cell \in Cell : Drawn(c, x, y, ch)[cell] =
                                   IF cell = <<x, y>> THEN ch ELSE c[cell]
BY DEF Drawn, Picture

Underscore == "_"

LEMMA AtIs ==
    ASSUME NEW x, NEW y, NEW c
    PROVE  /\ Cursor(At(x, y, c)) = <<x, y>>
           /\ Place(At(x, y, c)) = y * xsize + x
           /\ At(x, y, c).cell = c /\ At(x, y, c).ypos = y /\ At(x, y, c).xpos = x
BY DEF At, Cursor, Place

LEMMA WrittenIs ==
    ASSUME NEW x, NEW y, <<x, y>> \in Cell, NEW c, NEW ch
    PROVE  Written(At(x, y, c), ch) = At(x, y, Drawn(c, x, y, ch))
BY DEF Written, At, Drawn

\* The cursor moved along the line, or to another.
LEMMA AlongIs ==
    ASSUME NEW x, NEW y, NEW c, NEW p
    PROVE  [At(x, y, c) EXCEPT !.xpos = p] = At(p, y, c)
BY DEF At

Across(s, p, q) == [s EXCEPT !.xpos = p, !.ypos = q]

LEMMA AcrossIs ==
    ASSUME NEW x, NEW y, NEW c, NEW p, NEW q
    PROVE  Across(At(x, y, c), p, q) = At(p, q, c)
<1>1. Across(At(x, y, c), p, q) = [[At(x, y, c) EXCEPT !.xpos = p] EXCEPT !.ypos = q]
  <2> HIDE DEF At
  <2> QED
    BY SMT DEF Across
<1>2. [At(p, y, c) EXCEPT !.ypos = q] = At(p, q, c)
  BY DEF At
<1>3. [At(x, y, c) EXCEPT !.xpos = p] = At(p, y, c)
  BY AlongIs
<1> QED
  BY <1>1, <1>2, <1>3, Zenon

LEMMA WrappedIs ==
    ASSUME NEW x \in Int, NEW y \in Int, NEW c
    PROVE  Wrapped(At(x, y, c)) = IF x < 0 THEN At(xsize - 1, y - 1, c)
                                  ELSE IF x >= xsize THEN At(0, y + 1, c) ELSE At(x, y, c)
<1>1. PICK s : s = At(x, y, c)
  OBVIOUS
<1>2. s.xpos = x /\ s.ypos = y
  BY <1>1, AtIs
<1>3. Across(s, xsize - 1, y - 1) = At(xsize - 1, y - 1, c)
  BY <1>1, AcrossIs
<1>4. Across(s, 0, y + 1) = At(0, y + 1, c)
  BY <1>1, AcrossIs
<1>5. Wrapped(s) = IF x < 0 THEN Across(s, xsize - 1, y - 1)
                   ELSE IF x >= xsize THEN Across(s, 0, y + 1) ELSE s
  BY <1>2, Zenon DEF Wrapped, Across
<1> QED
  BY <1>1, <1>3, <1>4, <1>5, Zenon

LEMMA BlankOnScreen == OnScreen(Blank)
<1>1. PICK c : c = [cell \in Cell |-> Space]
  OBVIOUS
<1>2. Picture(c) /\ Blank = At(0, 0, c)
  BY <1>1 DEF Picture, Blank, At
<1>3. 0 \in 0 .. xsize - 1 /\ 0 \in 0 .. ysize - 1
  BY ShellAssumption
<1> QED
  BY <1>2, <1>3 DEF OnScreen

LEMMA WrittenOnScreen ==
    ASSUME NEW s, OnScreen(s), NEW ch
    PROVE  /\ OnScreen(Written(s, ch)) /\ Cursor(Written(s, ch)) = Cursor(s)
           /\ Place(Written(s, ch)) = Place(s)
           /\ \A cell \in Cell \ {Cursor(s)} : Written(s, ch).cell[cell] = s.cell[cell]
<1>1. PICK x \in 0 .. xsize - 1, y \in 0 .. ysize - 1 : \E c : Picture(c) /\ s = At(x, y, c)
  BY DEF OnScreen
<1>2. PICK c : Picture(c) /\ s = At(x, y, c)
  BY <1>1
<1>3. <<x, y>> \in Cell
  BY DEF Cell
<1>4. PICK d : d = Drawn(c, x, y, ch)
  OBVIOUS
<1>5. Picture(d) /\ \A cell \in Cell : d[cell] = IF cell = <<x, y>> THEN ch ELSE c[cell]
  BY <1>2, <1>3, <1>4, DrawnIs
<1>6. Written(s, ch) = At(x, y, d)
  BY <1>2, <1>3, <1>4, WrittenIs
<1>7. OnScreen(At(x, y, d))
  BY <1>5 DEF OnScreen
<1> QED
  BY <1>2, <1>5, <1>6, <1>7, AtIs

\* A character of the line is drawn at the cursor, which moves to the next place.
Forward(s, t, ch) ==
    /\ OnScreen(t)
    /\ Place(t) = Place(s) + 1
    /\ \A cell \in Cell \ {Cursor(t)} :
           t.cell[cell] = IF cell = Cursor(s) THEN ch ELSE s.cell[cell]

LEMMA PutForward ==
    ASSUME NEW s, OnScreen(s), NEW ch, ch \notin {Newline, FormFeed, Backspace},
           ~Wipes(s, ch)
    PROVE  Forward(s, Put(s, ch), ch)
<1>1. PICK x \in 0 .. xsize - 1, y \in 0 .. ysize - 1 : \E c : Picture(c) /\ s = At(x, y, c)
  BY DEF OnScreen
<1>2. PICK c : Picture(c) /\ s = At(x, y, c)
  BY <1>1
<1>3. /\ <<x, y>> \in Cell
      /\ xsize \in Nat \ {0} /\ ysize \in Nat \ {0} /\ y \in Nat /\ x \in Nat
  BY ShellAssumption DEF Cell
<1>4. PICK b : b = Drawn(c, x, y, Space)
  OBVIOUS
<1>5. PICK d : d = Drawn(b, x, y, ch)
  OBVIOUS
<1>6. Picture(b) /\ \A cell \in Cell : b[cell] = IF cell = <<x, y>> THEN Space ELSE c[cell]
  BY <1>2, <1>3, <1>4, DrawnIs
<1>7. Picture(d) /\ \A cell \in Cell : d[cell] = IF cell = <<x, y>> THEN ch ELSE b[cell]
  BY <1>3, <1>5, <1>6, DrawnIs
<1>8. Moved(Written(s, Space), ch) = At(x + 1, y, d)
  <2>1. Written(s, Space) = At(x, y, b)
    BY <1>2, <1>3, <1>4, WrittenIs
  <2>2. Written(At(x, y, b), ch) = At(x, y, d)
    BY <1>3, <1>5, WrittenIs
  <2>3. Moved(At(x, y, b), ch) = [Written(At(x, y, b), ch) EXCEPT !.xpos = @ + 1]
    BY Zenon DEF Moved
  <2>4. At(x, y, d).xpos = x
    BY AtIs
  <2>5. [At(x, y, d) EXCEPT !.xpos = x + 1] = At(x + 1, y, d)
    BY AlongIs
  <2> QED
    BY <2>1, <2>2, <2>3, <2>4, <2>5, Zenon
<1>9. PICK p : p = IF x + 1 = xsize THEN 0 ELSE x + 1
  OBVIOUS
<1>10. PICK q : q = IF x + 1 = xsize THEN y + 1 ELSE y
  OBVIOUS
<1>11. Wrapped(At(x + 1, y, d)) = At(p, q, d)
  BY <1>3, <1>9, <1>10, WrappedIs
<1>12. ~OffEnd(At(p, q, d))
  BY <1>8, <1>11 DEF Wipes
<1>13. p \in 0 .. xsize - 1 /\ q \in 0 .. ysize - 1
  <2>1. ~(q >= ysize)
    BY <1>12, AtIs DEF OffEnd
  <2> QED
    BY <1>3, <1>9, <1>10, <2>1
<1>14. <<p, q>> \in Cell
  BY <1>13 DEF Cell
<1>15. PICK e : e = Drawn(d, p, q, Underscore)
  OBVIOUS
<1>16. Picture(e) /\ \A cell \in Cell : e[cell] = IF cell = <<p, q>> THEN Underscore ELSE d[cell]
  BY <1>7, <1>14, <1>15, DrawnIs
<1>17. Put(s, ch) = At(p, q, e)
  <2>1. Cleared(At(p, q, d)) = At(p, q, d)
    BY <1>12 DEF Cleared
  <2>2. Written(At(p, q, d), Underscore) = At(p, q, e)
    BY <1>14, <1>15, WrittenIs
  <2> QED
    BY <1>8, <1>11, <2>1, <2>2 DEF Put, Underscore
<1>18. OnScreen(At(p, q, e))
  BY <1>13, <1>16 DEF OnScreen
<1>19. q * xsize + p = (y * xsize + x) + 1
  <2>1. y * xsize \in Nat /\ (y + 1) * xsize = y * xsize + xsize
    BY <1>3, SMTT(20)
  <2>2. CASE x + 1 = xsize
    BY <1>3, <1>9, <1>10, <2>1, <2>2
  <2>3. CASE x + 1 # xsize
    BY <1>3, <1>9, <1>10, <2>1, <2>3
  <2> QED
    BY <2>2, <2>3
<1>20. ASSUME NEW cell \in Cell, cell # <<p, q>>
       PROVE  e[cell] = IF cell = <<x, y>> THEN ch ELSE c[cell]
  BY <1>6, <1>7, <1>16, <1>20
<1>21. Place(At(p, q, e)) = Place(s) + 1
  BY <1>2, <1>19, AtIs
<1>22. Cursor(At(p, q, e)) = <<p, q>> /\ At(p, q, e).cell = e /\ Cursor(s) = <<x, y>>
       /\ s.cell = c
  BY <1>2, AtIs
<1> QED
  BY <1>17, <1>18, <1>20, <1>21, <1>22 DEF Forward

\* A backspace not in the first cell goes back one place.
Back(s, t) ==
    /\ OnScreen(t)
    /\ Place(s) = Place(t) + 1
    /\ \A cell \in Cell \ {Cursor(s), Cursor(t)} : t.cell[cell] = s.cell[cell]

LEMMA PutBack ==
    ASSUME NEW s, OnScreen(s), Cursor(s) # <<0, 0>>
    PROVE  Back(s, Put(s, Backspace))
<1>1. PICK x \in 0 .. xsize - 1, y \in 0 .. ysize - 1 : \E c : Picture(c) /\ s = At(x, y, c)
  BY DEF OnScreen
<1>2. PICK c : Picture(c) /\ s = At(x, y, c)
  BY <1>1
<1>3. /\ <<x, y>> \in Cell
      /\ xsize \in Nat \ {0} /\ ysize \in Nat \ {0} /\ y \in Nat /\ x \in Nat
  BY ShellAssumption DEF Cell
<1>4. PICK b : b = Drawn(c, x, y, Space)
  OBVIOUS
<1>5. Picture(b) /\ \A cell \in Cell : b[cell] = IF cell = <<x, y>> THEN Space ELSE c[cell]
  BY <1>2, <1>3, <1>4, DrawnIs
<1>6. Moved(Written(s, Space), Backspace) = At(x - 1, y, b)
  <2>1. Written(s, Space) = At(x, y, b)
    BY <1>2, <1>3, <1>4, WrittenIs
  <2>2. Backspace # Newline /\ Backspace # FormFeed
    BY DEF Backspace, Newline, FormFeed
  <2>3. Moved(At(x, y, b), Backspace) = [At(x, y, b) EXCEPT !.xpos = @ - 1]
    BY <2>2, Zenon DEF Moved
  <2>4. At(x, y, b).xpos = x
    BY AtIs
  <2>5. [At(x, y, b) EXCEPT !.xpos = x - 1] = At(x - 1, y, b)
    BY AlongIs
  <2> QED
    BY <2>1, <2>3, <2>4, <2>5, Zenon
<1>7. PICK p : p = IF x = 0 THEN xsize - 1 ELSE x - 1
  OBVIOUS
<1>8. PICK q : q = IF x = 0 THEN y - 1 ELSE y
  OBVIOUS
<1>9. Wrapped(At(x - 1, y, b)) = At(p, q, b)
  BY <1>3, <1>7, <1>8, WrappedIs
<1>10. x # 0 \/ y # 0
  BY <1>2, AtIs
<1>11. p \in 0 .. xsize - 1 /\ q \in 0 .. ysize - 1
  BY <1>3, <1>7, <1>8, <1>10
<1>12. <<p, q>> \in Cell
  BY <1>11 DEF Cell
<1>13. PICK e : e = Drawn(b, p, q, Underscore)
  OBVIOUS
<1>14. Picture(e) /\ \A cell \in Cell : e[cell] = IF cell = <<p, q>> THEN Underscore ELSE b[cell]
  BY <1>5, <1>12, <1>13, DrawnIs
<1>15. Put(s, Backspace) = At(p, q, e)
  <2>1. ~OffEnd(At(p, q, b))
    BY <1>3, <1>11, AtIs DEF OffEnd
  <2>2. Cleared(At(p, q, b)) = At(p, q, b)
    BY <2>1 DEF Cleared
  <2>3. Written(At(p, q, b), Underscore) = At(p, q, e)
    BY <1>12, <1>13, WrittenIs
  <2> QED
    BY <1>6, <1>9, <2>2, <2>3 DEF Put, Underscore
<1>16. OnScreen(At(p, q, e))
  BY <1>11, <1>14 DEF OnScreen
<1>17. y * xsize + x = (q * xsize + p) + 1
  <2>1. y * xsize \in Nat /\ (y - 1) * xsize = y * xsize - xsize
    BY <1>3, SMTT(20)
  <2>2. CASE x = 0
    BY <1>3, <1>7, <1>8, <2>1, <2>2
  <2>3. CASE x # 0
    BY <1>3, <1>7, <1>8, <2>1, <2>3
  <2> QED
    BY <2>2, <2>3
<1>18. ASSUME NEW cell \in Cell, cell # <<p, q>>, cell # <<x, y>>
       PROVE  e[cell] = c[cell]
  BY <1>5, <1>14, <1>18
<1>19. Place(s) = Place(At(p, q, e)) + 1
  BY <1>2, <1>17, AtIs
<1>20. Cursor(At(p, q, e)) = <<p, q>> /\ At(p, q, e).cell = e /\ Cursor(s) = <<x, y>>
       /\ s.cell = c
  BY <1>2, AtIs
<1> QED
  BY <1>15, <1>16, <1>18, <1>19, <1>20 DEF Back

\* It stays on the screen, whatever it gets but a backspace in the first cell.
LEMMA PutOnScreen ==
    ASSUME NEW s, OnScreen(s), NEW ch, ch = Backspace => Cursor(s) # <<0, 0>>
    PROVE  OnScreen(Put(s, ch))
<1>1. CASE ch = Backspace
  BY <1>1, PutBack DEF Back
<1>2. CASE ch \notin {Newline, FormFeed, Backspace} /\ ~Wipes(s, ch)
  BY <1>2, PutForward DEF Forward
<1>3. CASE ch # Backspace /\ OffEnd(Wrapped(Moved(Written(s, Space), ch)))
  BY <1>3, BlankOnScreen, WrittenOnScreen DEF Put, Cleared
<1>4. CASE ch = FormFeed
  <2>1. FormFeed # Newline /\ FormFeed # Backspace
    BY DEF FormFeed, Newline, Backspace
  <2>2. Moved(Written(s, Space), ch) = Blank
    BY <1>4, <2>1, Zenon DEF Moved
  <2>3. PICK c : Blank = At(0, 0, c)
    BY DEF Blank, At
  <2>4. Wrapped(Blank) = Blank
    <3>1. 0 \in Int /\ ~(0 < 0) /\ ~(0 >= xsize)
      BY ShellAssumption
    <3>2. Wrapped(At(0, 0, c)) = At(0, 0, c)
      BY <3>1, WrappedIs
    <3> QED
      BY <2>3, <3>2
  <2>5. ~OffEnd(Blank)
    BY <2>3, ShellAssumption, AtIs DEF OffEnd
  <2>6. Cleared(Blank) = Blank
    BY <2>5 DEF Cleared
  <2> QED
    BY <2>2, <2>4, <2>6, BlankOnScreen, WrittenOnScreen DEF Put
<1>5. CASE ch = Newline /\ ~OffEnd(Wrapped(Moved(Written(s, Space), ch)))
  <2>1. PICK w : w = Written(s, Space)
    OBVIOUS
  <2>2. OnScreen(w)
    BY <2>1, WrittenOnScreen
  <2>3. PICK x \in 0 .. xsize - 1, y \in 0 .. ysize - 1 :
            \E c : Picture(c) /\ w = At(x, y, c)
    BY <2>2 DEF OnScreen
  <2>4. PICK c : Picture(c) /\ w = At(x, y, c)
    BY <2>3
  <2>5. Moved(w, ch) = At(0, y + 1, c)
    <3>1. Newline # FormFeed /\ Newline # Backspace
      BY DEF Newline, FormFeed, Backspace
    <3>2. Moved(w, ch) = Across(w, 0, w.ypos + 1)
      BY <1>5, <3>1, Zenon DEF Moved, Across
    <3>3. w.ypos = y /\ Across(w, 0, y + 1) = At(0, y + 1, c)
      BY <2>4, AtIs, AcrossIs
    <3> QED
      BY <3>1, <3>2, <3>3, Zenon
  <2>6. y + 1 \in Int /\ xsize \in Nat \ {0} /\ ysize \in Nat \ {0} /\ y \in Nat
    BY ShellAssumption
  <2>7. Wrapped(At(0, y + 1, c)) = At(0, y + 1, c)
    BY <2>6, WrappedIs
  <2>8. ~OffEnd(At(0, y + 1, c))
    BY <1>5, <2>1, <2>5, <2>7
  <2>9. y + 1 \in 0 .. ysize - 1 /\ 0 \in 0 .. xsize - 1
    <3>1. ~(y + 1 >= ysize)
      BY <2>8, AtIs DEF OffEnd
    <3> QED
      BY <2>6, <3>1
  <2>10. OnScreen(At(0, y + 1, c))
    BY <2>4, <2>9 DEF OnScreen
  <2>11. Put(s, ch) = Written(At(0, y + 1, c), Underscore)
    BY <2>1, <2>5, <2>7, <2>8 DEF Put, Cleared, Underscore
  <2> QED
    BY <2>10, <2>11, WrittenOnScreen
<1> QED
  BY <1>1, <1>2, <1>3, <1>4, <1>5 DEF Wipes

(***************************************************************************)
(* What is printed without backspaces leaves the cursor on the screen.     *)
(***************************************************************************)

IsShowing(s, string, n, k) ==
    k = [i \in 0 .. n |-> IF i = 0 THEN s ELSE Put(k[i - 1], string[i])]

LEMMA PutsIs ==
    ASSUME NEW s, NEW string
    PROVE  Puts(s, string) = (CHOOSE k : IsShowing(s, string, Len(string), k))[Len(string)]
BY Zenon DEF Puts, IsShowing

LEMMA ShowingExists ==
    ASSUME NEW s, NEW string, NEW n \in Nat
    PROVE  \E k : IsShowing(s, string, n, k)
<1> DEFINE N == {m \in Nat : \E k : IsShowing(s, string, m, k)}
<1>1. 0 \in N
  <2>1. PICK k : k = [i \in 0 .. 0 |-> s]
    OBVIOUS
  <2>2. IsShowing(s, string, 0, k)
    BY <2>1 DEF IsShowing
  <2> QED
    BY <2>2
<1>2. ASSUME NEW m \in Nat, m \in N PROVE m + 1 \in N
  <2>1. PICK k : IsShowing(s, string, m, k)
    BY <1>2
  <2>2. PICK l : l = [i \in 0 .. m + 1 |->
                        IF i <= m THEN k[i] ELSE Put(k[m], string[m + 1])]
    OBVIOUS
  <2>3. ASSUME NEW i \in 0 .. m + 1
        PROVE  l[i] = IF i = 0 THEN s ELSE Put(l[i - 1], string[i])
    <3>1. CASE i = 0
      <4>1. k[0] = s
        BY <2>1 DEF IsShowing
      <4> QED
        BY <2>2, <3>1, <4>1
    <3>2. CASE i \in 1 .. m
      <4>1. k[i] = Put(k[i - 1], string[i])
        BY <2>1, <3>2 DEF IsShowing
      <4>2. l[i] = k[i] /\ l[i - 1] = k[i - 1] /\ i # 0
        BY <2>2, <3>2
      <4> QED
        BY <4>1, <4>2
    <3>3. CASE i = m + 1
      <4>1. l[i] = Put(k[m], string[i]) /\ l[i - 1] = k[m] /\ i # 0
        BY <2>2, <3>3
      <4> QED
        BY <4>1
    <3> QED
      BY <3>1, <3>2, <3>3
  <2>4. l = [i \in 0 .. m + 1 |-> IF i = 0 THEN s ELSE Put(l[i - 1], string[i])]
    BY <2>2, <2>3
  <2>5. IsShowing(s, string, m + 1, l)
    BY <2>4 DEF IsShowing
  <2> QED
    BY <2>5
<1> HIDE DEF N
<1>3. n \in N
  BY <1>1, <1>2, SetInduction
<1> QED
  BY <1>3 DEF N

LEMMA PutsOnScreen ==
    ASSUME NEW s, OnScreen(s), NEW string, Len(string) \in Nat,
           \A i \in 1 .. Len(string) : string[i] # Backspace
    PROVE  OnScreen(Puts(s, string))
<1>1. PICK n \in Nat : n = Len(string)
  OBVIOUS
<1>2. PICK k : k = CHOOSE j : IsShowing(s, string, n, j)
  OBVIOUS
<1>3. IsShowing(s, string, n, k)
  BY <1>2, ShowingExists, Zenon
<1> DEFINE N == {m \in Nat : m <= n => OnScreen(k[m])}
<1>4. 0 \in N
  <2>1. k[0] = s
    BY <1>3 DEF IsShowing
  <2> QED
    BY <2>1
<1>5. ASSUME NEW m \in Nat, m \in N PROVE m + 1 \in N
  <2> SUFFICES ASSUME m + 1 <= n PROVE OnScreen(k[m + 1])
    OBVIOUS
  <2>1. OnScreen(k[m]) /\ m + 1 \in 1 .. n /\ (m + 1) - 1 = m
    BY <1>5
  <2>2. k[m + 1] = Put(k[m], string[m + 1])
    BY <1>3, <2>1 DEF IsShowing
  <2> QED
    BY <1>1, <2>1, <2>2, PutOnScreen
<1> HIDE DEF N
<1>6. n \in N
  BY <1>4, <1>5, SetInduction
<1>7. OnScreen(k[n])
  BY <1>6 DEF N
<1> QED
  BY <1>1, <1>2, <1>7, PutsIs

(***************************************************************************)
(* The line on the screen is the line the shell will take.                 *)
(***************************************************************************)

\* The cursor is on the screen, and behind the whole line.
EchoInv ==
    /\ OnScreen(screen)
    /\ str_buffer \in Line
    /\ phase = "reading" /\ ~wiped => Len(Strip(str_buffer)) <= Place(screen)
    /\ EchoTrue

\* The line is before the cursor of s.
Shows(s, line) ==
    /\ Len(line) <= Place(s)
    /\ \A k \in DOMAIN line : s.cell[CellAt(Place(s) - (Len(line) + 1 - k))] = line[k]

LEMMA ShowsIs ==
    EchoInv <=> /\ OnScreen(screen) /\ str_buffer \in Line
                /\ phase = "reading" /\ ~wiped => Shows(screen, Strip(str_buffer))
<1>1. PICK line : line = Strip(str_buffer)
  OBVIOUS
<1>2. ASSUME NEW n PROVE Before(n) = screen.cell[CellAt(Place(screen) - n)]
  BY Zenon DEF Before, CellAt, Place
<1>3. EchoTrue <=> (phase = "reading" /\ ~wiped =>
                       \A k \in DOMAIN line : Before(Len(line) + 1 - k) = line[k])
  BY <1>1 DEF EchoTrue
<1>4. Shows(screen, line) <=>
          /\ Len(line) <= Place(screen)
          /\ \A k \in DOMAIN line : Before(Len(line) + 1 - k) = line[k]
  BY <1>2, Zenon DEF Shows
<1> QED
  BY <1>1, <1>3, <1>4, Zenon DEF EchoInv

LEMMA ShowsWill ==
    EchoInv' <=> /\ OnScreen(screen') /\ str_buffer' \in Line
                 /\ phase' = "reading" /\ ~wiped' => Shows(screen', Strip(str_buffer'))
<1>1. PICK line : line = Strip(str_buffer')
  OBVIOUS
<1>2. ASSUME NEW n PROVE Before(n)' = screen'.cell[CellAt(Place(screen') - n)]
  BY Zenon DEF Before, CellAt, Place
<1>3. EchoTrue' <=> (phase' = "reading" /\ ~wiped' =>
                        \A k \in DOMAIN line : Before(Len(line) + 1 - k)' = line[k])
  BY <1>1 DEF EchoTrue
<1>4. Shows(screen', line) <=>
          /\ Len(line) <= Place(screen')
          /\ \A k \in DOMAIN line : Before(Len(line) + 1 - k)' = line[k]
  BY <1>2, Zenon DEF Shows
<1> QED
  BY <1>1, <1>3, <1>4, Zenon DEF EchoInv

\* A character typed is at the end of the line.
LEMMA ShowsForward ==
    ASSUME NEW s, OnScreen(s), NEW t, NEW line \in Line, NEW ch \in Key, Shows(s, line),
           Forward(s, t, ch)
    PROVE  Shows(t, Append(line, ch))
<1>1. PICK p \in Nat : p = Place(s) /\ CellAt(p) = Cursor(s)
  BY PlaceOfCursor
<1>2. Place(t) = p + 1 /\ CellAt(p + 1) = Cursor(t) /\ OnScreen(t)
  BY <1>1, PlaceOfCursor DEF Forward
<1>3. PICK n \in Nat : n = Len(line) /\ DOMAIN line = 1 .. n
  BY DEF Line
<1>4. PICK longer \in Line : longer = Append(line, ch)
  BY AppendProperties, Zenon DEF Line
<1>5. /\ Len(longer) = n + 1 /\ longer[n + 1] = ch /\ DOMAIN longer = 1 .. n + 1
      /\ \A k \in 1 .. n : longer[k] = line[k]
  BY <1>3, <1>4 DEF Line
<1>6. n <= p
  BY <1>1, <1>3 DEF Shows
<1>7. ASSUME NEW k \in 1 .. n + 1
      PROVE  t.cell[CellAt((p + 1) - ((n + 1) + 1 - k))] = longer[k]
  <2>1. PICK q \in Nat : q = p - (n + 1 - k) /\ q <= p
    BY <1>6
  <2>2. (p + 1) - ((n + 1) + 1 - k) = q
    BY <2>1
  <2>3. CellAt(q) \in Cell
    BY <1>1, <2>1, PlaceOnScreen
  <2>4. CellAt(q) # Cursor(t)
    <3>1. p + 1 \in Nat /\ q # p + 1
      BY <2>1
    <3> QED
      BY <1>2, <3>1, PlacesDiffer
  <2>5. t.cell[CellAt(q)] = IF CellAt(q) = Cursor(s) THEN ch ELSE s.cell[CellAt(q)]
    BY <2>3, <2>4 DEF Forward
  <2>6. CASE k = n + 1
    <3>1. q = p
      BY <2>1, <2>6
    <3> QED
      BY <1>1, <1>5, <2>2, <2>5, <2>6, <3>1
  <2>7. CASE k \in 1 .. n
    <3>1. q # p
      BY <2>1, <2>7
    <3>2. CellAt(q) # Cursor(s)
      BY <1>1, <3>1, PlacesDiffer
    <3>3. s.cell[CellAt(q)] = line[k]
      BY <1>1, <1>3, <2>1, <2>7 DEF Shows
    <3> QED
      BY <1>5, <2>2, <2>5, <2>7, <3>2, <3>3
  <2> QED
    BY <2>6, <2>7
<1>8. Shows(t, longer)
  <2>1. Len(longer) <= Place(t)
    BY <1>2, <1>5, <1>6
  <2>2. ASSUME NEW k \in DOMAIN longer
        PROVE  t.cell[CellAt(Place(t) - (Len(longer) + 1 - k))] = longer[k]
    BY <1>2, <1>5, <1>7
  <2> QED
    BY <2>1, <2>2 DEF Shows
<1> QED
  BY <1>4, <1>8

\* A character taken back leaves the others.
LEMMA ShowsBack ==
    ASSUME NEW s, OnScreen(s), NEW t, NEW line \in Line, line # <<>>, Shows(s, line),
           Back(s, t)
    PROVE  Shows(t, Front(line))
<1>1. PICK p \in Nat : p = Place(t) /\ CellAt(p) = Cursor(t)
  BY PlaceOfCursor DEF Back
<1>2. Place(s) = p + 1 /\ CellAt(p + 1) = Cursor(s)
  BY <1>1, PlaceOfCursor DEF Back
<1>3. PICK n \in Nat : n + 1 = Len(line) /\ DOMAIN line = 1 .. n + 1
  <2>1. Len(line) \in Nat /\ Len(line) # 0 /\ DOMAIN line = 1 .. Len(line)
    BY DEF Line
  <2>2. Len(line) - 1 \in Nat /\ (Len(line) - 1) + 1 = Len(line)
    BY <2>1
  <2> QED
    BY <2>1, <2>2
<1>4. PICK shorter \in Line : shorter = Front(line)
  <2>1. \A i \in 1 .. n : line[i] \in Key
    BY <1>3 DEF Line
  <2>2. Front(line) = SubSeq(line, 1, n)
    BY <1>3 DEF Front
  <2>3. SubSeq(line, 1, n) \in Seq(Key)
    BY <2>1, SubSeqProperties
  <2> QED
    BY <2>2, <2>3 DEF Line
<1>5. /\ Len(shorter) = n /\ DOMAIN shorter = 1 .. n
      /\ \A k \in 1 .. n : shorter[k] = line[k]
  BY <1>3, <1>4 DEF Line, Front
<1>6. n <= p
  BY <1>2, <1>3 DEF Shows
<1>7. ASSUME NEW k \in 1 .. n
      PROVE  t.cell[CellAt(p - (n + 1 - k))] = shorter[k]
  <2>1. PICK q \in Nat : q = p - (n + 1 - k) /\ q < p
    BY <1>6
  <2>2. (p + 1) - ((n + 1) + 1 - k) = q
    BY <2>1
  <2>3. CellAt(q) \in Cell
    BY <1>1, <2>1, PlaceOnScreen DEF Back
  <2>4. CellAt(q) # Cursor(t)
    BY <1>1, <2>1, PlacesDiffer
  <2>5. CellAt(q) # Cursor(s)
    <3>1. p + 1 \in Nat /\ q # p + 1
      BY <2>1
    <3> QED
      BY <1>2, <3>1, PlacesDiffer
  <2>6. t.cell[CellAt(q)] = s.cell[CellAt(q)]
    BY <2>3, <2>4, <2>5 DEF Back
  <2>7. s.cell[CellAt(q)] = line[k]
    <3>1. k \in DOMAIN line
      BY <1>3
    <3>2. s.cell[CellAt(Place(s) - (Len(line) + 1 - k))] = line[k]
      BY <3>1 DEF Shows
    <3> QED
      BY <1>2, <1>3, <2>2, <3>2
  <2> QED
    BY <1>5, <2>1, <2>6, <2>7
<1>8. Shows(t, shorter)
  BY <1>1, <1>5, <1>6, <1>7 DEF Shows
<1> QED
  BY <1>4, <1>8

\* An empty line is shown anywhere.
LEMMA ShowsNothing ==
    ASSUME NEW s, OnScreen(s)
    PROVE  Shows(s, <<>>)
BY PlaceOfCursor DEF Shows

\* The cursor drawn or not, before it nothing changes.
LEMMA ShowsWritten ==
    ASSUME NEW s, OnScreen(s), NEW line \in Line, Shows(s, line), NEW ch
    PROVE  Shows(Written(s, ch), line)
<1>1. PICK p \in Nat : p = Place(s) /\ CellAt(p) = Cursor(s)
  BY PlaceOfCursor
<1>2. PICK n \in Nat : n = Len(line) /\ DOMAIN line = 1 .. n
  BY DEF Line
<1>3. n <= p
  BY <1>1, <1>2 DEF Shows
<1>4. PICK t : t = Written(s, ch) /\ Place(t) = p
  BY <1>1, WrittenOnScreen
<1>5. ASSUME NEW k \in 1 .. n PROVE t.cell[CellAt(p - (n + 1 - k))] = line[k]
  <2>1. PICK q \in Nat : q = p - (n + 1 - k) /\ q < p
    BY <1>3
  <2>2. CellAt(q) \in Cell
    BY <1>1, <2>1, PlaceOnScreen
  <2>3. CellAt(q) # Cursor(s)
    BY <1>1, <2>1, PlacesDiffer
  <2>4. t.cell[CellAt(q)] = s.cell[CellAt(q)]
    BY <1>4, <2>2, <2>3, WrittenOnScreen
  <2>5. s.cell[CellAt(q)] = line[k]
    BY <1>1, <1>2, <2>1 DEF Shows
  <2> QED
    BY <2>1, <2>4, <2>5
<1>6. Shows(t, line)
  BY <1>2, <1>3, <1>4, <1>5 DEF Shows
<1> QED
  BY <1>4, <1>6

\* A key is echoed.
LEMMA EchoOnScreen ==
    ASSUME EchoInv, ~Unprotected, NEW ch, ch = Backspace /\ FirstCell => Unprotected, Echo(ch)
    PROVE  screen' = Put(screen, ch) /\ OnScreen(screen')
<1>1. screen' = Put(screen, ch)
  BY DEF Echo
<1>2. OnScreen(screen) /\ (ch = Backspace => Cursor(screen) # <<0, 0>>)
  BY DEF EchoInv, FirstCell, Cursor
<1> QED
  BY <1>1, <1>2, PutOnScreen

LEMMA TypeEcho ==
    ASSUME EchoInv, ~Unprotected, NEW ch \in Key, Type(ch)
    PROVE  EchoInv'
<1>1. screen' = Put(screen, ch) /\ OnScreen(screen')
  BY EchoOnScreen DEF Type
<1>2. PICK line \in Line : line = Strip(str_buffer)
  BY StripType DEF EchoInv
<1>3. str_buffer' = Append(str_buffer, ch) /\ phase = "reading"
      /\ wiped' = (wiped \/ Wipes(screen, ch))
  BY DEF Type, Echo
<1>4. str_buffer' \in Line
  BY <1>3, AppendProperties, Zenon DEF EchoInv, Line
<1>5. Strip(str_buffer') = Edited(line, ch)
  BY <1>2, <1>3, StripAppend DEF EchoInv
<1>6. ASSUME ~wiped' PROVE Shows(screen', Edited(line, ch))
  <2>1. ~wiped /\ ~Wipes(screen, ch)
    BY <1>3, <1>6
  <2>2. OnScreen(screen) /\ Shows(screen, line)
    BY <1>2, <1>3, <2>1, ShowsIs
  <2>3. CASE ch # Backspace
    <3>1. ch \notin {Newline, FormFeed, Backspace}
      BY <2>1, <2>3, ShellAssumption DEF Wipes
    <3>2. Forward(screen, screen', ch)
      BY <1>1, <2>1, <2>2, <3>1, PutForward
    <3>3. Shows(screen', Append(line, ch))
      BY <2>2, <3>2, ShowsForward
    <3> QED
      BY <2>3, <3>3 DEF Edited
  <2>4. CASE ch = Backspace
    <3>1. Cursor(screen) # <<0, 0>>
      BY <2>4 DEF Type, FirstCell, Cursor
    <3>2. Back(screen, screen')
      BY <1>1, <2>2, <2>4, <3>1, PutBack
    <3>3. CASE line = <<>>
      <4>1. Shows(screen', <<>>)
        BY <1>1, ShowsNothing
      <4> QED
        BY <2>4, <3>3, <4>1 DEF Edited
    <3>4. CASE line # <<>>
      <4>1. Shows(screen', Front(line))
        BY <2>2, <3>2, <3>4, ShowsBack
      <4> QED
        BY <2>4, <3>4, <4>1 DEF Edited
    <3> QED
      BY <3>3, <3>4
  <2> QED
    BY <2>3, <2>4
<1>7. EchoInv' <=> /\ OnScreen(screen') /\ str_buffer' \in Line
                   /\ phase' = "reading" /\ ~wiped' => Shows(screen', Strip(str_buffer'))
  BY ShowsWill
<1> QED
  BY <1>1, <1>4, <1>5, <1>6, <1>7

\* A step that leaves the console on the screen and reads no line.
LEMMA QuietEcho ==
    ASSUME OnScreen(screen'), str_buffer' \in Line,
           phase' # "reading" \/ str_buffer' = <<>>
    PROVE  EchoInv'
<1>1. EchoInv' <=> /\ OnScreen(screen') /\ str_buffer' \in Line
                   /\ phase' = "reading" /\ ~wiped' => Shows(screen', Strip(str_buffer'))
  BY ShowsWill
<1>2. Strip(<<>>) = <<>> /\ Shows(screen', <<>>)
  BY StripEmpty, ShowsNothing
<1> QED
  BY <1>1, <1>2

LEMMA PrintsEcho ==
    ASSUME EchoInv, PrintsForward, NEW string \in Output \cup {Prompt}, Prints(string)
    PROVE  OnScreen(screen')
<1>1. string \in Seq(ToSet(string))
  BY ShellAssumption
<1>2. Len(string) \in Nat /\ DOMAIN string = 1 .. Len(string)
  BY <1>1
<1>3. \A i \in 1 .. Len(string) : string[i] # Backspace
  BY <1>2 DEF PrintsForward, ToSet
<1> QED
  BY <1>2, <1>3, PutsOnScreen DEF EchoInv, Prints

LEMMA HeartbeatEcho ==
    ASSUME EchoInv, Heartbeat
    PROVE  EchoInv'
<1>1. PICK ch : screen' = Written(screen, ch)
  BY DEF Heartbeat
<1>2. UNCHANGED <<wiped, phase, str_buffer>>
  BY DEF Heartbeat
<1>3. OnScreen(screen')
  BY <1>1, WrittenOnScreen DEF EchoInv
<1>4. ASSUME phase = "reading", ~wiped PROVE Shows(screen', Strip(str_buffer))
  BY <1>1, <1>4, ShowsIs, StripType, ShowsWritten
<1>5. EchoInv' <=> /\ OnScreen(screen') /\ str_buffer' \in Line
                   /\ phase' = "reading" /\ ~wiped' => Shows(screen', Strip(str_buffer'))
  BY ShowsWill
<1> QED
  BY <1>2, <1>3, <1>4, <1>5 DEF EchoInv

LEMMA InitEcho == ShellInit => EchoInv
<1> SUFFICES ASSUME ShellInit PROVE EchoInv
  OBVIOUS
<1>1. PICK string : string = <<Newline>>
  OBVIOUS
<1>2. Newline # Backspace
  BY DEF Newline, Backspace
<1>3. Len(string) = 1 /\ string[1] = Newline
  BY ONLY <1>1
<1>4. OnScreen(Puts(Blank, string))
  BY <1>2, <1>3, BlankOnScreen, PutsOnScreen
<1> QED
  BY <1>1, <1>4, ShowsIs DEF ShellInit, Line

LEMMA NextEcho ==
    ASSUME EchoInv, ~Unprotected, PrintsForward, [ShellNext]_shellVars
    PROVE  EchoInv'
<1>1. CASE ShowPrompt
  <2>1. OnScreen(screen') /\ str_buffer' = <<>>
    BY <1>1, PrintsEcho DEF ShowPrompt
  <2> QED
    BY <2>1, QuietEcho DEF Line
<1>2. ASSUME NEW ch \in Key, Type(ch) PROVE EchoInv'
  BY <1>2, TypeEcho
<1>3. ASSUME NEW ch \in Key \cup {Newline}, EndLine(ch) PROVE EchoInv'
  <2>1. OnScreen(screen')
    BY <1>3, EchoOnScreen DEF EndLine
  <2>2. str_buffer' \in Line /\ phase' # "reading"
    BY <1>3 DEF EndLine, EchoInv
  <2> QED
    BY <2>1, <2>2, QuietEcho
<1>4. ASSUME NEW string \in Output, Command(string) PROVE EchoInv'
  <2>1. OnScreen(screen')
    BY <1>4, PrintsEcho DEF Command
  <2>2. str_buffer' = <<>>
    BY <1>4 DEF Command, Return
  <2> QED
    BY <2>1, <2>2, QuietEcho DEF Line
<1>5. ASSUME NEW string \in Output, List(string) PROVE EchoInv'
  <2>1. OnScreen(screen')
    BY <1>5, PrintsEcho DEF List
  <2>2. CASE Return
    BY <2>1, <2>2, QuietEcho DEF Return, Line
  <2>3. CASE UNCHANGED <<phase, str_buffer, words>>
    BY <1>5, <2>1, <2>3, QuietEcho DEF List, EchoInv
  <2> QED
    BY <1>5, <2>2, <2>3 DEF List
<1>6. ASSUME NEW command \in {"cd", "ls", "cat"}, NEW path, Resolve(command, path)
      PROVE  EchoInv'
  BY <1>6, QuietEcho DEF Resolve, console, EchoInv
<1>7. CASE Part
  BY <1>7, QuietEcho DEF Part, InPath, console, EchoInv
<1>8. CASE ChangeDirectory
  BY <1>8, QuietEcho DEF ChangeDirectory, Return, console, EchoInv, Line
<1>9. CASE Heartbeat
  BY <1>9, HeartbeatEcho
<1>10. CASE UNCHANGED shellVars
  BY <1>10 DEF shellVars, console, EchoInv, EchoTrue, Before
<1> QED
  BY <1>1, <1>2, <1>3, <1>4, <1>5, <1>6, <1>7, <1>8, <1>9, <1>10 DEF ShellNext

\* The line on the screen is the line the shell will take (keyboard_read_str, console_putchar,
\* strip_backspace): over the ends of lines and after backspaces, on a console of any size,
\* if what is printed has no backspaces and none is typed in the first cell.
THEOREM ShellEchoTrue ==
    ASSUME ~Unprotected, PrintsForward
    PROVE  ShellSpec => []EchoTrue
<1>1. EchoInv /\ [ShellNext]_shellVars => EchoInv'
  BY NextEcho
<1>2. EchoInv => EchoTrue
  BY DEF EchoInv
<1> QED
  BY <1>1, <1>2, InitEcho, PTL DEF ShellSpec
=============================================================================
