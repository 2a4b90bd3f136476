---------------------------- MODULE KernelProofs ----------------------------
(***************************************************************************)
(* Proofs about Kernel for every set of processes, every preemption period *)
(* and every bound, in three parts.                                        *)
(*                                                                         *)
(* 1. What does not rest on the linked lists being intact, interrupts in   *)
(*    the unprotected windows included.                                    *)
(*                                                                         *)
(* 2. list.c: what the list operators make of lists that are intact, and   *)
(*    what Nth reads off them.                                             *)
(*                                                                         *)
(* 3. The lists: no process is lost, no wake-up of the mutex is lost, the  *)
(*    idle loop hears the clock, and the lists implement the queues of     *)
(*    RoundRobin. Unprotected = FALSE is a hypothesis of these theorems,   *)
(*    as it is of the run: an interrupt inside a window does corrupt the   *)
(*    lists, which the run with Unprotected = TRUE shows.                  *)
(*                                                                         *)
(* The invariant of part 3 says that there are four sequences Q of         *)
(* distinct processes, one for each list, such that                        *)
(*   - the pointers link Q, or Q and the statements already executed of    *)
(*     the one push in progress (Holding);                                 *)
(*   - every process is on the list its own state calls for, its home, and *)
(*     on no other (Placed);                                               *)
(*   - a process between its push and process_switch is the last of its    *)
(*     list (BlockLast).                                                   *)
(* Each action is shown to take such a Q to the Q that RoundRobin would:   *)
(* Pushed, Dispatched or Woken.                                            *)
(***************************************************************************)
EXTENDS KernelRoundRobin, SequenceTheorems, FiniteSetTheorems, TLAPS

\* The child pushed on ready_list has been created.
PushHasNode ==
    \A p \in Node : pc[p] = "enq" /\ target[p] = "ready" => child[p] \in Node

\* clicks is reset before the handler that reaches the limit returns.
ClicksBelow == ~irq => clicks < CLICKS_PER_SECOND

\* Whoever is in the critical section has locked the mutex itself.
CriticalHolds == \A p \in Node : pc[p] = "crit" => holds[p]

\* The inductive invariant: the types and what does not rest on the lists.
IInv == /\ TypeOK
        /\ PushHasNode
        /\ ClicksBelow
        /\ CriticalHolds
        /\ MutualExclusion
        /\ EndOfInterruptOwed
-----------------------------------------------------------------------------
\* The bounds of the counters.
LEMMA Bounds ==
    /\ 0 \in 0 .. MaxSleep
    /\ 0 \in 0 .. PushSteps - 1
    /\ 0 \in 0 .. CLICKS_PER_SECOND
    /\ \A n \in 0 .. MaxSleep : n > 0 => n - 1 \in 0 .. MaxSleep
BY KernelAssumption DEF PushSteps

(***************************************************************************)
(* The list operators keep links well typed.                               *)
(***************************************************************************)

\* Each statement of list_push_tail assigns pointers to nodes or lists.
LEMMA PushStepType ==
    ASSUME NEW s \in Links, NEW l \in List, NEW n \in Node,
           NEW k \in 0 .. PushSteps - 1
    PROVE  PushStep(s, l, n, k) \in Links
<1>1. ClearNext(s, n) \in Links
  BY DEF ClearNext, Links, Ptr
<1>2. LinkTail(s, l, n) \in Links
  BY DEF LinkTail, Links, Ptr
<1>3. SetTail(s, l, n) \in Links
  BY DEF SetTail, Links, Ptr
<1>4. SetHead(s, l, n) \in Links
  BY DEF SetHead, Links, Ptr
<1>5. k \in {0, 1, 2, 3}
  BY DEF PushSteps
<1> QED
  BY <1>1, <1>2, <1>3, <1>4, <1>5 DEF PushStep

\* list_push_tail as a whole.
LEMMA PushTailType ==
    ASSUME NEW s \in Links, NEW l \in List, NEW n \in Node
    PROVE  PushTail(s, l, n) \in Links
<1> DEFINE s1 == ClearNext(s, n)
           s2 == LinkTail(s1, l, n)
           s3 == SetTail(s2, l, n)
<1>1. s1 \in Links
  BY DEF ClearNext, Links, Ptr
<1>2. s2 \in Links
  BY <1>1 DEF LinkTail, Links, Ptr
<1>3. s3 \in Links
  BY <1>2 DEF SetTail, Links, Ptr
<1>4. SetHead(s3, l, n) \in Links
  BY <1>3 DEF SetHead, Links, Ptr
<1> QED
  BY <1>4 DEF PushTail

\* list_pop_head of a list with a first node.
LEMMA PopHeadType ==
    ASSUME NEW s \in Links, NEW l \in List, s.head[l] # Nil
    PROVE  /\ PopHead(s, l) \in Links
           /\ s.head[l] \in Node
<1>1. s.head[l] \in Node
  BY DEF Links, Ptr
<1>2. s.next[s.head[l]] \in Ptr
  BY <1>1 DEF Links
<1> QED
  BY <1>1, <1>2 DEF PopHead, Links, Ptr
-----------------------------------------------------------------------------
(***************************************************************************)
(* The parts of a step that several actions share.                         *)
(***************************************************************************)

\* What process_switch assigns.
SchedType == /\ current \in Ptr
             /\ halted \in BOOLEAN
             /\ state \in [Node -> PState]
             /\ lists \in Links

\* Whoever process_switch chooses, the scheduler's variables stay well typed.
LEMMA DispatchType ==
    ASSUME NEW s \in Links, NEW st \in [Node -> PState], Dispatch(s, st)
    PROVE  SchedType'
<1>0. "ready" \in List
  BY KernelAssumption
<1>1. CASE s.head["ready"] = Nil
  BY <1>1 DEF Dispatch, SchedType, Ptr
<1>2. CASE s.head["ready"] # Nil
  <2>1. PopHead(s, "ready") \in Links /\ s.head["ready"] \in Node
    BY <1>0, <1>2, PopHeadType
  <2> QED
    BY <1>2, <2>1 DEF Dispatch, SchedType, Ptr, PState
<1> QED
  BY <1>1, <1>2

\* process_switch by any process into any state.
LEMMA SwitchType ==
    ASSUME NEW p \in Node, NEW ns \in PState, NEW s \in Links,
           SchedType, Switch(p, ns, s)
    PROVE  SchedType'
<1> DEFINE s1 == IF ns = "READY" THEN PushTail(s, "ready", p) ELSE s
           st == [state EXCEPT ![p] = ns]
<1>1. s1 \in Links
  BY KernelAssumption, PushTailType
<1>2. st \in [Node -> PState]
  BY DEF SchedType
<1>3. Dispatch(s1, st)
  BY DEF Switch
<1> HIDE DEF s1, st
<1> QED
  BY <1>1, <1>2, <1>3, DispatchType

\* process_wait with interrupts disabled.
LEMMA WaitBlockedType ==
    ASSUME NEW p \in Node, NEW q \in List, SchedType, WaitBlocked(p, q)
    PROVE  SchedType'
<1>1. PushTail(lists, q, p) \in Links
  BY PushTailType DEF SchedType
<1> QED
  BY <1>1, SwitchType DEF WaitBlocked, PState

\* process_wakeup.
LEMMA WokenType ==
    ASSUME NEW q \in List, SchedType
    PROVE  WokenLists(q) \in Links /\ WokenState(q) \in [Node -> PState]
<1>1. CASE lists.head[q] = Nil
  BY <1>1 DEF WokenLists, WokenState, SchedType
<1>2. CASE lists.head[q] # Nil
  <2>1. PopHead(lists, q) \in Links /\ lists.head[q] \in Node
    BY <1>2, PopHeadType DEF SchedType
  <2>2. PushTail(PopHead(lists, q), "ready", lists.head[q]) \in Links
    BY <2>1, KernelAssumption, PushTailType
  <2> QED
    BY <1>2, <2>1, <2>2 DEF WokenLists, WokenState, SchedType, PState
<1> QED
  BY <1>1, <1>2

\* The return from a handler.
LEMMA ResumeType ==
    ASSUME NEW s \in Links, NEW st \in [Node -> PState],
           SchedType, Resume(s, st)
    PROVE  SchedType'
<1>1. CASE current = Nil /\ halted
  BY <1>1, DispatchType DEF Resume
<1>2. CASE ~(current = Nil /\ halted)
  BY <1>2 DEF Resume, SchedType
<1> QED
  BY <1>1, <1>2
-----------------------------------------------------------------------------
(***************************************************************************)
(* The invariant is inductive: one lemma for the initial states, then one  *)
(* step per action.                                                        *)
(***************************************************************************)

\* The boot code's process runs, and nothing is locked, queued or in service.
LEMMA InitIInv == Init => IInv
<1> SUFFICES ASSUME Init PROVE IInv
  OBVIOUS
<1>1. TypeOK
  <2>1. lists \in Links /\ current \in Ptr
    BY KernelAssumption DEF Init, Empty, Links, Ptr
  <2>2. "ready" \in List
    BY KernelAssumption
  <2> QED
    BY <2>1, <2>2, Bounds DEF Init, TypeOK, Ptr, PState
<1>2. PushHasNode /\ ClicksBelow /\ CriticalHolds
  BY KernelAssumption DEF Init, PushHasNode, ClicksBelow, CriticalHolds
<1>3. MutualExclusion /\ EndOfInterruptOwed
  BY DEF Init, MutualExclusion, EndOfInterruptOwed
<1> QED
  BY <1>1, <1>2, <1>3 DEF IInv

\* Every action, and every step that changes nothing, keeps the invariant.
LEMMA NextIInv == IInv /\ [Next]_vars => IInv'
<1> SUFFICES ASSUME IInv, [Next]_vars PROVE IInv'
  OBVIOUS
<1> USE KernelAssumption DEF At, Goto, procVars, clockVars
<1>0. SchedType
  BY DEF IInv, TypeOK, SchedType
<1>1. ASSUME NEW p \in Node, SysYield(p) PROVE IInv'
  <2>1. SchedType'
    BY <1>0, <1>1, SwitchType DEF SysYield, PState, IInv, TypeOK
  <2>2. TypeOK'
    BY <1>1, <2>1 DEF IInv, TypeOK, SchedType, SysYield
  <2>3. (PushHasNode /\ ClicksBelow /\ CriticalHolds)'
    BY <1>1 DEF IInv, TypeOK, PushHasNode, ClicksBelow, CriticalHolds, SysYield
  <2>4. (MutualExclusion /\ EndOfInterruptOwed)'
    BY <1>1
    DEF IInv, TypeOK, CriticalHolds, MutualExclusion, EndOfInterruptOwed,
        SysYield
  <2> QED
    BY <2>2, <2>3, <2>4 DEF IInv
<1>2. ASSUME NEW p \in Node, NEW n \in 0 .. MaxSleep, SysSleep(p, n)
     PROVE IInv'
  <2>1. SchedType'
    BY <1>0, <1>2, WaitBlockedType DEF SysSleep
  <2>2. TypeOK'
    BY <1>2, <2>1 DEF IInv, TypeOK, SchedType, SysSleep
  <2>3. (PushHasNode /\ ClicksBelow /\ CriticalHolds)'
    BY <1>2 DEF IInv, TypeOK, PushHasNode, ClicksBelow, CriticalHolds, SysSleep
  <2>4. (MutualExclusion /\ EndOfInterruptOwed)'
    BY <1>2
    DEF IInv, TypeOK, CriticalHolds, MutualExclusion, EndOfInterruptOwed,
        SysSleep
  <2> QED
    BY <2>2, <2>3, <2>4 DEF IInv
<1>3. ASSUME NEW p \in Node, NEW j \in {"read", "run"}, SysFile(p, j)
     PROVE IInv'
  <2>1. SchedType'
    BY <1>0, <1>3 DEF SysFile, SchedType, Stay
  <2>2. TypeOK'
    BY <1>3, <2>1 DEF IInv, TypeOK, SchedType, SysFile
  <2>3. (PushHasNode /\ ClicksBelow /\ CriticalHolds)'
    BY <1>3 DEF IInv, TypeOK, PushHasNode, ClicksBelow, CriticalHolds, SysFile
  <2>4. (MutualExclusion /\ EndOfInterruptOwed)'
    BY <1>3
    DEF IInv, TypeOK, CriticalHolds, MutualExclusion, EndOfInterruptOwed,
        SysFile
  <2> QED
    BY <2>2, <2>3, <2>4 DEF IInv
<1>4. ASSUME NEW p \in Node, SysExit(p) PROVE IInv'
  <2>1. SchedType'
    BY <1>0, <1>4, SwitchType DEF SysExit, PState, IInv, TypeOK
  <2>2. TypeOK'
    BY <1>4, <2>1 DEF IInv, TypeOK, SchedType, SysExit
  <2>3. (PushHasNode /\ ClicksBelow /\ CriticalHolds)'
    BY <1>4 DEF IInv, TypeOK, PushHasNode, ClicksBelow, CriticalHolds, SysExit
  <2>4. (MutualExclusion /\ EndOfInterruptOwed)'
    BY <1>4
    DEF IInv, TypeOK, CriticalHolds, MutualExclusion, EndOfInterruptOwed,
        SysExit
  <2> QED
    BY <2>2, <2>3, <2>4 DEF IInv
<1>5. ASSUME NEW p \in Node, KeyboardRead(p) PROVE IInv'
  <2>1. SchedType'
    BY <1>0, <1>5 DEF KeyboardRead, SchedType, Stay
  <2>2. TypeOK'
    BY <1>5, <2>1 DEF IInv, TypeOK, SchedType, KeyboardRead
  <2>3. (PushHasNode /\ ClicksBelow /\ CriticalHolds)'
    BY <1>5
    DEF IInv, TypeOK, PushHasNode, ClicksBelow, CriticalHolds, KeyboardRead
  <2>4. (MutualExclusion /\ EndOfInterruptOwed)'
    BY <1>5
    DEF IInv, TypeOK, CriticalHolds, MutualExclusion, EndOfInterruptOwed,
        KeyboardRead
  <2> QED
    BY <2>2, <2>3, <2>4 DEF IInv
<1>6. ASSUME NEW p \in Node, ClockWaitLoop(p) PROVE IInv'
  <2>1. SchedType'
    BY <1>0, <1>6 DEF ClockWaitLoop, SchedType, Stay
  <2>2. TypeOK'
    BY <1>6, <2>1 DEF IInv, TypeOK, SchedType, ClockWaitLoop, MustWaitMore
  <2>3. (PushHasNode /\ ClicksBelow /\ CriticalHolds)'
    BY <1>6
    DEF IInv, TypeOK, PushHasNode, ClicksBelow, CriticalHolds, ClockWaitLoop,
        MustWaitMore
  <2>4. (MutualExclusion /\ EndOfInterruptOwed)'
    BY <1>6
    DEF IInv, TypeOK, CriticalHolds, MutualExclusion, EndOfInterruptOwed,
        ClockWaitLoop, MustWaitMore
  <2> QED
    BY <2>2, <2>3, <2>4 DEF IInv
<1>7. ASSUME NEW p \in Node, Enqueue(p) PROVE IInv'
  <2>1. SchedType'
    <3>1. Pushee(p) \in Node /\ target[p] \in List
      BY <1>7 DEF Enqueue, Pushee, IInv, TypeOK, PushHasNode
    <3>2. PushStep(lists, target[p], Pushee(p), pushed[p]) \in Links
      BY <1>0, <3>1, PushStepType DEF SchedType, IInv, TypeOK
    <3> QED
      BY <1>0, <1>7, <3>2 DEF Enqueue, SchedType, Stay
  <2>2. TypeOK'
    BY <1>7, <2>1 DEF IInv, TypeOK, SchedType, Enqueue, PushSteps
  <2>3. (PushHasNode /\ ClicksBelow /\ CriticalHolds)'
    BY <1>7
    DEF IInv, TypeOK, PushHasNode, ClicksBelow, CriticalHolds, Enqueue,
        PushSteps
  <2>4. (MutualExclusion /\ EndOfInterruptOwed)'
    BY <1>7
    DEF IInv, TypeOK, CriticalHolds, MutualExclusion, EndOfInterruptOwed,
        Enqueue, PushSteps
  <2> QED
    BY <2>2, <2>3, <2>4 DEF IInv
<1>8. ASSUME NEW p \in Node, Block(p) PROVE IInv'
  <2>1. SchedType'
    BY <1>0, <1>8, SwitchType DEF Block, PState, IInv, TypeOK
  <2>2. TypeOK'
    BY <1>8, <2>1 DEF IInv, TypeOK, SchedType, Block
  <2>3. (PushHasNode /\ ClicksBelow /\ CriticalHolds)'
    BY <1>8 DEF IInv, TypeOK, PushHasNode, ClicksBelow, CriticalHolds, Block
  <2>4. (MutualExclusion /\ EndOfInterruptOwed)'
    BY <1>8
    DEF IInv, TypeOK, CriticalHolds, MutualExclusion, EndOfInterruptOwed,
        Block
  <2> QED
    BY <2>2, <2>3, <2>4 DEF IInv
<1>9. ASSUME NEW p \in Node, MutexLock(p) PROVE IInv'
  <2>1. SchedType'
    <3>1. CASE locked
      BY <1>0, <1>9, <3>1, WaitBlockedType DEF MutexLock
    <3>2. CASE ~locked
      BY <1>0, <1>9, <3>2 DEF MutexLock, Stay, SchedType
    <3> QED
      BY <3>1, <3>2
  <2>2. TypeOK'
    BY <1>9, <2>1 DEF IInv, TypeOK, SchedType, MutexLock
  <2>3. (PushHasNode /\ ClicksBelow /\ CriticalHolds)'
    BY <1>9
    DEF IInv, TypeOK, PushHasNode, ClicksBelow, CriticalHolds, MutexLock
  <2>4. (MutualExclusion /\ EndOfInterruptOwed)'
    BY <1>9
    DEF IInv, TypeOK, CriticalHolds, MutualExclusion, EndOfInterruptOwed,
        MutexLock
  <2> QED
    BY <2>2, <2>3, <2>4 DEF IInv
<1>10. ASSUME NEW p \in Node, AtaWait(p) PROVE IInv'
  <2>1. SchedType'
    BY <1>0, <1>10 DEF AtaWait, SchedType, Stay
  <2>2. TypeOK'
    BY <1>10, <2>1, Bounds DEF IInv, TypeOK, SchedType, AtaWait
  <2>3. (PushHasNode /\ ClicksBelow /\ CriticalHolds)'
    BY <1>10 DEF IInv, TypeOK, PushHasNode, ClicksBelow, CriticalHolds, AtaWait
  <2>4. (MutualExclusion /\ EndOfInterruptOwed)'
    BY <1>10
    DEF IInv, TypeOK, CriticalHolds, MutualExclusion, EndOfInterruptOwed,
        AtaWait
  <2> QED
    BY <2>2, <2>3, <2>4 DEF IInv
<1>11. ASSUME NEW p \in Node, MutexUnlock(p) PROVE IInv'
  <2>1. SchedType'
    BY <1>0, <1>11, WokenType DEF MutexUnlock, SchedType
  <2>2. TypeOK'
    BY <1>11, <2>1 DEF IInv, TypeOK, SchedType, MutexUnlock
  <2>3. (PushHasNode /\ ClicksBelow /\ CriticalHolds)'
    BY <1>11
    DEF IInv, TypeOK, PushHasNode, ClicksBelow, CriticalHolds, MutexUnlock
  <2>4. (MutualExclusion /\ EndOfInterruptOwed)'
    BY <1>11
    DEF IInv, TypeOK, CriticalHolds, MutualExclusion, EndOfInterruptOwed,
        MutexUnlock
  <2> QED
    BY <2>2, <2>3, <2>4 DEF IInv
<1>12. ASSUME NEW p \in Node, NEW c \in Node, Spawn(p, c) PROVE IInv'
  <2>1. SchedType'
    BY <1>0, <1>12 DEF Spawn, SchedType, Stay
  <2>2. TypeOK'
    BY <1>12, <2>1 DEF IInv, TypeOK, SchedType, Spawn, Ptr
  <2>3. (PushHasNode /\ ClicksBelow /\ CriticalHolds)'
    BY <1>12
    DEF IInv, TypeOK, PushHasNode, ClicksBelow, CriticalHolds, Spawn, Ptr
  <2>4. (MutualExclusion /\ EndOfInterruptOwed)'
    BY <1>12
    DEF IInv, TypeOK, CriticalHolds, MutualExclusion, EndOfInterruptOwed,
        Spawn, Ptr
  <2> QED
    BY <2>2, <2>3, <2>4 DEF IInv
<1>13. ASSUME NEW p \in Node, SpawnFails(p) PROVE IInv'
  <2>1. SchedType'
    BY <1>0, <1>13 DEF SpawnFails, SchedType, Stay
  <2>2. TypeOK'
    BY <1>13, <2>1 DEF IInv, TypeOK, SchedType, SpawnFails
  <2>3. (PushHasNode /\ ClicksBelow /\ CriticalHolds)'
    BY <1>13
    DEF IInv, TypeOK, PushHasNode, ClicksBelow, CriticalHolds, SpawnFails
  <2>4. (MutualExclusion /\ EndOfInterruptOwed)'
    BY <1>13
    DEF IInv, TypeOK, CriticalHolds, MutualExclusion, EndOfInterruptOwed,
        SpawnFails
  <2> QED
    BY <2>2, <2>3, <2>4 DEF IInv
<1>14. ASSUME NEW p \in Node, RunYield(p) PROVE IInv'
  <2>1. SchedType'
    BY <1>0, <1>14, SwitchType DEF RunYield, PState, IInv, TypeOK
  <2>2. TypeOK'
    BY <1>14, <2>1 DEF IInv, TypeOK, SchedType, RunYield, Ptr
  <2>3. (PushHasNode /\ ClicksBelow /\ CriticalHolds)'
    BY <1>14
    DEF IInv, TypeOK, PushHasNode, ClicksBelow, CriticalHolds, RunYield, Ptr
  <2>4. (MutualExclusion /\ EndOfInterruptOwed)'
    BY <1>14
    DEF IInv, TypeOK, CriticalHolds, MutualExclusion, EndOfInterruptOwed,
        RunYield, Ptr
  <2> QED
    BY <2>2, <2>3, <2>4 DEF IInv
<1>15. ASSUME NEW p \in Node, InterruptReturn(p) PROVE IInv'
  <2>1. SchedType'
    BY <1>0, <1>15 DEF InterruptReturn, SchedType, Stay
  <2>2. TypeOK'
    BY <1>15, <2>1 DEF IInv, TypeOK, SchedType, InterruptReturn
  <2>3. (PushHasNode /\ ClicksBelow /\ CriticalHolds)'
    BY <1>15
    DEF IInv, TypeOK, PushHasNode, ClicksBelow, CriticalHolds, InterruptReturn
  <2>4. (MutualExclusion /\ EndOfInterruptOwed)'
    BY <1>15
    DEF IInv, TypeOK, CriticalHolds, MutualExclusion, EndOfInterruptOwed,
        InterruptReturn
  <2> QED
    BY <2>2, <2>3, <2>4 DEF IInv
<1>16. ASSUME ClockInterrupt PROVE IInv'
  <2>1. SchedType'
    BY <1>0, <1>16 DEF ClockInterrupt, SchedType, Stay
  <2>2. TypeOK'
    <3>1. left' \in [Node -> 0 .. MaxSleep]
      BY <1>16, Bounds DEF ClockInterrupt, IInv, TypeOK
    <3>2. clicks' \in 0 .. CLICKS_PER_SECOND
      BY <1>16 DEF ClockInterrupt, Deliverable, IInv, TypeOK, ClicksBelow
    <3> QED
      BY <1>16, <2>1, <3>1, <3>2 DEF IInv, TypeOK, SchedType, ClockInterrupt
  <2>3. (PushHasNode /\ ClicksBelow /\ CriticalHolds)'
    BY <1>16
    DEF IInv, TypeOK, PushHasNode, ClicksBelow, CriticalHolds, ClockInterrupt,
        Deliverable
  <2>4. (MutualExclusion /\ EndOfInterruptOwed)'
    BY <1>16
    DEF IInv, TypeOK, CriticalHolds, MutualExclusion, EndOfInterruptOwed,
        ClockInterrupt, Deliverable
  <2> QED
    BY <2>2, <2>3, <2>4 DEF IInv
<1>17. ASSUME KeyboardInterrupt PROVE IInv'
  <2>1. SchedType'
    BY <1>0, <1>17, WokenType, ResumeType DEF KeyboardInterrupt
  <2>2. TypeOK'
    BY <1>17, <2>1 DEF IInv, TypeOK, SchedType, KeyboardInterrupt, Deliverable
  <2>3. (PushHasNode /\ ClicksBelow /\ CriticalHolds)'
    BY <1>17
    DEF IInv, TypeOK, PushHasNode, ClicksBelow, CriticalHolds,
        KeyboardInterrupt, Deliverable
  <2>4. (MutualExclusion /\ EndOfInterruptOwed)'
    BY <1>17
    DEF IInv, TypeOK, CriticalHolds, MutualExclusion, EndOfInterruptOwed,
        KeyboardInterrupt, Deliverable
  <2> QED
    BY <2>2, <2>3, <2>4 DEF IInv
<1>18. ASSUME ClockWakeup PROVE IInv'
  <2>1. SchedType'
    BY <1>0, <1>18, WokenType DEF ClockWakeup, SchedType
  <2>2. TypeOK'
    BY <1>18, <2>1 DEF IInv, TypeOK, SchedType, ClockWakeup
  <2>3. (PushHasNode /\ ClicksBelow /\ CriticalHolds)'
    BY <1>18
    DEF IInv, TypeOK, PushHasNode, ClicksBelow, CriticalHolds, ClockWakeup
  <2>4. (MutualExclusion /\ EndOfInterruptOwed)'
    BY <1>18
    DEF IInv, TypeOK, CriticalHolds, MutualExclusion, EndOfInterruptOwed,
        ClockWakeup
  <2> QED
    BY <2>2, <2>3, <2>4 DEF IInv
<1>19. ASSUME ClockReturn PROVE IInv'
  <2>1. SchedType'
    <3>1. CASE PreemptDue
      BY <1>0, <1>19, <3>1, SwitchType
      DEF ClockReturn, PreemptDue, PState, SchedType, Ptr
    <3>2. CASE ~PreemptDue
      BY <1>0, <1>19, <3>2, ResumeType DEF ClockReturn, SchedType
    <3> QED
      BY <3>1, <3>2
  <2>2. TypeOK'
    <3>1. clicks' \in 0 .. CLICKS_PER_SECOND
      BY <1>19, Bounds DEF ClockReturn, ClicksAfter, IInv, TypeOK
    <3>2. owes' \in [Node -> BOOLEAN] /\ inService' \in BOOLEAN
      BY <1>19 DEF ClockReturn, PreemptDue, IInv, TypeOK, Ptr
    <3> QED
      BY <1>19, <2>1, <3>1, <3>2 DEF IInv, TypeOK, SchedType, ClockReturn
  <2>3. (PushHasNode /\ ClicksBelow /\ CriticalHolds)'
    BY <1>19
    DEF IInv, TypeOK, PushHasNode, ClicksBelow, CriticalHolds, ClockReturn,
        ClicksAfter, PreemptDue, Ptr
  <2>4. (MutualExclusion /\ EndOfInterruptOwed)'
    <3>1. MutualExclusion'
      BY <1>19 DEF IInv, MutualExclusion, ClockReturn
    <3>2. irq /\ inService /\ (\A q \in Node : ~owes[q]) /\ ~irq'
      BY <1>19 DEF IInv, EndOfInterruptOwed, ClockReturn
    <3>3. CASE PreemptDue
      <4>1. current \in Node
        BY <3>3 DEF PreemptDue, IInv, TypeOK, Ptr
      <4>2. owes' = [owes EXCEPT ![current] = TRUE] /\ inService'
        BY <1>19, <3>2, <3>3 DEF ClockReturn
      <4>3. \A q \in Node : owes'[q] <=> q = current
        BY <3>2, <4>1, <4>2 DEF IInv, TypeOK
      <4>4. EndOfInterruptOwed'
        BY <3>2, <4>1, <4>2, <4>3 DEF EndOfInterruptOwed
      <4> QED
        BY <3>1, <4>4
    <3>4. CASE ~PreemptDue
      <4>1. ~inService' /\ owes' = owes
        BY <1>19, <3>4 DEF ClockReturn
      <4> QED
        BY <3>1, <3>2, <4>1 DEF EndOfInterruptOwed
    <3> QED
      BY <3>3, <3>4
  <2> QED
    BY <2>2, <2>3, <2>4 DEF IInv
<1>20. ASSUME Halt PROVE IInv'
  <2>1. SchedType'
    BY <1>0, <1>20 DEF Halt, SchedType
  <2>2. TypeOK'
    BY <1>20, <2>1 DEF IInv, TypeOK, SchedType, Halt
  <2>3. (PushHasNode /\ ClicksBelow /\ CriticalHolds)'
    BY <1>20 DEF IInv, TypeOK, PushHasNode, ClicksBelow, CriticalHolds, Halt
  <2>4. (MutualExclusion /\ EndOfInterruptOwed)'
    BY <1>20
    DEF IInv, TypeOK, CriticalHolds, MutualExclusion, EndOfInterruptOwed, Halt
  <2> QED
    BY <2>2, <2>3, <2>4 DEF IInv
<1>21. CASE UNCHANGED vars
  BY <1>21
  DEF IInv, TypeOK, PushHasNode, ClicksBelow, CriticalHolds, MutualExclusion,
      EndOfInterruptOwed, vars
<1> QED
  BY <1>1, <1>2, <1>3, <1>4, <1>5, <1>6, <1>7, <1>8, <1>9, <1>10, <1>11, <1>12,
     <1>13, <1>14, <1>15, <1>16, <1>17, <1>18, <1>19, <1>20, <1>21
  DEF Next, KernelStep, SystemCall, Handler
-----------------------------------------------------------------------------
(***************************************************************************)
(* The theorems.                                                           *)
(***************************************************************************)

\* The inductive invariant holds in every reachable state.
THEOREM KernelInvariant == Spec => []IInv
<1> QED
  BY InitIInv, NextIInv, PTL DEF Spec

\* The variables of Kernel stay in their types.
THEOREM KernelTypeOK == Spec => []TypeOK
<1>1. IInv => TypeOK
  BY DEF IInv
<1> QED
  BY <1>1, KernelInvariant, PTL

\* Two processes are never both between mutex_lock and mutex_unlock of the
\* drive's mutex, even if interrupts corrupt the lists in the windows.
THEOREM KernelMutualExclusion == Spec => []MutualExclusion
<1>1. IInv => MutualExclusion
  BY DEF IInv
<1> QED
  BY <1>1, KernelInvariant, PTL

\* The acknowledgement of a clock interrupt that preempts is owed by exactly
\* one process until that process sends it.
THEOREM KernelEndOfInterrupt == Spec => []EndOfInterruptOwed
<1>1. IInv => EndOfInterruptOwed
  BY DEF IInv
<1> QED
  BY <1>1, KernelInvariant, PTL

-----------------------------------------------------------------------------
(***************************************************************************)
(* Part 2.                                                                 *)
(*                                                                         *)
(* The linked lists as queues: while the nodes pushed are on no list, the  *)
(* three fields of Links are four sequences of distinct nodes, and         *)
(* list_push_tail and list_pop_head are Append and Tail.  A push that an   *)
(* interrupt or a reader of the lists finds unfinished is one of four stages. *)
(***************************************************************************)

\* A sequence of nodes for every list.
Queues == [List -> Seq(Node)]

\* The nodes of list l of s, followed from its head, are those of q in order.
IsChain(s, l, q) ==
    /\ q = <<>> => s.head[l] = Nil
    /\ q # <<>> => s.head[l] = q[1] /\ s.next[q[Len(q)]] = Nil
    /\ \A i \in 1 .. Len(q) - 1 : s.next[q[i]] = q[i+1]

\* And its tail pointer is the last of them.
EndsAt(s, l, q) == s.tail[l] = IF q = <<>> THEN Nil ELSE q[Len(q)]

\* No node is linked twice.
Distinct(Q) ==
    \A l, m \in List : \A i \in 1 .. Len(Q[l]), j \in 1 .. Len(Q[m]) :
        Q[l][i] = Q[m][j] => l = m /\ i = j

\* n is on list l of Q; it is on none.
On(Q, l, n) == \E i \in 1 .. Len(Q[l]) : Q[l][i] = n

Free(Q, n) == \A l \in List : ~On(Q, l, n)

\* The linked lists s are the queues Q.
Are(s, Q) ==
    /\ s \in Links /\ Q \in Queues
    /\ Distinct(Q)
    /\ \A l \in List : IsChain(s, l, Q[l]) /\ EndsAt(s, l, Q[l])

\* The queues after list_push_tail and after list_pop_head.
Pushed(Q, l, n) == [Q EXCEPT ![l] = Append(@, n)]
Popped(Q, l) == [Q EXCEPT ![l] = Tail(@)]

\* What a queue of nodes is made of.
LEMMA QueueFacts ==
    ASSUME NEW q \in Seq(Node)
    PROVE  /\ Len(q) \in Nat
           /\ \A i \in 1 .. Len(q) : q[i] \in Node /\ q[i] # Nil
           /\ q = <<>> <=> Len(q) = 0
BY NilAssumption, LenProperties, ElementOfSeq, EmptySeq

\* A node more at the end.
LEMMA AppendFacts ==
    ASSUME NEW q \in Seq(Node), NEW n \in Node
    PROVE  /\ Append(q, n) \in Seq(Node)
           /\ Append(q, n) # <<>>
           /\ Len(Append(q, n)) = Len(q) + 1
           /\ \A i \in 1 .. Len(q) + 1 :
                Append(q, n)[i] = IF i <= Len(q) THEN q[i] ELSE n
<1>1. Len(q) \in Nat
  BY QueueFacts
<1> QED
  BY <1>1, AppendProperties

\* A node less at the front.
LEMMA TailFacts ==
    ASSUME NEW q \in Seq(Node), q # <<>>
    PROVE  /\ Tail(q) \in Seq(Node)
           /\ Len(Tail(q)) = Len(q) - 1
           /\ \A i \in 1 .. Len(q) - 1 : Tail(q)[i] = q[i + 1]
           /\ Head(q) = q[1]
BY HeadTailProperties

\* A node that is on no list may be appended to one.
LEMMA PushedFacts ==
    ASSUME NEW Q \in Queues, NEW l \in List, NEW n \in Node, Free(Q, n), Distinct(Q)
    PROVE  /\ Pushed(Q, l, n) \in Queues
           /\ Distinct(Pushed(Q, l, n))
           /\ \A m \in List, p \in Node :
                On(Pushed(Q, l, n), m, p) <=> On(Q, m, p) \/ (m = l /\ p = n)
<1> DEFINE R == Pushed(Q, l, n)
           len == Len(Q[l])
<1>1. Q[l] \in Seq(Node) /\ \A m \in List : Len(Q[m]) \in Nat
  BY QueueFacts DEF Queues
<1>2. R \in Queues
  BY <1>1, AppendFacts DEF Pushed, Queues
<1>3. R[l] = Append(Q[l], n) /\ \A m \in List : m # l => R[m] = Q[m]
  BY DEF Pushed, Queues
<1>4. len \in Nat /\ Len(R[l]) = len + 1
  BY <1>1, <1>3, AppendFacts
<1>5. (\A i \in 1 .. len : R[l][i] = Q[l][i]) /\ R[l][len + 1] = n
  BY <1>1, <1>3, AppendFacts
<1>6. \A m \in List : \A i \in 1 .. Len(Q[m]) : Q[m][i] # n
  BY DEF Free, On
<1> HIDE DEF R, len
<1>7. \A m \in List : \A i \in 1 .. Len(R[m]) :
          \/ i \in 1 .. Len(Q[m]) /\ R[m][i] = Q[m][i] /\ R[m][i] # n
          \/ m = l /\ i = len + 1 /\ R[m][i] = n
  <2> SUFFICES ASSUME NEW m \in List, NEW i \in 1 .. Len(R[m])
               PROVE  \/ i \in 1 .. Len(Q[m]) /\ R[m][i] = Q[m][i] /\ R[m][i] # n
                      \/ m = l /\ i = len + 1 /\ R[m][i] = n
    OBVIOUS
  <2>1. CASE m # l
    BY <1>3, <1>6, <2>1
  <2>2. CASE m = l
    <3>1. i \in 1 .. len \/ i = len + 1
      BY <1>4, <2>2
    <3> QED
      BY <1>5, <1>6, <2>2, <3>1 DEF len
  <2> QED
    BY <2>1, <2>2
<1>8. Distinct(R)
  <2> SUFFICES ASSUME NEW k \in List, NEW m \in List,
                      NEW i \in 1 .. Len(R[k]), NEW j \in 1 .. Len(R[m]),
                      R[k][i] = R[m][j]
               PROVE  k = m /\ i = j
    BY DEF Distinct
  <2> QED
    BY <1>7 DEF Distinct
<1>9. ASSUME NEW m \in List, NEW p \in Node
      PROVE  On(R, m, p) <=> On(Q, m, p) \/ (m = l /\ p = n)
  <2>1. ASSUME On(Q, m, p) PROVE On(R, m, p)
    <3>1. PICK i \in 1 .. Len(Q[m]) : Q[m][i] = p
      BY <2>1 DEF On
    <3>2. i \in 1 .. Len(R[m]) /\ R[m][i] = p
      <4>1. CASE m # l
        BY <1>3, <3>1, <4>1
      <4>2. CASE m = l
        BY <1>4, <1>5, <3>1, <4>2 DEF len
      <4> QED
        BY <4>1, <4>2
    <3> QED
      BY <3>2 DEF On
  <2>2. ASSUME m = l, p = n PROVE On(R, m, p)
    <3>1. len + 1 \in 1 .. Len(R[l])
      BY <1>4
    <3> QED
      BY <1>5, <2>2, <3>1 DEF On
  <2>3. ASSUME On(R, m, p) PROVE On(Q, m, p) \/ (m = l /\ p = n)
    BY <1>7, <2>3 DEF On
  <2> QED
    BY <2>1, <2>2, <2>3
<1> QED
  BY <1>2, <1>8, <1>9 DEF R

\* The first of a list is on no list once it is removed.
LEMMA PoppedFacts ==
    ASSUME NEW Q \in Queues, NEW l \in List, Q[l] # <<>>, Distinct(Q)
    PROVE  /\ Popped(Q, l) \in Queues
           /\ Distinct(Popped(Q, l))
           /\ Head(Q[l]) = Q[l][1] /\ Q[l][1] \in Node
           /\ On(Q, l, Q[l][1])
           /\ \A m \in List, p \in Node :
                On(Popped(Q, l), m, p) <=> On(Q, m, p) /\ p # Q[l][1]
           /\ Free(Popped(Q, l), Q[l][1])
<1> DEFINE R == Popped(Q, l)
           n == Q[l][1]
           len == Len(Q[l])
<1>1. Q[l] \in Seq(Node) /\ \A m \in List : Len(Q[m]) \in Nat
  BY QueueFacts DEF Queues
<1>2. R \in Queues
  BY <1>1, TailFacts DEF Popped, Queues
<1>3. R[l] = Tail(Q[l]) /\ \A m \in List : m # l => R[m] = Q[m]
  BY DEF Popped, Queues
<1>4. len \in Nat \ {0} /\ Len(R[l]) = len - 1
  BY <1>1, <1>3, TailFacts, QueueFacts
<1>5. \A i \in 1 .. len - 1 : R[l][i] = Q[l][i + 1]
  BY <1>1, <1>3, TailFacts
<1>6. 1 \in 1 .. len /\ n \in Node /\ Head(Q[l]) = n
  BY <1>1, <1>4, QueueFacts, TailFacts
<1>7. \A m \in List : \A i \in 1 .. Len(Q[m]) : Q[m][i] = n => m = l /\ i = 1
  BY <1>6 DEF Distinct
<1> HIDE DEF R, len, n
<1>8. \A m \in List : \A i \in 1 .. Len(R[m]) :
          \/ m # l /\ i \in 1 .. Len(Q[m]) /\ R[m][i] = Q[m][i] /\ R[m][i] # n
          \/ m = l /\ i + 1 \in 1 .. Len(Q[m]) /\ R[m][i] = Q[m][i + 1] /\ R[m][i] # n
  <2> SUFFICES ASSUME NEW m \in List, NEW i \in 1 .. Len(R[m])
               PROVE  \/ m # l /\ i \in 1 .. Len(Q[m]) /\ R[m][i] = Q[m][i] /\ R[m][i] # n
                      \/ m = l /\ i + 1 \in 1 .. Len(Q[m]) /\ R[m][i] = Q[m][i + 1] /\ R[m][i] # n
    OBVIOUS
  <2>1. CASE m # l
    BY <1>3, <1>7, <2>1
  <2>2. CASE m = l
    <3>1. i \in 1 .. len - 1 /\ i + 1 \in 1 .. len /\ i + 1 # 1
      BY <1>4, <2>2
    <3> QED
      BY <1>5, <1>7, <2>2, <3>1 DEF len
  <2> QED
    BY <2>1, <2>2
<1>9. Distinct(R)
  <2> SUFFICES ASSUME NEW k \in List, NEW m \in List,
                      NEW i \in 1 .. Len(R[k]), NEW j \in 1 .. Len(R[m]),
                      R[k][i] = R[m][j]
               PROVE  k = m /\ i = j
    BY DEF Distinct
  <2>1. CASE k # l /\ m # l
    BY <1>8, <2>1 DEF Distinct
  <2>2. CASE k = l /\ m = l
    <3>1. i + 1 \in 1 .. Len(Q[l]) /\ j + 1 \in 1 .. Len(Q[l]) /\ Q[l][i + 1] = Q[l][j + 1]
      BY <1>8, <2>2
    <3>2. i + 1 = j + 1
      BY <3>1 DEF Distinct
    <3> QED
      BY <1>1, <1>4, <2>2, <3>2
  <2>3. CASE k # l /\ m = l
    BY <1>8, <2>3 DEF Distinct
  <2>4. CASE k = l /\ m # l
    BY <1>8, <2>4 DEF Distinct
  <2> QED
    BY <2>1, <2>2, <2>3, <2>4
<1>10. ASSUME NEW m \in List, NEW p \in Node
      PROVE  On(R, m, p) <=> On(Q, m, p) /\ p # n
  <2>1. ASSUME On(R, m, p) PROVE On(Q, m, p) /\ p # n
    BY <1>8, <2>1 DEF On
  <2>2. ASSUME On(Q, m, p), p # n PROVE On(R, m, p)
    <3>1. PICK i \in 1 .. Len(Q[m]) : Q[m][i] = p
      BY <2>2 DEF On
    <3>2. CASE m = l
      <4>1. i # 1
        BY <2>2, <3>1, <3>2 DEF n
      <4>2. i - 1 \in 1 .. len - 1 /\ (i - 1) + 1 = i
        BY <1>4, <3>2, <4>1 DEF len
      <4>3. R[l][i - 1] = Q[l][i]
        BY <1>5, <4>2
      <4> QED
        BY <1>4, <3>1, <3>2, <4>2, <4>3 DEF On
    <3>3. CASE m # l
      BY <1>3, <3>1, <3>3 DEF On
    <3> QED
      BY <3>2, <3>3
  <2> QED
    BY <2>1, <2>2
<1>11. Free(R, n) /\ On(Q, l, n)
  BY <1>6, <1>10 DEF Free, On, n, len
<1> QED
  BY <1>2, <1>6, <1>9, <1>10, <1>11 DEF R, n

\* s after k of the four statements that push n on l.
Stage(s, l, n, k) ==
    CASE k = 0 -> s
      [] k = 1 -> ClearNext(s, n)
      [] k = 2 -> LinkTail(ClearNext(s, n), l, n)
      [] k = 3 -> SetTail(LinkTail(ClearNext(s, n), l, n), l, n)

\* The statements of the push lead from stage to stage.
LEMMA StageSteps ==
    ASSUME NEW s, NEW l, NEW n, NEW k \in 0 .. PushSteps - 1
    PROVE  /\ Stage(s, l, n, 0) = s
           /\ k < 3 => PushStep(Stage(s, l, n, k), l, n, k) = Stage(s, l, n, k + 1)
           /\ k = 3 => PushStep(Stage(s, l, n, k), l, n, k) = PushTail(s, l, n)
<1>1. k \in {0, 1, 2, 3}
  BY DEF PushSteps
<1> QED
  BY <1>1 DEF Stage, PushStep, PushTail

\* The next pointers when n has been cleared, and when it has been linked too.
Cleared(s, n) == [s.next EXCEPT ![n] = Nil]
Linked(s, l, n) ==
    IF s.tail[l] = Nil THEN Cleared(s, n) ELSE [Cleared(s, n) EXCEPT ![s.tail[l]] = n]

\* The fields of the lists after each statement.
LEMMA StageFields ==
    ASSUME NEW s \in Links, NEW l \in List, NEW n \in Node
    PROVE  /\ /\ Stage(s, l, n, 1) \in Links
              /\ Stage(s, l, n, 1).head = s.head
              /\ Stage(s, l, n, 1).next = Cleared(s, n)
           /\ \A k \in {2, 3} : /\ Stage(s, l, n, k) \in Links
                                /\ Stage(s, l, n, k).head = s.head
                                /\ Stage(s, l, n, k).next = Linked(s, l, n)
           /\ /\ PushTail(s, l, n) \in Links
              /\ PushTail(s, l, n).tail = [s.tail EXCEPT ![l] = n]
              /\ PushTail(s, l, n).next = Linked(s, l, n)
              /\ PushTail(s, l, n).head =
                   IF s.head[l] = Nil THEN [s.head EXCEPT ![l] = n] ELSE s.head
<1> DEFINE s1 == ClearNext(s, n)
           s2 == LinkTail(s1, l, n)
           s3 == SetTail(s2, l, n)
           s4 == SetHead(s3, l, n)
<1>1. /\ s1 \in Links /\ s1.head = s.head /\ s1.tail = s.tail
      /\ s1.next = Cleared(s, n)
  BY DEF ClearNext, Links, Ptr, Cleared
<1> HIDE DEF s1
<1>2. /\ s2 \in Links /\ s2.head = s1.head /\ s2.tail = s1.tail
      /\ s2.next = IF s1.tail[l] = Nil THEN s1.next ELSE [s1.next EXCEPT ![s1.tail[l]] = n]
  BY <1>1 DEF LinkTail, Links, Ptr
<1> HIDE DEF s2
<1>3. /\ s3 \in Links /\ s3.head = s2.head /\ s3.tail = [s2.tail EXCEPT ![l] = n]
      /\ s3.next = s2.next
  BY <1>2 DEF SetTail, Links, Ptr
<1> HIDE DEF s3
<1>4. /\ s4 \in Links /\ s4.tail = s3.tail /\ s4.next = s3.next
      /\ s4.head = IF s3.head[l] = Nil THEN [s3.head EXCEPT ![l] = n] ELSE s3.head
  BY <1>3 DEF SetHead, Links, Ptr
<1> HIDE DEF s4
<1>5. /\ Stage(s, l, n, 1) = s1 /\ Stage(s, l, n, 2) = s2 /\ Stage(s, l, n, 3) = s3
      /\ PushTail(s, l, n) = s4
  BY DEF Stage, PushTail, s1, s2, s3, s4
<1>6. s2.next = Linked(s, l, n)
  BY <1>1, <1>2 DEF Linked
<1> QED
  BY <1>1, <1>2, <1>3, <1>4, <1>5, <1>6

\* Once n is linked, its list has a node more, unless it was empty and nothing
\* points to n yet; the other nodes are followed by what followed them.
LEMMA LinkedChains ==
    ASSUME NEW s, NEW Q, Are(s, Q), NEW l \in List, NEW n \in Node, Free(Q, n)
    PROVE  /\ Cleared(s, n)[n] = Nil /\ Linked(s, l, n)[n] = Nil
           /\ \A m \in List : \A i \in 1 .. Len(Q[m]) :
                Cleared(s, n)[Q[m][i]] = s.next[Q[m][i]]
           /\ \A m \in List : \A i \in 1 .. Len(Q[m]) :
                m # l \/ i < Len(Q[l]) => Linked(s, l, n)[Q[m][i]] = s.next[Q[m][i]]
           /\ Q[l] # <<>> => Linked(s, l, n)[Q[l][Len(Q[l])]] = n
<1> DEFINE next1 == Cleared(s, n)
           next2 == Linked(s, l, n)
<1>1. s.next \in [Node -> Ptr] /\ \A m \in List : Q[m] \in Seq(Node)
  BY DEF Are, Links, Queues
<1>2. \A m \in List : /\ Len(Q[m]) \in Nat
                      /\ Q[m] # <<>> <=> Len(Q[m]) # 0
                      /\ \A i \in 1 .. Len(Q[m]) : Q[m][i] \in Node /\ Q[m][i] # n
  BY <1>1, QueueFacts DEF Free, On
<1>3. next1[n] = Nil /\ \A p \in Node \ {n} : next1[p] = s.next[p]
  BY <1>1 DEF Cleared
<1>4. next1 \in [Node -> Ptr]
  BY <1>1 DEF Cleared, Ptr
<1>5. s.tail[l] = IF Q[l] = <<>> THEN Nil ELSE Q[l][Len(Q[l])]
  BY DEF Are, EndsAt
<1>6. next2 = IF s.tail[l] = Nil THEN next1 ELSE [next1 EXCEPT ![s.tail[l]] = n]
  BY DEF Linked
<1> HIDE DEF next1, next2
<1>7. \A m \in List : \A i \in 1 .. Len(Q[m]) : next1[Q[m][i]] = s.next[Q[m][i]]
  BY <1>2, <1>3
<1>8. CASE Q[l] = <<>>
  <2>1. next2 = next1
    BY <1>5, <1>6, <1>8
  <2> QED
    BY <1>3, <1>7, <1>8, <2>1 DEF next1, next2
<1>9. CASE Q[l] # <<>>
  <2> DEFINE last == Q[l][Len(Q[l])]
  <2>1. last \in Node /\ last # n /\ last # Nil /\ s.tail[l] = last
    BY <1>2, <1>5, <1>9, NilAssumption
  <2>2. next2[last] = n /\ \A p \in Node \ {last} : next2[p] = next1[p]
    BY <1>4, <1>6, <2>1
  <2>3. \A m \in List : \A i \in 1 .. Len(Q[m]) : Q[m][i] = last => m = l /\ i = Len(Q[l])
    BY <1>2, <1>9 DEF Are, Distinct
  <2> HIDE DEF last
  <2>4. next2[n] = Nil
    BY <1>3, <2>1, <2>2
  <2>5. ASSUME NEW m \in List, NEW i \in 1 .. Len(Q[m]), m # l \/ i < Len(Q[l])
        PROVE  next2[Q[m][i]] = s.next[Q[m][i]]
    <3>1. Q[m][i] # last
      BY <1>2, <2>3, <2>5
    <3> QED
      BY <1>2, <1>7, <2>2, <3>1
  <2> QED
    BY <1>3, <1>7, <2>2, <2>4, <2>5 DEF last, next1, next2
<1> QED
  BY <1>8, <1>9

\* A chain whose last node points to n, which points to nothing, goes on with n.
LEMMA AppendChain ==
    ASSUME NEW s, NEW t, NEW l, NEW q \in Seq(Node), q # <<>>, NEW n \in Node,
           IsChain(s, l, q), t.head[l] = s.head[l], t.next[n] = Nil,
           \A i \in 1 .. Len(q) : i < Len(q) => t.next[q[i]] = s.next[q[i]],
           t.next[q[Len(q)]] = n
    PROVE  IsChain(t, l, Append(q, n))
<1> DEFINE r == Append(q, n)
<1>1. Len(q) \in Nat \ {0}
  BY QueueFacts
<1>2. r # <<>> /\ Len(r) = Len(q) + 1 /\ r[Len(q) + 1] = n
  BY <1>1, AppendFacts
<1>3. \A i \in 1 .. Len(q) : r[i] = q[i]
  BY <1>1, AppendFacts
<1> HIDE DEF r
<1>4. t.head[l] = r[1]
  BY <1>1, <1>3 DEF IsChain
<1>5. t.next[r[Len(r)]] = Nil
  BY <1>2
<1>6. ASSUME NEW i \in 1 .. Len(r) - 1 PROVE t.next[r[i]] = r[i + 1]
  <2>1. CASE i = Len(q)
    BY <1>1, <1>2, <1>3, <2>1
  <2>2. CASE i # Len(q)
    <3>1. i \in 1 .. Len(q) - 1 /\ i + 1 \in 1 .. Len(q) /\ i \in 1 .. Len(q) /\ i < Len(q)
      BY <1>1, <1>2, <2>2
    <3>2. t.next[q[i]] = q[i + 1]
      BY <3>1 DEF IsChain
    <3> QED
      BY <1>3, <3>1, <3>2
  <2> QED
    BY <2>1, <2>2
<1> QED
  BY <1>2, <1>4, <1>5, <1>6 DEF IsChain, r

\* The chains after k of the four statements: n hangs on its list from the
\* second on, unless the list is empty.
Chains(Q, l, n, k) ==
    IF k >= 2 /\ Q[l] # <<>> THEN Pushed(Q, l, n) ELSE Q

\* At every stage of a push the lists can be followed from their heads.
LEMMA StageChains ==
    ASSUME NEW s, NEW Q, Are(s, Q), NEW l \in List, NEW n \in Node, Free(Q, n),
           NEW k \in 0 .. PushSteps - 1
    PROVE  /\ Stage(s, l, n, k) \in Links
           /\ Stage(s, l, n, k).head = s.head
           /\ \A m \in List : IsChain(Stage(s, l, n, k), m, Chains(Q, l, n, k)[m])
<1> DEFINE t == Stage(s, l, n, k)
           next1 == Cleared(s, n)
           next2 == Linked(s, l, n)
<1>1. s \in Links /\ Q \in Queues
  BY DEF Are
<1>2. k \in {0, 1, 2, 3}
  BY DEF PushSteps
<1>3. CASE k = 0
  BY <1>1, <1>3, StageSteps DEF Are, Chains
<1>4. CASE k \in {1, 2, 3}
  <2>1. /\ t \in Links /\ t.head = s.head
        /\ (k = 1 => t.next = next1) /\ (k >= 2 => t.next = next2)
    <3>1. CASE k = 1
      <4>1. t = Stage(s, l, n, 1) /\ ~(k >= 2)
        BY <3>1
      <4> HIDE DEF t
      <4> QED
        BY <1>1, <4>1, StageFields
    <3>2. CASE k \in {2, 3}
      <4>1. \A j \in {2, 3} : /\ Stage(s, l, n, j) \in Links
                              /\ Stage(s, l, n, j).head = s.head
                              /\ Stage(s, l, n, j).next = Linked(s, l, n)
        BY <1>1, StageFields
      <4>2. t \in Links /\ t.head = s.head /\ t.next = next2
        BY <3>2, <4>1
      <4> QED
        BY <3>2, <4>2
    <3> QED
      BY <1>4, <3>1, <3>2
  <2> HIDE DEF t
  <2>2. /\ next1[n] = Nil /\ next2[n] = Nil
        /\ \A m \in List : \A i \in 1 .. Len(Q[m]) : next1[Q[m][i]] = s.next[Q[m][i]]
        /\ \A m \in List : \A i \in 1 .. Len(Q[m]) :
             m # l \/ i < Len(Q[l]) => next2[Q[m][i]] = s.next[Q[m][i]]
        /\ Q[l] # <<>> => next2[Q[l][Len(Q[l])]] = n
    BY LinkedChains
  <2> HIDE DEF next1, next2
  <2>3. \A m \in List : /\ Q[m] \in Seq(Node) /\ Len(Q[m]) \in Nat
                        /\ Q[m] = <<>> <=> Len(Q[m]) = 0
    BY <1>1, QueueFacts DEF Queues
  <2>4. \A m \in List : IsChain(s, m, Q[m])
    BY DEF Are
  <2>5. ASSUME NEW m \in List, k < 2 \/ m # l \/ Q[l] = <<>>
        PROVE  IsChain(t, m, Q[m])
    <3>1. \A i \in 1 .. Len(Q[m]) : t.next[Q[m][i]] = s.next[Q[m][i]]
      BY <1>4, <2>1, <2>2, <2>3, <2>5
    <3> QED
      BY <2>1, <2>3, <2>4, <3>1 DEF IsChain
  <2>6. ASSUME k >= 2, Q[l] # <<>>
        PROVE  IsChain(t, l, Append(Q[l], n))
    <3>1. Q[l] \in Seq(Node) /\ IsChain(s, l, Q[l])
      BY <2>3, <2>4
    <3>2. t.head[l] = s.head[l] /\ t.next[n] = Nil /\ t.next[Q[l][Len(Q[l])]] = n
      BY <2>1, <2>2, <2>6
    <3>3. \A i \in 1 .. Len(Q[l]) : i < Len(Q[l]) => t.next[Q[l][i]] = s.next[Q[l][i]]
      BY <2>1, <2>2, <2>6
    <3> QED
      BY <2>6, <3>1, <3>2, <3>3, AppendChain
  <2>7. ASSUME NEW m \in List PROVE IsChain(t, m, Chains(Q, l, n, k)[m])
    <3>1. CASE k >= 2 /\ Q[l] # <<>>
      <4>1. Chains(Q, l, n, k)[m] = IF m = l THEN Append(Q[l], n) ELSE Q[m]
        BY <1>1, <3>1 DEF Chains, Pushed, Queues
      <4> QED
        BY <2>5, <2>6, <3>1, <4>1
    <3>2. CASE ~(k >= 2 /\ Q[l] # <<>>)
      <4>1. Chains(Q, l, n, k)[m] = Q[m]
        BY <3>2 DEF Chains
      <4> QED
        BY <1>4, <2>5, <3>2, <4>1
    <3> QED
      BY <3>1, <3>2
  <2> QED
    BY <2>1, <2>7 DEF t
<1> QED
  BY <1>2, <1>3, <1>4

\* list_push_tail of a node that is on no list puts it at the end of one.
LEMMA PushTailAre ==
    ASSUME NEW s, NEW Q, Are(s, Q), NEW l \in List, NEW n \in Node, Free(Q, n)
    PROVE  Are(PushTail(s, l, n), Pushed(Q, l, n))
<1> DEFINE t == PushTail(s, l, n)
           R == Pushed(Q, l, n)
           next1 == Cleared(s, n)
           next2 == Linked(s, l, n)
<1>1. s \in Links /\ Q \in Queues /\ Distinct(Q)
  BY DEF Are
<1>2. /\ t \in Links /\ t.tail = [s.tail EXCEPT ![l] = n] /\ t.next = next2
      /\ t.head = IF s.head[l] = Nil THEN [s.head EXCEPT ![l] = n] ELSE s.head
  BY <1>1, StageFields
<1>3. R \in Queues /\ Distinct(R)
  BY <1>1, PushedFacts
<1>4. R[l] = Append(Q[l], n) /\ \A m \in List : m # l => R[m] = Q[m]
  BY <1>1 DEF Pushed, Queues
<1> HIDE DEF t, R
<1>5. /\ next2[n] = Nil
      /\ \A m \in List : \A i \in 1 .. Len(Q[m]) :
           m # l \/ i < Len(Q[l]) => next2[Q[m][i]] = s.next[Q[m][i]]
      /\ Q[l] # <<>> => next2[Q[l][Len(Q[l])]] = n
  BY LinkedChains
<1> HIDE DEF next1, next2
<1>6. s.head \in [List -> Ptr] /\ s.tail \in [List -> Ptr]
  BY <1>1 DEF Links
<1>7. \A m \in List : /\ Q[m] \in Seq(Node) /\ Len(Q[m]) \in Nat
                      /\ Q[m] = <<>> <=> Len(Q[m]) = 0
                      /\ \A i \in 1 .. Len(Q[m]) : Q[m][i] # Nil
  BY <1>1, QueueFacts DEF Queues
<1>8. \A m \in List : IsChain(s, m, Q[m]) /\ EndsAt(s, m, Q[m])
  BY DEF Are
<1>9. ASSUME NEW m \in List, m # l PROVE IsChain(t, m, R[m]) /\ EndsAt(t, m, R[m])
  <2>1. \A i \in 1 .. Len(Q[m]) : t.next[Q[m][i]] = s.next[Q[m][i]]
    BY <1>2, <1>5, <1>9
  <2>2. t.head[m] = s.head[m] /\ t.tail[m] = s.tail[m] /\ R[m] = Q[m]
    BY <1>2, <1>4, <1>6, <1>9
  <2> QED
    BY <1>7, <1>8, <2>1, <2>2 DEF IsChain, EndsAt
<1>10. Append(Q[l], n) # <<>> /\ Len(Append(Q[l], n)) = Len(Q[l]) + 1
       /\ Append(Q[l], n)[Len(Q[l]) + 1] = n
  BY <1>7, AppendFacts
<1>11. EndsAt(t, l, R[l])
  BY <1>2, <1>4, <1>6, <1>10 DEF EndsAt
<1>12. IsChain(t, l, R[l])
  <2>1. CASE Q[l] = <<>>
    <3>1. t.head[l] = n
      BY <1>2, <1>6, <1>8, <2>1 DEF IsChain
    <3>2. Len(R[l]) = 1 /\ R[l] # <<>> /\ R[l][1] = n
      BY <1>4, <1>7, <1>10, <2>1
    <3> QED
      BY <1>2, <1>5, <3>1, <3>2 DEF IsChain
  <2>2. CASE Q[l] # <<>>
    <3>1. Q[l][1] # Nil /\ s.head[l] = Q[l][1]
      BY <1>7, <1>8, <2>2 DEF IsChain
    <3>2. t.head[l] = s.head[l] /\ t.next[n] = Nil /\ t.next[Q[l][Len(Q[l])]] = n
      BY <1>2, <1>5, <2>2, <3>1
    <3>3. \A i \in 1 .. Len(Q[l]) : i < Len(Q[l]) => t.next[Q[l][i]] = s.next[Q[l][i]]
      BY <1>2, <1>5
    <3>4. Q[l] \in Seq(Node) /\ IsChain(s, l, Q[l])
      BY <1>7, <1>8
    <3>5. IsChain(t, l, Append(Q[l], n))
      BY <2>2, <3>2, <3>3, <3>4, AppendChain
    <3> QED
      BY <1>4, <3>5
  <2> QED
    BY <2>1, <2>2
<1> QED
  BY <1>2, <1>3, <1>9, <1>11, <1>12 DEF Are, t, R

\* list_pop_head takes the first node away.
LEMMA PopHeadAre ==
    ASSUME NEW s, NEW Q, Are(s, Q), NEW l \in List, Q[l] # <<>>
    PROVE  /\ s.head[l] = Q[l][1]
           /\ Are(PopHead(s, l), Popped(Q, l))
<1> DEFINE t == PopHead(s, l)
           R == Popped(Q, l)
           n == Q[l][1]
           len == Len(Q[l])
           h == s.next[n]
<1>1. s \in Links /\ Q \in Queues /\ Distinct(Q)
  BY DEF Are
<1>2. R \in Queues /\ Distinct(R)
  BY <1>1, PoppedFacts
<1>3. R[l] = Tail(Q[l]) /\ \A m \in List : m # l => R[m] = Q[m]
  BY <1>1 DEF Popped, Queues
<1>4. \A m \in List : /\ Q[m] \in Seq(Node) /\ Len(Q[m]) \in Nat
                      /\ Q[m] = <<>> <=> Len(Q[m]) = 0
                      /\ \A i \in 1 .. Len(Q[m]) : Q[m][i] \in Node /\ Q[m][i] # Nil
  BY <1>1, QueueFacts DEF Queues
<1>5. \A m \in List : IsChain(s, m, Q[m]) /\ EndsAt(s, m, Q[m])
  BY DEF Are
<1>6. len \in Nat \ {0} /\ n \in Node /\ n # Nil /\ s.head[l] = n
  BY <1>4, <1>5 DEF IsChain
<1>7. s.head \in [List -> Ptr] /\ s.tail \in [List -> Ptr] /\ s.next \in [Node -> Ptr]
  BY <1>1 DEF Links
<1>8. /\ t.head = [s.head EXCEPT ![l] = h]
      /\ t.tail = [s.tail EXCEPT ![l] = IF h = Nil THEN Nil ELSE s.tail[l]]
      /\ t.next = [s.next EXCEPT ![n] = Nil]
  BY <1>1, <1>6 DEF PopHead, Links
<1>9. t \in Links
  BY <1>1, <1>6, PopHeadType
<1>10. /\ Tail(Q[l]) \in Seq(Node) /\ Len(Tail(Q[l])) = len - 1
       /\ \A i \in 1 .. len - 1 : Tail(Q[l])[i] = Q[l][i + 1]
  BY <1>4, TailFacts
<1>11. \A m \in List : \A i \in 1 .. Len(Q[m]) :
          m # l \/ i # 1 => t.next[Q[m][i]] = s.next[Q[m][i]]
  <2>1. 1 \in 1 .. len
    BY <1>6
  <2>2. \A m \in List : \A i \in 1 .. Len(Q[m]) : Q[m][i] = n => m = l /\ i = 1
    BY <1>1, <2>1 DEF Distinct
  <2> QED
    BY <1>4, <1>6, <1>7, <1>8, <2>2
<1>12. CASE len = 1
  <2>1. h = Nil
    BY <1>5, <1>6, <1>12 DEF IsChain
  <2>2. R[l] = <<>>
    BY <1>3, <1>10, <1>12, QueueFacts
  <2> HIDE DEF t, R, h
  <2>3. IsChain(t, l, R[l]) /\ EndsAt(t, l, R[l])
    <3>1. t.head[l] = Nil /\ t.tail[l] = Nil
      BY <1>7, <1>8, <2>1
    <3>2. Len(R[l]) = 0
      BY <2>2
    <3> QED
      BY <2>2, <3>1, <3>2 DEF IsChain, EndsAt
  <2>4. ASSUME NEW m \in List, m # l PROVE IsChain(t, m, R[m]) /\ EndsAt(t, m, R[m])
    <3>1. t.head[m] = s.head[m] /\ t.tail[m] = s.tail[m] /\ R[m] = Q[m]
      BY <1>3, <1>7, <1>8, <2>4
    <3> QED
      BY <1>4, <1>5, <1>11, <2>4, <3>1 DEF IsChain, EndsAt
  <2> QED
    BY <1>2, <1>6, <1>9, <2>3, <2>4 DEF Are, t, R
<1>13. CASE len # 1
  <2>1. h = Q[l][2] /\ h # Nil
    <3>1. 1 \in 1 .. len - 1 /\ 2 \in 1 .. len
      <4> HIDE DEF len, n
      <4> QED
        BY <1>6, <1>13
    <3>2. s.next[Q[l][1]] = Q[l][1 + 1]
      BY <1>5, <3>1 DEF IsChain
    <3> QED
      BY <1>4, <3>1, <3>2
  <2>2. /\ Len(R[l]) = len - 1 /\ R[l] # <<>>
        /\ \A i \in 1 .. len - 1 : R[l][i] = Q[l][i + 1]
    <3>1. Len(R[l]) = len - 1 /\ \A i \in 1 .. len - 1 : R[l][i] = Q[l][i + 1]
      BY <1>3, <1>10
    <3>2. Len(R[l]) # 0 /\ R[l] \in Seq(Node)
      BY <1>3, <1>6, <1>10, <1>13, <3>1
    <3>3. R[l] # <<>>
      BY <3>2, QueueFacts
    <3> QED
      BY <3>1, <3>3
  <2> HIDE DEF t, R, h, len
  <2>3. EndsAt(t, l, R[l])
    <3>1. R[l][len - 1] = Q[l][len]
      BY <1>6, <1>13, <2>2
    <3>2. t.tail[l] = Q[l][len]
      BY <1>4, <1>5, <1>6, <1>7, <1>8, <2>1 DEF EndsAt, len
    <3> QED
      BY <2>2, <3>1, <3>2 DEF EndsAt
  <2>4. IsChain(t, l, R[l])
    <3>1. t.head[l] = R[l][1]
      BY <1>6, <1>7, <1>8, <1>13, <2>1, <2>2
    <3>2. t.next[R[l][Len(R[l])]] = Nil
      <4>1. R[l][len - 1] = Q[l][len] /\ Len(R[l]) = len - 1 /\ len # 1 /\ len \in 1 .. Len(Q[l])
        BY <1>6, <1>13, <2>2 DEF len
      <4>2. s.next[Q[l][len]] = Nil
        BY <1>4, <1>5, <1>6 DEF IsChain, len
      <4> QED
        BY <1>11, <4>1, <4>2
    <3>3. ASSUME NEW i \in 1 .. Len(R[l]) - 1 PROVE t.next[R[l][i]] = R[l][i + 1]
      <4>1. /\ i \in 1 .. len - 1 /\ i + 1 \in 1 .. len - 1 /\ i + 1 # 1
            /\ i + 1 \in 1 .. Len(Q[l]) /\ i + 1 \in 1 .. Len(Q[l]) - 1
        BY <1>6, <2>2 DEF len
      <4>2. R[l][i] = Q[l][i + 1] /\ R[l][i + 1] = Q[l][(i + 1) + 1]
        BY <2>2, <4>1
      <4>3. s.next[Q[l][i + 1]] = Q[l][(i + 1) + 1]
        BY <1>5, <4>1 DEF IsChain
      <4> QED
        BY <1>11, <4>1, <4>2, <4>3
    <3> QED
      BY <2>2, <3>1, <3>2, <3>3 DEF IsChain
  <2>5. ASSUME NEW m \in List, m # l PROVE IsChain(t, m, R[m]) /\ EndsAt(t, m, R[m])
    <3>1. t.head[m] = s.head[m] /\ t.tail[m] = s.tail[m] /\ R[m] = Q[m]
      BY <1>3, <1>7, <1>8, <2>5
    <3> QED
      BY <1>4, <1>5, <1>11, <2>5, <3>1 DEF IsChain, EndsAt
  <2> QED
    BY <1>2, <1>6, <1>9, <2>3, <2>4, <2>5 DEF Are, t, R
<1> QED
  BY <1>12, <1>13

-----------------------------------------------------------------------------
(***************************************************************************)
(* Following the pointers: Nth finds the nodes of a queue in their order.  *)
(***************************************************************************)

\* Induction, for a set: one that holds 0 and the successors of its members
\* holds every natural number.  If m were missing, n |-> n + 1 would be an
\* injection of the members up to m in themselves that does not reach 0.
LEMMA SetInduction ==
    ASSUME NEW S, 0 \in S, \A n \in Nat : n \in S => n + 1 \in S
    PROVE  Nat \subseteq S
<1> SUFFICES ASSUME NEW m \in Nat, m \notin S PROVE FALSE
  OBVIOUS
<1> DEFINE T == (0 .. m) \cap S
           f == [n \in T |-> n + 1]
<1>1. IsFiniteSet(T)
  <2>1. IsFiniteSet(0 .. m)
    BY FS_Interval
  <2> QED
    BY <2>1, FS_Subset
<1>2. f \in Injection(T, T)
  BY DEF Injection, IsInjective
<1>3. f \in Surjection(T, T)
  BY <1>1, <1>2, FS_Injection
<1>4. 0 \in T
  OBVIOUS
<1>5. PICK n \in T : f[n] = 0
  BY <1>3, <1>4 DEF Surjection
<1> QED
  BY <1>5

\* A list of distinct nodes is not longer than there are nodes.
LEMMA QueueBound ==
    ASSUME NEW Q \in Queues, Distinct(Q), NEW l \in List
    PROVE  /\ Cardinality(Node) \in Nat
           /\ Len(Q[l]) \in Nat /\ Len(Q[l]) <= Cardinality(Node)
<1> DEFINE len == Len(Q[l])
           f == [i \in 1 .. len |-> Q[l][i]]
<1>0. IsFiniteSet(Node)
  BY KernelAssumption
<1>1. len \in Nat /\ \A i \in 1 .. len : Q[l][i] \in Node
  BY QueueFacts DEF Queues
<1>2. IsFiniteSet(1 .. len) /\ Cardinality(1 .. len) = len
  BY <1>1, FS_Interval, SMTT(40)
<1>3. Cardinality(Node) \in Nat
  BY KernelAssumption, FS_CardinalityType
<1>4. f \in [1 .. len -> Node]
  BY <1>1
<1>5. \A i, j \in 1 .. len : f[i] = f[j] => i = j
  BY DEF Distinct
<1> HIDE DEF f, len
<1>6. ~(Cardinality(Node) < Cardinality(1 .. len))
  <2> SUFFICES ASSUME Cardinality(Node) < Cardinality(1 .. len) PROVE FALSE
    OBVIOUS
  <2>1. \E i, j \in 1 .. len : i # j /\ f[i] = f[j]
    BY <1>2, <1>4, <1>0, FS_PigeonHole, Zenon
  <2> QED
    BY <1>5, <2>1
<1> QED
  BY <1>1, <1>2, <1>3, <1>6 DEF len

\* The nodes Nth finds by following the pointers.
LEMMA NthFacts ==
    ASSUME NEW Q \in Queues, Distinct(Q), NEW l \in List, IsChain(lists, l, Q[l])
    PROVE  /\ DOMAIN Nth(l) = 0 .. Cardinality(Node)
           /\ \A k \in 0 .. Cardinality(Node) :
                Nth(l)[k] = IF k < Len(Q[l]) THEN Q[l][k + 1] ELSE Nil
<1> DEFINE C == Cardinality(Node)
           q == Q[l]
           Step(f) == [k \in 0 .. C |->
                          IF k = 0 THEN lists.head[l]
                          ELSE IF f[k-1] = Nil THEN Nil ELSE lists.next[f[k-1]]]
           g == [k \in 0 .. C |-> IF k < Len(q) THEN q[k + 1] ELSE Nil]
<1>1. C \in Nat /\ Len(q) \in Nat /\ Len(q) <= C
  BY QueueBound
<1>2. /\ q \in Seq(Node) /\ (q = <<>> <=> Len(q) = 0)
      /\ \A i \in 1 .. Len(q) : q[i] # Nil
  BY QueueFacts DEF Queues
<1>3. \A i \in 1 .. Len(q) - 1 : lists.next[q[i]] = q[i + 1]
  BY DEF IsChain
<1>4. q = <<>> => lists.head[l] = Nil
  BY DEF IsChain
<1>5. q # <<>> => lists.head[l] = q[1] /\ lists.next[q[Len(q)]] = Nil
  BY DEF IsChain
<1>6. Nth(l) = CHOOSE f : f = Step(f)
  BY DEF Nth
<1> HIDE DEF C, q
<1>7. ASSUME NEW k \in 0 .. C
      PROVE  g[k] = IF k = 0 THEN lists.head[l]
                    ELSE IF g[k-1] = Nil THEN Nil ELSE lists.next[g[k-1]]
  <2>1. CASE k = 0
    BY <1>1, <1>2, <1>4, <1>5, <2>1
  <2>2. CASE k # 0
    <3>1. k - 1 \in 0 .. C /\ (k - 1) + 1 = k
      BY <1>1, <2>2
    <3>2. g[k-1] = IF k - 1 < Len(q) THEN q[k] ELSE Nil
      BY <3>1
    <3>3. CASE k < Len(q)
      <4>1. k \in 1 .. Len(q) - 1 /\ k \in 1 .. Len(q)
        BY <1>1, <2>2, <3>3
      <4> QED
        BY <1>2, <1>3, <3>2, <3>3, <4>1, <2>2
    <3>4. CASE k = Len(q)
      <4>1. k \in 1 .. Len(q) /\ q # <<>>
        BY <1>1, <1>2, <2>2, <3>4
      <4> QED
        BY <1>2, <1>5, <3>2, <3>4, <4>1, <2>2
    <3>5. CASE k > Len(q)
      BY <1>1, <2>2, <3>2, <3>5
    <3> QED
      BY <1>1, <3>3, <3>4, <3>5
  <2> QED
    BY <2>1, <2>2
<1>8. g = Step(g)
  BY <1>7
<1>9. Nth(l) = Step(Nth(l))
  <2> HIDE DEF Step, g
  <2> QED
    BY <1>6, <1>8
<1> DEFINE f == Nth(l)
<1>10. \A k \in 0 .. C : f[k] = IF k = 0 THEN lists.head[l]
                                ELSE IF f[k-1] = Nil THEN Nil ELSE lists.next[f[k-1]]
  BY <1>9, Zenon
<1>11. DOMAIN f = 0 .. C
  BY <1>9
<1> HIDE DEF f, g
<1> DEFINE S == {k \in Nat : k \in 0 .. C => f[k] = g[k]}
<1>12. 0 \in S
  BY <1>1, <1>7, <1>10
<1>13. ASSUME NEW k \in Nat, k \in S PROVE k + 1 \in S
  <2>1. CASE k + 1 \in 0 .. C
    <3>1. k \in 0 .. C /\ (k + 1) - 1 = k /\ k + 1 # 0
      BY <1>1, <2>1
    <3>2. f[k] = g[k]
      BY <1>13, <3>1
    <3> QED
      BY <1>7, <1>10, <2>1, <3>1, <3>2
  <2> QED
    BY <2>1
<1>14. Nat \subseteq S
  <2> HIDE DEF S
  <2> QED
    BY <1>12, <1>13, SetInduction
<1>15. \A k \in 0 .. C : k \in Nat /\ f[k] = g[k]
  BY <1>1, <1>14
<1>16. \A k \in 0 .. C : g[k] = IF k < Len(q) THEN q[k + 1] ELSE Nil
  BY DEF g
<1> QED
  BY <1>11, <1>15, <1>16 DEF f, C, q
-----------------------------------------------------------------------------
(***************************************************************************)
(* Part 3.                                                                 *)
(*                                                                         *)
(* The invariant.                                                          *)
(***************************************************************************)

\* The node a push of sys_run is still putting on ready_list.
BeingStarted(p, k, ch) == \E r \in Node : k[r] = "enq" /\ ch[r] = p

\* The list process p is on, or "none", when cur has the processor, st are the
\* states, k the continuations, to the targets and ch the children.
HomeOf(p, cur, st, k, to, ch) ==
    IF k[p] \in {"dead", "unborn"} \/ BeingStarted(p, k, ch) THEN "none"
    ELSE IF p = cur THEN IF k[p] = "block" THEN to[p] ELSE "none"
    ELSE IF st[p] # "BLOCKED" THEN "ready"
    ELSE IF k[p] = "slept" THEN "clock"
    ELSE IF k[p] = "lock" THEN "mutex" ELSE "keyboard"

\* Where p is in the present state.
Home(p) == HomeOf(p, current, state, pc, target, child)

\* Q holds every process at its home and nowhere else.
PlacedOf(Q, cur, st, k, to, ch) ==
    \A p \in Node, l \in List : On(Q, l, p) <=> l = HomeOf(p, cur, st, k, to, ch)

Placed(Q) == PlacedOf(Q, current, state, pc, target, child)

\* The windows belong to the process that has the processor.
WindowsClosed ==
    \A p \in Node :
      /\ pc[p] \in {"enq", "block"} => p = current /\ ~irq /\ ~owes[p]
      /\ pushed[p] > 0 => pc[p] = "enq"
      /\ pc[p] = "enq" => target[p] \in {"ready", "clock", "keyboard"}
      /\ pc[p] = "block" => target[p] \in {"clock", "keyboard"}
      /\ pc[p] \in {"enq", "block"} /\ target[p] = "keyboard" => p = Root

\* A child is pushed by the process that created it, and by no other.
ChildrenKnown ==
    \A p \in Node :
      /\ child[p] # Nil => pc[p] \in {"enq", "yield"}
      /\ pc[p] = "enq" => (child[p] # Nil <=> target[p] = "ready")
      /\ BeingStarted(p, pc, child) => pc[p] = "user" /\ p # current /\ state[p] # "BLOCKED"

\* Nobody dead or unborn runs, the one that runs is not blocked, only Root waits
\* for keys, and who owes an acknowledgement runs or is ready.
StandingOf(cur, st, k, to, ch, ow) ==
    \A p \in Node :
      /\ k[p] \in {"dead", "unborn"} => p # cur
      /\ k[p] \in {"dead", "unborn"} \/ p = cur => st[p] # "BLOCKED"
      /\ HomeOf(p, cur, st, k, to, ch) = "keyboard" => p = Root
      /\ ow[p] => p = cur \/ HomeOf(p, cur, st, k, to, ch) = "ready"

Standing == StandingOf(current, state, pc, target, child, owes)

\* When the processor is idle every clock interrupt has been acknowledged.
IdleOwesNothing == current = Nil => \A p \in Node : ~owes[p]

\* While the mutex is free and processes sleep for it, another is on its way to
\* lock it.
MutexRetried ==
    ~locked /\ (\E p \in Node : Home(p) = "mutex") =>
        \E p \in Node : pc[p] = "lock" /\ Home(p) # "mutex"

\* The current process is inside list_push_tail.
Pushing == current # Nil /\ pc[current] = "enq"

\* The lists are those of Q, or an unfinished push away from them.
Holding(Q) ==
    \E s : /\ Are(s, Q)
           /\ lists = IF Pushing
                      THEN Stage(s, target[current], Pushee(current), pushed[current])
                      ELSE s

\* A process between its push and process_switch is the last of its list.
BlockLast(Q) ==
    \A p \in Node : pc[p] = "block" =>
        Q[target[p]] # <<>> /\ Q[target[p]][Len(Q[target[p]])] = p

\* The invariant of the lists, and that of the variables beside them.
QueueInv(Q) == Holding(Q) /\ Placed(Q) /\ BlockLast(Q)

ControlInv == WindowsClosed /\ ChildrenKnown /\ Standing /\ IdleOwesNothing /\ MutexRetried

\* The queues after the second half of process_switch.
Dispatched(Q) == IF Q["ready"] = <<>> THEN Q ELSE Popped(Q, "ready")

\* The four lists.
LEMMA ListNames ==
    /\ {"ready", "clock", "mutex", "keyboard"} = List
    /\ "none" \notin List
BY KernelAssumption

\* process_switch's second half takes the first of ready_list.
LEMMA DispatchStep ==
    ASSUME NEW s, NEW Q, Are(s, Q), NEW st \in [Node -> PState], Dispatch(s, st)
    PROVE  /\ Are(lists', Dispatched(Q))
           /\ halted' = FALSE
           /\ Q["ready"] = <<>> => current' = Nil /\ state' = st
           /\ Q["ready"] # <<>> => /\ current' = Q["ready"][1] /\ current' \in Node
                                   /\ current' = Head(Q["ready"])
                                   /\ current' # Nil
                                   /\ On(Q, "ready", current')
                                   /\ state' = [st EXCEPT ![current'] = "RUNNING"]
                                   /\ \A m \in List, p \in Node :
                                        On(Dispatched(Q), m, p) <=> On(Q, m, p) /\ p # current'
<1>1. "ready" \in List /\ Distinct(Q) /\ Q \in Queues
  BY ListNames DEF Are
<1>2. CASE Q["ready"] = <<>>
  <2>1. s.head["ready"] = Nil
    BY <1>1, <1>2 DEF Are, IsChain
  <2> QED
    BY <1>2, <2>1 DEF Dispatch, Dispatched
<1>3. CASE Q["ready"] # <<>>
  <2>1. s.head["ready"] = Q["ready"][1] /\ Are(PopHead(s, "ready"), Popped(Q, "ready"))
    BY <1>1, <1>3, PopHeadAre
  <2>2. /\ Q["ready"][1] \in Node /\ Head(Q["ready"]) = Q["ready"][1]
        /\ On(Q, "ready", Q["ready"][1])
        /\ \A m \in List, p \in Node :
              On(Popped(Q, "ready"), m, p) <=> On(Q, m, p) /\ p # Q["ready"][1]
    BY <1>1, <1>3, PoppedFacts
  <2>3. Q["ready"][1] # Nil
    BY <2>2, NilAssumption
  <2> QED
    BY <1>3, <2>1, <2>2, <2>3 DEF Dispatch, Dispatched
<1> QED
  BY <1>2, <1>3

\* Whoever it is, everybody else stays where he was.
LEMMA DispatchPlaced ==
    ASSUME NEW s, NEW Q, Are(s, Q), NEW st \in [Node -> PState], Dispatch(s, st),
           NEW k, NEW to, NEW ch, NEW ow,
           \A p \in Node : k[p] \notin {"enq", "block"},
           PlacedOf(Q, Nil, st, k, to, ch), StandingOf(Nil, st, k, to, ch, ow)
    PROVE  /\ PlacedOf(Dispatched(Q), current', state', k, to, ch)
           /\ StandingOf(current', state', k, to, ch, ow)
           /\ current' = Nil => \A p \in Node : ~ow[p]
           /\ \A p \in Node : HomeOf(p, current', state', k, to, ch) = "mutex"
                                <=> HomeOf(p, Nil, st, k, to, ch) = "mutex"
<1>0. "ready" \in List /\ "none" \notin List
  BY ListNames
<1> DEFINE old(p) == HomeOf(p, Nil, st, k, to, ch)
           new(p) == HomeOf(p, current', state', k, to, ch)
<1>1. CASE Q["ready"] = <<>>
  <2>1. current' = Nil /\ state' = st /\ Dispatched(Q) = Q
    BY <1>1, DispatchStep DEF Dispatched
  <2>2. \A p \in Node : ~On(Q, "ready", p)
    <3>1. 1 .. Len(Q["ready"]) = {}
      BY <1>1
    <3> QED
      BY <3>1 DEF On
  <2>3. \A p \in Node : old(p) # "ready"
    BY <1>0, <2>2 DEF PlacedOf
  <2>4. \A p \in Node : ~ow[p]
    BY <2>3, NilAssumption DEF StandingOf
  <2> QED
    BY <2>1, <2>4
<1>2. CASE Q["ready"] # <<>>
  <2>1. /\ current' \in Node /\ On(Q, "ready", current')
        /\ state' = [st EXCEPT ![current'] = "RUNNING"] /\ current' # Nil
        /\ \A m \in List, p \in Node :
              On(Dispatched(Q), m, p) <=> On(Q, m, p) /\ p # current'
    BY <1>2, DispatchStep
  <2>2. old(current') = "ready"
    BY <1>0, <2>1 DEF PlacedOf
  <2>3. \A p \in Node : p # current' => new(p) = old(p)
    BY <2>1, NilAssumption DEF HomeOf
  <2>4. new(current') = "none"
    BY <2>1 DEF HomeOf
  <2>5. PlacedOf(Dispatched(Q), current', state', k, to, ch)
    <3> SUFFICES ASSUME NEW p \in Node, NEW l \in List
                 PROVE  On(Dispatched(Q), l, p) <=> l = new(p)
      BY DEF PlacedOf
    <3>1. On(Q, l, p) <=> l = old(p)
      BY DEF PlacedOf
    <3> HIDE DEF old, new
    <3> QED
      BY <1>0, <2>1, <2>2, <2>3, <2>4, <3>1
  <2>6. k[current'] \notin {"dead", "unborn"}
    BY <2>2 DEF HomeOf
  <2>7. StandingOf(current', state', k, to, ch, ow)
    <3> SUFFICES ASSUME NEW p \in Node
                 PROVE  /\ k[p] \in {"dead", "unborn"} => p # current'
                        /\ k[p] \in {"dead", "unborn"} \/ p = current' => state'[p] # "BLOCKED"
                        /\ new(p) = "keyboard" => p = Root
                        /\ ow[p] => p = current' \/ new(p) = "ready"
      BY DEF StandingOf
    <3> HIDE DEF old, new
    <3>1. /\ k[p] \in {"dead", "unborn"} => st[p] # "BLOCKED"
          /\ old(p) = "keyboard" => p = Root
          /\ ow[p] => old(p) = "ready"
      BY NilAssumption DEF StandingOf, old
    <3> QED
      BY <2>1, <2>3, <2>4, <2>6, <3>1
  <2>8. \A p \in Node : new(p) = "mutex" <=> old(p) = "mutex"
    BY <2>2, <2>3, <2>4
  <2> QED
    BY <2>1, <2>5, <2>7, <2>8
<1> QED
  BY <1>1, <1>2

-----------------------------------------------------------------------------
(***************************************************************************)
(* The steps that move no process.                                         *)
(***************************************************************************)

\* Steps that touch no list and move nobody.
LEMMA QuietStep ==
    ASSUME NEW Q, QueueInv(Q), lists' = lists, ~Pushing,
           Pushing' => pushed'[current'] = 0,
           \A p \in Node : Home(p)' = Home(p),
           \A p \in Node : pc'[p] = "block" => pc[p] = "block" /\ target'[p] = target[p]
    PROVE  QueueInv(Q)'
<1>1. Are(lists', Q)
  BY DEF QueueInv, Holding
<1>2. Holding(Q)'
  <2>1. CASE Pushing'
    BY <1>1, <2>1, StageSteps DEF Holding, Stage
  <2>2. CASE ~Pushing'
    BY <1>1, <2>2 DEF Holding
  <2> QED
    BY <2>1, <2>2
<1>3. Placed(Q)'
  <2> SUFFICES ASSUME NEW p \in Node, NEW l \in List
               PROVE  On(Q, l, p) <=> l = Home(p)'
    BY DEF Placed, PlacedOf, Home
  <2> QED
    BY DEF QueueInv, Placed, PlacedOf, Home
<1>4. BlockLast(Q)'
  BY DEF QueueInv, BlockLast
<1> QED
  BY <1>2, <1>3, <1>4 DEF QueueInv

\* What remains of the control invariant when nobody moves.
LEMMA QuietControl ==
    ASSUME Standing, MutexRetried, current' = current, locked' = locked,
           \A p \in Node : Home(p)' = Home(p),
           \A p \in Node : pc'[p] \in {"dead", "unborn"} => pc[p] = pc'[p],
           \A p \in Node : pc[p] = "lock" => pc'[p] = "lock",
           state' = state,
           \A p \in Node : owes'[p] => owes[p]
    PROVE  Standing' /\ MutexRetried'
<1>1. MutexRetried'
  BY DEF MutexRetried
<1>2. Standing'
  <2> SUFFICES ASSUME NEW p \in Node
               PROVE  /\ pc'[p] \in {"dead", "unborn"} => p # current'
                      /\ pc'[p] \in {"dead", "unborn"} \/ p = current' => state'[p] # "BLOCKED"
                      /\ Home(p)' = "keyboard" => p = Root
                      /\ owes'[p] => p = current' \/ Home(p)' = "ready"
    BY DEF Standing, StandingOf, Home
  <2> QED
    BY DEF Standing, StandingOf, Home
<1> QED
  BY <1>1, <1>2

\* With the invariant of the first part.
KernelInv == IInv /\ ControlInv


\* The values of pc.
Labels == {"user", "lock", "crit", "enq", "block", "slept", "spawn", "yield", "dead", "unborn"}

\* What the types say of the variables these proofs are about.
LEMMA Typed ==
    ASSUME KernelInv
    PROVE  /\ state \in [Node -> PState] /\ lists \in Links
           /\ pc \in [Node -> Labels] /\ target \in [Node -> List]
           /\ child \in [Node -> Ptr] /\ owes \in [Node -> BOOLEAN]
           /\ pushed \in [Node -> 0 .. PushSteps - 1]
           /\ current \in Ptr
BY DEF KernelInv, IInv, TypeOK, Labels

\* The process that runs goes on, and may be about to push itself on a queue.
LEMMA MoveOn ==
    ASSUME KernelInv, NEW Q, QueueInv(Q), NEW p \in Node, current = p, ~irq, ~owes[p],
           pc[p] \in {"user", "lock", "crit", "slept", "spawn"},
           NEW k \in {"user", "lock", "crit", "enq", "spawn"}, pc' = [pc EXCEPT ![p] = k],
           NEW l \in List, target' = [target EXCEPT ![p] = l],
           k = "enq" => l = "clock" \/ (l = "keyboard" /\ p = Root),
           UNCHANGED <<current, state, lists, pushed, child, owes, irq>>,
           ~locked' => ~locked /\ (pc[p] = "lock" => k = "lock")
    PROVE  ControlInv' /\ QueueInv(Q)'
<1>1. p # Nil /\ pc \in [Node -> Labels] /\ target \in [Node -> List]
  BY Typed, NilAssumption
<1>2. /\ pc'[p] = k /\ \A q \in Node : q # p => pc'[q] = pc[q]
      /\ target'[p] = l /\ \A q \in Node : q # p => target'[q] = target[q]
  BY <1>1
<1>3. child[p] = Nil /\ child' = child /\ pushed[p] = 0 /\ pushed' = pushed
  <2>1. pushed[p] \in 0 .. PushSteps - 1 /\ ~(pushed[p] > 0)
    BY Typed DEF KernelInv, ControlInv, WindowsClosed
  <2>2. pushed[p] = 0
    BY <2>1 DEF PushSteps
  <2> QED
    BY <2>2 DEF KernelInv, ControlInv, ChildrenKnown
<1>4. ASSUME NEW q \in Node
      PROVE  BeingStarted(q, pc', child') <=> BeingStarted(q, pc, child)
  BY <1>2, <1>3, NilAssumption DEF BeingStarted
<1>5. ASSUME NEW q \in Node PROVE Home(q)' = Home(q)
  BY <1>2, <1>4 DEF Home, HomeOf
<1>6. QueueInv(Q)'
  BY <1>1, <1>2, <1>3, <1>5, QuietStep DEF Pushing
<1>7. Standing'
  <2> SUFFICES ASSUME NEW q \in Node
               PROVE  /\ pc'[q] \in {"dead", "unborn"} => q # current'
                      /\ pc'[q] \in {"dead", "unborn"} \/ q = current' => state'[q] # "BLOCKED"
                      /\ Home(q)' = "keyboard" => q = Root
                      /\ owes'[q] => q = current' \/ Home(q)' = "ready"
    BY DEF Standing, StandingOf, Home
  <2> QED
    BY <1>2, <1>5 DEF KernelInv, ControlInv, Standing, StandingOf, Home
<1>8. MutexRetried'
  BY <1>2, <1>5 DEF KernelInv, ControlInv, MutexRetried
<1>9. WindowsClosed'
  BY <1>2, <1>3 DEF KernelInv, ControlInv, WindowsClosed
<1>10. IdleOwesNothing'
  BY DEF KernelInv, ControlInv, IdleOwesNothing
<1>11. ChildrenKnown'
  BY <1>2, <1>3, <1>4, ListNames DEF KernelInv, ControlInv, ChildrenKnown
<1> QED
  BY <1>6, <1>7, <1>8, <1>9, <1>10, <1>11 DEF ControlInv

\* The calls and steps of kernel code that touch no list.
QuietOf(p) ==
    \/ \E j \in {"read", "run"} : SysFile(p, j)
    \/ KeyboardRead(p) \/ ClockWaitLoop(p) \/ AtaWait(p) \/ SpawnFails(p)
    \/ MutexLock(p) /\ ~locked

\* Such a step leaves the queues alone.
LEMMA QuietOfQ ==
    ASSUME KernelInv, NEW Q, QueueInv(Q), NEW p \in Node, QuietOf(p)
    PROVE  ControlInv' /\ QueueInv(Q)'
<1> USE DEF At, Goto, Stay, clockVars, procVars
<1>0. target[p] \in List /\ target = [target EXCEPT ![p] = target[p]] /\ pc = [pc EXCEPT ![p] = pc[p]]
  BY Typed
<1>1. CASE \E j \in {"read", "run"} : SysFile(p, j)
  <2> PICK j \in {"read", "run"} : SysFile(p, j)
    BY <1>1
  <2>1. /\ current = p /\ ~irq /\ ~owes[p] /\ pc[p] = "user"
        /\ target' = [target EXCEPT ![p] = target[p]] /\ pc' = [pc EXCEPT ![p] = "lock"]
        /\ UNCHANGED <<current, state, lists, pushed, child, owes, irq, locked>>
    BY <1>0 DEF SysFile
  <2> QED
    BY <1>0, <2>1, MoveOn
<1>2. CASE KeyboardRead(p)
  <2>1. CASE keys
    BY <1>0, <1>2, <2>1, MoveOn DEF KeyboardRead
  <2>2. CASE ~keys
    BY <1>0, <1>2, <2>2, MoveOn, ListNames DEF KeyboardRead
  <2> QED
    BY <2>1, <2>2
<1>3. CASE ClockWaitLoop(p)
  <2>1. CASE MustWaitMore(p)
    BY <1>0, <1>3, <2>1, MoveOn, ListNames DEF ClockWaitLoop
  <2>2. CASE ~MustWaitMore(p)
    <3>1. CASE holds[p]
      BY <1>0, <1>3, <2>2, <3>1, MoveOn DEF ClockWaitLoop
    <3>2. CASE ~holds[p]
      BY <1>0, <1>3, <2>2, <3>2, MoveOn DEF ClockWaitLoop
    <3> QED
      BY <3>1, <3>2
  <2> QED
    BY <2>1, <2>2
<1>4. CASE AtaWait(p)
  BY <1>4, MoveOn, ListNames DEF AtaWait
<1>5. CASE SpawnFails(p)
  BY <1>0, <1>5, MoveOn DEF SpawnFails
<1>6. CASE MutexLock(p) /\ ~locked
  BY <1>0, <1>6, MoveOn DEF MutexLock
<1> QED
  BY <1>1, <1>2, <1>3, <1>4, <1>5, <1>6 DEF QuietOf

\* sys_run has created the child; nobody can find it yet.
LEMMA SpawnQ ==
    ASSUME KernelInv, NEW Q, QueueInv(Q), NEW p \in Node, NEW c \in Node, Spawn(p, c)
    PROVE  ControlInv' /\ QueueInv(Q)'
<1>1. /\ current = p /\ ~irq /\ ~owes[p] /\ pc[p] = "spawn" /\ pc[c] = "unborn"
      /\ child' = [child EXCEPT ![p] = c] /\ target' = [target EXCEPT ![p] = "ready"]
      /\ pc' = [pc EXCEPT ![p] = "enq", ![c] = "user"]
      /\ UNCHANGED <<current, state, lists, pushed, owes, irq, locked>>
  BY DEF Spawn, At, Stay, clockVars
<1>2. /\ p # Nil /\ c # Nil /\ c # p
      /\ pc \in [Node -> Labels] /\ target \in [Node -> List] /\ child \in [Node -> Ptr]
  BY <1>1, Typed, NilAssumption
<1>3. /\ pc'[p] = "enq" /\ pc'[c] = "user"
      /\ \A q \in Node \ {p, c} : pc'[q] = pc[q]
      /\ target'[p] = "ready" /\ \A q \in Node \ {p} : target'[q] = target[q]
      /\ child'[p] = c /\ \A q \in Node \ {p} : child'[q] = child[q]
  BY <1>1, <1>2, ListNames DEF Ptr
<1>4. /\ child[p] = Nil /\ pushed[p] = 0 /\ state[c] # "BLOCKED"
      /\ \A q \in Node : ~BeingStarted(q, pc, child)
      /\ \A q \in Node : pc[q] # "enq" /\ pc[q] # "block"
  <2>1. pushed[p] \in 0 .. PushSteps - 1 /\ ~(pushed[p] > 0)
    BY <1>1, Typed DEF KernelInv, ControlInv, WindowsClosed
  <2>2. pushed[p] = 0
    BY <2>1 DEF PushSteps
  <2>3. \A q \in Node : pc[q] # "enq" /\ pc[q] # "block"
    BY <1>1 DEF KernelInv, ControlInv, WindowsClosed
  <2>4. child[p] = Nil
    BY <1>1 DEF KernelInv, ControlInv, ChildrenKnown
  <2>5. state[c] # "BLOCKED"
    BY <1>1 DEF KernelInv, ControlInv, Standing, StandingOf
  <2> QED
    BY <2>2, <2>3, <2>4, <2>5 DEF BeingStarted
<1>5. ASSUME NEW q \in Node
      PROVE  BeingStarted(q, pc', child') <=> q = c
  BY <1>3, <1>4 DEF BeingStarted
<1>6. ASSUME NEW q \in Node PROVE Home(q)' = Home(q)
  <2>1. CASE q = c
    BY <1>1, <1>5, <2>1 DEF Home, HomeOf
  <2>2. CASE q = p
    BY <1>1, <1>2, <1>3, <1>4, <1>5, <2>2 DEF Home, HomeOf
  <2>3. CASE q # c /\ q # p
    BY <1>1, <1>3, <1>4, <1>5, <2>3 DEF Home, HomeOf
  <2> QED
    BY <2>1, <2>2, <2>3
<1>7. QueueInv(Q)'
  BY <1>1, <1>2, <1>3, <1>4, <1>6, QuietStep DEF Pushing
<1>8. Standing' /\ MutexRetried'
  <2>1. \A q \in Node : pc'[q] \in {"dead", "unborn"} => pc[q] = pc'[q]
    BY <1>3
  <2>2. \A q \in Node : pc[q] = "lock" => pc'[q] = "lock"
    BY <1>1, <1>3
  <2> QED
    BY <1>1, <1>6, <2>1, <2>2, QuietControl DEF KernelInv, ControlInv
<1>9. WindowsClosed'
  <2> SUFFICES ASSUME NEW q \in Node
               PROVE  /\ pc'[q] \in {"enq", "block"} => q = current' /\ ~irq' /\ ~owes'[q]
                      /\ pushed'[q] > 0 => pc'[q] = "enq"
                      /\ pc'[q] = "enq" => target'[q] \in {"ready", "clock", "keyboard"}
                      /\ pc'[q] = "block" => target'[q] \in {"clock", "keyboard"}
                      /\ pc'[q] \in {"enq", "block"} /\ target'[q] = "keyboard" => q = Root
    BY DEF WindowsClosed
  <2>1. pushed'[q] > 0 => pc[q] = "enq"
    BY <1>1 DEF KernelInv, ControlInv, WindowsClosed
  <2> QED
    BY <1>1, <1>3, <1>4, <2>1
<1>10. IdleOwesNothing'
  BY <1>1, <1>2 DEF IdleOwesNothing
<1>11. ChildrenKnown'
  <2> SUFFICES ASSUME NEW q \in Node
               PROVE  /\ child'[q] # Nil => pc'[q] \in {"enq", "yield"}
                      /\ pc'[q] = "enq" => (child'[q] # Nil <=> target'[q] = "ready")
                      /\ BeingStarted(q, pc', child') =>
                           pc'[q] = "user" /\ q # current' /\ state'[q] # "BLOCKED"
    BY DEF ChildrenKnown
  <2>1. child[q] # Nil => pc[q] \in {"enq", "yield"}
    BY DEF KernelInv, ControlInv, ChildrenKnown
  <2> QED
    BY <1>1, <1>2, <1>3, <1>4, <1>5, <2>1
<1> QED
  BY <1>7, <1>8, <1>9, <1>10, <1>11 DEF ControlInv

\* The interrupt controller, and the idle loop.
LEMMA SignalQ ==
    ASSUME KernelInv, Unprotected = FALSE, NEW Q, QueueInv(Q),
           \/ ClockInterrupt
           \/ Halt
           \/ \E p \in Node : InterruptReturn(p)
           \/ UNCHANGED vars
    PROVE  ControlInv' /\ QueueInv(Q)'
<1>1. /\ UNCHANGED <<current, state, lists, pc, pushed, target, child, locked>>
      /\ \A p \in Node : owes'[p] => owes[p]
      /\ ~Pushing \/ irq' = irq
      /\ irq' => irq \/ ~InWindow
  <2>1. CASE ClockInterrupt
    BY <2>1 DEF ClockInterrupt, Deliverable, InWindow, Pushing, Stay
  <2>2. CASE Halt
    BY <2>2 DEF Halt, procVars, clockVars
  <2>3. CASE \E p \in Node : InterruptReturn(p)
    BY <2>3, Typed DEF InterruptReturn, Stay, procVars
  <2>4. CASE UNCHANGED vars
    BY <2>4 DEF vars, procVars, clockVars
  <2> QED
    BY <2>1, <2>2, <2>3, <2>4
<1>2. ASSUME NEW q \in Node PROVE Home(q)' = Home(q)
  BY <1>1 DEF Home
<1>3. QueueInv(Q)'
  BY <1>1 DEF QueueInv, Holding, Placed, BlockLast, Pushing, Pushee
<1>4. Standing' /\ MutexRetried'
  BY <1>1, <1>2, QuietControl DEF KernelInv, ControlInv
<1>5. WindowsClosed'
  <2>1. \A q \in Node : pc[q] \in {"enq", "block"} => InWindow
    BY NilAssumption DEF KernelInv, ControlInv, WindowsClosed, InWindow
  <2> QED
    BY <1>1, <2>1 DEF KernelInv, ControlInv, WindowsClosed
<1>6. IdleOwesNothing'
  BY <1>1 DEF KernelInv, ControlInv, IdleOwesNothing
<1>7. ChildrenKnown'
  BY <1>1 DEF KernelInv, ControlInv, ChildrenKnown
<1> QED
  BY <1>3, <1>4, <1>5, <1>6, <1>7 DEF ControlInv

-----------------------------------------------------------------------------
(***************************************************************************)
(* list_push_tail with interrupts enabled.                                 *)
(***************************************************************************)

\* The node being pushed is on no list yet.
LEMMA PusheeFree ==
    ASSUME KernelInv, NEW Q, Placed(Q), NEW p \in Node, current = p, pc[p] = "enq"
    PROVE  /\ Pushee(p) \in Node /\ target[p] \in List
           /\ Free(Q, Pushee(p))
           /\ target[p] = "ready" => Pushee(p) = child[p] /\ child[p] \in Node
           /\ target[p] # "ready" => Pushee(p) = p /\ child[p] = Nil
<1>1. target[p] = "ready" => child[p] \in Node
  BY DEF KernelInv, IInv, PushHasNode
<1>2. target[p] # "ready" => child[p] = Nil
  BY DEF KernelInv, ControlInv, ChildrenKnown
<1>3. Home(Pushee(p)) = "none"
  <2>1. CASE target[p] = "ready"
    BY <1>1, <2>1 DEF Home, HomeOf, BeingStarted, Pushee
  <2>2. CASE target[p] # "ready"
    BY <2>2 DEF Home, HomeOf, Pushee
  <2> QED
    BY <2>1, <2>2
<1>4. Pushee(p) \in Node
  BY <1>1 DEF Pushee
<1>5. Free(Q, Pushee(p))
  BY <1>3, <1>4, ListNames DEF Placed, PlacedOf, Free, Home
<1> QED
  BY <1>1, <1>2, <1>4, <1>5, Typed DEF Pushee

\* The first three statements of list_push_tail show nobody the new node.
LEMMA EnqueueEarlyQ ==
    ASSUME KernelInv, NEW Q, QueueInv(Q), NEW p \in Node, Enqueue(p), pushed[p] < PushSteps - 1
    PROVE  ControlInv' /\ QueueInv(Q)'
<1>1. /\ current = p /\ ~irq /\ ~owes[p] /\ pc[p] = "enq"
      /\ lists' = PushStep(lists, target[p], Pushee(p), pushed[p])
      /\ pushed' = [pushed EXCEPT ![p] = pushed[p] + 1]
      /\ UNCHANGED <<current, state, pc, target, child, locked, owes, irq>>
  BY DEF Enqueue, At, Stay, clockVars
<1>2. pushed \in [Node -> 0 .. PushSteps - 1] /\ pushed[p] \in 0 .. 2 /\ p # Nil
  BY Typed, NilAssumption DEF PushSteps
<1>3. \A q \in Node : pushed'[q] = IF q = p THEN pushed[p] + 1 ELSE pushed[q]
  BY <1>1, <1>2
<1>4. PICK s : Are(s, Q) /\ lists = Stage(s, target[p], Pushee(p), pushed[p])
  BY <1>1, <1>2 DEF QueueInv, Holding, Pushing
<1>5. lists' = Stage(s, target[p], Pushee(p), pushed[p] + 1)
  BY <1>1, <1>2, <1>4, StageSteps DEF PushSteps
<1>6. Holding(Q)'
  <2>1. Pushing' /\ Pushee(current)' = Pushee(p) /\ target'[current'] = target[p]
        /\ pushed'[current'] = pushed[p] + 1
    BY <1>1, <1>2, <1>3 DEF Pushing, Pushee
  <2> QED
    BY <1>4, <1>5, <2>1 DEF Holding
<1>7. ASSUME NEW q \in Node PROVE Home(q)' = Home(q)
  BY <1>1 DEF Home
<1>8. QueueInv(Q)'
  BY <1>1, <1>6 DEF QueueInv, Placed, BlockLast
<1>9. Standing' /\ MutexRetried'
  BY <1>1, <1>7, QuietControl DEF KernelInv, ControlInv
<1>10. WindowsClosed' /\ IdleOwesNothing'
  BY <1>1, <1>3 DEF KernelInv, ControlInv, WindowsClosed, IdleOwesNothing
<1>11. ChildrenKnown'
  BY <1>1 DEF KernelInv, ControlInv, ChildrenKnown
<1> QED
  BY <1>8, <1>9, <1>10, <1>11 DEF ControlInv

\* The last one completes the push.
LEMMA EnqueueLastQ ==
    ASSUME KernelInv, NEW Q, QueueInv(Q), NEW p \in Node, Enqueue(p), ~(pushed[p] < PushSteps - 1),
           NEW l, l = target[p], NEW n, n = Pushee(p)
    PROVE  ControlInv' /\ QueueInv(Pushed(Q, l, n))'
<1> DEFINE R == Pushed(Q, l, n)
<1>1. /\ current = p /\ ~irq /\ ~owes[p] /\ pc[p] = "enq"
      /\ lists' = PushStep(lists, l, n, pushed[p])
      /\ pushed' = [pushed EXCEPT ![p] = 0]
      /\ pc' = [pc EXCEPT ![p] = IF l = "ready" THEN "yield" ELSE "block"]
      /\ UNCHANGED <<current, state, target, child, locked, owes, irq>>
  BY DEF Enqueue, At, Stay, clockVars, Goto
<1>2. pushed \in [Node -> 0 .. PushSteps - 1] /\ pushed[p] = 3 /\ p # Nil
  BY Typed, NilAssumption DEF PushSteps
<1>3. /\ n \in Node /\ l \in List /\ Free(Q, n)
      /\ l = "ready" => n = child[p] /\ child[p] \in Node
      /\ l # "ready" => n = p /\ child[p] = Nil
  BY <1>1, PusheeFree DEF QueueInv
<1>4. /\ pc'[p] = IF l = "ready" THEN "yield" ELSE "block"
      /\ \A q \in Node \ {p} : pc'[q] = pc[q]
      /\ \A q \in Node \ {p} : pc[q] # "enq" /\ pc[q] # "block"
      /\ \A q \in Node : pc'[q] # "enq"
      /\ \A q \in Node \ {p} : pushed'[q] = pushed[q]
      /\ pushed'[p] = 0
  BY <1>1, <1>2, Typed DEF KernelInv, ControlInv, WindowsClosed
<1> HIDE DEF R
<1>5. PICK s : Are(s, Q) /\ lists = Stage(s, l, n, pushed[p])
  BY <1>1, <1>2 DEF QueueInv, Holding, Pushing
<1>6. lists' = PushTail(s, l, n)
  BY <1>1, <1>2, <1>5, StageSteps DEF PushSteps
<1>7. Are(lists', R)
  BY <1>3, <1>5, <1>6, PushTailAre DEF R
<1>8. ASSUME NEW q \in Node
      PROVE  /\ BeingStarted(q, pc, child) => q = n /\ l = "ready"
             /\ ~BeingStarted(q, pc', child')
  BY <1>1, <1>3, <1>4, NilAssumption DEF BeingStarted
<1>9. ASSUME NEW q \in Node, q # n PROVE Home(q)' = Home(q)
  <2>1. ~BeingStarted(q, pc, child) /\ ~BeingStarted(q, pc', child')
    BY <1>8, <1>9
  <2>2. CASE q = p
    BY <1>1, <1>3, <1>4, <1>9, <2>1, <2>2 DEF Home, HomeOf
  <2>3. CASE q # p
    BY <1>1, <1>4, <2>1, <2>3 DEF Home, HomeOf
  <2> QED
    BY <2>2, <2>3
<1>10. Home(n)' = l
  <2>1. ~BeingStarted(n, pc', child')
    BY <1>3, <1>8
  <2>2. CASE l = "ready"
    <3>1. BeingStarted(n, pc, child)
      BY <1>1, <1>3, <2>2 DEF BeingStarted
    <3>2. pc[n] = "user" /\ n # current /\ state[n] # "BLOCKED"
      BY <1>3, <3>1 DEF KernelInv, ControlInv, ChildrenKnown
    <3> QED
      BY <1>1, <1>3, <1>4, <2>1, <2>2, <3>2 DEF Home, HomeOf
  <2>3. CASE l # "ready"
    BY <1>1, <1>3, <1>4, <2>1, <2>3 DEF Home, HomeOf
  <2> QED
    BY <2>2, <2>3
<1>11. Home(n) = "none"
  BY <1>1, <1>3, ListNames DEF Home, HomeOf, BeingStarted
<1>12. Distinct(Q) /\ Q \in Queues
  BY <1>5 DEF Are
<1>13. \A m \in List, q \in Node : On(R, m, q) <=> On(Q, m, q) \/ (m = l /\ q = n)
  BY <1>3, <1>12, PushedFacts DEF R
<1>14. Placed(R)'
  <2> SUFFICES ASSUME NEW q \in Node, NEW m \in List
               PROVE  On(R, m, q) <=> m = Home(q)'
    BY <1>1 DEF Placed, PlacedOf, Home, R
  <2>1. On(Q, m, q) <=> m = Home(q)
    BY DEF QueueInv, Placed, PlacedOf, Home
  <2> QED
    BY <1>9, <1>10, <1>11, <1>13, <2>1, ListNames
<1>15. BlockLast(R)'
  <2>1. R[l] = Append(Q[l], n) /\ Q[l] \in Seq(Node)
    BY <1>3, <1>12 DEF R, Pushed, Queues
  <2>2. R[l] # <<>> /\ R[l][Len(R[l])] = n
    <3>1. Len(Q[l]) \in Nat
      BY <2>1
    <3> QED
      BY <1>3, <2>1, <3>1, AppendFacts
  <2> SUFFICES ASSUME NEW q \in Node, pc'[q] = "block"
               PROVE  R[target'[q]] # <<>> /\ R[target'[q]][Len(R[target'[q]])] = q
    BY <1>1 DEF BlockLast, R
  <2>3. q = p /\ l # "ready" /\ n = p /\ target'[q] = l
    BY <1>1, <1>3, <1>4
  <2> QED
    BY <2>2, <2>3
<1>16. QueueInv(R)'
  <2>1. ~Pushing'
    BY <1>1, <1>4 DEF Pushing
  <2>2. Holding(R)'
    BY <1>1, <1>7, <2>1 DEF Holding, R
  <2> QED
    BY <1>1, <1>14, <1>15, <2>2 DEF QueueInv, R
<1>17. Standing'
  <2> SUFFICES ASSUME NEW q \in Node
               PROVE  /\ pc'[q] \in {"dead", "unborn"} => q # current'
                      /\ pc'[q] \in {"dead", "unborn"} \/ q = current' => state'[q] # "BLOCKED"
                      /\ Home(q)' = "keyboard" => q = Root
                      /\ owes'[q] => q = current' \/ Home(q)' = "ready"
    BY DEF Standing, StandingOf, Home
  <2>1. /\ pc[q] \in {"dead", "unborn"} => q # current
        /\ pc[q] \in {"dead", "unborn"} \/ q = current => state[q] # "BLOCKED"
        /\ Home(q) = "keyboard" => q = Root
        /\ owes[q] => q = current \/ Home(q) = "ready"
    BY DEF KernelInv, ControlInv, Standing, StandingOf, Home
  <2>2. l = "keyboard" => p = Root
    BY <1>1 DEF KernelInv, ControlInv, WindowsClosed
  <2> QED
    BY <1>1, <1>3, <1>4, <1>9, <1>10, <1>11, <2>1, <2>2
<1>18. MutexRetried'
  <2>1. l # "mutex"
    BY <1>1 DEF KernelInv, ControlInv, WindowsClosed
  <2>2. \A q \in Node : Home(q)' = "mutex" <=> Home(q) = "mutex"
    BY <1>9, <1>10, <1>11, <2>1
  <2>3. \A q \in Node : pc[q] = "lock" => pc'[q] = "lock"
    BY <1>1, <1>4
  <2> QED
    BY <1>1, <2>2, <2>3 DEF KernelInv, ControlInv, MutexRetried
<1>19. WindowsClosed' /\ IdleOwesNothing'
  <2>1. l = "ready" \/ (l \in {"clock", "keyboard"} /\ (l = "keyboard" => p = Root))
    BY <1>1 DEF KernelInv, ControlInv, WindowsClosed
  <2>2. \A q \in Node : pushed'[q] > 0 => pc'[q] = "enq"
    BY <1>4 DEF KernelInv, ControlInv, WindowsClosed
  <2> QED
    BY <1>1, <1>2, <1>4, <2>1, <2>2 DEF KernelInv, ControlInv, WindowsClosed, IdleOwesNothing
<1>20. ChildrenKnown'
  <2> SUFFICES ASSUME NEW q \in Node
               PROVE  child'[q] # Nil => pc'[q] \in {"enq", "yield"}
    BY <1>4, <1>8 DEF ChildrenKnown
  <2> QED
    BY <1>1, <1>3, <1>4 DEF KernelInv, ControlInv, ChildrenKnown
<1> QED
  BY <1>1, <1>16, <1>17, <1>18, <1>19, <1>20 DEF ControlInv, R

-----------------------------------------------------------------------------
(***************************************************************************)
(* process_switch.                                                         *)
(***************************************************************************)

\* Nobody is in a window: no child is half started.
LEMMA NoneStarted ==
    ASSUME NEW k, NEW ch, \A q \in Node : k[q] # "enq"
    PROVE  \A q \in Node : ~BeingStarted(q, k, ch)
BY DEF BeingStarted

\* Once nobody runs and everybody is placed, process_switch chooses.
LEMMA AfterDispatch ==
    ASSUME NEW s, NEW R, Are(s, R), NEW st \in [Node -> PState], Dispatch(s, st),
           \A q \in Node : /\ pc'[q] \notin {"enq", "block"} /\ ~(pushed'[q] > 0)
                           /\ child'[q] # Nil => pc'[q] = "yield",
           PlacedOf(R, Nil, st, pc', target', child'),
           StandingOf(Nil, st, pc', target', child', owes'),
           ~locked' /\ (\E q \in Node : HomeOf(q, Nil, st, pc', target', child') = "mutex") =>
               \E q \in Node : pc'[q] = "lock" /\ HomeOf(q, Nil, st, pc', target', child') # "mutex"
    PROVE  ControlInv' /\ QueueInv(Dispatched(R))'
<1>1. /\ PlacedOf(Dispatched(R), current', state', pc', target', child')
      /\ StandingOf(current', state', pc', target', child', owes')
      /\ current' = Nil => \A p \in Node : ~owes'[p]
      /\ \A p \in Node : HomeOf(p, current', state', pc', target', child') = "mutex"
                           <=> HomeOf(p, Nil, st, pc', target', child') = "mutex"
  BY DispatchPlaced
<1>2. Are(lists', Dispatched(R)) /\ current' \in Ptr
  BY DispatchStep DEF Ptr
<1>3. \A q \in Node : ~BeingStarted(q, pc', child')
  BY NoneStarted
<1>4. ~Pushing'
  BY <1>2 DEF Pushing, Ptr
<1>5. QueueInv(Dispatched(R))'
  BY <1>1, <1>2, <1>4 DEF QueueInv, Holding, Placed, BlockLast
<1>6. Standing' /\ IdleOwesNothing'
  BY <1>1 DEF Standing, IdleOwesNothing
<1>7. MutexRetried'
  BY <1>1 DEF MutexRetried, Home
<1>8. WindowsClosed' /\ ChildrenKnown'
  BY <1>3 DEF WindowsClosed, ChildrenKnown
<1> QED
  BY <1>5, <1>6, <1>7, <1>8 DEF ControlInv

\* The process that runs leaves the processor, in state ns, and is on l.
LEMMA Leave ==
    ASSUME KernelInv, NEW Q, QueueInv(Q), NEW p \in Node, current = p, pc[p] # "enq",
           NEW ns \in PState, NEW s, NEW R, Are(s, R),
           Dispatch(s, [state EXCEPT ![p] = ns]),
           NEW k \in Labels \ {"enq", "block", "unborn"},
           pc'[p] = k, \A q \in Node \ {p} : pc'[q] = pc[q],
           NEW l,
           l = IF k = "dead" THEN "none" ELSE IF ns # "BLOCKED" THEN "ready"
               ELSE IF k = "slept" THEN "clock" ELSE IF k = "lock" THEN "mutex" ELSE "keyboard",
           \/ pc[p] # "block" /\ l \in List /\ R = Pushed(Q, l, p)
           \/ pc[p] # "block" /\ l = "none" /\ R = Q
           \/ pc[p] = "block" /\ l = target[p] /\ R = Q,
           k = "dead" => ns # "BLOCKED", l = "keyboard" => p = Root,
           pushed' = pushed, locked' = locked,
           \A q \in Node \ {p} : child'[q] = child[q],
           child'[p] # Nil => k = "yield",
           l = "mutex" => locked, pc[p] = "lock" => k = "lock",
           \A q \in Node \ {p} : owes'[q] = owes[q],
           owes'[p] => l = "ready"
    PROVE  ControlInv' /\ QueueInv(Dispatched(R))'
<1> DEFINE st == [state EXCEPT ![p] = ns]
           mid(q) == HomeOf(q, Nil, st, pc', target', child')
<1>1. /\ state \in [Node -> PState] /\ pc \in [Node -> Labels] /\ p # Nil
  BY Typed, NilAssumption
<1>2. /\ st \in [Node -> PState] /\ st[p] = ns
      /\ \A q \in Node \ {p} : st[q] = state[q]
      /\ pc'[p] = k /\ \A q \in Node \ {p} : pc'[q] = pc[q]
  BY <1>1
<1>3. \A q \in Node \ {p} : pc[q] # "enq" /\ pc[q] # "block"
  BY DEF KernelInv, ControlInv, WindowsClosed
<1>4. \A q \in Node : ~BeingStarted(q, pc, child) /\ ~BeingStarted(q, pc', child')
  BY <1>2, <1>3 DEF BeingStarted
<1> HIDE DEF st
<1>5. ASSUME NEW q \in Node, q # p PROVE mid(q) = Home(q)
  BY <1>1, <1>2, <1>4, <1>5, NilAssumption DEF Home, HomeOf
<1>6. mid(p) = l
  BY <1>1, <1>2, <1>4, NilAssumption DEF HomeOf
<1>7. Home(p) = IF pc[p] = "block" THEN target[p] ELSE "none"
  BY <1>4 DEF Home, HomeOf
<1> HIDE DEF mid
<1>8. \A q \in Node, m \in List : On(Q, m, q) <=> m = Home(q)
  BY DEF QueueInv, Placed, PlacedOf, Home
<1>9. \A q \in Node, m \in List : On(R, m, q) <=> On(Q, m, q) \/ (m = l /\ q = p)
  <2>1. CASE pc[p] # "block" /\ l \in List /\ R = Pushed(Q, l, p)
    <3>1. Free(Q, p)
      BY <1>7, <1>8, <2>1, ListNames DEF Free
    <3>2. Q \in Queues /\ Distinct(Q)
      BY DEF QueueInv, Holding, Are
    <3> QED
      BY <2>1, <3>1, <3>2, PushedFacts
  <2>2. CASE l = "none" /\ R = Q
    BY <2>2, ListNames
  <2>3. CASE pc[p] = "block" /\ l = target[p] /\ R = Q
    BY <1>7, <1>8, <2>3
  <2> QED
    BY <2>1, <2>2, <2>3
<1>10. PlacedOf(R, Nil, st, pc', target', child')
  <2> SUFFICES ASSUME NEW q \in Node, NEW m \in List
               PROVE  On(R, m, q) <=> m = mid(q)
    BY DEF PlacedOf, mid
  <2> QED
    BY <1>5, <1>6, <1>7, <1>8, <1>9, ListNames
<1>11. StandingOf(Nil, st, pc', target', child', owes')
  <2> SUFFICES ASSUME NEW q \in Node
               PROVE  /\ pc'[q] \in {"dead", "unborn"} => q # Nil
                      /\ pc'[q] \in {"dead", "unborn"} \/ q = Nil => st[q] # "BLOCKED"
                      /\ mid(q) = "keyboard" => q = Root
                      /\ owes'[q] => q = Nil \/ mid(q) = "ready"
    BY DEF StandingOf, mid
  <2>1. /\ pc[q] \in {"dead", "unborn"} => state[q] # "BLOCKED"
        /\ Home(q) = "keyboard" => q = Root
        /\ owes[q] => q = current \/ Home(q) = "ready"
    BY DEF KernelInv, ControlInv, Standing, StandingOf, Home
  <2>2. q # Nil
    BY NilAssumption
  <2> QED
    BY <1>2, <1>5, <1>6, <2>1, <2>2
<1>12. ~locked' /\ (\E q \in Node : mid(q) = "mutex") =>
          \E q \in Node : pc'[q] = "lock" /\ mid(q) # "mutex"
  <2> SUFFICES ASSUME ~locked, NEW q \in Node, mid(q) = "mutex"
               PROVE  \E r \in Node : pc'[r] = "lock" /\ mid(r) # "mutex"
    OBVIOUS
  <2>1. q # p /\ Home(q) = "mutex"
    BY <1>5, <1>6
  <2>2. PICK r \in Node : pc[r] = "lock" /\ Home(r) # "mutex"
    BY <2>1 DEF KernelInv, ControlInv, MutexRetried
  <2> QED
    BY <1>2, <1>5, <1>6, <2>2
<1>13. \A q \in Node : /\ pc'[q] \notin {"enq", "block"} /\ ~(pushed'[q] > 0)
                       /\ child'[q] # Nil => pc'[q] = "yield"
  <2> SUFFICES ASSUME NEW q \in Node
               PROVE  /\ pc'[q] \notin {"enq", "block"} /\ ~(pushed'[q] > 0)
                      /\ child'[q] # Nil => pc'[q] = "yield"
    OBVIOUS
  <2>1. /\ pushed[q] > 0 => pc[q] = "enq"
        /\ child[q] # Nil => pc[q] \in {"enq", "yield"}
    BY DEF KernelInv, ControlInv, WindowsClosed, ChildrenKnown
  <2> QED
    BY <1>2, <1>3, <2>1
<1> QED
  BY <1>2, <1>10, <1>11, <1>12, <1>13, AfterDispatch DEF st, mid

\* The running process that is in no window is on no list.
LEMMA CurrentFree ==
    ASSUME NEW Q, QueueInv(Q), NEW p \in Node, current = p, pc[p] \notin {"enq", "block"}
    PROVE  /\ Are(lists, Q) /\ Free(Q, p)
           /\ \A l \in List : Are(PushTail(lists, l, p), Pushed(Q, l, p))
<1>1. Are(lists, Q)
  BY DEF QueueInv, Holding, Pushing
<1>2. Home(p) = "none"
  BY DEF Home, HomeOf
<1>3. Free(Q, p)
  BY <1>2, ListNames DEF QueueInv, Placed, PlacedOf, Free, Home
<1> QED
  BY <1>1, <1>3, PushTailAre

\* The running process goes to the end of ready_list.
LEMMA Rotation ==
    ASSUME KernelInv, NEW Q, QueueInv(Q), NEW p \in Node, current = p,
           NEW k \in Labels \ {"enq", "block", "unborn", "dead"},
           pc'[p] = k, \A q \in Node \ {p} : pc'[q] = pc[q],
           pc[p] \notin {"enq", "block"}, pc[p] = "lock" => k = "lock",
           Dispatch(PushTail(lists, "ready", p), [state EXCEPT ![p] = "READY"]),
           pushed' = pushed, locked' = locked,
           \A q \in Node \ {p} : child'[q] = child[q] /\ owes'[q] = owes[q],
           child'[p] # Nil => k = "yield"
    PROVE  ControlInv' /\ QueueInv(Dispatched(Pushed(Q, "ready", p)))'
<1> DEFINE l == "ready"
           s == PushTail(lists, l, p)
           R == Pushed(Q, l, p)
           ns == "READY"
<1>1. l \in List /\ Are(s, R)
  BY CurrentFree, ListNames
<1>2. /\ ns \in PState
      /\ l = IF k = "dead" THEN "none" ELSE IF ns # "BLOCKED" THEN "ready"
             ELSE IF k = "slept" THEN "clock" ELSE IF k = "lock" THEN "mutex" ELSE "keyboard"
      /\ l # "keyboard" /\ l # "mutex" /\ l = "ready"
  BY DEF PState
<1>3. Dispatch(s, [state EXCEPT ![p] = ns]) /\ R = Pushed(Q, l, p)
  OBVIOUS
<1>4. /\ k \in Labels \ {"enq", "block", "unborn"} /\ pc[p] # "enq" /\ pc[p] # "block"
      /\ \A q \in Node \ {p} : child'[q] = child[q]
      /\ \A q \in Node \ {p} : owes'[q] = owes[q]
  OBVIOUS
<1> HIDE DEF l, s, R, ns
<1>5. ControlInv' /\ QueueInv(Dispatched(R))'
  BY <1>1, <1>2, <1>3, <1>4, Leave
<1> QED
  BY <1>5 DEF R, l

\* process_yield, from a program and from sys_run.
LEMMA YieldQ ==
    ASSUME KernelInv, NEW Q, QueueInv(Q), NEW p \in Node, SysYield(p) \/ RunYield(p)
    PROVE  ControlInv' /\ QueueInv(Dispatched(Pushed(Q, "ready", p)))'
<1>1. /\ current = p /\ pc[p] \in {"user", "yield"} /\ pc'[p] = "user"
      /\ \A q \in Node \ {p} : pc'[q] = pc[q]
      /\ Dispatch(PushTail(lists, "ready", p), [state EXCEPT ![p] = "READY"])
      /\ pushed' = pushed /\ locked' = locked /\ owes' = owes
      /\ \A q \in Node \ {p} : child'[q] = child[q]
      /\ child'[p] = Nil
  <2>1. CASE SysYield(p)
    <3>1. pc = [pc EXCEPT ![p] = "user"] /\ child[p] = Nil
      BY <2>1, Typed DEF SysYield, At, KernelInv, ControlInv, ChildrenKnown
    <3> QED
      BY <2>1, <3>1 DEF SysYield, At, Switch, procVars, clockVars
  <2>2. CASE RunYield(p)
    BY <2>2, Typed DEF RunYield, At, Goto, Switch, clockVars
  <2> QED
    BY <2>1, <2>2
<1>2. "user" \in Labels \ {"enq", "block", "unborn", "dead"}
  BY DEF Labels
<1> QED
  BY <1>1, <1>2, Rotation

\* process_wait with interrupts disabled, from sys_sleep and from mutex_lock.
LEMMA WaitQ ==
    ASSUME KernelInv, NEW Q, QueueInv(Q), NEW p \in Node,
           NEW l, \/ l = "clock" /\ \E n \in 0 .. MaxSleep : SysSleep(p, n)
                  \/ l = "mutex" /\ MutexLock(p) /\ locked
    PROVE  ControlInv' /\ QueueInv(Dispatched(Pushed(Q, l, p)))'
<1> DEFINE k == IF l = "clock" THEN "slept" ELSE "lock"
<1>1. /\ current = p /\ pc[p] \in {"user", "lock"} /\ pc'[p] = k
      /\ \A q \in Node \ {p} : pc'[q] = pc[q]
      /\ Dispatch(PushTail(lists, l, p), [state EXCEPT ![p] = "BLOCKED"])
      /\ pushed' = pushed /\ locked' = locked /\ owes' = owes /\ ~owes[p]
      /\ child' = child /\ child[p] = Nil
      /\ l = "mutex" => locked
      /\ pc[p] = "lock" => k = "lock"
      /\ l \in {"clock", "mutex"}
  <2>1. CASE l = "clock" /\ \E n \in 0 .. MaxSleep : SysSleep(p, n)
    BY <2>1, Typed DEF SysSleep, At, Goto, WaitBlocked, Switch, clockVars, KernelInv, ControlInv, ChildrenKnown
  <2>2. CASE l = "mutex" /\ MutexLock(p) /\ locked
    <3>1. pc = [pc EXCEPT ![p] = "lock"]
      BY <2>2, Typed DEF MutexLock, At
    <3> QED
      BY <2>2, <3>1 DEF MutexLock, At, WaitBlocked, Switch, clockVars, KernelInv, ControlInv, ChildrenKnown
  <2> QED
    BY <2>1, <2>2
<1>2. Are(PushTail(lists, l, p), Pushed(Q, l, p)) /\ l \in List
  BY <1>1, CurrentFree, ListNames
<1>3. k \in Labels \ {"enq", "block", "unborn"}
  BY DEF Labels
<1>4. l = IF k = "dead" THEN "none" ELSE IF "BLOCKED" # "BLOCKED" THEN "ready"
               ELSE IF k = "slept" THEN "clock" ELSE IF k = "lock" THEN "mutex" ELSE "keyboard"
  BY <1>1
<1> HIDE DEF k
<1> QED
  BY <1>1, <1>2, <1>3, <1>4, Leave DEF PState

\* process_exit.
LEMMA ExitQ ==
    ASSUME KernelInv, NEW Q, QueueInv(Q), NEW p \in Node, SysExit(p)
    PROVE  ControlInv' /\ QueueInv(Dispatched(Q))'
<1>1. /\ current = p /\ pc[p] = "user" /\ pc'[p] = "dead"
      /\ \A q \in Node \ {p} : pc'[q] = pc[q]
      /\ Dispatch(lists, [state EXCEPT ![p] = "GRAVE"])
      /\ pushed' = pushed /\ locked' = locked /\ owes' = owes /\ ~owes[p]
      /\ child' = child /\ child[p] = Nil
  BY Typed DEF SysExit, At, Goto, Switch, procVars, clockVars, KernelInv, ControlInv, ChildrenKnown
<1>2. Are(lists, Q)
  BY <1>1, CurrentFree
<1> QED
  BY <1>1, <1>2, Leave, ListNames DEF PState, Labels

\* process_switch after the push of process_wait.
LEMMA BlockQ ==
    ASSUME KernelInv, NEW Q, QueueInv(Q), NEW p \in Node, Block(p)
    PROVE  ControlInv' /\ QueueInv(Dispatched(Q))'
<1> DEFINE k == IF target[p] = "keyboard" THEN "user" ELSE "slept"
<1>1. /\ current = p /\ pc[p] = "block" /\ pc'[p] = k
      /\ \A q \in Node \ {p} : pc'[q] = pc[q]
      /\ Dispatch(lists, [state EXCEPT ![p] = "BLOCKED"])
      /\ pushed' = pushed /\ locked' = locked /\ owes' = owes /\ ~owes[p]
      /\ child' = child /\ child[p] = Nil
  BY Typed DEF Block, At, Goto, Switch, procVars, clockVars, KernelInv, ControlInv, ChildrenKnown
<1>2. Are(lists, Q)
  BY <1>1 DEF QueueInv, Holding, Pushing
<1>3. target[p] \in {"clock", "keyboard"} /\ (target[p] = "keyboard" => p = Root)
  BY <1>1 DEF KernelInv, ControlInv, WindowsClosed
<1>4. k \in Labels \ {"enq", "block", "unborn"}
  BY DEF Labels
<1>5. target[p] = IF k = "dead" THEN "none" ELSE IF "BLOCKED" # "BLOCKED" THEN "ready"
               ELSE IF k = "slept" THEN "clock" ELSE IF k = "lock" THEN "mutex" ELSE "keyboard"
  BY <1>3
<1> HIDE DEF k
<1> QED
  BY <1>1, <1>2, <1>3, <1>4, <1>5, Leave DEF PState

\* process_preempt.
LEMMA PreemptQ ==
    ASSUME KernelInv, NEW Q, QueueInv(Q), ClockReturn, PreemptDue, NEW p, p = current
    PROVE  ControlInv' /\ QueueInv(Dispatched(Pushed(Q, "ready", p)))'
<1>1. p \in Node
  BY Typed DEF PreemptDue, Ptr
<1>2. /\ pc[p] \notin {"enq", "block", "dead", "unborn"} /\ pc[p] \in Labels
      /\ pc' = pc
      /\ Dispatch(PushTail(lists, "ready", p), [state EXCEPT ![p] = "READY"])
      /\ pushed' = pushed /\ locked' = locked
      /\ owes' = [owes EXCEPT ![p] = TRUE]
      /\ child' = child
      /\ child[p] # Nil => pc[p] = "yield"
  BY <1>1, Typed
  DEF ClockReturn, Switch, procVars, KernelInv, ControlInv, WindowsClosed, ChildrenKnown, Standing, StandingOf
<1>3. \A q \in Node \ {p} : owes'[q] = owes[q]
  BY <1>1, <1>2, Typed
<1> QED
  BY <1>1, <1>2, <1>3, Rotation

-----------------------------------------------------------------------------
(***************************************************************************)
(* process_wakeup, and the interrupts.                                     *)
(***************************************************************************)

\* The queues after process_wakeup(&l).
Woken(Q, l) ==
    IF Q[l] = <<>> THEN Q ELSE Pushed(Popped(Q, l), "ready", Q[l][1])

\* process_wakeup moves the first of l to the end of ready_list.
LEMMA WokenStep ==
    ASSUME NEW Q, Are(lists, Q), state \in [Node -> PState], NEW l \in List
    PROVE  /\ Are(WokenLists(l), Woken(Q, l))
           /\ lists.head[l] = Nil <=> Q[l] = <<>>
           /\ Q[l] = <<>> => WokenState(l) = state /\ Woken(Q, l) = Q
           /\ Q[l] # <<>> => /\ Q[l][1] \in Node /\ On(Q, l, Q[l][1])
                             /\ WokenState(l) = [state EXCEPT ![Q[l][1]] = "READY"]
                             /\ \A m \in List, q \in Node :
                                  On(Woken(Q, l), m, q) <=>
                                    \/ q # Q[l][1] /\ On(Q, m, q)
                                    \/ q = Q[l][1] /\ m = "ready"
<1>0. "ready" \in List /\ Q \in Queues /\ Distinct(Q)
  BY ListNames DEF Are
<1>1. CASE Q[l] = <<>>
  <2>1. lists.head[l] = Nil
    BY <1>1 DEF Are, IsChain
  <2> QED
    BY <1>1, <2>1 DEF WokenLists, WokenState, Woken
<1>2. CASE Q[l] # <<>>
  <2> DEFINE n == Q[l][1]
             P == Popped(Q, l)
  <2>1. lists.head[l] = n /\ Are(PopHead(lists, l), P)
    BY <1>2, PopHeadAre
  <2>2. /\ n \in Node /\ On(Q, l, n) /\ Free(P, n)
        /\ P \in Queues /\ Distinct(P)
        /\ \A m \in List, q \in Node : On(P, m, q) <=> On(Q, m, q) /\ q # n
    BY <1>0, <1>2, PoppedFacts
  <2>3. n # Nil
    BY <2>2, NilAssumption
  <2> HIDE DEF n, P
  <2>4. Are(PushTail(PopHead(lists, l), "ready", n), Pushed(P, "ready", n))
    BY <1>0, <2>1, <2>2, PushTailAre
  <2>5. \A m \in List, q \in Node :
          On(Pushed(P, "ready", n), m, q) <=> On(P, m, q) \/ (m = "ready" /\ q = n)
    BY <1>0, <2>2, PushedFacts
  <2>6. /\ WokenLists(l) = PushTail(PopHead(lists, l), "ready", n)
        /\ Woken(Q, l) = Pushed(P, "ready", n)
        /\ WokenState(l) = [state EXCEPT ![n] = "READY"]
    BY <1>2, <2>1, <2>3 DEF WokenLists, WokenState, Woken, n, P
  <2>7. \A m \in List, q \in Node :
          On(Woken(Q, l), m, q) <=> (q # n /\ On(Q, m, q)) \/ (q = n /\ m = "ready")
    BY <2>2, <2>5, <2>6
  <2> QED
    BY <1>2, <2>1, <2>2, <2>3, <2>4, <2>6, <2>7 DEF n
<1> QED
  BY <1>1, <1>2

\* The sleeper that is woken moves to ready_list, and nobody else moves.
LEMMA WokenPlaced ==
    ASSUME KernelInv, NEW Q, QueueInv(Q), \A q \in Node : pc[q] \notin {"enq", "block"},
           NEW l \in List \ {"ready"}, NEW k,
           \A q \in Node : \/ k[q] = pc[q]
                           \/ q = current /\ pc[q] = "crit" /\ k[q] \in {"user", "spawn"}
    PROVE  /\ Are(WokenLists(l), Woken(Q, l)) /\ WokenState(l) \in [Node -> PState]
           /\ PlacedOf(Woken(Q, l), current, WokenState(l), k, target, child)
           /\ StandingOf(current, WokenState(l), k, target, child, owes)
           /\ \A q \in Node :
                HomeOf(q, current, WokenState(l), k, target, child) = "mutex" =>
                  Home(q) = "mutex"
           /\ \/ l # "mutex" /\ \A q \in Node :
                   HomeOf(q, current, WokenState(l), k, target, child) = "mutex"
                     <=> Home(q) = "mutex"
              \/ l = "mutex" /\ \A q \in Node : Home(q) # "mutex"
              \/ l = "mutex" /\ \E q \in Node :
                   /\ k[q] = "lock"
                   /\ HomeOf(q, current, WokenState(l), k, target, child) # "mutex"
<1> DEFINE st == WokenState(l)
           new(q) == HomeOf(q, current, st, k, target, child)
<1>1. /\ state \in [Node -> PState] /\ "ready" \in List
      /\ \A q \in Node : ~BeingStarted(q, pc, child) /\ ~BeingStarted(q, k, child)
  BY Typed, ListNames DEF BeingStarted
<1>2. Are(lists, Q)
  BY Typed DEF QueueInv, Holding, Pushing, Ptr
<1>3. \A q \in Node, m \in List : On(Q, m, q) <=> m = Home(q)
  BY DEF QueueInv, Placed, PlacedOf, Home
<1>4. Are(WokenLists(l), Woken(Q, l))
  BY <1>1, <1>2, WokenStep
<1>5. CASE Q[l] = <<>>
  <2>1. st = state /\ Woken(Q, l) = Q
    BY <1>1, <1>2, <1>5, WokenStep
  <2>2. \A q \in Node : new(q) = Home(q)
    BY <1>1, <2>1 DEF Home, HomeOf
  <2>3. \A q \in Node : Home(q) # l
    <3>1. 1 .. Len(Q[l]) = {}
      BY <1>5
    <3> QED
      BY <1>3, <3>1 DEF On
  <2> HIDE DEF st, new
  <2>4. PlacedOf(Woken(Q, l), current, st, k, target, child)
    BY <1>3, <2>1, <2>2 DEF PlacedOf, new
  <2>5. StandingOf(current, st, k, target, child, owes)
    <3> SUFFICES ASSUME NEW q \in Node
                 PROVE  /\ k[q] \in {"dead", "unborn"} => q # current
                        /\ k[q] \in {"dead", "unborn"} \/ q = current => st[q] # "BLOCKED"
                        /\ new(q) = "keyboard" => q = Root
                        /\ owes[q] => q = current \/ new(q) = "ready"
      BY DEF StandingOf, new
    <3> QED
      BY <2>1, <2>2 DEF KernelInv, ControlInv, Standing, StandingOf, Home
  <2> QED
    BY <1>1, <1>4, <2>1, <2>2, <2>3, <2>4, <2>5 DEF st, new
<1>6. CASE Q[l] # <<>>
  <2> DEFINE n == Q[l][1]
  <2>1. /\ n \in Node /\ On(Q, l, n) /\ st = [state EXCEPT ![n] = "READY"]
        /\ \A m \in List, q \in Node :
             On(Woken(Q, l), m, q) <=> (q # n /\ On(Q, m, q)) \/ (q = n /\ m = "ready")
    BY <1>1, <1>2, <1>6, WokenStep
  <2> HIDE DEF n
  <2>2. Home(n) = l /\ l # "ready" /\ l # "none"
    BY <1>3, <2>1, ListNames
  <2>3. /\ n # current /\ pc[n] \notin {"dead", "unborn"} /\ k[n] = pc[n]
        /\ l = "mutex" => pc[n] = "lock"
    BY <1>1, <2>1, <2>2 DEF Home, HomeOf
  <2>4. st \in [Node -> PState] /\ st[n] = "READY" /\ \A q \in Node : q # n => st[q] = state[q]
    BY <1>1, <2>1 DEF PState
  <2>5. new(n) = "ready"
    BY <1>1, <2>1, <2>3, <2>4 DEF HomeOf
  <2>6. \A q \in Node : q # n => new(q) = Home(q)
    BY <1>1, <2>4 DEF Home, HomeOf
  <2> HIDE DEF st, new
  <2>7. PlacedOf(Woken(Q, l), current, st, k, target, child)
    <3> SUFFICES ASSUME NEW q \in Node, NEW m \in List
                 PROVE  On(Woken(Q, l), m, q) <=> m = new(q)
      BY DEF PlacedOf, new
    <3> QED
      BY <1>3, <2>1, <2>5, <2>6
  <2>8. StandingOf(current, st, k, target, child, owes)
    <3> SUFFICES ASSUME NEW q \in Node
                 PROVE  /\ k[q] \in {"dead", "unborn"} => q # current
                        /\ k[q] \in {"dead", "unborn"} \/ q = current => st[q] # "BLOCKED"
                        /\ new(q) = "keyboard" => q = Root
                        /\ owes[q] => q = current \/ new(q) = "ready"
      BY DEF StandingOf, new
    <3>1. /\ k[q] \in {"dead", "unborn"} => q # current
          /\ k[q] \in {"dead", "unborn"} \/ q = current => state[q] # "BLOCKED"
          /\ Home(q) = "keyboard" => q = Root
          /\ owes[q] => q = current \/ Home(q) = "ready"
      BY DEF KernelInv, ControlInv, Standing, StandingOf, Home
    <3> QED
      BY <2>4, <2>5, <2>6, <3>1
  <2>9. (\A q \in Node : new(q) = "mutex" => Home(q) = "mutex")
        /\ (l # "mutex" => \A q \in Node : new(q) = "mutex" <=> Home(q) = "mutex")
        /\ (l = "mutex" => \E q \in Node : k[q] = "lock" /\ new(q) # "mutex")
    BY <2>1, <2>2, <2>3, <2>5, <2>6
  <2> QED
    BY <1>4, <2>4, <2>7, <2>8, <2>9 DEF st, new
<1> QED
  BY <1>5, <1>6

\* Nobody is in a window when the clock's handler or mutex_unlock runs, or when
\* an interrupt is delivered.
LEMMA NoWindow ==
    ASSUME KernelInv, Unprotected = FALSE,
           \/ irq \/ Deliverable
           \/ \E p \in Node : current = p /\ pc[p] \notin {"enq", "block"}
    PROVE  \A q \in Node : pc[q] \notin {"enq", "block"}
BY NilAssumption DEF KernelInv, ControlInv, WindowsClosed, Deliverable, InWindow

\* What does not depend on the lists, outside the windows.
LEMMA OutsideWindows ==
    ASSUME KernelInv, \A q \in Node : pc[q] \notin {"enq", "block"},
           \A q \in Node : \/ pc'[q] = pc[q]
                           \/ q = current /\ pc[q] = "crit" /\ pc'[q] \in {"user", "spawn"},
           UNCHANGED <<pushed, child>>
    PROVE  /\ WindowsClosed' /\ ChildrenKnown'
           /\ \A q \in Node : /\ pc'[q] \notin {"enq", "block"} /\ ~(pushed'[q] > 0)
                              /\ child'[q] # Nil => pc'[q] = "yield"
<1>1. ASSUME NEW q \in Node
      PROVE  /\ pc'[q] \notin {"enq", "block"} /\ ~(pushed'[q] > 0)
             /\ child'[q] # Nil => pc'[q] = "yield"
  BY DEF KernelInv, ControlInv, WindowsClosed, ChildrenKnown
<1>2. \A q \in Node : ~BeingStarted(q, pc', child')
  BY <1>1 DEF BeingStarted
<1> QED
  BY <1>1, <1>2 DEF WindowsClosed, ChildrenKnown

\* process_wakeup while a process runs, or by a handler.
LEMMA WakeQ ==
    ASSUME KernelInv, NEW Q, QueueInv(Q), \A q \in Node : pc[q] \notin {"enq", "block"},
           NEW l \in List \ {"ready"},
           lists' = WokenLists(l), state' = WokenState(l),
           UNCHANGED <<current, target, child, pushed, owes>>,
           \A q \in Node : \/ pc'[q] = pc[q]
                           \/ q = current /\ pc[q] = "crit" /\ pc'[q] \in {"user", "spawn"},
           l # "mutex" => locked' = locked
    PROVE  ControlInv' /\ QueueInv(Woken(Q, l))'
<1>1. /\ Are(lists', Woken(Q, l))
      /\ PlacedOf(Woken(Q, l), current', state', pc', target', child')
      /\ StandingOf(current', state', pc', target', child', owes')
      /\ \A q \in Node : Home(q)' = "mutex" => Home(q) = "mutex"
      /\ \/ l # "mutex" /\ \A q \in Node : Home(q)' = "mutex" <=> Home(q) = "mutex"
         \/ l = "mutex" /\ \A q \in Node : Home(q) # "mutex"
         \/ l = "mutex" /\ \E q \in Node : pc'[q] = "lock" /\ Home(q)' # "mutex"
  BY WokenPlaced DEF Home
<1>2. /\ WindowsClosed' /\ ChildrenKnown'
      /\ \A q \in Node : pc'[q] \notin {"enq", "block"}
  BY OutsideWindows
<1>3. MutexRetried'
  BY <1>1 DEF KernelInv, ControlInv, MutexRetried
<1>4. IdleOwesNothing' /\ Standing'
  BY <1>1 DEF KernelInv, ControlInv, IdleOwesNothing, Standing
<1>5. ~Pushing'
  BY <1>2, Typed DEF Pushing, Ptr
<1>6. QueueInv(Woken(Q, l))'
  BY <1>1, <1>2, <1>5 DEF QueueInv, Holding, Placed, BlockLast
<1> QED
  BY <1>2, <1>3, <1>4, <1>6 DEF ControlInv

\* mutex_unlock.
LEMMA UnlockQ ==
    ASSUME KernelInv, Unprotected = FALSE, NEW Q, QueueInv(Q), NEW p \in Node, MutexUnlock(p)
    PROVE  ControlInv' /\ QueueInv(Woken(Q, "mutex"))'
<1>1. /\ current = p /\ pc[p] = "crit"
      /\ lists' = WokenLists("mutex") /\ state' = WokenState("mutex")
      /\ UNCHANGED <<current, target, child, pushed, owes>>
      /\ pc' = [pc EXCEPT ![p] = IF job[p] = "run" THEN "spawn" ELSE "user"]
  BY DEF MutexUnlock, At, Goto, clockVars
<1>2. \A q \in Node : \/ pc'[q] = pc[q]
                      \/ q = current /\ pc[q] = "crit" /\ pc'[q] \in {"user", "spawn"}
  BY <1>1, Typed
<1>3. \A q \in Node : pc[q] \notin {"enq", "block"}
  BY <1>1, NoWindow
<1>4. "mutex" \in List \ {"ready"}
  BY ListNames
<1> QED
  BY <1>1, <1>2, <1>3, <1>4, WakeQ

\* The clock's handler wakes a sleeper.
LEMMA ClockWakeupQ ==
    ASSUME KernelInv, Unprotected = FALSE, NEW Q, QueueInv(Q), ClockWakeup
    PROVE  ControlInv' /\ QueueInv(Woken(Q, "clock"))'
<1>1. /\ irq /\ lists' = WokenLists("clock") /\ state' = WokenState("clock")
      /\ UNCHANGED <<current, target, child, pushed, owes, pc, locked>>
  BY DEF ClockWakeup, procVars, clockVars
<1>2. \A q \in Node : pc[q] \notin {"enq", "block"}
  BY <1>1, NoWindow
<1>3. "clock" \in List \ {"ready"}
  BY ListNames
<1> QED
  BY <1>1, <1>2, <1>3, WakeQ

\* The idle processor looks at ready_list when a handler has returned.
LEMMA ResumeIdleQ ==
    ASSUME KernelInv, NEW s, NEW R, Are(s, R), NEW st \in [Node -> PState], Dispatch(s, st),
           \A q \in Node : pc[q] \notin {"enq", "block"}, current = Nil,
           PlacedOf(R, Nil, st, pc, target, child),
           StandingOf(Nil, st, pc, target, child, owes),
           \A q \in Node : HomeOf(q, Nil, st, pc, target, child) = "mutex" <=> Home(q) = "mutex",
           UNCHANGED <<pc, pushed, target, child, owes, locked>>
    PROVE  ControlInv' /\ QueueInv(Dispatched(R))'
<1>1. \A q \in Node : /\ pc'[q] \notin {"enq", "block"} /\ ~(pushed'[q] > 0)
                      /\ child'[q] # Nil => pc'[q] = "yield"
  BY OutsideWindows
<1>2. ~locked' /\ (\E q \in Node : HomeOf(q, Nil, st, pc', target', child') = "mutex") =>
        \E q \in Node : pc'[q] = "lock" /\ HomeOf(q, Nil, st, pc', target', child') # "mutex"
  BY DEF KernelInv, ControlInv, MutexRetried
<1> QED
  BY <1>1, <1>2, AfterDispatch

\* The keyboard's handler wakes Root.
LEMMA KeyboardQ ==
    ASSUME KernelInv, Unprotected = FALSE, NEW Q, QueueInv(Q), KeyboardInterrupt
    PROVE  /\ ControlInv'
           /\ IF current = Nil /\ halted THEN QueueInv(Dispatched(Woken(Q, "keyboard")))'
                                         ELSE QueueInv(Woken(Q, "keyboard"))'
<1>1. /\ Deliverable
      /\ Resume(WokenLists("keyboard"), WokenState("keyboard"))
      /\ UNCHANGED <<target, child, pushed, owes, pc, locked>>
  BY DEF KeyboardInterrupt, procVars, clockVars
<1>2. \A q \in Node : pc[q] \notin {"enq", "block"}
  BY <1>1, NoWindow
<1>3. "keyboard" \in List \ {"ready"}
  BY ListNames
<1>4. CASE current = Nil /\ halted
  <2>1. Dispatch(WokenLists("keyboard"), WokenState("keyboard"))
    BY <1>1, <1>4 DEF Resume
  <2> DEFINE st == WokenState("keyboard")
  <2>2. /\ Are(WokenLists("keyboard"), Woken(Q, "keyboard")) /\ st \in [Node -> PState]
        /\ PlacedOf(Woken(Q, "keyboard"), current, st, pc, target, child)
        /\ StandingOf(current, st, pc, target, child, owes)
        /\ \A q \in Node :
             HomeOf(q, current, st, pc, target, child) = "mutex" <=> Home(q) = "mutex"
    BY <1>2, <1>3, WokenPlaced
  <2> QED
    BY <1>1, <1>2, <1>4, <2>1, <2>2, ResumeIdleQ
<1>5. CASE ~(current = Nil /\ halted)
  <2>1. lists' = WokenLists("keyboard") /\ state' = WokenState("keyboard") /\ current' = current
    BY <1>1, <1>5 DEF Resume
  <2>2. ControlInv' /\ QueueInv(Woken(Q, "keyboard"))'
    BY <1>1, <1>2, <1>3, <2>1, WakeQ
  <2> QED
    BY <1>5, <2>2
<1> QED
  BY <1>4, <1>5

\* The rest of the clock's handler, when it does not preempt.
LEMMA ClockReturnQ ==
    ASSUME KernelInv, Unprotected = FALSE, NEW Q, QueueInv(Q), ClockReturn, ~PreemptDue
    PROVE  /\ ControlInv'
           /\ IF current = Nil /\ halted THEN QueueInv(Dispatched(Q))' ELSE QueueInv(Q)'
<1>1. /\ irq /\ Resume(lists, state)
      /\ UNCHANGED <<target, child, pushed, owes, pc, locked>>
  BY DEF ClockReturn, procVars
<1>2. \A q \in Node : pc[q] \notin {"enq", "block"}
  BY <1>1, NoWindow
<1>3. Are(lists, Q) /\ state \in [Node -> PState] /\ current \in Ptr
  BY <1>2, Typed DEF QueueInv, Holding, Pushing, Ptr
<1>4. CASE current = Nil /\ halted
  <2>1. Dispatch(lists, state)
    BY <1>1, <1>4 DEF Resume
  <2>2. /\ PlacedOf(Q, Nil, state, pc, target, child)
        /\ StandingOf(Nil, state, pc, target, child, owes)
        /\ \A q \in Node :
             HomeOf(q, Nil, state, pc, target, child) = "mutex" <=> Home(q) = "mutex"
    BY <1>4 DEF QueueInv, Placed, KernelInv, ControlInv, Standing, Home
  <2> QED
    BY <1>1, <1>2, <1>3, <1>4, <2>1, <2>2, ResumeIdleQ
<1>5. CASE ~(current = Nil /\ halted)
  <2>1. lists' = lists /\ state' = state /\ current' = current
    BY <1>1, <1>5 DEF Resume
  <2>2. WindowsClosed' /\ ChildrenKnown'
    BY <1>1, <1>2, OutsideWindows
  <2>3. Standing' /\ MutexRetried' /\ IdleOwesNothing'
    BY <1>1, <2>1 DEF KernelInv, ControlInv, Standing, MutexRetried, IdleOwesNothing, Home
  <2>4. QueueInv(Q)'
    <3>1. ~Pushing'
      BY <1>1, <1>2, <1>3, <2>1 DEF Pushing, Ptr
    <3> QED
      BY <1>1, <1>3, <2>1, <3>1 DEF QueueInv, Holding, Placed, BlockLast
  <2> QED
    BY <1>5, <2>2, <2>3, <2>4 DEF ControlInv
<1> QED
  BY <1>4, <1>5

-----------------------------------------------------------------------------
(***************************************************************************)
(* The invariant of the lists.                                             *)
(***************************************************************************)

\* The inductive invariant.
ListInv == KernelInv /\ \E Q : QueueInv(Q)

\* process_init leaves all lists empty.
LEMMA InitListInv == Init => ListInv
<1> SUFFICES ASSUME Init PROVE ListInv
  OBVIOUS
<1>1. IInv
  BY InitIInv
<1> DEFINE Q == [l \in List |-> <<>>]
<1>2. /\ current = Root /\ Root \in Node /\ Root # Nil
      /\ state = [p \in Node |-> IF p = Root THEN "READY" ELSE "CRADLE"]
      /\ lists = Empty
      /\ \A p \in Node : /\ pc[p] = IF p = Root THEN "user" ELSE "unborn"
                         /\ pushed[p] = 0 /\ child[p] = Nil /\ ~owes[p]
      /\ locked = FALSE
  BY KernelAssumption, NilAssumption DEF Init
<1>3. \A p \in Node : ~BeingStarted(p, pc, child) /\ Home(p) = "none"
  BY <1>2 DEF BeingStarted, Home, HomeOf
<1>4. ControlInv
  <2>1. WindowsClosed
    <3>1. \A p \in Node : pc[p] # "enq" /\ pc[p] # "block"
      BY <1>2
    <3>2. \A p \in Node : pushed[p] = 0
      BY <1>2
    <3>3. ASSUME NEW p \in Node PROVE ~(pushed[p] > 0)
      <4>1. pushed[p] \in Nat /\ pushed[p] = 0
        BY <3>2
      <4> QED
        BY <4>1
    <3> QED
      BY <3>1, <3>3 DEF WindowsClosed
  <2>2. ChildrenKnown
    BY <1>2, <1>3 DEF ChildrenKnown
  <2>3. Standing
    BY <1>2, <1>3 DEF Standing, StandingOf, Home
  <2>4. IdleOwesNothing /\ MutexRetried
    BY <1>2, <1>3 DEF IdleOwesNothing, MutexRetried
  <2> QED
    BY <2>1, <2>2, <2>3, <2>4 DEF ControlInv
<1>5. \A l \in List : Q[l] = <<>> /\ 1 .. Len(Q[l]) = {}
  OBVIOUS
<1>6. Q \in Queues
  BY DEF Queues
<1> HIDE DEF Q
<1>7. Are(lists, Q)
  <2>1. lists \in Links
    BY <1>1 DEF IInv, TypeOK
  <2>2. Distinct(Q)
    BY <1>5 DEF Distinct
  <2>3. ASSUME NEW l \in List PROVE IsChain(lists, l, Q[l]) /\ EndsAt(lists, l, Q[l])
    <3>1. lists.head[l] = Nil /\ lists.tail[l] = Nil /\ Q[l] = <<>>
      BY <1>2, <1>5 DEF Empty
    <3>2. 1 .. Len(Q[l]) - 1 = {}
      BY <3>1
    <3> QED
      BY <3>1, <3>2 DEF IsChain, EndsAt
  <2> QED
    BY <1>6, <2>1, <2>2, <2>3 DEF Are
<1>8. QueueInv(Q)
  <2>1. Holding(Q)
    BY <1>2, <1>7 DEF Holding, Pushing
  <2>2. Placed(Q)
    BY <1>3, <1>5, ListNames DEF Placed, PlacedOf, Home, On
  <2>3. BlockLast(Q)
    BY <1>2 DEF BlockLast
  <2> QED
    BY <2>1, <2>2, <2>3 DEF QueueInv
<1> QED
  BY <1>1, <1>4, <1>8 DEF ListInv, KernelInv

\* Every step of the kernel leads from queues to queues.
LEMMA NextQ ==
    ASSUME Unprotected = FALSE, KernelInv, NEW Q, QueueInv(Q), [Next]_vars
    PROVE  ControlInv' /\ \E R : QueueInv(R)'
<1>1. CASE \E p \in Node : QuietOf(p)
  BY <1>1, QuietOfQ
<1>2. CASE \/ ClockInterrupt
           \/ Halt
           \/ \E p \in Node : InterruptReturn(p)
           \/ UNCHANGED vars
  BY <1>2, SignalQ
<1>3. ASSUME NEW p \in Node, SysYield(p) \/ RunYield(p) PROVE ControlInv' /\ \E R : QueueInv(R)'
  BY <1>3, YieldQ
<1>4. ASSUME NEW p \in Node, \E n \in 0 .. MaxSleep : SysSleep(p, n)
      PROVE ControlInv' /\ \E R : QueueInv(R)'
  BY <1>4, WaitQ
<1>5. ASSUME NEW p \in Node, MutexLock(p), locked PROVE ControlInv' /\ \E R : QueueInv(R)'
  BY <1>5, WaitQ
<1>6. ASSUME NEW p \in Node, SysExit(p) PROVE ControlInv' /\ \E R : QueueInv(R)'
  BY <1>6, ExitQ
<1>7. ASSUME NEW p \in Node, Block(p) PROVE ControlInv' /\ \E R : QueueInv(R)'
  BY <1>7, BlockQ
<1>8. ASSUME NEW p \in Node, Enqueue(p) PROVE ControlInv' /\ \E R : QueueInv(R)'
  BY <1>8, EnqueueEarlyQ, EnqueueLastQ
<1>9. ASSUME NEW p \in Node, MutexUnlock(p) PROVE ControlInv' /\ \E R : QueueInv(R)'
  BY <1>9, UnlockQ
<1>10. ASSUME NEW p \in Node, NEW c \in Node, Spawn(p, c) PROVE ControlInv' /\ \E R : QueueInv(R)'
  BY <1>10, SpawnQ
<1>11. ASSUME KeyboardInterrupt PROVE ControlInv' /\ \E R : QueueInv(R)'
  BY <1>11, KeyboardQ
<1>12. ASSUME ClockWakeup PROVE ControlInv' /\ \E R : QueueInv(R)'
  BY <1>12, ClockWakeupQ
<1>13. ASSUME ClockReturn, PreemptDue PROVE ControlInv' /\ \E R : QueueInv(R)'
  BY <1>13, PreemptQ
<1>14. ASSUME ClockReturn, ~PreemptDue PROVE ControlInv' /\ \E R : QueueInv(R)'
  BY <1>14, ClockReturnQ
<1> QED
  BY <1>1, <1>2, <1>3, <1>4, <1>5, <1>6, <1>7, <1>8, <1>9, <1>10, <1>11, <1>12,
     <1>13, <1>14
  DEF Next, KernelStep, SystemCall, Handler, QuietOf

\* And the invariant with them.
LEMMA NextListInv ==
    ASSUME Unprotected = FALSE
    PROVE  ListInv /\ [Next]_vars => ListInv'
<1> SUFFICES ASSUME ListInv, [Next]_vars PROVE ListInv'
  OBVIOUS
<1>1. IInv'
  BY NextIInv DEF ListInv, KernelInv
<1>2. ControlInv' /\ \E R : QueueInv(R)'
  BY NextQ DEF ListInv
<1> QED
  BY <1>1, <1>2 DEF ListInv, KernelInv

\* In every reachable state the pointers are four queues that hold each process
\* where its state says.
THEOREM KernelLists ==
    ASSUME Unprotected = FALSE PROVE Spec => []ListInv
BY InitListInv, NextListInv, PTL DEF Spec

-----------------------------------------------------------------------------
(***************************************************************************)
(* The properties of Kernel that follow.                                   *)
(***************************************************************************)

\* Outside a push the pointers are those of the queues.
LEMMA WholeLists ==
    ASSUME KernelInv, NEW Q, QueueInv(Q), ~MidPush
    PROVE  Are(lists, Q)
<1>1. CASE Pushing
  <2>1. pushed[current] = 0
    <3>1. pushed[current] \in 0 .. PushSteps - 1 /\ ~(pushed[current] > 0)
      BY <1>1, Typed DEF Pushing, MidPush, Ptr
    <3> QED
      BY <3>1 DEF PushSteps
  <2> QED
    BY <1>1, <2>1 DEF QueueInv, Holding, Stage
<1>2. CASE ~Pushing
  BY <1>2 DEF QueueInv, Holding
<1> QED
  BY <1>1, <1>2

\* Following the pointers finds the queue.
LEMMA OnListIsOn ==
    ASSUME NEW Q \in Queues, Distinct(Q), NEW l \in List, IsChain(lists, l, Q[l]),
           NEW p \in Node
    PROVE  OnList(l, p) <=> On(Q, l, p)
<1>1. /\ DOMAIN Nth(l) = 0 .. Cardinality(Node)
      /\ \A k \in 0 .. Cardinality(Node) :
            Nth(l)[k] = IF k < Len(Q[l]) THEN Q[l][k + 1] ELSE Nil
  BY NthFacts
<1>2. Cardinality(Node) \in Nat /\ Len(Q[l]) \in Nat /\ Len(Q[l]) <= Cardinality(Node)
  BY QueueBound
<1>3. p # Nil
  BY NilAssumption
<1>4. ASSUME OnList(l, p) PROVE On(Q, l, p)
  <2>1. PICK k \in 0 .. Cardinality(Node) : Nth(l)[k] = p
    BY <1>1, <1>4 DEF OnList
  <2>2. k < Len(Q[l]) /\ Q[l][k + 1] = p
    BY <1>1, <1>3, <2>1
  <2>3. k + 1 \in 1 .. Len(Q[l])
    BY <1>2, <2>1, <2>2
  <2> QED
    BY <2>2, <2>3 DEF On
<1>5. ASSUME On(Q, l, p) PROVE OnList(l, p)
  <2>1. PICK i \in 1 .. Len(Q[l]) : Q[l][i] = p
    BY <1>5 DEF On
  <2>2. i - 1 \in 0 .. Cardinality(Node) /\ i - 1 < Len(Q[l]) /\ (i - 1) + 1 = i
    BY <1>2, <2>1
  <2>3. Nth(l)[i - 1] = p
    BY <1>1, <2>1, <2>2
  <2> QED
    BY <1>1, <2>2, <2>3 DEF OnList
<1> QED
  BY <1>4, <1>5

\* The links are what list.c relies on.
LEMMA WholeIntact ==
    ASSUME NEW Q, Are(lists, Q)
    PROVE  ListsIntact
<1> DEFINE C == Cardinality(Node)
<1>1. Q \in Queues /\ Distinct(Q)
  BY DEF Are
<1>2. ASSUME NEW l \in List
      PROVE  /\ DOMAIN Nth(l) = 0 .. C
             /\ \A k \in 0 .. C : Nth(l)[k] = IF k < Len(Q[l]) THEN Q[l][k + 1] ELSE Nil
             /\ C \in Nat /\ Len(Q[l]) \in Nat /\ Len(Q[l]) <= C
             /\ Q[l] = <<>> <=> Len(Q[l]) = 0
             /\ \A i \in 1 .. Len(Q[l]) : Q[l][i] \in Node /\ Q[l][i] # Nil
             /\ IsChain(lists, l, Q[l]) /\ EndsAt(lists, l, Q[l])
  <2>1. IsChain(lists, l, Q[l]) /\ EndsAt(lists, l, Q[l]) /\ Q[l] \in Seq(Node)
    BY <1>1 DEF Are, Queues
  <2> QED
    BY <1>1, <2>1, NthFacts, QueueBound, QueueFacts
<1> HIDE DEF C
<1>3. ASSUME NEW l \in List PROVE Nth(l)[C] = Nil
  BY <1>2
<1>4. ASSUME NEW l \in List PROVE lists.head[l] = Nil <=> lists.tail[l] = Nil
  BY <1>2 DEF IsChain, EndsAt
<1>5. ASSUME NEW l \in List, lists.tail[l] # Nil
      PROVE  OnList(l, lists.tail[l]) /\ lists.next[lists.tail[l]] = Nil
  <2>1. Q[l] # <<>> /\ lists.tail[l] = Q[l][Len(Q[l])]
    BY <1>2, <1>5 DEF EndsAt
  <2>2. Len(Q[l]) \in 1 .. Len(Q[l])
    BY <1>2, <2>1
  <2>3. On(Q, l, lists.tail[l]) /\ lists.tail[l] \in Node
    BY <1>2, <2>1, <2>2 DEF On
  <2>4. OnList(l, lists.tail[l])
    BY <1>1, <1>2, <2>3, OnListIsOn
  <2> QED
    BY <1>2, <2>1, <2>4 DEF IsChain
<1>6. ASSUME NEW l \in List, NEW m \in List,
             NEW i \in DOMAIN Nth(l), NEW j \in DOMAIN Nth(m),
             Nth(l)[i] = Nth(m)[j], Nth(l)[i] # Nil
      PROVE  l = m /\ i = j
  <2>1. /\ i \in 0 .. C /\ i < Len(Q[l]) /\ Nth(l)[i] = Q[l][i + 1]
        /\ j \in 0 .. C /\ j < Len(Q[m]) /\ Nth(m)[j] = Q[m][j + 1]
    BY <1>2, <1>6
  <2>2. i + 1 \in 1 .. Len(Q[l]) /\ j + 1 \in 1 .. Len(Q[m])
    BY <1>2, <2>1
  <2>3. l = m /\ i + 1 = j + 1
    <3>1. Q[l][i + 1] = Q[m][j + 1]
      BY <1>6, <2>1
    <3> QED
      BY <1>1, <2>2, <3>1 DEF Distinct
  <2> QED
    BY <2>1, <2>3
<1> QED
  BY <1>3, <1>4, <1>5, <1>6 DEF ListsIntact, C

\* Where everybody is, in the words of NoProcessLost.
LEMMA PlacesOfAll ==
    ASSUME KernelInv, NEW Q, QueueInv(Q), ~MidPush, NEW p \in Node
    PROVE  CASE pc[p] \in {"dead", "unborn"} -> \A l \in List : ~OnList(l, p)
             [] p = current -> \A l \in List :
                                 OnList(l, p) <=> pc[p] = "block" /\ l = target[p]
             [] state[p] = "BLOCKED" ->
                  CASE pc[p] = "slept" -> OnList("clock", p)
                    [] pc[p] = "lock"  -> OnList("mutex", p)
                    [] OTHER           -> p = Root /\ OnList("keyboard", p)
             [] OTHER -> \/ OnList("ready", p)
                         \/ \E r \in Node : pc[r] = "enq" /\ child[r] = p
<1>1. \A l \in List : OnList(l, p) <=> l = Home(p)
  <2> SUFFICES ASSUME NEW l \in List PROVE OnList(l, p) <=> l = Home(p)
    OBVIOUS
  <2>1. Are(lists, Q)
    BY WholeLists
  <2>2. OnList(l, p) <=> On(Q, l, p)
    BY <2>1, OnListIsOn DEF Are
  <2> QED
    BY <2>2 DEF QueueInv, Placed, PlacedOf, Home
<1>2. /\ BeingStarted(p, pc, child) => p # current /\ state[p] # "BLOCKED"
      /\ pc[p] \in {"dead", "unborn"} => p # current
      /\ pc[p] \in {"dead", "unborn"} \/ p = current => state[p] # "BLOCKED"
      /\ Home(p) = "keyboard" => p = Root
  BY DEF KernelInv, ControlInv, ChildrenKnown, Standing, StandingOf, Home
<1>3. target[p] \in List /\ "none" \notin List /\ {"ready", "clock", "mutex", "keyboard"} = List
  BY Typed, ListNames
<1>4. CASE pc[p] \in {"dead", "unborn"}
  <2>1. Home(p) = "none"
    BY <1>4 DEF Home, HomeOf
  <2>2. \A l \in List : ~OnList(l, p)
    BY <1>1, <1>3, <2>1
  <2> QED
    BY <1>2, <1>4, <2>2
<1>5. CASE pc[p] \notin {"dead", "unborn"} /\ p = current
  <2>1. Home(p) = IF pc[p] = "block" THEN target[p] ELSE "none"
    BY <1>2, <1>5 DEF Home, HomeOf
  <2>2. \A l \in List : OnList(l, p) <=> pc[p] = "block" /\ l = target[p]
    BY <1>1, <1>3, <2>1
  <2> QED
    BY <1>2, <1>5, <2>2
<1>6. CASE pc[p] \notin {"dead", "unborn"} /\ p # current /\ state[p] = "BLOCKED"
  <2>1. Home(p) = IF pc[p] = "slept" THEN "clock" ELSE IF pc[p] = "lock" THEN "mutex" ELSE "keyboard"
    BY <1>2, <1>6 DEF Home, HomeOf
  <2>2. CASE pc[p] = "slept"
    BY <1>1, <1>3, <1>6, <2>1, <2>2
  <2>3. CASE pc[p] = "lock"
    BY <1>1, <1>3, <1>6, <2>1, <2>3
  <2>4. CASE pc[p] # "slept" /\ pc[p] # "lock"
    BY <1>1, <1>2, <1>3, <1>6, <2>1, <2>4
  <2> QED
    BY <2>2, <2>3, <2>4
<1>7. CASE pc[p] \notin {"dead", "unborn"} /\ p # current /\ state[p] # "BLOCKED"
  <2>1. BeingStarted(p, pc, child) \/ Home(p) = "ready"
    BY <1>7 DEF Home, HomeOf
  <2>2. OnList("ready", p) \/ \E r \in Node : pc[r] = "enq" /\ child[r] = p
    BY <1>1, <1>3, <2>1 DEF BeingStarted
  <2> QED
    BY <1>7, <2>2
<1> QED
  BY <1>4, <1>5, <1>6, <1>7

\* Where everybody is, is where NoProcessLost wants him.
LEMMA ListInvNoProcessLost == ListInv => NoProcessLost
<1> SUFFICES ASSUME ListInv PROVE NoProcessLost
  OBVIOUS
<1>1. KernelInv
  BY DEF ListInv
<1>2. PICK Q : QueueInv(Q)
  BY DEF ListInv
<1>3. CASE MidPush
  BY <1>3 DEF NoProcessLost, ListsIntact
<1>4. CASE ~MidPush
  <2>1. ListsIntact
    BY <1>1, <1>2, <1>4, WholeLists, WholeIntact
  <2> QED
    BY <1>1, <1>2, <1>4, <2>1, PlacesOfAll DEF NoProcessLost
<1> QED
  BY <1>3, <1>4

\* A process that is being pushed is not pushed on the mutex's queue, which can be
\* followed at any time.
LEMMA MutexQueue ==
    ASSUME KernelInv, NEW Q, QueueInv(Q)
    PROVE  /\ Q \in Queues /\ Distinct(Q)
           /\ IsChain(lists, "mutex", Q["mutex"])
<1>0. "mutex" \in List
  BY ListNames
<1>1. CASE Pushing
  <2> DEFINE p == current
  <2>1. p \in Node /\ pc[p] = "enq"
    BY <1>1, Typed DEF Pushing, Ptr
  <2>2. PICK s : Are(s, Q) /\ lists = Stage(s, target[p], Pushee(p), pushed[p])
    BY <1>1 DEF QueueInv, Holding
  <2>3. Pushee(p) \in Node /\ target[p] \in List /\ Free(Q, Pushee(p)) /\ target[p] # "mutex"
    BY <2>1, PusheeFree DEF QueueInv, KernelInv, ControlInv, WindowsClosed
  <2>4. IsChain(lists, "mutex", Chains(Q, target[p], Pushee(p), pushed[p])["mutex"])
    BY <1>0, <2>1, <2>2, <2>3, Typed, StageChains
  <2>5. Q \in Queues /\ Distinct(Q)
    BY <2>2 DEF Are
  <2>6. Chains(Q, target[p], Pushee(p), pushed[p])["mutex"] = Q["mutex"]
    BY <1>0, <2>3, <2>5 DEF Chains, Pushed, Queues
  <2> QED
    BY <2>4, <2>5, <2>6
<1>2. CASE ~Pushing
  BY <1>0, <1>2 DEF QueueInv, Holding, Are
<1> QED
  BY <1>1, <1>2

\* A process on its way to the mutex is not among its sleepers.
LEMMA ListInvMutex == ListInv => MutexNoLostWakeup
<1> SUFFICES ASSUME ListInv, ~locked, lists.head["mutex"] # Nil
             PROVE  \E p \in Node : pc[p] = "lock" /\ ~OnList("mutex", p)
  BY DEF MutexNoLostWakeup
<1>1. KernelInv
  BY DEF ListInv
<1>2. PICK Q : QueueInv(Q)
  BY DEF ListInv
<1>3. Q \in Queues /\ Distinct(Q) /\ IsChain(lists, "mutex", Q["mutex"]) /\ "mutex" \in List
  BY <1>1, <1>2, MutexQueue, ListNames
<1>4. \A p \in Node : OnList("mutex", p) <=> Home(p) = "mutex"
  BY <1>2, <1>3, OnListIsOn DEF QueueInv, Placed, PlacedOf, Home
<1>5. \E p \in Node : Home(p) = "mutex"
  <2>1. Q["mutex"] # <<>> /\ Q["mutex"] \in Seq(Node)
    BY <1>3 DEF IsChain, Queues
  <2>2. Q["mutex"][1] \in Node /\ 1 \in 1 .. Len(Q["mutex"])
    BY <2>1, QueueFacts
  <2>3. On(Q, "mutex", Q["mutex"][1])
    BY <2>2 DEF On
  <2> QED
    BY <1>2, <1>3, <2>2, <2>3 DEF QueueInv, Placed, PlacedOf, Home
<1> QED
  BY <1>1, <1>4, <1>5 DEF KernelInv, ControlInv, MutexRetried

\* Whoever owes the acknowledgement has the processor or is queued for it.
LEMMA ListInvIdle == ListInv => IdleHearsInterrupts
<1> SUFFICES ASSUME ListInv PROVE IdleHearsInterrupts
  OBVIOUS
<1>1. KernelInv
  BY DEF ListInv
<1>2. PICK Q : QueueInv(Q)
  BY DEF ListInv
<1>3. current = Nil /\ ~irq => ~inService
  BY <1>1 DEF KernelInv, ControlInv, IdleOwesNothing, IInv, EndOfInterruptOwed
<1>4. ASSUME ~MidPush, NEW p \in Node, owes[p] PROVE p = current \/ OnList("ready", p)
  <2>1. p = current \/ Home(p) = "ready"
    BY <1>1, <1>4 DEF KernelInv, ControlInv, Standing, StandingOf, Home
  <2>2. Are(lists, Q) /\ "ready" \in List
    BY <1>1, <1>2, <1>4, WholeLists, ListNames
  <2>3. OnList("ready", p) <=> Home(p) = "ready"
    BY <1>2, <2>2, OnListIsOn DEF Are, QueueInv, Placed, PlacedOf, Home
  <2> QED
    BY <2>1, <2>3
<1> QED
  BY <1>3, <1>4 DEF IdleHearsInterrupts

\* Outside a push the lists are whole, and every process that has not got the
\* processor is on the list where it will be found: no process is forgotten.
THEOREM KernelNoProcessLost ==
    ASSUME Unprotected = FALSE PROVE Spec => []NoProcessLost
BY KernelLists, ListInvNoProcessLost, PTL

\* A process waiting for the mutex is never left behind: while the mutex is free,
\* another is on its way to take it and to wake a sleeper when it unlocks.
THEOREM KernelNoLostWakeup ==
    ASSUME Unprotected = FALSE PROVE Spec => []MutexNoLostWakeup
BY KernelLists, ListInvMutex, PTL

\* The idle loop never halts while the controller waits for an acknowledgement,
\* and the process that owes it will have the processor again.
THEOREM KernelIdleHears ==
    ASSUME Unprotected = FALSE PROVE Spec => []IdleHearsInterrupts
BY KernelLists, ListInvIdle, PTL

-----------------------------------------------------------------------------
(***************************************************************************)
(* The refinement: what the pointers show is the abstract scheduler's state. *)
(***************************************************************************)

\* What Queued reads off a list whose chain is q, but for a node in transit at
\* its end.
LEMMA QueuedIs ==
    ASSUME NEW C \in Queues, Distinct(C), NEW l \in List, IsChain(lists, l, C[l]),
           NEW q \in Seq(Node), \A i \in 1 .. Len(q) : ~InTransit(q[i]),
           \/ C[l] = q
           \/ \E n \in Node : InTransit(n) /\ C[l] = Append(q, n)
    PROVE  Queued(l) = q
<1> DEFINE nth == Nth(l)
           N == Cardinality(Node)
           K == {k \in DOMAIN nth : nth[k] # Nil /\ ~InTransit(nth[k])}
<1>1. /\ DOMAIN nth = 0 .. N
      /\ \A k \in 0 .. N : nth[k] = IF k < Len(C[l]) THEN C[l][k + 1] ELSE Nil
      /\ N \in Nat /\ Len(C[l]) \in Nat /\ Len(C[l]) <= N
  BY NthFacts, QueueBound
<1>2. Len(q) \in Nat /\ \A i \in 1 .. Len(q) : q[i] \in Node /\ q[i] # Nil
  BY QueueFacts
<1>3. /\ Len(q) <= Len(C[l])
      /\ \A i \in 1 .. Len(q) : C[l][i] = q[i]
      /\ \A i \in 1 .. Len(C[l]) : i > Len(q) => InTransit(C[l][i])
  <2>1. CASE C[l] = q
    BY <1>2, <2>1
  <2>2. CASE \E n \in Node : InTransit(n) /\ C[l] = Append(q, n)
    <3>1. PICK n \in Node : InTransit(n) /\ C[l] = Append(q, n)
      BY <2>2
    <3>2. /\ Len(C[l]) = Len(q) + 1
          /\ \A i \in 1 .. Len(q) + 1 : C[l][i] = IF i <= Len(q) THEN q[i] ELSE n
      BY <3>1, AppendFacts
    <3> QED
      BY <1>2, <3>1, <3>2
  <2> QED
    BY <2>1, <2>2
<1> HIDE DEF nth, N
<1>4. \A k \in 0 .. N : k \in K <=> k \in 0 .. Len(q) - 1
  <2> SUFFICES ASSUME NEW k \in 0 .. N PROVE k \in K <=> k \in 0 .. Len(q) - 1
    OBVIOUS
  <2>1. k \in K <=> nth[k] # Nil /\ ~InTransit(nth[k])
    BY <1>1
  <2>2. CASE k < Len(q)
    <3>1. k + 1 \in 1 .. Len(q) /\ k < Len(C[l])
      BY <1>1, <1>2, <1>3, <2>2
    <3>2. nth[k] = q[k + 1]
      BY <1>1, <1>3, <3>1
    <3> QED
      BY <1>2, <2>1, <2>2, <3>1, <3>2
  <2>3. CASE ~(k < Len(q)) /\ k < Len(C[l])
    <3>1. k + 1 \in 1 .. Len(C[l]) /\ k + 1 > Len(q)
      BY <1>1, <1>2, <2>3
    <3>2. nth[k] = C[l][k + 1] /\ InTransit(C[l][k + 1])
      BY <1>1, <1>3, <2>3, <3>1
    <3> QED
      BY <1>2, <2>1, <2>3, <3>2
  <2>4. CASE ~(k < Len(q)) /\ ~(k < Len(C[l]))
    BY <1>1, <1>2, <2>1, <2>4
  <2> QED
    BY <2>2, <2>3, <2>4
<1>5. K = 0 .. Len(q) - 1
  <2>1. K \subseteq 0 .. N /\ 0 .. Len(q) - 1 \subseteq 0 .. N
    BY <1>1, <1>2, <1>3
  <2> QED
    BY <1>4, <2>1
<1>6. Cardinality(K) = Len(q)
  <2>1. Len(q) - 1 \in Int /\ 0 \in Int
    BY <1>2
  <2>2. Cardinality(0 .. Len(q) - 1) = IF 0 > Len(q) - 1 THEN 0 ELSE (Len(q) - 1) - 0 + 1
    BY <2>1, FS_Interval
  <2> HIDE DEF K
  <2>3. IF 0 > Len(q) - 1 THEN Len(q) = 0 ELSE (Len(q) - 1) - 0 + 1 = Len(q)
    BY <1>2
  <2> QED
    BY <1>5, <2>2, <2>3
<1>7. Queued(l) = [k \in 1 .. Cardinality(K) |-> nth[k - 1]]
  BY DEF Queued, nth, K
<1>8. \A k \in 1 .. Len(q) : nth[k - 1] = q[k]
  <2> SUFFICES ASSUME NEW k \in 1 .. Len(q) PROVE nth[k - 1] = q[k]
    OBVIOUS
  <2>1. k - 1 \in 0 .. N /\ k - 1 < Len(C[l]) /\ (k - 1) + 1 = k
    BY <1>1, <1>2, <1>3
  <2> QED
    BY <1>1, <1>3, <2>1
<1>9. q = [k \in 1 .. Len(q) |-> q[k]]
  BY LenProperties
<1> QED
  BY <1>6, <1>7, <1>8, <1>9

\* R is Q without a process that process_wait has pushed but that still runs.
Behind(Q, R) ==
    /\ R \in Queues
    /\ IF current # Nil /\ pc[current] = "block"
       THEN Q = Pushed(R, target[current], current)
       ELSE Q = R

\* Queued shows those queues.
Shown ==
    \A Q, R : QueueInv(Q) /\ Behind(Q, R) => \A l \in List : Queued(l) = R[l]

\* What Queued reads off the pointers are the queues of the invariant.
LEMMA ShownAlways == KernelInv => Shown
<1> SUFFICES ASSUME KernelInv, NEW Q, NEW R, QueueInv(Q), Behind(Q, R), NEW l \in List
             PROVE  Queued(l) = R[l]
  BY DEF Shown
<1>1. R \in Queues /\ R[l] \in Seq(Node) /\ Len(R[l]) \in Nat
  BY QueueFacts DEF Behind, Queues
<1>2. CASE ~InWindow
  <2>1. R = Q /\ Are(lists, Q)
    BY <1>2 DEF Behind, InWindow, QueueInv, Holding, Pushing
  <2>2. \A n : ~InTransit(n)
    BY <1>2 DEF InTransit
  <2>3. Distinct(Q) /\ IsChain(lists, l, Q[l])
    BY <2>1 DEF Are
  <2> QED
    BY <1>1, <2>1, <2>2, <2>3, QueuedIs
<1>3. ASSUME NEW p \in Node, p = current, pc[p] = "block" PROVE Queued(l) = R[l]
  <2>1. target[p] \in {"clock", "keyboard"}
    BY <1>3 DEF KernelInv, ControlInv, WindowsClosed
  <2>2. target[p] \in List /\ target[p] # "ready"
    BY <2>1, ListNames
  <2>3. Q = Pushed(R, target[p], p) /\ Are(lists, Q)
    BY <1>3, NilAssumption DEF Behind, QueueInv, Holding, Pushing
  <2>4. \A n : InTransit(n) <=> n = p
    BY <1>3, <2>2, NilAssumption DEF InTransit, InWindow, Pushee
  <2>5. /\ Q[target[p]] = Append(R[target[p]], p)
        /\ \A m \in List : m # target[p] => Q[m] = R[m]
    BY <1>1, <2>2, <2>3 DEF Pushed, Queues
  <2>6. Q \in Queues /\ Distinct(Q) /\ IsChain(lists, l, Q[l])
    BY <2>3 DEF Are
  <2>7. \A i \in 1 .. Len(R[l]) : R[l][i] # p
    <3> SUFFICES ASSUME NEW i \in 1 .. Len(R[l]), R[l][i] = p PROVE FALSE
      OBVIOUS
    <3> DEFINE t == target[p]
               j == Len(R[t]) + 1
    <3>1. R[t] \in Seq(Node) /\ Len(R[t]) \in Nat
      BY <1>1, <2>2, QueueFacts DEF Queues
    <3>2. Len(Q[t]) = j /\ j \in 1 .. Len(Q[t]) /\ Q[t][j] = p
          /\ \A k \in 1 .. Len(R[t]) : Q[t][k] = R[t][k]
      BY <2>5, <3>1, AppendFacts
    <3>3. i \in 1 .. Len(Q[l]) /\ Q[l][i] = p
      <4>1. CASE l = t
        BY <3>1, <3>2, <4>1
      <4>2. CASE l # t
        BY <2>5, <4>2
      <4> QED
        BY <4>1, <4>2
    <3>4. l = t /\ i = j
      BY <2>2, <2>6, <3>2, <3>3, SMTT(40) DEF Distinct
    <3> QED
      BY <3>1, <3>4
  <2>8. \/ Q[l] = R[l]
        \/ \E n \in Node : InTransit(n) /\ Q[l] = Append(R[l], n)
    BY <2>4, <2>5
  <2> QED
    BY <1>1, <2>4, <2>6, <2>7, <2>8, QueuedIs
<1>4. ASSUME NEW p \in Node, p = current, pc[p] = "enq" PROVE Queued(l) = R[l]
  <2> DEFINE t == target[p]
             n == Pushee(p)
             k == pushed[p]
  <2>1. R = Q /\ Placed(Q)
    BY <1>4 DEF Behind, QueueInv
  <2>2. n \in Node /\ t \in List /\ Free(Q, n)
    BY <1>4, <2>1, PusheeFree
  <2>3. \A m : InTransit(m) <=> m = n
    BY <1>4, NilAssumption DEF InTransit, InWindow
  <2>4. PICK s : Are(s, Q) /\ lists = Stage(s, t, n, k)
    BY <1>4, NilAssumption DEF QueueInv, Holding, Pushing
  <2>5. k \in 0 .. PushSteps - 1
    BY Typed
  <2> HIDE DEF t, n, k
  <2> DEFINE C == Chains(Q, t, n, k)
  <2>6. IsChain(lists, l, C[l])
    BY <2>2, <2>4, <2>5, StageChains
  <2>7. Q \in Queues /\ Distinct(Q)
    BY <2>4 DEF Are
  <2>8. C \in Queues /\ Distinct(C)
    BY <2>2, <2>7, PushedFacts DEF Chains
  <2>9. \/ C[l] = Q[l]
        \/ C[l] = Append(Q[l], n)
    BY <2>7 DEF Chains, Pushed, Queues
  <2>10. \A i \in 1 .. Len(Q[l]) : Q[l][i] # n
    BY <2>2 DEF Free, On
  <2> HIDE DEF C
  <2> QED
    BY <1>1, <2>1, <2>2, <2>3, <2>6, <2>8, <2>9, <2>10, QueuedIs
<1> QED
  BY <1>2, <1>3, <1>4, Typed DEF InWindow, Ptr

\* The abstract scheduler's queues are those of A.
Reads(A) == A \in Queues /\ \A l \in List : Queued(l) = A[l]

\* Nobody being between his push and process_switch, all queues show.
LEMMA ReadsUnblocked ==
    ASSUME Shown, NEW Q, QueueInv(Q), \A q \in Node : pc[q] # "block", current \in Ptr
    PROVE  Reads(Q)
<1>1. Q \in Queues
  BY DEF QueueInv, Holding, Are
<1>2. Behind(Q, Q)
  BY <1>1 DEF Behind, Ptr
<1> QED
  BY <1>1, <1>2 DEF Shown, Reads

\* The same, after a step.
LEMMA ReadsNext ==
    ASSUME Shown', NEW Q, QueueInv(Q)', \A q \in Node : pc'[q] # "block", current' \in Ptr
    PROVE  Reads(Q)'
<1>1. Q \in Queues
  BY DEF QueueInv, Holding, Are
<1>2. Behind(Q, Q)'
  BY <1>1 DEF Behind, Ptr
<1> QED
  BY <1>1, <1>2 DEF Shown, Reads

\* The processor goes to the first of A's ready processes.
Given(A) == IF A["ready"] = <<>> THEN current' = Nil ELSE current' = Head(A["ready"])

\* Dispatch is the abstract Give.
LEMMA GiveMaps ==
    ASSUME NEW A \in Queues, Reads(Dispatched(A))', Given(A)
    PROVE  /\ Abstract!Give(A["ready"])
           /\ \A l \in List \ {"ready"} : Queued(l)' = A[l]
<1>0. "ready" \in List
  BY ListNames
<1>1. CASE A["ready"] = <<>>
  BY <1>0, <1>1 DEF Given, Dispatched, Reads, Abstract!Give
<1>2. CASE A["ready"] # <<>>
  <2>1. Dispatched(A)["ready"] = Tail(A["ready"])
        /\ \A l \in List \ {"ready"} : Dispatched(A)[l] = A[l]
    BY <1>0, <1>2 DEF Dispatched, Popped, Queues
  <2> QED
    BY <1>0, <1>2, <2>1 DEF Given, Reads, Abstract!Give
<1> QED
  BY <1>1, <1>2

\* process_yield and process_preempt.
LEMMA RotateMaps ==
    ASSUME NEW A, Reads(A), NEW p \in Node, current = p,
           Reads(Dispatched(Pushed(A, "ready", p)))', Given(Pushed(A, "ready", p)),
           NotStarted' = NotStarted, Pushed(A, "ready", p) \in Queues
    PROVE  Abstract!Rotate
<1> DEFINE R == Pushed(A, "ready", p)
<1>1. R["ready"] = Append(A["ready"], p) /\ \A l \in List \ {"ready"} : R[l] = A[l]
  BY ListNames DEF Pushed, Queues, Reads
<1> HIDE DEF R
<1>2. Abstract!Give(R["ready"]) /\ \A l \in List \ {"ready"} : Queued(l)' = R[l]
  BY GiveMaps DEF R
<1>3. Queued("ready") = A["ready"] /\ \A l \in List \ {"ready"} : Queued(l) = A[l]
  BY ListNames DEF Reads
<1>4. Abstract!Give(Append(Queued("ready"), current))
  BY <1>1, <1>2, <1>3
<1>5. [q \in List \ {"ready"} |-> Queued(q)]' = [q \in List \ {"ready"} |-> Queued(q)]
  BY <1>1, <1>2, <1>3
<1> QED
  BY <1>4, <1>5, NilAssumption DEF Abstract!Rotate

\* The waiting queues, when those of A are what Queued reads.
LEMMA ReadsLists ==
    ASSUME NEW A, Reads(A)
    PROVE  /\ Queued("ready") = A["ready"]
           /\ \A q \in List \ {"ready"} :
                /\ Queued(q) = A[q]
                /\ [m \in List \ {"ready"} |-> Queued(m)][q] = A[q]
BY ListNames DEF Reads

\* process_wait.
LEMMA WaitMaps ==
    ASSUME NEW A, Reads(A), NEW p \in Node, current = p, NEW l \in List \ {"ready"},
           Reads(Dispatched(Pushed(A, l, p)))', Given(Pushed(A, l, p)),
           NotStarted' = NotStarted, Pushed(A, l, p) \in Queues
    PROVE  Abstract!Wait(l)
<1> DEFINE R == Pushed(A, l, p)
           W == [q \in List \ {"ready"} |-> Queued(q)]
<1>1. /\ R["ready"] = A["ready"] /\ R[l] = Append(A[l], p)
      /\ \A q \in List \ {"ready", l} : R[q] = A[q]
  BY ListNames DEF Pushed, Queues, Reads
<1> HIDE DEF R
<1>2. Abstract!Give(R["ready"]) /\ \A q \in List \ {"ready"} : Queued(q)' = R[q]
  BY GiveMaps DEF R
<1>3. Queued("ready") = A["ready"] /\ \A q \in List \ {"ready"} : Queued(q) = A[q]
  BY ReadsLists
<1>4. W' = [W EXCEPT ![l] = Append(@, current)]
  BY <1>1, <1>2, <1>3
<1> QED
  BY <1>1, <1>2, <1>3, <1>4, NilAssumption DEF Abstract!Wait

\* process_exit.
LEMMA ExitMaps ==
    ASSUME NEW A, Reads(A), current # Nil, Reads(Dispatched(A))', Given(A),
           NotStarted' = NotStarted
    PROVE  Abstract!Exit
<1>1. /\ A \in Queues /\ Queued("ready") = A["ready"]
      /\ \A q \in List \ {"ready"} : Queued(q) = A[q]
  BY ReadsLists DEF Reads
<1>2. Abstract!Give(A["ready"]) /\ \A q \in List \ {"ready"} : Queued(q)' = A[q]
  BY <1>1, GiveMaps
<1>3. [q \in List \ {"ready"} |-> Queued(q)]' = [q \in List \ {"ready"} |-> Queued(q)]
  BY <1>1, <1>2
<1> QED
  BY <1>1, <1>2, <1>3 DEF Abstract!Exit

\* The idle loop, which may find nothing.
LEMMA PickMaps ==
    ASSUME NEW A, Reads(A), current = Nil, Reads(Dispatched(A))', Given(A),
           NotStarted' = NotStarted
    PROVE  Abstract!Pick \/ UNCHANGED Abstract!rrVars
<1>1. /\ A \in Queues /\ Queued("ready") = A["ready"]
      /\ \A q \in List \ {"ready"} : Queued(q) = A[q]
  BY ReadsLists DEF Reads
<1>2. Abstract!Give(A["ready"]) /\ \A q \in List \ {"ready"} : Queued(q)' = A[q]
  BY <1>1, GiveMaps
<1>3. [q \in List \ {"ready"} |-> Queued(q)]' = [q \in List \ {"ready"} |-> Queued(q)]
  BY <1>1, <1>2
<1>4. CASE A["ready"] = <<>>
  BY <1>1, <1>2, <1>3, <1>4 DEF Abstract!Give, Abstract!rrVars
<1>5. CASE A["ready"] # <<>>
  BY <1>1, <1>2, <1>3, <1>5 DEF Abstract!Pick
<1> QED
  BY <1>4, <1>5

\* add_process_to_ready_queue.
LEMMA StartMaps ==
    ASSUME NEW A, Reads(A), current # Nil, NEW c \in NotStarted, c \in Node,
           Reads(Pushed(A, "ready", c))', current' = current,
           NotStarted' = NotStarted \ {c}
    PROVE  Abstract!Start(c)
<1> DEFINE R == Pushed(A, "ready", c)
<1>1. R["ready"] = Append(A["ready"], c) /\ \A l \in List \ {"ready"} : R[l] = A[l]
  BY ListNames DEF Pushed, Queues, Reads
<1> HIDE DEF R
<1>2. \A l \in List : Queued(l)' = R[l]
  BY DEF Reads, R
<1>3. Queued("ready") = A["ready"] /\ \A l \in List \ {"ready"} : Queued(l) = A[l]
  BY ReadsLists
<1>4. [q \in List \ {"ready"} |-> Queued(q)]' = [q \in List \ {"ready"} |-> Queued(q)]
  BY <1>1, <1>2, <1>3
<1>5. Queued("ready")' = Append(Queued("ready"), c)
  BY <1>1, <1>2, <1>3, ListNames
<1> QED
  BY <1>4, <1>5 DEF Abstract!Start

\* process_wakeup, and what an idle processor does next.
LEMMA WakeMaps ==
    ASSUME NEW A, Reads(A), NEW l \in List \ {"ready"}, Woken(A, l) \in Queues,
           \/ Reads(Woken(A, l))' /\ current' = current
           \/ current = Nil /\ Reads(Dispatched(Woken(A, l)))' /\ Given(Woken(A, l)),
           NotStarted' = NotStarted
    PROVE  Abstract!Wake(l) \/ Abstract!Pick \/ UNCHANGED Abstract!rrVars
<1> DEFINE R == Woken(A, l)
           W == [q \in List \ {"ready"} |-> Queued(q)]
<1>1. Queued("ready") = A["ready"] /\ \A q \in List \ {"ready"} : Queued(q) = A[q] /\ W[q] = A[q]
  BY ReadsLists
<1>2. CASE A[l] = <<>>
  <2>1. R = A
    BY <1>2 DEF Woken
  <2>2. CASE Reads(A)' /\ current' = current
    <3>1. Queued("ready")' = A["ready"] /\ \A q \in List \ {"ready"} : Queued(q)' = A[q]
      BY <2>2, ListNames DEF Reads
    <3> QED
      BY <1>1, <2>2, <3>1 DEF Abstract!rrVars
  <2>3. CASE current = Nil /\ Reads(Dispatched(A))' /\ Given(A)
    BY <2>3, PickMaps
  <2> QED
    BY <2>1, <2>2, <2>3
<1>3. CASE A[l] # <<>>
  <2>1. A \in Queues /\ A[l] \in Seq(Node) /\ "ready" \in List /\ l # "ready"
    BY ListNames DEF Reads, Queues
  <2>2. A[l][1] = Head(A[l])
    BY <1>3, <2>1, TailFacts
  <2>3. /\ R["ready"] = Append(A["ready"], Head(A[l])) /\ R[l] = Tail(A[l])
        /\ \A q \in List \ {"ready", l} : R[q] = A[q]
    BY <1>3, <2>1, <2>2 DEF Woken, Pushed, Popped, Queues
  <2> HIDE DEF R
  <2>4. (\A q \in List \ {"ready"} : Queued(q)' = R[q]) => W' = [W EXCEPT ![l] = Tail(@)]
    BY <1>1, <2>3
  <2>5. CASE Reads(R)' /\ current' = current
    <3>1. Queued("ready")' = R["ready"] /\ \A q \in List \ {"ready"} : Queued(q)' = R[q]
      BY <2>5, ListNames DEF Reads
    <3> QED
      BY <1>1, <1>3, <2>3, <2>4, <2>5, <3>1 DEF Abstract!Wake
  <2>6. CASE current = Nil /\ Reads(Dispatched(R))' /\ Given(R)
    <3>1. Abstract!Give(R["ready"]) /\ \A q \in List \ {"ready"} : Queued(q)' = R[q]
      BY <2>6, GiveMaps DEF R
    <3> QED
      BY <1>1, <1>3, <2>3, <2>4, <2>6, <3>1 DEF Abstract!Wake
  <2> QED
    BY <2>5, <2>6 DEF R
<1> QED
  BY <1>2, <1>3

-----------------------------------------------------------------------------
(***************************************************************************)
(* Every action of Kernel is an action of RoundRobin, or none.             *)
(***************************************************************************)

\* While nobody pushes a child, the processes not started are the unborn.
LEMMA FreshKept ==
    ASSUME \A q \in Node : (pc'[q] = "unborn" <=> pc[q] = "unborn"),
           \A q \in Node : BeingStarted(q, pc', child') <=> BeingStarted(q, pc, child)
    PROVE  NotStarted' = NotStarted
BY DEF NotStarted, BeingStarted

\* None is being pushed before or after the step.
LEMMA FreshOutside ==
    ASSUME \A q \in Node : /\ pc'[q] = "unborn" <=> pc[q] = "unborn"
                           /\ pc[q] # "enq" /\ pc'[q] # "enq"
    PROVE  NotStarted' = NotStarted
BY DEF NotStarted

\* A step that moves no process of the queues.
LEMMA StutterMaps ==
    ASSUME NEW A, Reads(A), Reads(A)', current' = current, NotStarted' = NotStarted
    PROVE  UNCHANGED Abstract!rrVars
<1>1. /\ Queued("ready") = A["ready"]
      /\ \A q \in List \ {"ready"} : Queued(q) = A[q]
  BY ReadsLists
<1>2. /\ Queued("ready")' = A["ready"]
      /\ \A q \in List \ {"ready"} : Queued(q)' = A[q]
  BY ListNames DEF Reads
<1> QED
  BY <1>1, <1>2 DEF Abstract!rrVars

\* The abstract scheduler takes a step or none.
Maps == [Abstract!Next]_(Abstract!rrVars)

\* The calls and steps that touch no list.
LEMMA QuietMaps ==
    ASSUME KernelInv, KernelInv', Shown, Shown', NEW Q, QueueInv(Q), NEW p \in Node, QuietOf(p)
    PROVE  Maps
<1>1. /\ current = p /\ current' = p /\ child' = child /\ ~owes[p] /\ ~irq
      /\ pc[p] \in {"user", "lock", "crit", "slept", "spawn"}
      /\ pc'[p] \in {"user", "lock", "crit", "enq", "spawn"}
      /\ \A q \in Node \ {p} : pc'[q] = pc[q]
  <2> USE DEF At, Goto, Stay, procVars
  <2>1. pc \in [Node -> Labels]
    BY Typed
  <2>2. CASE (\E j \in {"read", "run"} : SysFile(p, j)) \/ KeyboardRead(p)
    BY <2>1, <2>2 DEF SysFile, KeyboardRead
  <2>3. CASE ClockWaitLoop(p)
    BY <2>1, <2>3 DEF ClockWaitLoop
  <2>4. CASE AtaWait(p) \/ SpawnFails(p)
    BY <2>1, <2>4 DEF AtaWait, SpawnFails
  <2>5. CASE MutexLock(p) /\ ~locked
    BY <2>1, <2>5 DEF MutexLock
  <2> QED
    BY <2>2, <2>3, <2>4, <2>5 DEF QuietOf
<1>2. child[p] = Nil /\ \A q \in Node : pc[q] # "block"
  BY <1>1 DEF KernelInv, ControlInv, WindowsClosed, ChildrenKnown
<1>3. \A q \in Node : pc'[q] # "block"
  BY <1>1, <1>2
<1>4. current \in Ptr /\ current' \in Ptr
  BY Typed, <1>1 DEF Ptr
<1>5. Reads(Q)
  BY <1>2, <1>4, ReadsUnblocked
<1>6. QueueInv(Q)'
  BY QuietOfQ
<1>7. Reads(Q)'
  BY <1>3, <1>4, <1>6, ReadsNext
<1>8. \A q \in Node : BeingStarted(q, pc', child') <=> BeingStarted(q, pc, child)
  BY <1>1, <1>2, NilAssumption DEF BeingStarted
<1>9. NotStarted' = NotStarted
  BY <1>1, <1>8, FreshKept
<1> QED
  BY <1>1, <1>5, <1>7, <1>9, StutterMaps DEF Maps

\* A child that is created is not started yet.
LEMMA SpawnMaps ==
    ASSUME KernelInv, KernelInv', Shown, Shown', NEW Q, QueueInv(Q), NEW p \in Node, NEW c \in Node,
           Spawn(p, c)
    PROVE  Maps
<1>1. /\ current = p /\ current' = p /\ child'[p] = c /\ pc[p] = "spawn" /\ pc[c] = "unborn"
      /\ pc'[p] = "enq" /\ pc'[c] = "user"
      /\ \A q \in Node \ {p, c} : pc'[q] = pc[q]
      /\ \A q \in Node \ {p} : child'[q] = child[q]
  BY Typed DEF Spawn, At, Stay
<1>2. \A q \in Node : pc[q] # "block" /\ pc[q] # "enq"
  BY <1>1 DEF KernelInv, ControlInv, WindowsClosed
<1>3. \A q \in Node : pc'[q] # "block"
  BY <1>1, <1>2
<1>4. current \in Ptr /\ current' \in Ptr
  BY <1>1 DEF Ptr
<1>5. Reads(Q)
  BY <1>2, <1>4, ReadsUnblocked
<1>6. QueueInv(Q)'
  BY SpawnQ
<1>7. Reads(Q)'
  BY <1>3, <1>4, <1>6, ReadsNext
<1>8. \A q \in Node : BeingStarted(q, pc', child') <=> q = c
  BY <1>1, <1>2 DEF BeingStarted
<1>9. NotStarted' = NotStarted
  BY <1>1, <1>2, <1>8 DEF NotStarted, BeingStarted
<1> QED
  BY <1>1, <1>5, <1>7, <1>9, StutterMaps DEF Maps

\* The queues Queued reads exist, in every state.
LEMMA BehindExists ==
    ASSUME KernelInv, NEW Q, QueueInv(Q)
    PROVE  \E R : Behind(Q, R)
<1>1. Q \in Queues
  BY DEF QueueInv, Holding, Are
<1>2. CASE current # Nil /\ pc[current] = "block"
  <2> DEFINE p == current
             l == target[p]
  <2>1. p \in Node /\ l \in List
    BY <1>2, Typed DEF Ptr
  <2>2. Q[l] # <<>> /\ Q[l][Len(Q[l])] = p
    BY <1>2, <2>1 DEF QueueInv, BlockLast
  <2>3. Q[l] \in Seq(Node)
    BY <1>1, <2>1 DEF Queues
  <2>4. PICK q \in Seq(Node), n \in Node : Q[l] = Append(q, n)
    BY <2>2, <2>3, SequenceEmptyOrAppend
  <2>5. n = p
    BY <2>2, <2>4, AppendFacts, QueueFacts
  <2> HIDE DEF p, l
  <2> DEFINE R == [Q EXCEPT ![l] = q]
  <2>6. R \in Queues /\ Pushed(R, l, p) = Q
    BY <1>1, <2>1, <2>4, <2>5 DEF Pushed, Queues
  <2> QED
    BY <1>2, <2>6 DEF Behind, p, l
<1>3. CASE ~(current # Nil /\ pc[current] = "block")
  BY <1>1, <1>3 DEF Behind
<1> QED
  BY <1>2, <1>3

\* The interrupt controller and hlt.
LEMMA IdleMaps ==
    ASSUME KernelInv, Shown, Shown', Unprotected = FALSE, NEW Q, QueueInv(Q),
           \/ ClockInterrupt
           \/ Halt
           \/ \E p \in Node : InterruptReturn(p)
           \/ UNCHANGED vars
    PROVE  Maps
<1>1. UNCHANGED <<current, pc, target, child>>
  BY DEF ClockInterrupt, Halt, InterruptReturn, Stay, vars, procVars, clockVars
<1>2. PICK R : Behind(Q, R)
  BY BehindExists
<1>3. QueueInv(Q)'
  BY SignalQ
<1>4. Behind(Q, R)'
  BY <1>1, <1>2 DEF Behind
<1>5. Reads(R) /\ Reads(R)'
  BY <1>2, <1>3, <1>4 DEF Shown, Reads, Behind
<1>6. NotStarted' = NotStarted
  BY <1>1 DEF NotStarted
<1> QED
  BY <1>1, <1>5, <1>6, StutterMaps DEF Maps

\* What process_switch leaves, the queues being those of R before it.
LEMMA DispatchReads ==
    ASSUME KernelInv', Shown', NEW s, NEW R, Are(s, R), NEW st \in [Node -> PState],
           Dispatch(s, st), QueueInv(Dispatched(R))', \A q \in Node : pc'[q] # "block"
    PROVE  R \in Queues /\ Reads(Dispatched(R))' /\ Given(R)
<1>1. R \in Queues
  BY DEF Are
<1>2. Given(R)
  BY DispatchStep DEF Given
<1>3. current' \in Ptr
  BY DEF KernelInv, IInv, TypeOK
<1> QED
  BY <1>1, <1>2, <1>3, ReadsNext

\* process_yield and process_preempt rotate.
LEMMA YieldMaps ==
    ASSUME KernelInv, KernelInv', Shown, Shown', NEW Q, QueueInv(Q), NEW p \in Node,
           SysYield(p) \/ RunYield(p) \/ (ClockReturn /\ PreemptDue /\ p = current)
    PROVE  Maps
<1> DEFINE s == PushTail(lists, "ready", p)
           R == Pushed(Q, "ready", p)
           st == [state EXCEPT ![p] = "READY"]
<1>1. /\ current = p /\ pc[p] \notin {"enq", "block", "unborn"} /\ Dispatch(s, st)
      /\ pc'[p] \notin {"enq", "block", "unborn"} /\ \A q \in Node \ {p} : pc'[q] = pc[q]
  <2> USE DEF At, Goto, Switch, procVars
  <2>1. pc \in [Node -> Labels]
    BY Typed
  <2>2. CASE SysYield(p)
    BY <2>1, <2>2 DEF SysYield
  <2>3. CASE RunYield(p)
    BY <2>1, <2>3 DEF RunYield
  <2>4. CASE ClockReturn /\ PreemptDue /\ p = current
    BY <2>1, <2>4 DEF ClockReturn, KernelInv, ControlInv, WindowsClosed, Standing, StandingOf
  <2> QED
    BY <2>2, <2>3, <2>4
<1>2. \A q \in Node : /\ pc[q] \notin {"enq", "block"} /\ pc'[q] \notin {"enq", "block"}
                      /\ pc'[q] = "unborn" <=> pc[q] = "unborn"
  BY <1>1 DEF KernelInv, ControlInv, WindowsClosed
<1>3. Reads(Q)
  BY <1>1, <1>2, ReadsUnblocked DEF Ptr
<1>4. Are(s, R) /\ st \in [Node -> PState]
  BY <1>1, CurrentFree, Typed, ListNames DEF PState
<1>5. QueueInv(Dispatched(R))'
  BY YieldQ, PreemptQ
<1> HIDE DEF s, R, st
<1>6. R \in Queues /\ Reads(Dispatched(R))' /\ Given(R)
  BY <1>1, <1>2, <1>4, <1>5, DispatchReads
<1>7. NotStarted' = NotStarted
  BY <1>2, FreshOutside
<1>8. Abstract!Rotate
  BY <1>1, <1>3, <1>6, <1>7, RotateMaps DEF R
<1> QED
  BY <1>8 DEF Maps, Abstract!Next

\* process_wait with interrupts disabled.
LEMMA WaitBlockedMaps ==
    ASSUME KernelInv, KernelInv', Shown, Shown', NEW Q, QueueInv(Q), NEW p \in Node,
           NEW l, \/ l = "clock" /\ \E n \in 0 .. MaxSleep : SysSleep(p, n)
                  \/ l = "mutex" /\ MutexLock(p) /\ locked
    PROVE  Maps
<1> DEFINE s == PushTail(lists, l, p)
           R == Pushed(Q, l, p)
           st == [state EXCEPT ![p] = "BLOCKED"]
<1>1. /\ current = p /\ pc[p] \notin {"enq", "block", "unborn"} /\ Dispatch(s, st)
      /\ pc'[p] \notin {"enq", "block", "unborn"} /\ \A q \in Node \ {p} : pc'[q] = pc[q]
  <2> USE DEF At, Goto, Switch, WaitBlocked
  <2>1. pc \in [Node -> Labels]
    BY Typed
  <2>2. CASE l = "clock" /\ \E n \in 0 .. MaxSleep : SysSleep(p, n)
    BY <2>1, <2>2 DEF SysSleep
  <2>3. CASE l = "mutex" /\ MutexLock(p) /\ locked
    BY <2>1, <2>3 DEF MutexLock
  <2> QED
    BY <2>2, <2>3
<1>2. \A q \in Node : /\ pc[q] \notin {"enq", "block"} /\ pc'[q] \notin {"enq", "block"}
                      /\ pc'[q] = "unborn" <=> pc[q] = "unborn"
  BY <1>1 DEF KernelInv, ControlInv, WindowsClosed
<1>3. Reads(Q)
  BY <1>1, <1>2, ReadsUnblocked DEF Ptr
<1>4. l \in List \ {"ready"} /\ Are(s, R) /\ st \in [Node -> PState]
  BY <1>1, CurrentFree, Typed, ListNames DEF PState
<1>5. QueueInv(Dispatched(R))'
  BY WaitQ
<1> HIDE DEF s, R, st
<1>6. R \in Queues /\ Reads(Dispatched(R))' /\ Given(R)
  BY <1>1, <1>2, <1>4, <1>5, DispatchReads
<1>7. NotStarted' = NotStarted
  BY <1>2, FreshOutside
<1>8. Abstract!Wait(l)
  BY <1>1, <1>3, <1>4, <1>6, <1>7, WaitMaps DEF R
<1> QED
  BY <1>4, <1>8 DEF Maps, Abstract!Next

\* process_exit leaves the processor to the next.
LEMMA SysExitMaps ==
    ASSUME KernelInv, KernelInv', Shown, Shown', NEW Q, QueueInv(Q), NEW p \in Node, SysExit(p)
    PROVE  Maps
<1> DEFINE st == [state EXCEPT ![p] = "GRAVE"]
<1>1. /\ current = p /\ pc[p] = "user" /\ Dispatch(lists, st)
      /\ pc'[p] = "dead" /\ \A q \in Node \ {p} : pc'[q] = pc[q]
  BY Typed DEF SysExit, At, Goto, Switch
<1>2. \A q \in Node : /\ pc[q] \notin {"enq", "block"} /\ pc'[q] \notin {"enq", "block"}
                      /\ pc'[q] = "unborn" <=> pc[q] = "unborn"
  BY <1>1 DEF KernelInv, ControlInv, WindowsClosed
<1>3. Reads(Q)
  BY <1>1, <1>2, ReadsUnblocked DEF Ptr
<1>4. Are(lists, Q) /\ st \in [Node -> PState]
  BY <1>1, CurrentFree, Typed DEF PState
<1>5. QueueInv(Dispatched(Q))'
  BY ExitQ
<1> HIDE DEF st
<1>6. Reads(Dispatched(Q))' /\ Given(Q)
  BY <1>1, <1>2, <1>4, <1>5, DispatchReads
<1>7. NotStarted' = NotStarted
  BY <1>2, FreshOutside
<1>8. Abstract!Exit
  BY <1>1, <1>3, <1>6, <1>7, ExitMaps, NilAssumption
<1> QED
  BY <1>8 DEF Maps, Abstract!Next

\* process_switch completes the process_wait whose push it did not see.
LEMMA BlockMaps ==
    ASSUME KernelInv, KernelInv', Shown, Shown', NEW Q, QueueInv(Q), NEW p \in Node, Block(p)
    PROVE  Maps
<1> DEFINE st == [state EXCEPT ![p] = "BLOCKED"]
           l == target[p]
<1>1. /\ current = p /\ pc[p] = "block" /\ Dispatch(lists, st)
      /\ pc'[p] \in {"user", "slept"} /\ \A q \in Node \ {p} : pc'[q] = pc[q]
  BY Typed DEF Block, At, Goto, Switch
<1>2. \A q \in Node : /\ pc[q] # "enq" /\ pc'[q] \notin {"enq", "block"}
                      /\ pc'[q] = "unborn" <=> pc[q] = "unborn"
  BY <1>1 DEF KernelInv, ControlInv, WindowsClosed
<1>3. l \in {"clock", "keyboard"}
  BY <1>1 DEF KernelInv, ControlInv, WindowsClosed
<1>4. PICK A : Behind(Q, A)
  BY BehindExists
<1>5. Reads(A) /\ Q = Pushed(A, l, p)
  BY <1>1, <1>4, NilAssumption DEF Shown, Reads, Behind
<1>6. Are(lists, Q) /\ st \in [Node -> PState]
  BY <1>1, Typed DEF QueueInv, Holding, Pushing, PState
<1>7. QueueInv(Dispatched(Q))'
  BY BlockQ
<1> HIDE DEF st, l
<1>8. Q \in Queues /\ Reads(Dispatched(Q))' /\ Given(Q)
  BY <1>1, <1>2, <1>6, <1>7, DispatchReads
<1>9. NotStarted' = NotStarted
  BY <1>2, FreshOutside
<1>10. l \in List \ {"ready"}
  BY <1>3, ListNames
<1>11. Abstract!Wait(l)
  BY <1>1, <1>5, <1>8, <1>9, <1>10, WaitMaps
<1> QED
  BY <1>10, <1>11 DEF Maps, Abstract!Next

\* A push with interrupts enabled shows when it is complete: a child's is its
\* start, the one of process_wait waits for process_switch.
LEMMA EnqueueMaps ==
    ASSUME KernelInv, KernelInv', Shown, Shown', NEW Q, QueueInv(Q), NEW p \in Node, Enqueue(p)
    PROVE  Maps
<1>1. /\ current = p /\ current' = p /\ pc[p] = "enq" /\ target' = target /\ child' = child
      /\ p # Nil /\ current \in Ptr /\ current' \in Ptr
  BY NilAssumption DEF Enqueue, At, Stay, Ptr
<1>2. \A q \in Node : pc[q] # "block" /\ (q # p => pc[q] # "enq")
  BY <1>1 DEF KernelInv, ControlInv, WindowsClosed
<1>3. Reads(Q)
  BY <1>1, <1>2, ReadsUnblocked
<1>4. CASE pushed[p] < PushSteps - 1
  <2>1. pc' = pc
    BY <1>4 DEF Enqueue
  <2>2. QueueInv(Q)'
    BY <1>4, EnqueueEarlyQ
  <2>3. Reads(Q)'
    BY <1>1, <1>2, <2>1, <2>2, ReadsNext
  <2>4. NotStarted' = NotStarted
    BY <1>1, <2>1 DEF NotStarted
  <2> QED
    BY <1>1, <1>3, <2>3, <2>4, StutterMaps DEF Maps
<1>5. CASE ~(pushed[p] < PushSteps - 1)
  <2>0. PICK l, n : l = target[p] /\ n = Pushee(p)
    OBVIOUS
  <2> DEFINE R == Pushed(Q, l, n)
  <2>1. /\ pc'[p] = IF l = "ready" THEN "yield" ELSE "block"
        /\ \A q \in Node \ {p} : pc'[q] = pc[q]
    BY <1>5, <2>0, Typed DEF Enqueue, Goto
  <2>2. QueueInv(R)'
    BY <1>5, <2>0, EnqueueLastQ
  <2>3. /\ n \in Node /\ l \in List
        /\ l = "ready" => n = child[p]
        /\ l # "ready" => n = p /\ child[p] = Nil
    BY <1>1, <2>0, PusheeFree DEF QueueInv
  <2> HIDE DEF R
  <2>4. CASE l = "ready"
    <3>1. \A q \in Node : pc'[q] # "block"
      BY <1>2, <2>1, <2>4
    <3>2. Reads(R)'
      BY <1>1, <2>2, <3>1, ReadsNext
    <3>3. /\ n \in NotStarted
          /\ NotStarted' = NotStarted \ {n}
      <4>1. \A q \in Node : BeingStarted(q, pc, child) <=> q = n
        BY <1>1, <1>2, <2>3, <2>4 DEF BeingStarted
      <4>2. pc[n] = "user"
        BY <2>3, <4>1 DEF KernelInv, ControlInv, ChildrenKnown
      <4>3. \A q \in Node : ~BeingStarted(q, pc', child')
        BY <1>2, <2>1, <2>4 DEF BeingStarted
      <4>4. \A q \in Node : pc'[q] = "unborn" <=> pc[q] = "unborn"
        BY <1>1, <2>1, <2>4
      <4> QED
        BY <2>3, <4>1, <4>2, <4>3, <4>4 DEF NotStarted, BeingStarted
    <3>4. Abstract!Start(n)
      BY <1>1, <1>3, <2>3, <2>4, <3>2, <3>3, StartMaps DEF R
    <3> QED
      BY <2>3, <3>4 DEF Maps, Abstract!Next
  <2>5. CASE l # "ready"
    <3>1. Q \in Queues
      BY <1>3 DEF Reads
    <3>2. Behind(R, Q)'
      BY <1>1, <2>0, <2>1, <2>3, <2>5, <3>1 DEF Behind, R
    <3>3. Reads(Q)'
      BY <2>2, <3>1, <3>2 DEF Shown, Reads
    <3>4. NotStarted' = NotStarted
      <4>1. \A q \in Node : ~BeingStarted(q, pc, child)
        BY <1>2, <2>3, <2>5, NilAssumption DEF BeingStarted
      <4>2. \A q \in Node : ~BeingStarted(q, pc', child')
        BY <1>2, <2>1, <2>5 DEF BeingStarted
      <4> QED
        BY <1>1, <2>1, <2>5, <4>1, <4>2, FreshKept
    <3> QED
      BY <1>1, <1>3, <3>3, <3>4, StutterMaps DEF Maps
  <2> QED
    BY <2>4, <2>5
<1> QED
  BY <1>4, <1>5

\* process_wakeup outside the windows, while a process runs or in a handler.
LEMMA WakeupMaps ==
    ASSUME KernelInv, KernelInv', Shown, Shown', Unprotected = FALSE, NEW Q, QueueInv(Q),
           NEW l,
           \/ l = "mutex" /\ \E p \in Node : MutexUnlock(p)
           \/ l = "clock" /\ ClockWakeup
           \/ l = "keyboard" /\ KeyboardInterrupt
    PROVE  Maps
<1>1. \A q \in Node : pc[q] \notin {"enq", "block"}
  BY NoWindow DEF MutexUnlock, At, ClockWakeup, KeyboardInterrupt
<1>2. \A q \in Node : pc'[q] \notin {"enq", "block"} /\ (pc'[q] = "unborn" <=> pc[q] = "unborn")
  BY <1>1, Typed DEF MutexUnlock, At, Goto, ClockWakeup, KeyboardInterrupt
<1>3. l \in List \ {"ready"} /\ current \in Ptr /\ current' \in Ptr
  BY ListNames, Typed DEF KernelInv, IInv, TypeOK
<1>4. Reads(Q) /\ Are(lists, Q)
  BY <1>1, <1>3, ReadsUnblocked DEF QueueInv, Holding, Pushing, Ptr
<1>5. Are(WokenLists(l), Woken(Q, l)) /\ WokenState(l) \in [Node -> PState]
  BY <1>1, <1>3, WokenPlaced
<1>6. Woken(Q, l) \in Queues
  BY <1>5 DEF Are
<1>7. NotStarted' = NotStarted
  BY <1>1, <1>2, FreshOutside
<1>8. \/ Reads(Woken(Q, l))' /\ current' = current
      \/ current = Nil /\ Reads(Dispatched(Woken(Q, l)))' /\ Given(Woken(Q, l))
  <2>1. CASE l = "keyboard" /\ KeyboardInterrupt /\ current = Nil /\ halted
    <3>1. Dispatch(WokenLists(l), WokenState(l)) /\ QueueInv(Dispatched(Woken(Q, l)))'
      BY <2>1, KeyboardQ DEF KeyboardInterrupt, Resume
    <3> QED
      BY <1>2, <1>5, <2>1, <3>1, DispatchReads
  <2>2. CASE ~(l = "keyboard" /\ KeyboardInterrupt /\ current = Nil /\ halted)
    <3>1. QueueInv(Woken(Q, l))'
      BY <2>2, KeyboardQ, UnlockQ, ClockWakeupQ
    <3>2. current' = current
      BY <2>2 DEF MutexUnlock, ClockWakeup, KeyboardInterrupt, Resume
    <3> QED
      BY <1>2, <1>3, <3>1, <3>2, ReadsNext
  <2> QED
    BY <2>1, <2>2
<1>9. Abstract!Wake(l) \/ Abstract!Pick \/ UNCHANGED Abstract!rrVars
  BY <1>3, <1>4, <1>6, <1>7, <1>8, WakeMaps
<1> QED
  BY <1>3, <1>9 DEF Maps, Abstract!Next

\* The return from clock_interrupt without a preemption.
LEMMA ClockReturnMaps ==
    ASSUME KernelInv, KernelInv', Shown, Shown', Unprotected = FALSE, NEW Q, QueueInv(Q),
           ClockReturn, ~PreemptDue
    PROVE  Maps
<1>1. \A q \in Node : pc[q] \notin {"enq", "block"}
  BY NoWindow DEF ClockReturn
<1>2. pc' = pc /\ Resume(lists, state)
  BY DEF ClockReturn
<1>3. current \in Ptr /\ current' \in Ptr /\ state \in [Node -> PState]
  BY Typed DEF KernelInv, IInv, TypeOK
<1>4. Reads(Q) /\ Are(lists, Q)
  BY <1>1, <1>3, ReadsUnblocked DEF QueueInv, Holding, Pushing, Ptr
<1>5. NotStarted' = NotStarted
  BY <1>1, <1>2, FreshOutside
<1>6. CASE current = Nil /\ halted
  <2>1. Dispatch(lists, state) /\ QueueInv(Dispatched(Q))'
    BY <1>2, <1>6, ClockReturnQ DEF Resume
  <2>2. Reads(Dispatched(Q))' /\ Given(Q)
    BY <1>1, <1>2, <1>3, <1>4, <2>1, DispatchReads
  <2>3. Abstract!Pick \/ UNCHANGED Abstract!rrVars
    BY <1>4, <1>5, <1>6, <2>2, PickMaps
  <2> QED
    BY <2>3 DEF Maps, Abstract!Next
<1>7. CASE ~(current = Nil /\ halted)
  <2>1. QueueInv(Q)' /\ current' = current
    BY <1>2, <1>7, ClockReturnQ DEF Resume
  <2>2. Reads(Q)'
    BY <1>1, <1>2, <1>3, <2>1, ReadsNext
  <2> QED
    BY <1>4, <1>5, <2>1, <2>2, StutterMaps DEF Maps
<1> QED
  BY <1>6, <1>7

\* Every step of the kernel is a step of the abstract scheduler, or none.
LEMMA NextMaps ==
    ASSUME Unprotected = FALSE, ListInv, ListInv', Shown, Shown', [Next]_vars
    PROVE  Maps
<1>1. PICK Q : QueueInv(Q)
  BY DEF ListInv
<1>2. KernelInv /\ KernelInv'
  BY DEF ListInv
<1>3. CASE \E p \in Node : QuietOf(p)
  BY <1>1, <1>2, <1>3, QuietMaps
<1>4. CASE \/ ClockInterrupt
           \/ Halt
           \/ \E p \in Node : InterruptReturn(p)
           \/ UNCHANGED vars
  BY <1>1, <1>2, <1>4, IdleMaps
<1>5. CASE \E p \in Node : SysYield(p) \/ RunYield(p)
  BY <1>1, <1>2, <1>5, YieldMaps
<1>6. CASE \E p \in Node : (\E n \in 0 .. MaxSleep : SysSleep(p, n)) \/ (MutexLock(p) /\ locked)
  BY <1>1, <1>2, <1>6, WaitBlockedMaps
<1>7. CASE \E p \in Node : SysExit(p)
  BY <1>1, <1>2, <1>7, SysExitMaps
<1>8. CASE \E p \in Node : Block(p)
  BY <1>1, <1>2, <1>8, BlockMaps
<1>9. CASE \E p \in Node : Enqueue(p)
  BY <1>1, <1>2, <1>9, EnqueueMaps
<1>10. CASE (\E p \in Node : MutexUnlock(p)) \/ KeyboardInterrupt \/ ClockWakeup
  BY <1>1, <1>2, <1>10, WakeupMaps
<1>11. CASE \E p \in Node, c \in Node : Spawn(p, c)
  BY <1>1, <1>2, <1>11, SpawnMaps
<1>12. CASE ClockReturn /\ PreemptDue
  <2>1. current \in Node
    BY <1>2, <1>12, Typed DEF PreemptDue, Ptr
  <2> QED
    BY <1>1, <1>2, <1>12, <2>1, YieldMaps
<1>13. CASE ClockReturn /\ ~PreemptDue
  BY <1>1, <1>2, <1>13, ClockReturnMaps
<1> QED
  BY <1>3, <1>4, <1>5, <1>6, <1>7, <1>8, <1>9, <1>10, <1>11, <1>12, <1>13
  DEF Next, KernelStep, SystemCall, Handler, QuietOf

\* The first process runs and no other has been started.
LEMMA InitMaps ==
    ASSUME Init, ListInv
    PROVE  Abstract!Init
<1>1. PICK Q : QueueInv(Q)
  BY DEF ListInv
<1>2. /\ current = Root /\ Root \in Node /\ Root # Nil
      /\ \A p \in Node : pc[p] = IF p = Root THEN "user" ELSE "unborn"
  BY KernelAssumption, NilAssumption DEF Init
<1>3. Shown
  BY ShownAlways DEF ListInv
<1>4. Reads(Q)
  BY <1>1, <1>2, <1>3, ReadsUnblocked DEF Ptr
<1>5. \A p \in Node : ~BeingStarted(p, pc, child) /\ Home(p) = "none"
  BY <1>2 DEF BeingStarted, Home, HomeOf
<1>6. \A l \in List : Q[l] = <<>>
  <2> SUFFICES ASSUME NEW l \in List, Q[l] # <<>> PROVE FALSE
    OBVIOUS
  <2>1. Q[l] \in Seq(Node)
    BY <1>4 DEF Reads, Queues
  <2>2. 1 \in 1 .. Len(Q[l]) /\ Q[l][1] \in Node
    BY <2>1, QueueFacts
  <2>3. On(Q, l, Q[l][1])
    BY <2>2 DEF On
  <2> QED
    BY <1>1, <1>5, <2>2, <2>3, ListNames DEF QueueInv, Placed, PlacedOf, Home
<1>7. Queued("ready") = <<>> /\ \A q \in List \ {"ready"} : Queued(q) = <<>>
  <2>1. \A l \in List : Queued(l) = <<>>
    BY <1>4, <1>6 DEF Reads
  <2> QED
    BY <2>1, ListNames
<1>8. NotStarted = Node \ {Root}
  BY <1>2 DEF NotStarted
<1> QED
  BY <1>2, <1>7, <1>8 DEF Abstract!Init

\* The pointers, pushes, windows and interrupts of process.c are a first-in
\* first-out scheduler: every step of Kernel is one of RoundRobin or shows nothing.
THEOREM KernelImplementsRoundRobin ==
    ASSUME Unprotected = FALSE PROVE Spec => ImplementsRoundRobin
<1>1. Init => Abstract!Init
  BY InitListInv, InitMaps
<1>2. ListInv /\ ListInv' /\ Shown /\ Shown' /\ [Next]_vars => [Abstract!Next]_(Abstract!rrVars)
  BY NextMaps DEF Maps
<1>3. ListInv => Shown
  BY ShownAlways DEF ListInv
<1>4. Spec => []ListInv
  BY KernelLists
<1> QED
  BY <1>1, <1>2, <1>3, <1>4, PTL DEF Spec, ImplementsRoundRobin, Abstract!Spec
=============================================================================
