------------------------------ MODULE Kernel ------------------------------
(***************************************************************************)
(* Processes, the ready list, the wait queues, the clock interrupt and the *)
(* drive mutex of NunyaOS: process.c, mutex.c, interrupt.c, pic.c, the     *)
(* part of clock.c that wakes and preempts and the waits of keyboard.c.    *)
(*                                                                         *)
(* There is one processor.  The interrupt gates clear the interrupt flag,  *)
(* so a handler and the start of a system call run without interruption;   *)
(* every stretch of code that runs with interrupts disabled is one action. *)
(* In every state of this module the flag is set: an interrupt arrives     *)
(* between any two actions, unless the interrupt controller still has the  *)
(* clock's request, the one of highest priority, in service.               *)
(*                                                                         *)
(* pc[p] is where process p continues the next time it has the processor:  *)
(*   "user"  its own code, outside the kernel; for Root, the command loop  *)
(*   "lock"  in mutex_lock, before it looks at the mutex                   *)
(*   "crit"  between mutex_lock and mutex_unlock of the drive mutex        *)
(*   "enq"   inside list_push_tail, interrupts enabled                     *)
(*   "block" in process_wait, after the push, before process_switch        *)
(*   "slept" in clock_wait, process_wait has returned                      *)
(*   "spawn" in sys_run, the program has been read                         *)
(*   "yield" in sys_run, the child is pushed, before process_yield         *)
(*   "dead", "unborn"                                                      *)
(***************************************************************************)
EXTENDS ProcessList, FiniteSets

CONSTANTS Root,                \* the process kernel_main becomes
          CLICKS_PER_SECOND,   \* clock interrupts per preemption
          MaxSleep,            \* bound: the longest sleep, in interrupts
          Unprotected          \* may interrupts arrive inside the windows?

ASSUME KernelAssumption ==
    /\ List = {"ready", "clock", "mutex", "keyboard"}
    /\ IsFiniteSet(Node)
    /\ Root \in Node
    /\ CLICKS_PER_SECOND \in Nat \ {0}
    /\ MaxSleep \in Nat
    /\ Unprotected \in BOOLEAN

VARIABLES current,    \* the process that has the processor, Nil in the idle loop
          halted,     \* the idle loop is at its hlt instruction
          state,      \* p->state
          lists,      \* ready_list, the queues of clock.c and keyboard.c, the
                      \* mutex's waitqueue
          pc,         \* see above
          pushed,     \* statements of list_push_tail done by p at "enq"
          target,     \* the list p pushes on at "enq" and "block"
          child,      \* the process sys_run of p created
          job,        \* what p reads a file for: sys_run or another call
          left,       \* clock interrupts until p's clock_wait has waited enough
          holds,      \* p is between its mutex_lock and its mutex_unlock
          locked,     \* m->locked of ata_mutex
          keys,       \* keyboard.c's buffer holds a character (bound: one)
          clicks,     \* clicks of clock.c
          irq,        \* clock_interrupt is waking the sleepers
          inService,  \* the controller has not got the clock's EOI yet
          owes        \* p was preempted inside clock_interrupt, before the EOI

procVars == <<pushed, target, child, job, left, holds>>
clockVars == <<clicks, irq, inService, owes>>
vars == <<current, halted, state, lists, pc, procVars, locked, keys, clockVars>>

PState == {"CRADLE", "READY", "RUNNING", "BLOCKED", "GRAVE"}

\* The types of the variables.
TypeOK ==
    /\ current \in Ptr
    /\ halted \in BOOLEAN
    /\ state \in [Node -> PState]
    /\ lists \in Links
    /\ pc \in [Node -> {"user", "lock", "crit", "enq", "block", "slept",
                        "spawn", "yield", "dead", "unborn"}]
    /\ pushed \in [Node -> 0 .. PushSteps - 1]
    /\ target \in [Node -> List]
    /\ child \in [Node -> Ptr]
    /\ job \in [Node -> {"read", "run"}]
    /\ left \in [Node -> 0 .. MaxSleep]
    /\ holds \in [Node -> BOOLEAN]
    /\ locked \in BOOLEAN
    /\ keys \in BOOLEAN
    /\ clicks \in 0 .. CLICKS_PER_SECOND
    /\ irq \in BOOLEAN
    /\ inService \in BOOLEAN
    /\ owes \in [Node -> BOOLEAN]

\* process_init: the boot code has become the first process.
Init ==
    /\ current = Root
    /\ halted = FALSE
    /\ state = [p \in Node |-> IF p = Root THEN "READY" ELSE "CRADLE"]
    /\ lists = Empty
    /\ pc = [p \in Node |-> IF p = Root THEN "user" ELSE "unborn"]
    /\ pushed = [p \in Node |-> 0]
    /\ target = [p \in Node |-> "ready"]
    /\ child = [p \in Node |-> Nil]
    /\ job = [p \in Node |-> "read"]
    /\ left = [p \in Node |-> 0]
    /\ holds = [p \in Node |-> FALSE]
    /\ locked = FALSE
    /\ keys = FALSE
    /\ clicks = 0
    /\ irq = FALSE
    /\ inService = FALSE
    /\ owes = [p \in Node |-> FALSE]
-----------------------------------------------------------------------------
\* The second half of process_switch: give the processor to the head of
\* ready_list, or enter the idle loop.  s and st are the lists and the process
\* states the first half leaves.
Dispatch(s, st) ==
    LET n == s.head["ready"] IN
    /\ halted' = FALSE
    /\ IF n = Nil
       THEN /\ current' = Nil
            /\ lists' = s
            /\ state' = st
       ELSE /\ current' = n
            /\ lists' = PopHead(s, "ready")
            /\ state' = [st EXCEPT ![n] = "RUNNING"]

\* process_switch(newstate) by p, the current process, when the lists are s.
Switch(p, newstate, s) ==
    Dispatch(IF newstate = "READY" THEN PushTail(s, "ready", p) ELSE s,
             [state EXCEPT ![p] = newstate])

\* Mutant: process_wait forgets the queue.
WaitNowhere(p, q) == Switch(p, "BLOCKED", lists)

\* process_wait(q) called with interrupts disabled: the push cannot be seen.
WaitBlocked(p, q) == Switch(p, "BLOCKED", PushTail(lists, q, p))

\* p has the processor, is not inside a handler it must return from, and has
\* reached l.
At(p, l) == current = p /\ ~irq /\ ~owes[p] /\ pc[p] = l

Goto(p, l) == pc' = [pc EXCEPT ![p] = l]

Stay == UNCHANGED <<current, halted, state>>
-----------------------------------------------------------------------------
\* System calls, entered from p's own code.  Root is the kernel's command
\* loop: it reads the keyboard, reads files and runs programs.

SysYield(p) ==
    /\ At(p, "user")
    /\ p # Root
    /\ Switch(p, "READY", lists)
    /\ UNCHANGED <<pc, procVars, locked, keys, clockVars>>

\* sys_sleep: the first process_wait of clock_wait runs with interrupts still
\* disabled by the system call's gate.
SysSleep(p, n) ==
    /\ At(p, "user")
    /\ p # Root
    /\ left' = [left EXCEPT ![p] = n]
    /\ WaitBlocked(p, "clock")
    /\ Goto(p, "slept")
    /\ UNCHANGED <<pushed, target, child, job, holds, locked, keys, clockVars>>

\* A call that reads a file, and sys_run, which reads a program.
SysFile(p, j) ==
    /\ At(p, "user")
    /\ job' = [job EXCEPT ![p] = j]
    /\ Goto(p, "lock")
    /\ Stay
    /\ UNCHANGED <<lists, pushed, target, child, left, holds, locked, keys, clockVars>>

SysExit(p) ==
    /\ At(p, "user")
    /\ p # Root
    /\ Goto(p, "dead")
    /\ Switch(p, "GRAVE", lists)
    /\ UNCHANGED <<procVars, locked, keys, clockVars>>
-----------------------------------------------------------------------------
\* process_wait and clock_wait with interrupts enabled.

\* keyboard_read: take a character, or wait for one and look again.
KeyboardRead(p) ==
    /\ At(p, "user")
    /\ p = Root
    /\ IF keys
       THEN keys' = FALSE /\ UNCHANGED <<pc, target>>
       ELSE /\ Goto(p, "enq")
            /\ target' = [target EXCEPT ![p] = "keyboard"]
            /\ UNCHANGED keys
    /\ Stay
    /\ UNCHANGED <<lists, pushed, child, job, left, holds, locked, clockVars>>

\* while (total < millis)
MustWaitMore(p) == left[p] > 0

\* clock_wait compares the time elapsed: it returns to its caller, or waits
\* again -- with interrupts enabled, since process_switch has set the flag.
ClockWaitLoop(p) ==
    /\ At(p, "slept")
    /\ IF MustWaitMore(p)
       THEN Goto(p, "enq") /\ target' = [target EXCEPT ![p] = "clock"]
       ELSE Goto(p, IF holds[p] THEN "crit" ELSE "user") /\ UNCHANGED target
    /\ Stay
    /\ UNCHANGED <<lists, pushed, child, job, left, holds, locked, keys, clockVars>>

\* The node list_push_tail links: the child in sys_run, else p itself.
Pushee(p) == IF target[p] = "ready" THEN child[p] ELSE p

Enqueue(p) ==
    /\ At(p, "enq")
    /\ lists' = PushStep(lists, target[p], Pushee(p), pushed[p])
    /\ IF pushed[p] < PushSteps - 1
       THEN /\ pushed' = [pushed EXCEPT ![p] = @ + 1]
            /\ UNCHANGED pc
       ELSE /\ pushed' = [pushed EXCEPT ![p] = 0]
            /\ Goto(p, IF target[p] = "ready" THEN "yield" ELSE "block")
    /\ Stay
    /\ UNCHANGED <<target, child, job, left, holds, locked, keys, clockVars>>

Block(p) ==
    /\ At(p, "block")
    /\ Switch(p, "BLOCKED", lists)
    /\ Goto(p, IF target[p] = "keyboard" THEN "user" ELSE "slept")
    /\ target' = [target EXCEPT ![p] = "ready"]
    /\ UNCHANGED <<pushed, child, job, left, holds, locked, keys, clockVars>>
-----------------------------------------------------------------------------
\* The drive: ata_read and atapi_read hold ata_mutex from start to end.

\* Mutant: no test of m->locked.
MutexLockUnchecked(p) ==
    /\ At(p, "lock")
    /\ locked' = TRUE
    /\ holds' = [holds EXCEPT ![p] = TRUE]
    /\ Goto(p, "crit")
    /\ Stay
    /\ UNCHANGED <<lists, pushed, target, child, job, left, keys, clockVars>>

MutexLock(p) ==
    /\ At(p, "lock")
    /\ IF locked
       THEN /\ WaitBlocked(p, "mutex")
            /\ UNCHANGED <<pc, locked, holds>>
       ELSE /\ locked' = TRUE
            /\ holds' = [holds EXCEPT ![p] = TRUE]
            /\ Goto(p, "crit")
            /\ Stay
            /\ UNCHANGED lists
    /\ UNCHANGED <<pushed, target, child, job, left, keys, clockVars>>

\* ata_wait finds the drive busy and calls clock_wait(0), which returns after
\* one process_wait.
AtaWait(p) ==
    /\ At(p, "crit")
    /\ left' = [left EXCEPT ![p] = 0]
    /\ target' = [target EXCEPT ![p] = "clock"]
    /\ Goto(p, "enq")
    /\ Stay
    /\ UNCHANGED <<lists, pushed, child, job, holds, locked, keys, clockVars>>

\* process_wakeup(q): the lists and the process states it leaves.
WokenLists(q) ==
    LET n == lists.head[q] IN
    IF n = Nil THEN lists ELSE PushTail(PopHead(lists, q), "ready", n)

WokenState(q) ==
    LET n == lists.head[q] IN
    IF n = Nil THEN state ELSE [state EXCEPT ![n] = "READY"]

\* Mutant: process_wakeup is forgotten.
MutexUnlockSilent(p) ==
    /\ At(p, "crit")
    /\ locked' = FALSE
    /\ holds' = [holds EXCEPT ![p] = FALSE]
    /\ Goto(p, IF job[p] = "run" THEN "spawn" ELSE "user")
    /\ job' = [job EXCEPT ![p] = "read"]
    /\ Stay
    /\ UNCHANGED <<lists, pushed, target, child, left, keys, clockVars>>

MutexUnlock(p) ==
    /\ At(p, "crit")
    /\ locked' = FALSE
    /\ holds' = [holds EXCEPT ![p] = FALSE]
    /\ lists' = WokenLists("mutex")
    /\ state' = WokenState("mutex")
    /\ Goto(p, IF job[p] = "run" THEN "spawn" ELSE "user")
    /\ job' = [job EXCEPT ![p] = "read"]
    /\ UNCHANGED <<current, halted, pushed, target, child, left, keys, clockVars>>
-----------------------------------------------------------------------------
\* sys_run after the program has been read.

\* process_create; add_process_to_ready_queue starts with interrupts enabled.
Spawn(p, c) ==
    /\ At(p, "spawn")
    /\ pc[c] = "unborn"
    /\ child' = [child EXCEPT ![p] = c]
    /\ target' = [target EXCEPT ![p] = "ready"]
    /\ pc' = [pc EXCEPT ![p] = "enq", ![c] = "user"]
    /\ Stay
    /\ UNCHANGED <<lists, pushed, job, left, holds, locked, keys, clockVars>>

\* One of the error returns: no such file, no memory, a limit exceeded.
SpawnFails(p) ==
    /\ At(p, "spawn")
    /\ Goto(p, "user")
    /\ Stay
    /\ UNCHANGED <<lists, procVars, locked, keys, clockVars>>

RunYield(p) ==
    /\ At(p, "yield")
    /\ Switch(p, "READY", lists)
    /\ Goto(p, "user")
    /\ child' = [child EXCEPT ![p] = Nil]
    /\ UNCHANGED <<pushed, target, job, left, holds, locked, keys, clockVars>>
-----------------------------------------------------------------------------
\* The interrupts, and the idle loop they can interrupt.

\* iret.  An interrupt that came out of hlt leads to another turn of the idle
\* loop, which looks at ready_list; any other returns to where it came from.
Resume(s, st) ==
    IF current = Nil /\ halted
    THEN Dispatch(s, st)
    ELSE lists' = s /\ state' = st /\ UNCHANGED <<current, halted>>

\* The windows: the current process is inside list_push_tail, or between
\* process_wait's push and process_switch's cli, with interrupts enabled.
InWindow == current # Nil /\ pc[current] \in {"enq", "block"}

\* The controller can deliver an interrupt.  With Unprotected = FALSE none
\* arrives in the windows, an assumption on the hardware that the code does
\* not enforce: see Kernel's properties.
Deliverable == ~irq /\ ~inService /\ (Unprotected \/ ~InWindow)

\* keyboard_interrupt, no window being open; the EOI included.
KeyboardInterrupt ==
    /\ Deliverable
    /\ keys' = TRUE
    /\ Resume(WokenLists("keyboard"), WokenState("keyboard"))
    /\ UNCHANGED <<pc, procVars, locked, clockVars>>

\* The controller delivers the interrupt; clock_interrupt counts it.
ClockInterrupt ==
    /\ Deliverable
    /\ irq' = TRUE
    /\ inService' = TRUE
    /\ clicks' = clicks + 1
    /\ left' = [p \in Node |-> IF left[p] > 0 THEN left[p] - 1 ELSE 0]
    /\ Stay
    /\ UNCHANGED <<lists, pc, pushed, target, child, job, holds, locked, keys, owes>>

\* One turn of the loop of process_wakeup_all(&queue).
ClockWakeup ==
    /\ irq
    /\ lists.head["clock"] # Nil
    /\ lists' = WokenLists("clock")
    /\ state' = WokenState("clock")
    /\ UNCHANGED <<current, halted, pc, procVars, locked, keys, clockVars>>

PreemptDue == /\ clicks >= CLICKS_PER_SECOND
              /\ current # Nil
              /\ lists.head["ready"] # Nil

ClicksAfter == IF clicks >= CLICKS_PER_SECOND THEN 0 ELSE clicks

\* The rest of clock_interrupt and of interrupt_handler.  process_preempt
\* switches away before interrupt_acknowledge: the preempted process owes it.
ClockReturn ==
    /\ irq
    /\ lists.head["clock"] = Nil
    /\ irq' = FALSE
    /\ clicks' = ClicksAfter
    /\ IF PreemptDue
       THEN /\ owes' = [owes EXCEPT ![current] = TRUE]
            /\ Switch(current, "READY", lists)
            /\ UNCHANGED inService
       ELSE /\ inService' = FALSE
            /\ UNCHANGED owes
            /\ Resume(lists, state)
    /\ UNCHANGED <<pc, procVars, locked, keys>>

\* Mutant: the process goes on without interrupt_acknowledge.
ReturnUnacknowledged(p) ==
    /\ current = p /\ ~irq /\ owes[p]
    /\ owes' = [owes EXCEPT ![p] = FALSE]
    /\ Stay
    /\ UNCHANGED <<lists, pc, procVars, locked, keys, clicks, irq, inService>>

\* A preempted process has the processor again: interrupt_acknowledge, iret.
InterruptReturn(p) ==
    /\ current = p /\ ~irq /\ owes[p]
    /\ owes' = [owes EXCEPT ![p] = FALSE]
    /\ inService' = FALSE
    /\ Stay
    /\ UNCHANGED <<lists, pc, procVars, locked, keys, clicks, irq>>

\* interrupt_unblock(); interrupt_wait(): the interrupts that arrive before hlt
\* do not end it.
Halt ==
    /\ current = Nil /\ ~irq /\ ~halted
    /\ halted' = TRUE
    /\ UNCHANGED <<current, state, lists, pc, procVars, locked, keys, clockVars>>
-----------------------------------------------------------------------------
\* The steps p takes once it is inside the kernel ...
KernelStep(p) ==
    \/ KeyboardRead(p) \/ ClockWaitLoop(p) \/ Enqueue(p) \/ Block(p)
    \/ MutexLock(p) \/ AtaWait(p) \/ MutexUnlock(p)
    \/ (\E c \in Node : Spawn(p, c)) \/ SpawnFails(p) \/ RunYield(p)

\* ... and the calls by which it enters it, if it ever does.
SystemCall(p) ==
    \/ SysYield(p) \/ SysExit(p)
    \/ \E n \in 0 .. MaxSleep : SysSleep(p, n)
    \/ \E j \in {"read", "run"} : SysFile(p, j)

Handler == ClockWakeup \/ ClockReturn

Next == \/ \E p \in Node : KernelStep(p) \/ SystemCall(p)
        \/ ClockInterrupt \/ KeyboardInterrupt
        \/ Handler \/ Halt \/ \E p \in Node : InterruptReturn(p)

Spec == Init /\ [][Next]_vars
-----------------------------------------------------------------------------
(***************************************************************************)
(* Safety.                                                                 *)
(***************************************************************************)

\* mutex_lock and mutex_unlock: at most one process is between its lock and
\* its unlock, through every sleep, preemption and wake-up in between, and the
\* mutex is marked locked exactly then.
MutualExclusion ==
    /\ \A p, r \in Node : holds[p] /\ holds[r] => p = r
    /\ locked <=> \E p \in Node : holds[p]

\* clock_interrupt preempts before interrupt_handler acknowledges.  The
\* controller has the clock in service exactly while the handler runs or one
\* process, never two, still has to run its interrupt_acknowledge: no
\* acknowledgement is dropped and none is sent for another's interrupt.
EndOfInterruptOwed ==
    /\ inService <=> irq \/ \E p \in Node : owes[p]
    /\ \A p, r \in Node : owes[p] /\ owes[r] => p = r
    /\ irq => \A p \in Node : ~owes[p]

\* The k-th node of list l, following next from head.
Nth(l) ==
    LET f[k \in 0 .. Cardinality(Node)] ==
          IF k = 0 THEN lists.head[l]
          ELSE IF f[k-1] = Nil THEN Nil ELSE lists.next[f[k-1]]
    IN  f

OnList(l, p) == \E k \in DOMAIN Nth(l) : Nth(l)[k] = p

MidPush == current # Nil /\ pc[current] = "enq" /\ pushed[current] > 0

\* Outside a push, every list ends, its tail pointer is its last node, and no
\* node is linked twice: the one node of a process is in one list only.
ListsIntact ==
    MidPush \/
    /\ \A l \in List : Nth(l)[Cardinality(Node)] = Nil
    /\ \A l \in List : lists.head[l] = Nil <=> lists.tail[l] = Nil
    /\ \A l \in List : lists.tail[l] # Nil =>
           OnList(l, lists.tail[l]) /\ lists.next[lists.tail[l]] = Nil
    /\ \A l, m \in List : \A i \in DOMAIN Nth(l), j \in DOMAIN Nth(m) :
           Nth(l)[i] = Nth(m)[j] /\ Nth(l)[i] # Nil => l = m /\ i = j

\* Outside a push the lists are whole, and every process is where it must be when
\* it does not have the processor: a sleeper on the clock's queue, a process
\* stopped in mutex_lock on the mutex's, Root on the keyboard's -- or, once woken
\* or preempted, on ready_list.  Nobody else is on a wait queue, and no process is
\* forgotten by all lists.
NoProcessLost ==
    /\ ListsIntact
    /\ MidPush \/
       \A p \in Node :
         CASE pc[p] \in {"dead", "unborn"} -> \A l \in List : ~OnList(l, p)
           [] p = current -> \A l \in List :
                               OnList(l, p) <=> pc[p] = "block" /\ l = target[p]
           [] state[p] = "BLOCKED" ->
                CASE pc[p] = "slept" -> OnList("clock", p)
                  [] pc[p] = "lock"  -> OnList("mutex", p)
                  [] OTHER           -> p = Root /\ OnList("keyboard", p)
           [] OTHER -> \/ OnList("ready", p)
                       \/ \E r \in Node : pc[r] = "enq" /\ child[r] = p

\* mutex_unlock wakes one waiter and the mutex can be taken by another before
\* it runs.  Even so, while the mutex is free and processes wait for it, one of
\* the others is on its way to try again, so that no waiter is left behind.
MutexNoLostWakeup ==
    ~locked /\ lists.head["mutex"] # Nil =>
        \E p \in Node : pc[p] = "lock" /\ ~OnList("mutex", p)

\* The clock can be acknowledged as long as it has to be: a preempted process
\* that owes the EOI has the processor or is queued for it, so the idle loop
\* never waits for an interrupt while the controller holds them all back.
IdleHearsInterrupts ==
    /\ current = Nil /\ ~irq => ~inService
    /\ MidPush \/ \A p \in Node : owes[p] => p = current \/ OnList("ready", p)

\* sys_process.h on yield: the process is "at the end of the ready queue" and
\* "will resume execution when it reaches the front": a process that is READY
\* and has not got the processor is on ready_list.
ReadyIsQueued ==
    \A p \in Node : state[p] = "READY" /\ p # current => OnList("ready", p)
-----------------------------------------------------------------------------
(***************************************************************************)
(* Liveness.  No fairness is asked of SystemCall: a program may compute    *)
(* for ever and it is the clock that takes the processor away.             *)
(*   - the processor executes the handler and the return from a            *)
(*     preemption, which nothing interrupts;                               *)
(*   - the clock's request is latched by the controller, so it is          *)
(*     delivered if it can be again and again;                             *)
(*   - a process that has the processor again and again gets on with its   *)
(*     kernel code, and the idle loop reaches hlt: interrupts are many     *)
(*     instructions apart;                                                 *)
(*   - the drive is not polled for ever: ata_wait gives up after           *)
(*     ATA_TIMEOUT, and the caller unlocks.                                *)
(***************************************************************************)
Fairness ==
    /\ WF_vars(Handler \/ \E p \in Node : InterruptReturn(p))
    /\ SF_vars(Halt)
    /\ SF_vars(ClockInterrupt)
    /\ \A p \in Node : SF_vars(KernelStep(p))
    /\ SF_vars(\E p \in Node : MutexUnlock(p))

FairSpec == Spec /\ Fairness

\* The clock's interrupts keep being acknowledged.  A process that is started
\* by a preemption from inside the handler does not acknowledge it; if it then
\* never calls the kernel, there are no interrupts any more.  The properties
\* below are about the behaviours where that does not happen.
Acknowledged == []<>~inService

\* The drive mutex does not stay free while processes wait for it, nor held.
MutexMoves ==
    Acknowledged =>
        /\ locked ~> ~locked
        /\ lists.head["mutex"] # Nil /\ ~locked ~> locked
=============================================================================
