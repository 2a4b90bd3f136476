---------------------------- MODULE RoundRobin ----------------------------
(***************************************************************************)
(* What the scheduler of process.c promises, without its linked lists,     *)
(* interrupts and windows: the processes wait for the processor in one     *)
(* first-in first-out queue and for events in one such queue each; no      *)
(* process is ever in two queues or in none.                               *)
(***************************************************************************)
EXTENDS Naturals, Sequences

CONSTANTS Proc, First, Queue, None

VARIABLES cpu,      \* the process that runs, or None
          ready,    \* those that wait for the processor, in order
          waiting,  \* those that wait for an event, by queue, in order
          fresh     \* those not started yet

rrVars == <<cpu, ready, waiting, fresh>>

Init ==
    /\ cpu = First
    /\ ready = <<>>
    /\ waiting = [q \in Queue |-> <<>>]
    /\ fresh = Proc \ {First}

\* The processor goes to the first of r, which leaves it.
Give(r) ==
    IF r = <<>> THEN cpu' = None /\ ready' = <<>>
                ELSE cpu' = Head(r) /\ ready' = Tail(r)

\* process_yield, process_preempt: to the end of the queue.
Rotate ==
    /\ cpu # None
    /\ Give(Append(ready, cpu))
    /\ UNCHANGED <<waiting, fresh>>

\* process_wait(q).
Wait(q) ==
    /\ cpu # None
    /\ waiting' = [waiting EXCEPT ![q] = Append(@, cpu)]
    /\ Give(ready)
    /\ UNCHANGED fresh

\* process_exit.
Exit ==
    /\ cpu # None
    /\ Give(ready)
    /\ UNCHANGED <<waiting, fresh>>

\* add_process_to_ready_queue.
Start(p) ==
    /\ cpu # None
    /\ p \in fresh
    /\ fresh' = fresh \ {p}
    /\ ready' = Append(ready, p)
    /\ UNCHANGED <<cpu, waiting>>

\* process_wakeup(q); an idle processor may take up work at the same time.
Wake(q) ==
    /\ waiting[q] # <<>>
    /\ waiting' = [waiting EXCEPT ![q] = Tail(@)]
    /\ LET r == Append(ready, Head(waiting[q])) IN
         \/ ready' = r /\ UNCHANGED cpu
         \/ cpu = None /\ Give(r)
    /\ UNCHANGED fresh

\* The idle loop finds a process.
Pick ==
    /\ cpu = None
    /\ ready # <<>>
    /\ Give(ready)
    /\ UNCHANGED <<waiting, fresh>>

Next ==
    \/ Rotate \/ Exit \/ Pick
    \/ \E q \in Queue : Wait(q) \/ Wake(q)
    \/ \E p \in Proc : Start(p)

Spec == Init /\ [][Next]_rrVars
-----------------------------------------------------------------------------
\* The types of the variables.
TypeOK ==
    /\ cpu \in Proc \union {None}
    /\ ready \in Seq(Proc)
    /\ waiting \in [Queue -> Seq(Proc)]
    /\ fresh \in SUBSET Proc

In(s, p) == \E i \in 1 .. Len(s) : s[i] = p

Once(s) == \A i, j \in 1 .. Len(s) : s[i] = s[j] => i = j

\* No process is twice in a queue, in two queues, in a queue while it runs, or
\* in one before it is started: the one list node of a process is enough.
OnePlace ==
    /\ Once(ready) /\ \A q \in Queue : Once(waiting[q])
    /\ \A p \in Proc :
         /\ In(ready, p) => p # cpu /\ \A q \in Queue : ~In(waiting[q], p)
         /\ \A q \in Queue : In(waiting[q], p) => p # cpu
         /\ \A q, r \in Queue :
              In(waiting[q], p) /\ In(waiting[r], p) => q = r
         /\ p \in fresh => /\ p # cpu
                          /\ ~In(ready, p)
                          /\ \A q \in Queue : ~In(waiting[q], p)
=============================================================================
