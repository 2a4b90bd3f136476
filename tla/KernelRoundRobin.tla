------------------------- MODULE KernelRoundRobin -------------------------
(***************************************************************************)
(* The scheduler's linked lists implement RoundRobin's queues.             *)
(***************************************************************************)
EXTENDS Kernel, Sequences

\* The node a push in progress links; to the abstract scheduler it has not
\* moved until process_switch, or until the push of a child is complete.
InTransit(n) ==
    /\ InWindow
    /\ n = Pushee(current)

\* The nodes of list l in order.  One in transit is the last of its list, if the
\* list has it already, and is left out.
Queued(l) ==
    LET nth == Nth(l)
        len == Cardinality({k \in DOMAIN nth : nth[k] # Nil /\ ~InTransit(nth[k])})
    IN  [k \in 1 .. len |-> nth[k - 1]]

NotStarted ==
    {p \in Node : \/ pc[p] = "unborn"
                  \/ \E r \in Node : pc[r] = "enq" /\ child[r] = p}

Abstract == INSTANCE RoundRobin
            WITH Proc <- Node, First <- Root, None <- Nil,
                 Queue <- List \ {"ready"},
                 cpu <- current,
                 ready <- Queued("ready"),
                 waiting <- [q \in List \ {"ready"} |-> Queued(q)],
                 fresh <- NotStarted

\* Every behaviour of the lists, pushes and interrupts of process.c is one of
\* the queues: first in, first out, each process in exactly one place.
ImplementsRoundRobin == Abstract!Spec
=============================================================================
