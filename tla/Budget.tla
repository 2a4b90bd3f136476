------------------------------- MODULE Budget -------------------------------
(***************************************************************************)
(* What process containment promises: the processes form a tree, each has  *)
(* an allotment of pages, and what it uses together with the allotments of *)
(* its children never exceeds its own.                                     *)
(***************************************************************************)
EXTENDS Integers, FiniteSetsExt

CONSTANTS Proc, Root, None, Total

VARIABLES member,  \* the processes that exist
          boss,    \* who started each
          allot,   \* the pages each may use or give
          used     \* the pages each uses itself

vars == <<member, boss, allot, used>>

Children(p) == {c \in member : boss[c] = p}

Given(p) == MapThenSumSet(LAMBDA c : allot[c], Children(p))

Left(p) == allot[p] - used[p] - Given(p)

Init ==
    /\ member = {Root}
    /\ boss = [p \in Proc |-> None]
    /\ allot = [p \in Proc |-> IF p = Root THEN Total ELSE 0]
    /\ used = [p \in Proc |-> 0]

\* p starts c and gives it n pages out of its own.
Start(p, c, n) ==
    /\ p \in member
    /\ c \notin member
    /\ n <= Left(p)
    /\ member' = member \cup {c}
    /\ boss' = [boss EXCEPT ![c] = p]
    /\ allot' = [allot EXCEPT ![c] = n]
    /\ UNCHANGED used

\* p uses one page more.
Take(p) ==
    /\ p \in member
    /\ Left(p) > 0
    /\ used' = [used EXCEPT ![p] = @ + 1]
    /\ UNCHANGED <<member, boss, allot>>

\* c ends after its children; its pages go back to whoever started it.
End(c) ==
    /\ c \in member \ {Root}
    /\ Children(c) = {}
    /\ member' = member \ {c}
    /\ boss' = [boss EXCEPT ![c] = None]
    /\ allot' = [allot EXCEPT ![c] = 0]
    /\ used' = [used EXCEPT ![c] = 0]

Next ==
    \/ \E p, c \in Proc : \E n \in 0 .. Total : Start(p, c, n)
    \/ \E p \in Proc : Take(p) \/ End(p)

Spec == Init /\ [][Next]_vars
-----------------------------------------------------------------------------
\* Containment, at every level of the tree: a process and those below it never
\* use more than it was allotted when it was started.
Contained == \A p \in member : Left(p) >= 0
=============================================================================
