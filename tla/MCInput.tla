------------------------------- MODULE MCInput ------------------------------
(***************************************************************************)
(* What the interrupt handlers hand on: keys and events (Input), and, in   *)
(* states of its own, the heap that events are taken from (Heap).          *)
(***************************************************************************)
EXTENDS Input, Heap

VARIABLE part     \* which of the two runs

mcVars == <<vars, heapVars, part>>

InputRuns == part = "input" /\ Next /\ UNCHANGED <<heapVars, part>>
ShellRuns == part = "input" /\ Shell /\ UNCHANGED <<heapVars, part>>
HeapRuns == part = "heap" /\ HeapNext /\ UNCHANGED <<vars, part>>

MCInit == Init /\ HeapInit /\ part \in {"input", "heap"}

\* The fairness is that of Input's FairSpec.
MCSpec == MCInit /\ [][InputRuns \/ HeapRuns]_mcVars /\ WF_mcVars(ShellRuns)
=============================================================================
