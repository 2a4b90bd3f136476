------------------------------ MODULE MCMemory ------------------------------
(***************************************************************************)
(* Containment, who may use how many pages, and AddressSpace, which pages  *)
(* they are, with a shell and a few programs. A behaviour runs one of the  *)
(* two, the other one rests: sys_run is modelled in both, once with the    *)
(* counters it keeps and once with the pages it takes.                     *)
(***************************************************************************)
EXTENDS Containment, AddressSpace, TLC

CONSTANTS shell, page1, page2, page3,  \* pages that hold a struct process
          sh, prog1, prog2,            \* processes
          Parts      \* which of the two: "containment", "pages"

\* All slots but the shell's are alike, and so are the programs.
Alike == Permutations(Slot \ {shell}) \cup Permutations(Proc \ {sh})

\* One page of code at the bottom of the upper half, one of stack below its
\* top: tables of three entries, the first for the kernel's half.
CodeAndStack == <<<<1, 0>>, <<2, 1>>>>

\* One page of code and no kernel's half, for tables of two entries. As at the
\* real size its two indices differ.
CodeOnly == <<<<0, 1>>>>

VARIABLE part

mcVars == <<part, vars, spaceVars>>

MCInit == part \in Parts /\ Init /\ SpaceInit

ContainmentRuns == part = "containment" /\ Next /\ UNCHANGED <<part, spaceVars>>
PagesMove == part = "pages" /\ SpaceNext /\ UNCHANGED <<part, vars>>

MCSpec == MCInit /\ [][ContainmentRuns \/ PagesMove]_mcVars
=============================================================================
