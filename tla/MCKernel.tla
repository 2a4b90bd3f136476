------------------------------ MODULE MCKernel ------------------------------
(***************************************************************************)
(* Small instances of Kernel: the command loop and one or two programs.    *)
(***************************************************************************)
EXTENDS KernelRoundRobin, TLC

CONSTANTS root, a, b

MCThree == {root, a, b}
MCTwo == {root, a}
MCList == {"ready", "clock", "mutex", "keyboard"}

\* Programs are alike; only the command loop is special.
Programs == Permutations({a, b})
=============================================================================
