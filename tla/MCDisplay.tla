----------------------------- MODULE MCDisplay ------------------------------
(***************************************************************************)
(* What the user sees, each part in states of its own:                     *)
(*                                                                         *)
(* Screen of 5 by 3 pixels, characters of 2 by 1, a pointer of 3 by 3 in a *)
(* saved square of 5 by 5, and a window one pixel from the corner;         *)
(*                                                                         *)
(* Shell with a console of 3 by 2 cells, lines of up to 3 keys, and a      *)
(* medium with directories A and A/B;                                      *)
(*                                                                         *)
(* Text, the functions of string.c that shell and console are built from.  *)
(***************************************************************************)
EXTENDS Screen, Shell, Text, TLC

CONSTANTS p1, p2

Alike == Permutations({p1, p2})

\* Screen
Frames == {<<1, 1, 2, 2>>}
Letter == {<<0, 0>>}
Strokes == {<<1, 1, -1, 0>>}
Arcs == {{<<3, 1>>}}
Spots == {<<2, 1>>}
Moves == {-4, 2}

\* Shell
ThePrompt == <<">">>
Keys == {"x", Space, Backspace}
Outputs == {<<Newline>>, <<FormFeed>>}
Tree == {<<>>, <<"A">>, <<"A", "B">>}
Arguments ==
    {[absolute |-> absolute, parts |-> names] : absolute \in BOOLEAN, names \in
        {<<"A">>, <<"..", "A">>, <<"A", ".", "B">>, <<"B", "..">>,
         <<"LONG", "B", "B">>}}
Lengths == [n \in {"A", "B", "LONG", "error"} |-> IF n = "LONG" THEN 5 ELSE 1]

ASSUME ConsoleAssumption == PrintsForward /\ ~Unprotected

\* Text
TheDelims == {{1}, {1, 2}}

VARIABLE part     \* which of the three runs

MCInit ==
    /\ ScreenInit /\ ShellInit /\ TextInit
    /\ part \in {"screen", "shell", "text"}
    /\ part # "text" => line = <<>> /\ delim = {1}

MCNext ==
    \/ part = "screen" /\ ScreenNext /\ UNCHANGED <<part, shellVars, textVars>>
    \/ part = "shell" /\ ShellNext /\ UNCHANGED <<part, screenVars, textVars>>
    \/ part = "text" /\ TextNext /\ UNCHANGED <<part, screenVars, shellVars>>

MCSpec == MCInit /\ [][MCNext]_<<part, screenVars, shellVars, textVars>>
=============================================================================
