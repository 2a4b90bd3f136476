------------------------------ MODULE MCFiles -------------------------------
(***************************************************************************)
(* Files with two processes: one may open a file and what is below a       *)
(* directory, the other one file. And, in states of its own, Iso on a      *)
(* small medium: blocks of eight bytes, a root directory of two blocks     *)
(* with a directory in it, and two files.                                  *)
(***************************************************************************)
EXTENDS Files, Iso, TLC

CONSTANTS p1, p2, r1, r2, hd, cd

A == <<"/", "0", "/", "a">>
AB == A \o <<"b">>
AC == A \o <<"/", "c">>

Allowances == [p \in {p1, p2} |->
                 IF p = p1 THEN <<[path |-> A, below |-> TRUE]>>
                 ELSE <<[path |-> AB, below |-> FALSE],
                        [path |-> <<"9">>, below |-> FALSE]>>]

Paths == {A, AB, AC, <<"9">>}
Modes == {<<"a", "r">>, <<"r", "r">>}
Present == {<<"/", "a">>, <<"/", "a", "b">>}

RecordOf(len, name, ext, bytes, isdir) ==
    [length |-> len, name |-> name, extent |-> ext, data |-> bytes, dir |-> isdir]

Medium ==
      2 :> RecordOf(4, "root", 1, 16, TRUE)
   @@ 8 :> RecordOf(2, "self", 1, 16, TRUE)
   @@ 10 :> RecordOf(2, "parent", 1, 16, TRUE)
   @@ 12 :> RecordOf(2, "BIN", 3, 8, TRUE)
   @@ 16 :> RecordOf(4, "SH", 6, 3, FALSE)
   @@ 20 :> RecordOf(3, "TXT", 4, 13, FALSE)
   @@ 24 :> RecordOf(2, "self", 3, 8, TRUE)
   @@ 26 :> RecordOf(2, "parent", 1, 16, TRUE)
   @@ 28 :> RecordOf(3, "LS", 4, 13, FALSE)

ASSUME MediumAssumption ==
    RecordsFit /\ DirectoriesFit /\ SelvesFit /\ NoUnit \notin Unit

NamePaths == {<<>>, <<"BIN">>, <<"BIN", "LS">>, <<"TOP", "LS">>, <<"SH">>}

ASSUME PathsAssumption == PathsFit

\* The readers are alike, and so are the two drives.
Alike == Permutations({r1, r2}) \cup Permutations({hd, cd})

VARIABLE part     \* which of the two runs

FilesRun == part = "files" /\ Next /\ UNCHANGED <<isoVars, part>>
IsoRuns == part = "iso" /\ IsoNext /\ UNCHANGED <<vars, part>>

MCInit == Init /\ IsoInit /\ part \in {"files", "iso"}

MCSpec == MCInit /\ [][FilesRun \/ IsoRuns]_<<vars, isoVars, part>>
=============================================================================
