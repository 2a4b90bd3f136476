------------------------------- MODULE Files --------------------------------
(***************************************************************************)
(* File descriptors, fs.c: a table of descriptors in every process, one    *)
(* table of open files for all of them, and the allowances of a process.   *)
(* process_create calls fs_init_security before sys_run stores the         *)
(* permissions, so the list it copies is what lies behind a null pointer,  *)
(* and no system call puts an allowance anywhere: Allowance is the list    *)
(* that is found there, any at all.                                        *)
(*                                                                         *)
(* A path is a sequence of characters. iso_fopen waits for the drive, so   *)
(* fs_open is a step up to it and a step from it; other processes run in   *)
(* between if Interleaved.                                                 *)
(***************************************************************************)
EXTENDS Integers, Sequences, FiniteSets, SequencesExt

CONSTANTS Process,
          PROCESS_MAX_OPEN_FILES,
          MAX_OS_OPEN_FILES,
          Allowance,    \* per process, the list fs_init_security finds
          Asked,        \* the paths given to fs_open
          Mode,         \* the modes given to fs_open
          OnMedium,     \* the paths iso_fopen finds
          MaxLives,     \* bound: processes started in all
          Interleaved

ASSUME FilesAssumption ==
    /\ IsFiniteSet(Process)
    /\ PROCESS_MAX_OPEN_FILES \in Nat \ {0}
    /\ MAX_OS_OPEN_FILES \in Nat \ {0}
    /\ Allowance \in [Process -> Seq([path : Seq(STRING), below : BOOLEAN])]
    /\ Asked \subseteq Seq(STRING)
    /\ Mode \subseteq Seq(STRING)
    /\ MaxLives \in Nat
    /\ Cardinality(Process) <= MaxLives
    /\ Interleaved \in BOOLEAN

VARIABLES open_files_table, \* each entry: has it a filep, its mode and path
          fd_table,         \* per process: is_open and ptr
          fs_allowances_list,
          opening,          \* per process, its fs_open in progress
          result,           \* what the last call returned
          lives             \* processes started

vars == <<open_files_table, fd_table, fs_allowances_list, opening, result,
          lives>>

Fd == 0 .. PROCESS_MAX_OPEN_FILES - 1
NoEntry == -1

\* The array has MAX_OS_OPEN_FILES entries; the last of these is what lies
\* behind it.
Entry == 0 .. MAX_OS_OPEN_FILES

ClosedFd == [is_open |-> FALSE, ptr |-> NoEntry]
NotOpening == [fd |-> NoEntry, entry |-> NoEntry, path |-> <<>>, mode |-> {}]

\* path is fs_open's argument, of which the entry keeps the part behind the unit.
\* Nothing reads the mode and the path of a closed entry: fs_close leaves them,
\* the model clears them.
NoFile == [filep |-> FALSE, mode |-> {}, path |-> <<>>]

\* mode_str_to_int: the set of its letters. Any order is good, a letter twice is
\* not, nor is one that is not a mode.
Letters(mode) == {mode[i] : i \in DOMAIN mode}
ModeBits(mode) ==
    IF Letters(mode) \subseteq {"r", "w", "a"} /\ Cardinality(Letters(mode)) = Len(mode)
    THEN Letters(mode) ELSE {}

\* path_permitted_by_allowance.
\* Mutant: the character behind the prefix is not looked at.
PermittedPrefix(path, a) ==
    IF a.below THEN IsPrefix(a.path, path) ELSE path = a.path

Permitted(path, a) ==
    IF a.below
    THEN /\ IsPrefix(a.path, path)
         /\ Len(path) > Len(a.path) => path[Len(a.path) + 1] = "/"
    ELSE path = a.path

\* fs_security_check, with fs_owner_check always true.
Allowed(p, path) ==
    \E i \in DOMAIN fs_allowances_list[p] : Permitted(path, fs_allowances_list[p][i])

\* fs_open: a path begins with a slash, a unit and a slash.
HasUnit(path) ==
    /\ Len(path) >= 3
    /\ path[1] = "/" /\ path[2] \in {"0", "1", "2", "3"} /\ path[3] = "/"

MediaPath(path) == SubSeq(path, 3, Len(path))

\* fs_copy_allowances_list pushes at the head.
Copied(list) == Reverse(list)

Init ==
    /\ open_files_table = [e \in Entry |-> NoFile]
    /\ fd_table = [p \in Process |-> [fd \in Fd |-> ClosedFd]]
    /\ fs_allowances_list = [p \in Process |-> Copied(Allowance[p])]
    /\ opening = [p \in Process |-> NotOpening]
    /\ result = [error |-> "none", fd |-> NoEntry]
    /\ lives = Cardinality(Process)
-----------------------------------------------------------------------------
Returns(r) == result' = [error |-> r, fd |-> NoEntry]
ReturnsFd(fd) == result' = [error |-> "none", fd |-> fd]

InCall(p) == opening[p].fd # NoEntry

MayCall(p) ==
    /\ ~InCall(p)
    /\ Interleaved \/ \A q \in Process : ~InCall(q)

\* fs_open up to its loop.
OpenRefused(p, path, mode) ==
    /\ MayCall(p)
    /\ \/ ~Allowed(p, path) /\ Returns("ERR_NO_ALLOWANCE")
       \/ Allowed(p, path) /\ ModeBits(mode) = {} /\ Returns("ERR_BAD_MODE")
       \/ /\ Allowed(p, path) /\ ModeBits(mode) # {} /\ ~HasUnit(path)
          /\ Returns("ERR_BAD_PATH")
    /\ UNCHANGED <<open_files_table, fd_table, fs_allowances_list, opening, lives>>

OpenBegins(p, path, mode) ==
    /\ MayCall(p)
    /\ Allowed(p, path) /\ ModeBits(mode) # {} /\ HasUnit(path)
    /\ opening' = [opening EXCEPT ![p] =
                     [fd |-> 0, entry |-> NoEntry, path |-> path,
                      mode |-> ModeBits(mode)]]
    /\ UNCHANGED <<open_files_table, fd_table, fs_allowances_list, result, lives>>

\* An open descriptor is passed over; if it is the last, there is none left. The
\* loop does not stop at a descriptor it has opened.
PassOver(p) ==
    LET o == opening[p] IN
    /\ o.fd \in Fd /\ fd_table[p][o.fd].is_open /\ o.entry = NoEntry
    /\ IF o.fd = PROCESS_MAX_OPEN_FILES - 1
       THEN opening' = [opening EXCEPT ![p] = NotOpening] /\ Returns("ERR_FDS_EXCEEDED")
       ELSE opening' = [opening EXCEPT ![p].fd = @ + 1] /\ UNCHANGED result
    /\ UNCHANGED <<open_files_table, fd_table, fs_allowances_list, lives>>

\* create_fs_agnostic_file's search.
IsNextEntry(e) ==
    /\ e = MAX_OS_OPEN_FILES \/ ~open_files_table[e].filep
    /\ \A d \in 0 .. e - 1 : open_files_table[d].filep

PickEntry(p) ==
    LET o == opening[p] IN
    /\ o.fd \in Fd /\ ~fd_table[p][o.fd].is_open /\ o.entry = NoEntry
    /\ \E e \in Entry :
         /\ IsNextEntry(e)
         /\ open_files_table' = [open_files_table EXCEPT ![e].mode = o.mode,
                                                       ![e].path = o.path]
         /\ opening' = [opening EXCEPT ![p].entry = e]
    /\ UNCHANGED <<fd_table, fs_allowances_list, result, lives>>

\* iso_fopen returns, and the descriptor is taken; or it does not find the file:
\* kfree of an entry of a static table only prints, and what it allocated stays.
EntryOpened(p) ==
    LET o == opening[p] IN
    /\ o.entry # NoEntry
    /\ IF MediaPath(o.path) \in OnMedium
       THEN /\ open_files_table' = [open_files_table EXCEPT ![o.entry].filep = TRUE]
            /\ fd_table' = [fd_table EXCEPT ![p][o.fd] = [is_open |-> TRUE, ptr |-> o.entry]]
            /\ opening' = [opening EXCEPT ![p].entry = NoEntry, ![p].fd = @ + 1]
            /\ UNCHANGED result
       ELSE /\ open_files_table' = [open_files_table EXCEPT ![o.entry].filep = FALSE]
            /\ fd_table' = [fd_table EXCEPT ![p][o.fd].ptr = NoEntry]
            /\ opening' = [opening EXCEPT ![p] = NotOpening]
            /\ Returns("ERR_KERNEL_OPEN_FAIL")
    /\ UNCHANGED <<fs_allowances_list, lives>>

\* The loop is over: next_fd is one more than the last descriptor.
OpenReturns(p) ==
    /\ opening[p].fd = PROCESS_MAX_OPEN_FILES
    /\ ReturnsFd(opening[p].fd)
    /\ opening' = [opening EXCEPT ![p] = NotOpening]
    /\ UNCHANGED <<open_files_table, fd_table, fs_allowances_list, lives>>

\* fs_close: the entry is free again; the iso_file it pointed to is not freed.
\* Mutant: filep is left.
CloseKeepsEntry(p, fd) ==
    /\ MayCall(p) /\ fd_table[p][fd].ptr # NoEntry
    /\ fd_table' = [fd_table EXCEPT ![p][fd] = ClosedFd]
    /\ Returns("none")
    /\ UNCHANGED <<open_files_table, fs_allowances_list, opening, lives>>

Close(p, fd) ==
    /\ MayCall(p) /\ fd_table[p][fd].ptr # NoEntry
    /\ open_files_table' = [open_files_table EXCEPT ![fd_table[p][fd].ptr] = NoFile]
    /\ fd_table' = [fd_table EXCEPT ![p][fd] = ClosedFd]
    /\ Returns("none")
    /\ UNCHANGED <<fs_allowances_list, opening, lives>>

CloseRefused(p, fd) ==
    /\ MayCall(p)
    /\ \/ fd \notin Fd /\ Returns("ERR_FD_OOR")
       \/ fd \in Fd /\ fd_table[p][fd].ptr = NoEntry /\ Returns("ERR_WAS_NOT_OPEN")
    /\ UNCHANGED <<open_files_table, fd_table, fs_allowances_list, opening, lives>>

\* fs_read: the security check's negative error codes are true in C, so it never
\* refuses.
ReadResult(f) == IF "r" \in f.mode THEN "read" ELSE "ERR_BAD_ACCESS_MODE"

Read(p, fd) ==
    /\ MayCall(p)
    /\ IF fd \notin Fd THEN Returns("ERR_FD_OOR")
       ELSE IF fd_table[p][fd].ptr = NoEntry \/ ~fd_table[p][fd].is_open
       THEN Returns("ERR_WAS_NOT_OPEN")
       ELSE Returns(ReadResult(open_files_table[fd_table[p][fd].ptr]))
    /\ UNCHANGED <<open_files_table, fd_table, fs_allowances_list, opening, lives>>

\* fs_write: there is no medium that can be written.
Write(p) ==
    /\ MayCall(p)
    /\ Returns("ERR_BAD_ACCESS_MODE")
    /\ UNCHANGED <<open_files_table, fd_table, fs_allowances_list, opening, lives>>

\* A process ends, which closes nothing, and its place goes to a new one, which
\* fs_init_security gives an empty table.
Restart(p) ==
    /\ MayCall(p)
    /\ lives < MaxLives
    /\ lives' = lives + 1
    /\ fd_table' = [fd_table EXCEPT ![p] = [fd \in Fd |-> ClosedFd]]
    /\ fs_allowances_list' = [fs_allowances_list EXCEPT ![p] = Copied(Allowance[p])]
    /\ UNCHANGED <<open_files_table, opening, result>>

Next ==
    \E p \in Process :
        \/ \E path \in Asked, mode \in Mode :
              OpenRefused(p, path, mode) \/ OpenBegins(p, path, mode)
        \/ PassOver(p) \/ PickEntry(p) \/ EntryOpened(p) \/ OpenReturns(p)
        \/ \E fd \in Fd : Close(p, fd)
        \/ \E fd \in Fd \cup {PROCESS_MAX_OPEN_FILES} : Read(p, fd) \/ CloseRefused(p, fd)
        \/ Write(p) \/ Restart(p)

Spec == Init /\ [][Next]_vars
-----------------------------------------------------------------------------
IsOpen(p, fd) == fd_table[p][fd].is_open
FileOf(p, fd) == open_files_table[fd_table[p][fd].ptr]

\* An open descriptor, of one process or of two, is an entry of its own that is in
\* use, and an entry in use is a descriptor's, through opens that fail half-way and
\* closes in any order; only a process that ends leaves entries behind.
EntriesBacked ==
    /\ \A p, q \in Process, fd, gd \in Fd :
         IsOpen(p, fd) /\ IsOpen(q, gd) =>
             /\ FileOf(p, fd).filep
             /\ fd_table[p][fd].ptr = fd_table[q][gd].ptr => p = q /\ fd = gd
    /\ lives = Cardinality(Process) =>
         \A e \in Entry : open_files_table[e].filep =>
             \E p \in Process, fd \in Fd : fd_table[p][fd].ptr = e

\* A process has only files open that its allowances name, or that lie below a
\* directory they name: never a neighbour whose name begins with the same
\* letters. What the comment on path_permitted_by_allowance asks for.
AllowedOnly ==
    \A p \in Process, fd \in Fd :
        IsOpen(p, fd) =>
            \E i \in DOMAIN Allowance[p] :
                LET a == Allowance[p][i] IN
                \/ FileOf(p, fd).path = a.path
                \/ a.below /\ IsPrefix(Append(a.path, "/"), FileOf(p, fd).path)
=============================================================================
