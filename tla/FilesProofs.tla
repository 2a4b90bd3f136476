---------------------------- MODULE FilesProofs -----------------------------
(***************************************************************************)
(* Open descriptors have entries of their own, every entry in use has a    *)
(* descriptor, and what is open was allowed: for any number of processes,  *)
(* descriptors and entries, any allowances and any paths, as long as one   *)
(* process at a time is in fs_open and the table is as large as the        *)
(* descriptors of all processes there have been.                           *)
(*                                                                         *)
(* And, in the second part, the ISO file system: reads of less than a      *)
(* block return a file's bytes and a directory's records in order and      *)
(* completely, on any well-formed medium and for any number of readers.    *)
(* And, in the third, that a path is found where the directories say it is.*)
(***************************************************************************)
EXTENDS Files, Iso, SequenceTheorems, FiniteSetTheorems, TLAPS

\* No process ends without leaving room for the descriptors of the next.
Roomy == MaxLives * PROCESS_MAX_OPEN_FILES <= MAX_OS_OPEN_FILES

FileEntry == [filep : BOOLEAN, mode : SUBSET STRING, path : Seq(STRING)]
Descriptor == [is_open : BOOLEAN, ptr : Entry \cup {NoEntry}]
OpenCall == [fd : (-1) .. PROCESS_MAX_OPEN_FILES, entry : Entry \cup {NoEntry},
             path : Seq(STRING), mode : SUBSET STRING]

\* Types, and fs_allowances_list: the copies that fs_copy_allowances_list made.
FilesTypes ==
    /\ open_files_table \in [Entry -> FileEntry]
    /\ fd_table \in [Process -> [Fd -> Descriptor]]
    /\ opening \in [Process -> OpenCall]
    /\ lives \in Nat
    /\ Cardinality(Process) <= lives
    /\ lives <= MaxLives
    /\ fs_allowances_list = [p \in Process |-> Copied(Allowance[p])]

\* Not interleaved: one process at a time is in fs_open.
OneOpens == \A p, q \in Process : InCall(p) /\ InCall(q) => p = q

\* is_open and open_file_ptr agree.
OpenHasEntry ==
    \A p \in Process, fd \in Fd : IsOpen(p, fd) <=> fd_table[p][fd].ptr # NoEntry

\* The entry that create_fs_agnostic_file has picked waits for its file.
Picked ==
    \A p \in Process :
        /\ opening[p].entry # NoEntry =>
              /\ opening[p].entry \in 0 .. MAX_OS_OPEN_FILES - 1
              /\ opening[p].fd \in Fd
              /\ ~IsOpen(p, opening[p].fd)
              /\ ~open_files_table[opening[p].entry].filep
              /\ open_files_table[opening[p].entry].path = opening[p].path
        /\ opening[p].fd = NoEntry => opening[p].entry = NoEntry

\* Entries in use, and open descriptors.
InUse == {e \in Entry : open_files_table[e].filep}
OpenFds == {x \in Process \X Fd : IsOpen(x[1], x[2])}

\* No more entries are in use than descriptors are open, but for those that ended
\* processes have left.
Counted ==
    Cardinality(InUse) <= Cardinality(OpenFds)
        + (lives - Cardinality(Process)) * PROCESS_MAX_OPEN_FILES

\* What is open or being opened was allowed.
OpenedAllowed ==
    /\ \A p \in Process : InCall(p) => Allowed(p, opening[p].path)
    /\ \A p \in Process, fd \in Fd : IsOpen(p, fd) => Allowed(p, FileOf(p, fd).path)

\* An open descriptor's entry is in use, and no other's.
Owned ==
    \A p, q \in Process, fd, gd \in Fd :
        IsOpen(p, fd) /\ IsOpen(q, gd) =>
            /\ FileOf(p, fd).filep
            /\ fd_table[p][fd].ptr = fd_table[q][gd].ptr => p = q /\ fd = gd

\* Before any process ends, every entry in use is some descriptor's.
Backed ==
    lives = Cardinality(Process) =>
        \A e \in Entry : open_files_table[e].filep =>
            \E p \in Process, fd \in Fd : fd_table[p][fd].ptr = e

\* The inductive invariant.
FilesInv ==
    /\ FilesTypes
    /\ OneOpens
    /\ OpenHasEntry
    /\ Picked
    /\ Counted
    /\ OpenedAllowed
    /\ Owned
    /\ Backed
-----------------------------------------------------------------------------
\* The constants: descriptors, entries, and what stands for none of them.
LEMMA FdFacts ==
    /\ PROCESS_MAX_OPEN_FILES \in Nat /\ MAX_OS_OPEN_FILES \in Nat
    /\ Cardinality(Process) \in Nat
    /\ IsFiniteSet(Fd) /\ Cardinality(Fd) = PROCESS_MAX_OPEN_FILES
    /\ IsFiniteSet(Process \X Fd)
    /\ Cardinality(Process \X Fd) = Cardinality(Process) * PROCESS_MAX_OPEN_FILES
    /\ NoEntry \notin Entry /\ NoEntry \notin Fd
    /\ IsFiniteSet(Entry)
<1>1. /\ PROCESS_MAX_OPEN_FILES \in Nat \ {0} /\ MAX_OS_OPEN_FILES \in Nat \ {0}
      /\ IsFiniteSet(Process)
  BY FilesAssumption
<1>2. Cardinality(Process) \in Nat
  BY <1>1, FS_CardinalityType
<1>3. IsFiniteSet(Fd) /\ Cardinality(Fd) = PROCESS_MAX_OPEN_FILES
  BY <1>1, FS_Interval DEF Fd
<1>4. /\ IsFiniteSet(Process \X Fd)
      /\ Cardinality(Process \X Fd) = Cardinality(Process) * PROCESS_MAX_OPEN_FILES
  BY <1>1, <1>3, FS_Product
<1>5. IsFiniteSet(Entry)
  BY <1>1, FS_Interval DEF Entry
<1>6. NoEntry \notin Entry /\ NoEntry \notin Fd
  BY <1>1 DEF NoEntry, Entry, Fd
<1> QED
  BY <1>1, <1>2, <1>3, <1>4, <1>5, <1>6

\* The two counts are of finite sets.
LEMMA CountsFinite ==
    /\ IsFiniteSet(InUse) /\ Cardinality(InUse) \in Nat
    /\ IsFiniteSet(OpenFds) /\ Cardinality(OpenFds) \in Nat
<1>1. IsFiniteSet(InUse) /\ IsFiniteSet(OpenFds)
  BY FdFacts, FS_Subset DEF InUse, OpenFds
<1> QED
  BY <1>1, FS_CardinalityType

\* a processes, n of them living, fit where m fit.
LEMMA RoomFor ==
    ASSUME NEW n \in Nat, NEW a \in Nat, NEW m \in Nat, NEW k \in Nat, NEW size \in Nat,
           n <= a, a <= m, m * k <= size
    PROVE  n * k + (a - n) * k <= size
<1>1. n * k + (a - n) * k = a * k
  BY SMTT(20)
<1>2. a * k <= m * k
  BY SMTT(20)
<1>3. a * k \in Int /\ m * k \in Int
  OBVIOUS
<1> QED
  BY <1>1, <1>2, <1>3

\* create_fs_agnostic_file finds an entry that is not in use.
LEMMA EntryFree ==
    ASSUME Roomy, FilesInv, NEW p \in Process, NEW fd \in Fd, ~IsOpen(p, fd),
           NEW e \in Entry, IsNextEntry(e)
    PROVE  e \in 0 .. MAX_OS_OPEN_FILES - 1 /\ ~open_files_table[e].filep
<1> SUFFICES ASSUME e = MAX_OS_OPEN_FILES PROVE FALSE
  BY FdFacts DEF IsNextEntry, Entry
<1> DEFINE all == 0 .. MAX_OS_OPEN_FILES - 1
           n == Cardinality(Process)
           k == PROCESS_MAX_OPEN_FILES
<1>1. all \in SUBSET InUse
  BY FdFacts DEF IsNextEntry, InUse, Entry
<1>2. Cardinality(all) = MAX_OS_OPEN_FILES
  <2>1. MAX_OS_OPEN_FILES \in Nat \ {0} /\ MAX_OS_OPEN_FILES - 1 \in Int /\ 0 \in Int
    BY FilesAssumption
  <2>2. Cardinality(all) = IF 0 > MAX_OS_OPEN_FILES - 1 THEN 0
                           ELSE MAX_OS_OPEN_FILES - 1 - 0 + 1
    BY <2>1, FS_Interval
  <2> QED
    BY <2>1, <2>2
<1>3. MAX_OS_OPEN_FILES <= Cardinality(InUse)
  BY <1>1, <1>2, CountsFinite, FS_Subset
<1>4. <<p, fd>> \notin OpenFds /\ <<p, fd>> \in Process \X Fd /\ OpenFds \in SUBSET (Process \X Fd)
  BY DEF OpenFds
<1>5. Cardinality(OpenFds) < n * k
  BY <1>4, FdFacts, FS_Subset, CountsFinite
<1>6. n * k + (lives - n) * k <= MAX_OS_OPEN_FILES
  BY FdFacts, FilesAssumption, RoomFor DEF FilesInv, FilesTypes, Roomy
<1>7. Cardinality(InUse) <= Cardinality(OpenFds) + (lives - n) * k
  BY DEF FilesInv, Counted
<1>8. n * k \in Int /\ (lives - n) * k \in Int
  BY FdFacts DEF FilesInv, FilesTypes
<1> HIDE DEF n, k, all
<1> QED
  BY <1>3, <1>5, <1>6, <1>7, <1>8, CountsFinite, FdFacts

\* At the start nothing is open.
LEMMA InitFiles == Init => FilesInv
<1> SUFFICES ASSUME Init PROVE FilesInv
  OBVIOUS
<1> USE FdFacts, FilesAssumption DEF Init
<1>1. NoFile \in FileEntry
  BY DEF NoFile, FileEntry
<1>2. ClosedFd \in Descriptor
  BY DEF ClosedFd, Descriptor
<1>3. NotOpening \in OpenCall
  BY DEF NotOpening, OpenCall, NoEntry
<1>4. FilesTypes
  BY <1>1, <1>2, <1>3 DEF FilesTypes
<1>5. /\ \A p \in Process, fd \in Fd : ~IsOpen(p, fd) /\ fd_table[p][fd].ptr = NoEntry
      /\ \A e \in Entry : ~open_files_table[e].filep
      /\ \A p \in Process : opening[p].fd = NoEntry /\ opening[p].entry = NoEntry
  BY DEF IsOpen, ClosedFd, NoFile, NotOpening
<1>6. OneOpens /\ OpenHasEntry /\ Picked /\ OpenedAllowed /\ Owned /\ Backed
  BY <1>5 DEF OneOpens, OpenHasEntry, Picked, OpenedAllowed, Owned, Backed, InCall
<1>7. Counted
  <2>1. InUse = {} /\ OpenFds = {}
    BY <1>5 DEF InUse, OpenFds
  <2> QED
    BY <2>1, FS_EmptySet DEF Counted
<1> QED
  BY <1>4, <1>6, <1>7 DEF FilesInv
-----------------------------------------------------------------------------
(* Steps that leave the two tables and the allowances alone. *)

\* What a step of fs_open before iso_fopen leaves alone.
TablesSame == UNCHANGED <<open_files_table, fd_table, fs_allowances_list, lives>>

\* What follows when the tables stay as they are.
LEMMA TablesFacts ==
    ASSUME FilesInv, TablesSame
    PROVE  /\ Counted' /\ OpenHasEntry' /\ Owned' /\ Backed'
           /\ opening' \in [Process -> OpenCall] => FilesTypes'
           /\ \A p \in Process, fd \in Fd : IsOpen(p, fd) => Allowed(p, FileOf(p, fd).path)'
           /\ \A p \in Process : \A path : Allowed(p, path)' <=> Allowed(p, path)
           /\ \A p \in Process, fd \in Fd : IsOpen(p, fd)' <=> IsOpen(p, fd)
<1> USE DEF TablesSame
<1>1. Counted'
  BY DEF FilesInv, Counted, InUse, OpenFds, IsOpen
<1>2. OpenHasEntry'
  BY DEF FilesInv, OpenHasEntry, IsOpen
<1>3. Owned'
  BY DEF FilesInv, Owned, IsOpen, FileOf
<1>4. Backed'
  BY DEF FilesInv, Backed
<1>5. opening' \in [Process -> OpenCall] => FilesTypes'
  BY DEF FilesInv, FilesTypes
<1>6. \A p \in Process, fd \in Fd : IsOpen(p, fd) => Allowed(p, FileOf(p, fd).path)'
  BY DEF FilesInv, OpenedAllowed, Allowed, FileOf
<1>7. \A p \in Process : \A path : Allowed(p, path)' <=> Allowed(p, path)
  BY DEF Allowed
<1>8. \A p \in Process, fd \in Fd : IsOpen(p, fd)' <=> IsOpen(p, fd)
  BY DEF IsOpen
<1> QED
  BY <1>1, <1>2, <1>3, <1>4, <1>5, <1>6, <1>7, <1>8

\* A call that is refused, or reads, changes nothing.
LEMMA QuietFiles ==
    ASSUME FilesInv, TablesSame, UNCHANGED opening
    PROVE  FilesInv'
<1>1. FilesTypes'
  BY TablesFacts DEF FilesInv, FilesTypes
<1>2. OneOpens'
  BY DEF FilesInv, OneOpens, InCall
<1>3. Picked'
  BY DEF FilesInv, Picked, IsOpen, TablesSame
<1>4. OpenedAllowed'
  BY DEF FilesInv, OpenedAllowed, InCall, Allowed, IsOpen, FileOf, TablesSame
<1> QED
  BY <1>1, <1>2, <1>3, <1>4, TablesFacts DEF FilesInv

\* A call moves on: no entry is picked now.
LEMMA MovesFiles ==
    ASSUME FilesInv, TablesSame, NEW p \in Process, NEW o \in OpenCall,
           opening' = [opening EXCEPT ![p] = o], o.entry = NoEntry,
           o.fd # NoEntry => Allowed(p, o.path) /\ \A q \in Process \ {p} : ~InCall(q)
    PROVE  FilesInv'
<1>1. /\ opening'[p] = o /\ \A q \in Process \ {p} : opening'[q] = opening[q]
      /\ opening' \in [Process -> OpenCall]
  BY DEF FilesInv, FilesTypes
<1>2. FilesTypes'
  BY <1>1, TablesFacts
<1>3. OneOpens'
  BY <1>1 DEF FilesInv, OneOpens, InCall
<1>4. Picked'
  BY <1>1 DEF FilesInv, Picked, IsOpen, TablesSame
<1>5. OpenedAllowed'
  <2>1. ASSUME NEW q \in Process, InCall(q)' PROVE Allowed(q, opening[q].path)'
    <3>1. CASE q = p
      BY <1>1, <2>1, <3>1 DEF InCall, Allowed, TablesSame
    <3>2. CASE q # p
      BY <1>1, <2>1, <3>2 DEF FilesInv, OpenedAllowed, InCall, Allowed, TablesSame
    <3> QED
      BY <3>1, <3>2
  <2>2. ASSUME NEW q \in Process, NEW fd \in Fd, IsOpen(q, fd)'
        PROVE  Allowed(q, FileOf(q, fd).path)'
    BY <2>2, TablesFacts
  <2> QED
    BY <2>1, <2>2 DEF OpenedAllowed
<1> QED
  BY <1>2, <1>3, <1>4, <1>5, TablesFacts DEF FilesInv

\* What the invariant says of a call of fs_open under way.
LEMMA OpeningFacts ==
    ASSUME FilesInv, NEW p \in Process
    PROVE  /\ opening[p] \in OpenCall
           /\ opening[p].fd \in (-1) .. PROCESS_MAX_OPEN_FILES
           /\ InCall(p) => Allowed(p, opening[p].path) /\ \A q \in Process \ {p} : ~InCall(q)
BY DEF FilesInv, FilesTypes, OpenCall, OneOpens, OpenedAllowed

\* No call under way is a value of opening.
LEMMA NotOpeningFacts ==
    NotOpening \in OpenCall /\ NotOpening.entry = NoEntry /\ NotOpening.fd = NoEntry
BY FdFacts DEF NotOpening, OpenCall, NoEntry

\* fs_open has found the path permitted and starts its loop.
LEMMA BeginsFiles ==
    ASSUME ~Interleaved, FilesInv, NEW p \in Process, NEW path \in Asked, NEW mode \in Mode,
           OpenBegins(p, path, mode)
    PROVE  FilesInv'
<1> DEFINE o == [fd |-> 0, entry |-> NoEntry, path |-> path, mode |-> ModeBits(mode)]
<1>1. ModeBits(mode) \in SUBSET STRING
  BY FilesAssumption DEF ModeBits, Letters
<1>2. o \in OpenCall
  BY <1>1, FdFacts, FilesAssumption DEF OpenCall
<1>3. Allowed(p, path) /\ \A q \in Process \ {p} : ~InCall(q)
  BY DEF OpenBegins, MayCall
<1>4. opening' = [opening EXCEPT ![p] = o] /\ TablesSame
  BY DEF OpenBegins, TablesSame
<1>5. o.entry = NoEntry /\ o.path = path
  OBVIOUS
<1> HIDE DEF o
<1> QED
  BY <1>2, <1>3, <1>4, <1>5, MovesFiles

\* The loop of fs_open passes over a descriptor that is open.
LEMMA PassOverFiles ==
    ASSUME FilesInv, NEW p \in Process, PassOver(p)
    PROVE  FilesInv'
<1>1. TablesSame /\ opening[p].fd \in Fd /\ opening[p].entry = NoEntry
  BY DEF PassOver, TablesSame
<1>2. CASE opening' = [opening EXCEPT ![p] = NotOpening]
  BY <1>1, <1>2, NotOpeningFacts, MovesFiles
<1>3. CASE opening' = [opening EXCEPT ![p].fd = @ + 1]
  <2> DEFINE o == [opening[p] EXCEPT !.fd = opening[p].fd + 1]
  <2>1. o \in OpenCall /\ o.entry = NoEntry /\ o.path = opening[p].path
    <3>1. opening[p] \in OpenCall /\ opening[p].fd + 1 \in (-1) .. PROCESS_MAX_OPEN_FILES
      BY <1>1, OpeningFacts, FdFacts DEF Fd
    <3> QED
      BY ONLY <1>1, <3>1 DEF OpenCall
  <2>2. opening' = [opening EXCEPT ![p] = o]
    BY <1>3
  <2>3. InCall(p)
    BY <1>1, FdFacts DEF InCall
  <2> HIDE DEF o
  <2> QED
    BY <1>1, <2>1, <2>2, <2>3, OpeningFacts, MovesFiles
<1> QED
  BY <1>2, <1>3 DEF PassOver

\* fs_open returns.
LEMMA ReturnsFiles ==
    ASSUME FilesInv, NEW p \in Process, OpenReturns(p)
    PROVE  FilesInv'
BY NotOpeningFacts, MovesFiles DEF OpenReturns, TablesSame
-----------------------------------------------------------------------------
(* Steps that change the tables. *)

\* An open descriptor's entry is in use.
LEMMA OpenFacts ==
    ASSUME FilesInv, NEW p \in Process, NEW fd \in Fd
    PROVE  /\ fd_table[p][fd] \in Descriptor
           /\ IsOpen(p, fd) => /\ fd_table[p][fd].ptr \in Entry
                               /\ open_files_table[fd_table[p][fd].ptr].filep
           /\ fd_table[p][fd].ptr # NoEntry => IsOpen(p, fd)
<1>1. fd_table[p][fd] \in Descriptor
  BY DEF FilesInv, FilesTypes
<1>2. IsOpen(p, fd) <=> fd_table[p][fd].ptr # NoEntry
  BY DEF FilesInv, OpenHasEntry
<1>3. IsOpen(p, fd) => fd_table[p][fd].ptr \in Entry
  BY <1>1, <1>2 DEF Descriptor
<1>4. IsOpen(p, fd) => open_files_table[fd_table[p][fd].ptr].filep
  BY DEF FilesInv, Owned, FileOf
<1> QED
  BY <1>1, <1>2, <1>3, <1>4

\* create_fs_agnostic_file writes mode and path to the first free entry.
LEMMA PickFiles ==
    ASSUME Roomy, FilesInv, NEW p \in Process, PickEntry(p)
    PROVE  FilesInv'
<1> PICK o \in OpenCall : o = opening[p]
  BY OpeningFacts
<1>1. /\ o.fd \in Fd /\ ~IsOpen(p, o.fd) /\ o.entry = NoEntry
      /\ UNCHANGED <<fd_table, fs_allowances_list, result, lives>>
  BY DEF PickEntry, IsOpen
<1>2. PICK e \in Entry :
        /\ IsNextEntry(e)
        /\ open_files_table' = [open_files_table EXCEPT ![e].mode = o.mode, ![e].path = o.path]
        /\ opening' = [opening EXCEPT ![p].entry = e]
  BY DEF PickEntry
<1>3. e \in 0 .. MAX_OS_OPEN_FILES - 1 /\ ~open_files_table[e].filep
  BY <1>1, <1>2, EntryFree
<1>4. /\ open_files_table' \in [Entry -> FileEntry]
      /\ ~open_files_table'[e].filep /\ open_files_table'[e].path = o.path
      /\ \A d \in Entry \ {e} : open_files_table'[d] = open_files_table[d]
  <2> DEFINE new == [[open_files_table[e] EXCEPT !.mode = o.mode] EXCEPT !.path = o.path]
  <2>1. open_files_table[e] \in FileEntry /\ o.mode \in SUBSET STRING /\ o.path \in Seq(STRING)
    BY DEF FilesInv, FilesTypes, OpenCall
  <2>2. new \in FileEntry /\ new.filep = open_files_table[e].filep /\ new.path = o.path
    BY <2>1 DEF FileEntry
  <2>3. open_files_table' = [open_files_table EXCEPT ![e] = new]
    BY <1>2 DEF FilesInv, FilesTypes
  <2> HIDE DEF new
  <2> QED
    BY <1>3, <2>2, <2>3 DEF FilesInv, FilesTypes
<1>5. /\ opening'[p].entry = e /\ opening'[p].fd = o.fd /\ opening'[p].path = o.path
      /\ \A q \in Process \ {p} : opening'[q] = opening[q]
      /\ opening' \in [Process -> OpenCall]
  <2>1. opening' = [opening EXCEPT ![p] = [o EXCEPT !.entry = e]]
    BY <1>2
  <2>2. /\ [o EXCEPT !.entry = e] \in OpenCall /\ [o EXCEPT !.entry = e].entry = e
        /\ [o EXCEPT !.entry = e].fd = o.fd /\ [o EXCEPT !.entry = e].path = o.path
    BY DEF OpenCall
  <2> QED
    BY <2>1, <2>2 DEF FilesInv, FilesTypes
<1>6. \A q \in Process, fd \in Fd :
        /\ IsOpen(q, fd)' <=> IsOpen(q, fd)
        /\ IsOpen(q, fd) => fd_table[q][fd].ptr \in Entry \ {e} /\ FileOf(q, fd)' = FileOf(q, fd)
  BY <1>1, <1>3, <1>4, OpenFacts DEF IsOpen, FileOf
<1>7. \A d \in Entry : open_files_table'[d].filep <=> open_files_table[d].filep
  BY <1>3, <1>4
<1>8. FilesTypes'
  BY <1>1, <1>4, <1>5 DEF FilesInv, FilesTypes
<1>9. InCall(p) /\ \A q \in Process : InCall(q)' <=> InCall(q)
  BY <1>1, <1>5, FdFacts DEF InCall
<1>10. OneOpens' /\ OpenHasEntry'
  BY <1>1, <1>6, <1>9 DEF FilesInv, OneOpens, OpenHasEntry
<1>11. Picked'
  <2> SUFFICES ASSUME NEW q \in Process
               PROVE  /\ opening'[q].entry # NoEntry =>
                           /\ opening'[q].entry \in 0 .. MAX_OS_OPEN_FILES - 1
                           /\ opening'[q].fd \in Fd
                           /\ ~IsOpen(q, opening[q].fd)'
                           /\ ~open_files_table'[opening'[q].entry].filep
                           /\ open_files_table'[opening'[q].entry].path = opening'[q].path
                      /\ opening'[q].fd = NoEntry => opening'[q].entry = NoEntry
    BY DEF Picked
  <2>1. CASE q = p
    <3>1. ~IsOpen(p, opening[p].fd)'
      BY <1>1, <1>5 DEF IsOpen
    <3> QED
      BY <1>1, <1>3, <1>4, <1>5, <2>1, <3>1, FdFacts
  <2>2. CASE q # p
    <3>1. opening'[q].fd = NoEntry
      BY <1>5, <1>9, <2>2 DEF FilesInv, OneOpens, InCall
    <3>2. opening'[q].entry = NoEntry
      BY <1>5, <2>2, <3>1 DEF FilesInv, Picked
    <3> QED
      BY <3>2
  <2> QED
    BY <2>1, <2>2
<1>12. Counted'
  <2>1. InUse' = InUse /\ OpenFds' = OpenFds
    BY <1>1, <1>7 DEF InUse, OpenFds, IsOpen
  <2> QED
    BY <1>1, <2>1 DEF FilesInv, Counted
<1>13. OpenedAllowed'
  <2>1. ASSUME NEW q \in Process, InCall(q)' PROVE Allowed(q, opening[q].path)'
    <3>1. opening'[q].path = opening[q].path /\ InCall(q)
      BY <1>5, <1>9, <2>1
    <3>2. Allowed(q, opening[q].path)
      BY <3>1 DEF FilesInv, OpenedAllowed
    <3> QED
      BY <1>1, <3>1, <3>2 DEF Allowed
  <2>2. ASSUME NEW q \in Process, NEW fd \in Fd, IsOpen(q, fd)'
        PROVE  Allowed(q, FileOf(q, fd).path)'
    <3>1. FileOf(q, fd)' = FileOf(q, fd) /\ IsOpen(q, fd)
      BY <1>6, <2>2
    <3>2. Allowed(q, FileOf(q, fd).path)
      BY <3>1 DEF FilesInv, OpenedAllowed
    <3> QED
      BY <1>1, <3>1, <3>2 DEF Allowed
  <2> QED
    BY <2>1, <2>2 DEF OpenedAllowed
<1>14. Owned'
  BY <1>1, <1>6 DEF FilesInv, Owned
<1>15. Backed'
  BY <1>1, <1>7 DEF FilesInv, Backed
<1> QED
  BY <1>8, <1>10, <1>11, <1>12, <1>13, <1>14, <1>15 DEF FilesInv

\* iso_fopen has found the file: entry and descriptor are taken together.
LEMMA TakenFiles ==
    ASSUME FilesInv, NEW p \in Process, opening[p].entry # NoEntry,
           open_files_table' = [open_files_table EXCEPT ![opening[p].entry].filep = TRUE],
           fd_table' = [fd_table EXCEPT ![p][opening[p].fd] =
                          [is_open |-> TRUE, ptr |-> opening[p].entry]],
           opening' = [opening EXCEPT ![p].entry = NoEntry, ![p].fd = @ + 1],
           UNCHANGED <<fs_allowances_list, lives>>
    PROVE  FilesInv'
<1> PICK o \in OpenCall : o = opening[p]
  BY OpeningFacts
<1> PICK e \in Entry : e = o.entry
  BY DEF OpenCall
<1>1. /\ e # NoEntry /\ e \in 0 .. MAX_OS_OPEN_FILES - 1 /\ o.fd \in Fd /\ ~IsOpen(p, o.fd)
      /\ ~open_files_table[e].filep /\ open_files_table[e].path = o.path
  BY DEF FilesInv, Picked
<1>2. /\ open_files_table' \in [Entry -> FileEntry]
      /\ open_files_table'[e].filep /\ open_files_table'[e].path = o.path
      /\ \A d \in Entry \ {e} : open_files_table'[d] = open_files_table[d]
  <2> DEFINE new == [open_files_table[e] EXCEPT !.filep = TRUE]
  <2>1. open_files_table[e] \in FileEntry
    BY DEF FilesInv, FilesTypes
  <2>2. new \in FileEntry /\ new.filep /\ new.path = o.path
    BY <1>1, <2>1 DEF FileEntry
  <2>3. open_files_table' = [open_files_table EXCEPT ![e] = new]
    OBVIOUS
  <2> HIDE DEF new
  <2> QED
    BY <2>2, <2>3 DEF FilesInv, FilesTypes
<1>3. /\ fd_table' \in [Process -> [Fd -> Descriptor]]
      /\ fd_table'[p][o.fd].is_open /\ fd_table'[p][o.fd].ptr = e
      /\ \A q \in Process, fd \in Fd :
            q # p \/ fd # o.fd => fd_table'[q][fd] = fd_table[q][fd]
  <2> DEFINE new == [is_open |-> TRUE, ptr |-> e]
  <2>1. new \in Descriptor /\ new.is_open /\ new.ptr = e
    BY DEF Descriptor
  <2>2. fd_table' = [fd_table EXCEPT ![p] = [fd_table[p] EXCEPT ![o.fd] = new]]
    OBVIOUS
  <2>3. fd_table \in [Process -> [Fd -> Descriptor]]
    BY DEF FilesInv, FilesTypes
  <2> HIDE DEF new
  <2>4. fd_table'[p] = [fd_table[p] EXCEPT ![o.fd] = new] /\ fd_table[p] \in [Fd -> Descriptor]
    BY <2>2, <2>3
  <2>5. /\ fd_table'[p] \in [Fd -> Descriptor] /\ fd_table'[p][o.fd] = new
        /\ \A fd \in Fd : fd # o.fd => fd_table'[p][fd] = fd_table[p][fd]
    BY <1>1, <2>1, <2>4
  <2>6. \A q \in Process : q # p => fd_table'[q] = fd_table[q]
    BY <2>2, <2>3
  <2> QED
    BY <2>1, <2>2, <2>3, <2>5, <2>6
<1>4. /\ opening'[p].entry = NoEntry /\ opening'[p].path = o.path
      /\ \A q \in Process \ {p} : opening'[q] = opening[q]
      /\ opening' \in [Process -> OpenCall]
      /\ opening'[p].fd = o.fd + 1
  <2> DEFINE new == [[o EXCEPT !.entry = NoEntry] EXCEPT !.fd = o.fd + 1]
  <2>1. new \in OpenCall /\ new.entry = NoEntry /\ new.path = o.path /\ new.fd = o.fd + 1
    <3>1. NoEntry \in Entry \cup {NoEntry}
      OBVIOUS
    <3>2. o.fd + 1 \in (-1) .. PROCESS_MAX_OPEN_FILES
      BY <1>1, FdFacts DEF Fd
    <3> QED
      BY <3>1, <3>2 DEF OpenCall
  <2>2. opening' = [opening EXCEPT ![p] = new]
    BY DEF FilesInv, FilesTypes
  <2> HIDE DEF new
  <2> QED
    BY <2>1, <2>2 DEF FilesInv, FilesTypes
<1>5. /\ IsOpen(p, o.fd)' /\ FileOf(p, o.fd)' = open_files_table'[e]
      /\ \A q \in Process, fd \in Fd : q # p \/ fd # o.fd =>
            /\ IsOpen(q, fd)' <=> IsOpen(q, fd)
            /\ IsOpen(q, fd) => /\ fd_table[q][fd].ptr \in Entry \ {e}
                                /\ FileOf(q, fd)' = FileOf(q, fd)
  <2>1. IsOpen(p, o.fd)' /\ FileOf(p, o.fd)' = open_files_table'[e]
    BY <1>3 DEF IsOpen, FileOf
  <2> SUFFICES ASSUME NEW q \in Process, NEW fd \in Fd, q # p \/ fd # o.fd
               PROVE  /\ IsOpen(q, fd)' <=> IsOpen(q, fd)
                      /\ IsOpen(q, fd) => /\ fd_table[q][fd].ptr \in Entry \ {e}
                                          /\ FileOf(q, fd)' = FileOf(q, fd)
    BY <2>1
  <2>2. fd_table'[q][fd] = fd_table[q][fd]
    BY <1>3
  <2>3. IsOpen(q, fd)' <=> IsOpen(q, fd)
    BY <2>2 DEF IsOpen
  <2>4. ASSUME IsOpen(q, fd) PROVE fd_table[q][fd].ptr \in Entry \ {e}
    BY <1>1, <2>4, OpenFacts
  <2>5. ASSUME IsOpen(q, fd) PROVE FileOf(q, fd)' = FileOf(q, fd)
    BY <1>2, <2>2, <2>4, <2>5 DEF FileOf
  <2> QED
    BY <2>3, <2>4, <2>5
<1>6. FilesTypes'
  BY <1>2, <1>3, <1>4 DEF FilesInv, FilesTypes
<1>7. InCall(p) /\ \A q \in Process \ {p} : ~InCall(q) /\ ~InCall(q)'
  <2>1. InCall(p)
    BY <1>1, FdFacts DEF InCall
  <2>2. \A q \in Process \ {p} : ~InCall(q)
    BY <2>1 DEF FilesInv, OneOpens
  <2> QED
    BY <1>4, <2>1, <2>2 DEF InCall
<1>8. OneOpens'
  BY <1>7 DEF OneOpens
<1>9. OpenHasEntry'
  <2> SUFFICES ASSUME NEW q \in Process, NEW fd \in Fd
               PROVE  IsOpen(q, fd)' <=> fd_table'[q][fd].ptr # NoEntry
    BY DEF OpenHasEntry
  <2>1. CASE q = p /\ fd = o.fd
    BY <1>1, <1>3, <1>5, <2>1
  <2>2. CASE q # p \/ fd # o.fd
    BY <1>3, <1>5, <2>2 DEF FilesInv, OpenHasEntry
  <2> QED
    BY <2>1, <2>2
<1>10. Picked'
  <2>1. \A q \in Process : opening'[q].entry = NoEntry
    <3>1. \A q \in Process \ {p} : opening[q].entry = NoEntry
      BY <1>7 DEF FilesInv, Picked, InCall
    <3> QED
      BY <1>4, <3>1
  <2> QED
    BY <2>1 DEF Picked
<1>11. Counted'
  <2>1. InUse' = InUse \cup {e} /\ e \notin InUse
    BY <1>1, <1>2 DEF InUse
  <2>2. OpenFds' = OpenFds \cup {<<p, o.fd>>} /\ <<p, o.fd>> \notin OpenFds
    <3>1. <<p, o.fd>> \notin OpenFds
      BY <1>1 DEF OpenFds
    <3>2. ASSUME NEW q \in Process, NEW fd \in Fd
          PROVE  <<q, fd>> \in OpenFds' <=> <<q, fd>> \in OpenFds \/ (q = p /\ fd = o.fd)
      <4>1. <<q, fd>> \in OpenFds <=> IsOpen(q, fd)
        BY DEF OpenFds
      <4>2. <<q, fd>> \in OpenFds' <=> IsOpen(q, fd)'
        BY DEF OpenFds, IsOpen
      <4> QED
        BY <1>5, <4>1, <4>2
    <3>3. OpenFds' \subseteq Process \X Fd /\ OpenFds \subseteq Process \X Fd
      BY DEF OpenFds
    <3>4. \A x \in Process \X Fd : x \in OpenFds' <=> x \in OpenFds \cup {<<p, o.fd>>}
      <4> SUFFICES ASSUME NEW q \in Process, NEW fd \in Fd
                   PROVE  <<q, fd>> \in OpenFds' <=> <<q, fd>> \in OpenFds \cup {<<p, o.fd>>}
        OBVIOUS
      <4>1. <<q, fd>> = <<p, o.fd>> <=> q = p /\ fd = o.fd
        OBVIOUS
      <4> QED
        BY <3>2, <4>1
    <3> QED
      BY <1>1, <3>1, <3>3, <3>4
  <2>3. Cardinality(InUse') = Cardinality(InUse) + 1
    BY <2>1, CountsFinite, FS_AddElement
  <2>4. Cardinality(OpenFds') = Cardinality(OpenFds) + 1
    BY <2>2, CountsFinite, FS_AddElement
  <2>5. (lives - Cardinality(Process)) * PROCESS_MAX_OPEN_FILES \in Int
    BY FdFacts DEF FilesInv, FilesTypes
  <2> QED
    BY <2>3, <2>4, <2>5, CountsFinite DEF FilesInv, Counted
<1>12. OpenedAllowed'
  <2>1. Allowed(p, o.path)
    BY <1>7 DEF FilesInv, OpenedAllowed
  <2>2. ASSUME NEW q \in Process, InCall(q)' PROVE Allowed(q, opening[q].path)'
    <3>1. q = p
      BY <1>7, <2>2
    <3> QED
      BY <1>4, <2>1, <3>1 DEF Allowed
  <2>3. ASSUME NEW q \in Process, NEW fd \in Fd, IsOpen(q, fd)'
        PROVE  Allowed(q, FileOf(q, fd).path)'
    <3>1. CASE q = p /\ fd = o.fd
      BY <1>2, <1>5, <2>1, <3>1 DEF Allowed
    <3>2. CASE q # p \/ fd # o.fd
      <4>1. IsOpen(q, fd) /\ FileOf(q, fd)' = FileOf(q, fd)
        BY <1>5, <2>3, <3>2
      <4>2. Allowed(q, FileOf(q, fd).path)
        BY <4>1 DEF FilesInv, OpenedAllowed
      <4> QED
        BY <4>1, <4>2 DEF Allowed
    <3> QED
      BY <3>1, <3>2
  <2> QED
    BY <2>2, <2>3 DEF OpenedAllowed
<1>13. Owned'
  <2> SUFFICES ASSUME NEW q \in Process, NEW r \in Process, NEW fd \in Fd, NEW gd \in Fd,
                      IsOpen(q, fd)', IsOpen(r, gd)'
               PROVE  /\ FileOf(q, fd)'.filep
                      /\ fd_table'[q][fd].ptr = fd_table'[r][gd].ptr => q = r /\ fd = gd
    BY DEF Owned
  <2>1. CASE (q = p /\ fd = o.fd) /\ (r = p /\ gd = o.fd)
    BY <1>2, <1>5, <2>1
  <2>2. CASE (q = p /\ fd = o.fd) /\ (r # p \/ gd # o.fd)
    <3>1. fd_table'[q][fd].ptr = e /\ FileOf(q, fd)'.filep
      BY <1>2, <1>3, <1>5, <2>2
    <3>2. fd_table'[r][gd].ptr # e
      BY <1>3, <1>5, <2>2
    <3> QED
      BY <3>1, <3>2
  <2>3. CASE (q # p \/ fd # o.fd) /\ (r = p /\ gd = o.fd)
    <3>1. fd_table'[r][gd].ptr = e
      BY <1>3, <2>3
    <3>2. fd_table'[q][fd].ptr # e /\ FileOf(q, fd)' = FileOf(q, fd) /\ IsOpen(q, fd)
      BY <1>3, <1>5, <2>3
    <3>3. FileOf(q, fd).filep
      BY <3>2 DEF FilesInv, Owned
    <3> QED
      BY <3>1, <3>2, <3>3
  <2>4. CASE (q # p \/ fd # o.fd) /\ (r # p \/ gd # o.fd)
    <3>1. /\ IsOpen(q, fd) /\ IsOpen(r, gd) /\ FileOf(q, fd)' = FileOf(q, fd)
          /\ fd_table'[q][fd] = fd_table[q][fd] /\ fd_table'[r][gd] = fd_table[r][gd]
      BY <1>3, <1>5, <2>4
    <3> QED
      BY <3>1 DEF FilesInv, Owned
  <2> QED
    BY <2>1, <2>2, <2>3, <2>4
<1>14. Backed'
  <2> SUFFICES ASSUME lives = Cardinality(Process), NEW d \in Entry, open_files_table'[d].filep
               PROVE  \E q \in Process, fd \in Fd : fd_table'[q][fd].ptr = d
    BY DEF Backed
  <2>1. CASE d = e
    BY <1>1, <1>3, <2>1
  <2>2. CASE d # e
    <3>1. open_files_table[d].filep
      BY <1>2, <2>2
    <3>2. PICK q \in Process, fd \in Fd : fd_table[q][fd].ptr = d
      BY <3>1 DEF FilesInv, Backed
    <3>3. d # NoEntry
      BY FdFacts
    <3>4. IsOpen(q, fd)
      BY <3>2, <3>3 DEF FilesInv, OpenHasEntry
    <3>5. q # p \/ fd # o.fd
      BY <1>1, <3>4
    <3> QED
      BY <1>3, <3>2, <3>5
  <2> QED
    BY <2>1, <2>2
<1> QED
  BY <1>6, <1>8, <1>9, <1>10, <1>11, <1>12, <1>13, <1>14 DEF FilesInv

\* iso_fopen returns: the file is taken, or the entry stays free.
LEMMA OpenedFiles ==
    ASSUME FilesInv, NEW p \in Process, EntryOpened(p)
    PROVE  FilesInv'
<1> PICK o \in OpenCall : o = opening[p]
  BY OpeningFacts
<1>1. o.entry # NoEntry /\ UNCHANGED <<fs_allowances_list, lives>>
  BY DEF EntryOpened
<1>2. CASE MediaPath(o.path) \in OnMedium
  BY <1>1, <1>2, TakenFiles DEF EntryOpened
<1>3. CASE MediaPath(o.path) \notin OnMedium
  <2>1. /\ open_files_table' = [open_files_table EXCEPT ![o.entry].filep = FALSE]
        /\ fd_table' = [fd_table EXCEPT ![p][o.fd].ptr = NoEntry]
        /\ opening' = [opening EXCEPT ![p] = NotOpening]
    BY <1>3 DEF EntryOpened
  <2>2. /\ o.entry \in Entry /\ o.fd \in Fd /\ ~IsOpen(p, o.fd)
        /\ ~open_files_table[o.entry].filep
    BY <1>1 DEF FilesInv, Picked, OpenCall
  <2>3. fd_table[p][o.fd].ptr = NoEntry
    BY <2>2 DEF FilesInv, OpenHasEntry
  <2>4. open_files_table' = open_files_table
    <3>1. open_files_table \in [Entry -> FileEntry] /\ open_files_table[o.entry] \in FileEntry
      BY <2>2 DEF FilesInv, FilesTypes
    <3>2. open_files_table[o.entry].filep = FALSE
      BY <2>2, <3>1 DEF FileEntry
    <3>3. [open_files_table[o.entry] EXCEPT !.filep = FALSE] = open_files_table[o.entry]
      BY <3>1, <3>2 DEF FileEntry
    <3> QED
      BY <2>1, <3>1, <3>3
  <2>5. fd_table' = fd_table
    <3>1. /\ fd_table \in [Process -> [Fd -> Descriptor]] /\ fd_table[p] \in [Fd -> Descriptor]
          /\ fd_table[p][o.fd] \in Descriptor
      BY <2>2 DEF FilesInv, FilesTypes
    <3>2. [fd_table[p][o.fd] EXCEPT !.ptr = NoEntry] = fd_table[p][o.fd]
      BY <2>3, <3>1 DEF Descriptor
    <3>3. fd_table' = [fd_table EXCEPT ![p] = [fd_table[p] EXCEPT ![o.fd] =
                         [fd_table[p][o.fd] EXCEPT !.ptr = NoEntry]]]
      BY <2>1
    <3> QED
      BY <2>2, <3>1, <3>2, <3>3
  <2> QED
    BY <1>1, <2>1, <2>4, <2>5, NotOpeningFacts, MovesFiles DEF TablesSame
<1> QED
  BY <1>2, <1>3

\* fs_close: entry and descriptor are given back together.
LEMMA CloseFiles ==
    ASSUME ~Interleaved, FilesInv, NEW p \in Process, NEW fd \in Fd, Close(p, fd)
    PROVE  FilesInv'
<1> PICK e : e = fd_table[p][fd].ptr
  OBVIOUS
<1>1. /\ fd_table[p][fd].ptr # NoEntry
      /\ open_files_table' = [open_files_table EXCEPT ![e] = NoFile]
      /\ fd_table' = [fd_table EXCEPT ![p][fd] = ClosedFd]
      /\ UNCHANGED <<fs_allowances_list, opening, lives>>
      /\ \A q \in Process : ~InCall(q)
  BY DEF Close, MayCall
<1>2. IsOpen(p, fd) /\ e \in Entry /\ open_files_table[e].filep
  BY <1>1, OpenFacts
<1>3. /\ open_files_table' \in [Entry -> FileEntry] /\ ~open_files_table'[e].filep
      /\ \A d \in Entry \ {e} : open_files_table'[d] = open_files_table[d]
  <2>1. NoFile \in FileEntry /\ ~NoFile.filep
    BY DEF NoFile, FileEntry
  <2> QED
    BY <1>1, <1>2, <2>1 DEF FilesInv, FilesTypes
<1>4. /\ fd_table' \in [Process -> [Fd -> Descriptor]]
      /\ ~fd_table'[p][fd].is_open /\ fd_table'[p][fd].ptr = NoEntry
      /\ \A q \in Process, gd \in Fd :
            q # p \/ gd # fd => fd_table'[q][gd] = fd_table[q][gd]
  <2>1. ClosedFd \in Descriptor /\ ~ClosedFd.is_open /\ ClosedFd.ptr = NoEntry
    BY DEF ClosedFd, Descriptor
  <2>2. fd_table' = [fd_table EXCEPT ![p] = [fd_table[p] EXCEPT ![fd] = ClosedFd]]
    BY <1>1
  <2>3. fd_table \in [Process -> [Fd -> Descriptor]]
    BY DEF FilesInv, FilesTypes
  <2>4. fd_table'[p] = [fd_table[p] EXCEPT ![fd] = ClosedFd] /\ fd_table[p] \in [Fd -> Descriptor]
    BY <2>2, <2>3
  <2>5. /\ fd_table'[p] \in [Fd -> Descriptor] /\ fd_table'[p][fd] = ClosedFd
        /\ \A gd \in Fd : gd # fd => fd_table'[p][gd] = fd_table[p][gd]
    BY <2>1, <2>4
  <2>6. \A q \in Process : q # p => fd_table'[q] = fd_table[q]
    BY <2>2, <2>3
  <2> QED
    BY <2>1, <2>2, <2>3, <2>5, <2>6
<1>5. \A q \in Process, gd \in Fd : IsOpen(q, gd)' <=> IsOpen(q, gd) /\ (q # p \/ gd # fd)
  BY <1>4 DEF IsOpen
<1>6. ASSUME NEW q \in Process, NEW gd \in Fd, IsOpen(q, gd)'
      PROVE  /\ IsOpen(q, gd) /\ fd_table'[q][gd] = fd_table[q][gd]
             /\ fd_table[q][gd].ptr \in Entry \ {e} /\ FileOf(q, gd)' = FileOf(q, gd)
  <2>1. IsOpen(q, gd) /\ fd_table'[q][gd] = fd_table[q][gd] /\ (q # p \/ gd # fd)
    BY <1>4, <1>5, <1>6
  <2>2. fd_table[q][gd].ptr # e
    BY <1>2, <2>1 DEF FilesInv, Owned
  <2>3. fd_table[q][gd].ptr \in Entry
    BY <2>1, OpenFacts
  <2>4. FileOf(q, gd)' = FileOf(q, gd)
    BY <1>3, <2>1, <2>2, <2>3 DEF FileOf
  <2> QED
    BY <2>1, <2>2, <2>3, <2>4
<1>7. FilesTypes'
  BY <1>1, <1>3, <1>4 DEF FilesInv, FilesTypes
<1>8. OneOpens'
  BY <1>1 DEF OneOpens, InCall
<1>9. OpenHasEntry'
  <2> SUFFICES ASSUME NEW q \in Process, NEW gd \in Fd
               PROVE  IsOpen(q, gd)' <=> fd_table'[q][gd].ptr # NoEntry
    BY DEF OpenHasEntry
  <2>1. CASE q = p /\ gd = fd
    BY <1>4, <1>5, <2>1
  <2>2. CASE q # p \/ gd # fd
    BY <1>4, <1>5, <2>2 DEF FilesInv, OpenHasEntry
  <2> QED
    BY <2>1, <2>2
<1>10. Picked'
  <2>1. \A q \in Process : opening'[q].entry = NoEntry
    BY <1>1 DEF FilesInv, Picked, InCall
  <2> QED
    BY <2>1 DEF Picked
<1>11. Counted'
  <2>1. InUse' = InUse \ {e} /\ e \in InUse
    BY <1>2, <1>3 DEF InUse
  <2>2. OpenFds' = OpenFds \ {<<p, fd>>} /\ <<p, fd>> \in OpenFds
    <3>1. <<p, fd>> \in OpenFds
      BY <1>2 DEF OpenFds
    <3>2. ASSUME NEW q \in Process, NEW gd \in Fd
          PROVE  <<q, gd>> \in OpenFds' <=> <<q, gd>> \in OpenFds \ {<<p, fd>>}
      <4>1. <<q, gd>> \in OpenFds <=> IsOpen(q, gd)
        BY DEF OpenFds
      <4>2. <<q, gd>> \in OpenFds' <=> IsOpen(q, gd)'
        BY DEF OpenFds, IsOpen
      <4>3. <<q, gd>> = <<p, fd>> <=> q = p /\ gd = fd
        OBVIOUS
      <4> QED
        BY <1>5, <4>1, <4>2, <4>3
    <3>3. OpenFds' \subseteq Process \X Fd /\ OpenFds \subseteq Process \X Fd
      BY DEF OpenFds
    <3>4. \A x \in Process \X Fd : x \in OpenFds' <=> x \in OpenFds \ {<<p, fd>>}
      BY <3>2
    <3> QED
      BY <3>1, <3>3, <3>4
  <2>3. Cardinality(InUse') = Cardinality(InUse) - 1
    BY <2>1, CountsFinite, FS_RemoveElement
  <2>4. Cardinality(OpenFds') = Cardinality(OpenFds) - 1
    BY <2>2, CountsFinite, FS_RemoveElement
  <2>5. (lives - Cardinality(Process)) * PROCESS_MAX_OPEN_FILES \in Int
    BY FdFacts DEF FilesInv, FilesTypes
  <2> QED
    BY <1>1, <2>3, <2>4, <2>5, CountsFinite DEF FilesInv, Counted
<1>12. OpenedAllowed'
  <2>1. ASSUME NEW q \in Process, NEW gd \in Fd, IsOpen(q, gd)'
        PROVE  Allowed(q, FileOf(q, gd).path)'
    <3>1. IsOpen(q, gd) /\ FileOf(q, gd)' = FileOf(q, gd)
      BY <1>6, <2>1
    <3>2. Allowed(q, FileOf(q, gd).path)
      BY <3>1 DEF FilesInv, OpenedAllowed
    <3> QED
      BY <1>1, <3>1, <3>2 DEF Allowed
  <2> QED
    BY <1>1, <2>1 DEF OpenedAllowed, InCall
<1>13. Owned'
  <2> SUFFICES ASSUME NEW q \in Process, NEW r \in Process, NEW gd \in Fd, NEW hd \in Fd,
                      IsOpen(q, gd)', IsOpen(r, hd)'
               PROVE  /\ FileOf(q, gd)'.filep
                      /\ fd_table'[q][gd].ptr = fd_table'[r][hd].ptr => q = r /\ gd = hd
    BY DEF Owned
  <2>1. /\ IsOpen(q, gd) /\ IsOpen(r, hd) /\ FileOf(q, gd)' = FileOf(q, gd)
        /\ fd_table'[q][gd] = fd_table[q][gd] /\ fd_table'[r][hd] = fd_table[r][hd]
    BY <1>6
  <2> QED
    BY <2>1 DEF FilesInv, Owned
<1>14. Backed'
  <2> SUFFICES ASSUME lives = Cardinality(Process), NEW d \in Entry, open_files_table'[d].filep
               PROVE  \E q \in Process, gd \in Fd : fd_table'[q][gd].ptr = d
    BY <1>1 DEF Backed
  <2>1. d # e /\ open_files_table[d].filep
    BY <1>3
  <2>2. PICK q \in Process, gd \in Fd : fd_table[q][gd].ptr = d
    BY <2>1 DEF FilesInv, Backed
  <2> QED
    BY <1>4, <2>1, <2>2
<1> QED
  BY <1>7, <1>8, <1>9, <1>10, <1>11, <1>12, <1>13, <1>14 DEF FilesInv

\* One more process leaves room for one table of descriptors more.
LEMMA OneMoreLife ==
    ASSUME NEW a \in Nat, NEW n \in Nat, NEW k \in Nat
    PROVE  (a + 1 - n) * k = (a - n) * k + k /\ (a - n) * k \in Int
<1>1. (a + 1 - n) * k = (a - n) * k + k
  BY SMTT(20)
<1> QED
  BY <1>1

\* A process ends: its descriptors go and its entries stay in use.
LEMMA RestartFiles ==
    ASSUME ~Interleaved, FilesInv, NEW p \in Process, Restart(p)
    PROVE  FilesInv'
<1>1. /\ lives < MaxLives /\ lives' = lives + 1
      /\ fd_table' = [fd_table EXCEPT ![p] = [fd \in Fd |-> ClosedFd]]
      /\ fs_allowances_list' = [fs_allowances_list EXCEPT ![p] = Copied(Allowance[p])]
      /\ UNCHANGED <<open_files_table, opening, result>>
      /\ \A q \in Process : ~InCall(q)
  BY DEF Restart, MayCall
<1>2. UNCHANGED fs_allowances_list
  BY <1>1 DEF FilesInv, FilesTypes
<1>3. ClosedFd \in Descriptor /\ ~ClosedFd.is_open /\ ClosedFd.ptr = NoEntry
  BY DEF ClosedFd, Descriptor
<1>4. /\ fd_table' \in [Process -> [Fd -> Descriptor]]
      /\ \A fd \in Fd : ~fd_table'[p][fd].is_open /\ fd_table'[p][fd].ptr = NoEntry
      /\ \A q \in Process \ {p} : fd_table'[q] = fd_table[q]
  BY <1>1, <1>3 DEF FilesInv, FilesTypes
<1>5. \A q \in Process, fd \in Fd :
        /\ IsOpen(q, fd)' <=> IsOpen(q, fd) /\ q # p
        /\ q # p => FileOf(q, fd)' = FileOf(q, fd)
  BY <1>1, <1>4 DEF IsOpen, FileOf
<1>6. FilesTypes'
  <2>1. lives' \in Nat /\ Cardinality(Process) <= lives' /\ lives' <= MaxLives
    BY <1>1, FilesAssumption, FdFacts DEF FilesInv, FilesTypes
  <2>2. /\ open_files_table \in [Entry -> FileEntry]
        /\ opening \in [Process -> OpenCall]
        /\ fs_allowances_list = [q \in Process |-> Copied(Allowance[q])]
    BY DEF FilesInv, FilesTypes
  <2> QED
    BY <1>1, <1>2, <1>4, <2>1, <2>2 DEF FilesTypes
<1>7. OneOpens' /\ Picked'
  <2>1. \A q \in Process : opening'[q].entry = NoEntry
    BY <1>1 DEF FilesInv, Picked, InCall
  <2> QED
    BY <1>1, <2>1 DEF OneOpens, Picked, InCall
<1>8. OpenHasEntry'
  <2> SUFFICES ASSUME NEW q \in Process, NEW fd \in Fd
               PROVE  IsOpen(q, fd)' <=> fd_table'[q][fd].ptr # NoEntry
    BY DEF OpenHasEntry
  <2>1. CASE q = p
    BY <1>4, <1>5, <2>1
  <2>2. CASE q # p
    BY <1>4, <1>5, <2>2 DEF FilesInv, OpenHasEntry
  <2> QED
    BY <2>1, <2>2
<1>9. Counted'
  <2> DEFINE mine == {p} \X Fd
  <2>1. InUse' = InUse
    BY <1>1 DEF InUse
  <2>2. IsFiniteSet(mine) /\ Cardinality(mine) = PROCESS_MAX_OPEN_FILES
    <3>1. IsFiniteSet({p}) /\ Cardinality({p}) = 1
      BY FS_Singleton
    <3>2. IsFiniteSet(mine) /\ Cardinality(mine) = 1 * PROCESS_MAX_OPEN_FILES
      BY <3>1, FdFacts, FS_Product
    <3> QED
      BY <3>2, FdFacts
  <2>3. OpenFds \subseteq OpenFds' \cup mine
    <3>1. ASSUME NEW q \in Process, NEW fd \in Fd, <<q, fd>> \in OpenFds
          PROVE  <<q, fd>> \in OpenFds' \cup mine
      <4>1. IsOpen(q, fd)
        BY <3>1 DEF OpenFds
      <4>2. CASE q = p
        BY <4>2
      <4>3. CASE q # p
        BY <1>5, <4>1, <4>3 DEF OpenFds, IsOpen
      <4> QED
        BY <4>2, <4>3
    <3>2. OpenFds \subseteq Process \X Fd
      BY DEF OpenFds
    <3> QED
      BY <3>1, <3>2
  <2>4. IsFiniteSet(OpenFds') /\ Cardinality(OpenFds') \in Nat
    <3>1. OpenFds' \in SUBSET (Process \X Fd)
      BY DEF OpenFds
    <3> QED
      BY <3>1, FdFacts, FS_Subset, FS_CardinalityType
  <2>5. Cardinality(OpenFds) <= Cardinality(OpenFds') + PROCESS_MAX_OPEN_FILES
    <3> DEFINE new == OpenFds'
    <3>1. /\ IsFiniteSet(new \cup mine)
          /\ Cardinality(new \cup mine) =
                Cardinality(new) + Cardinality(mine) - Cardinality(new \cap mine)
      BY <2>2, <2>4, FS_Union
    <3>2. Cardinality(OpenFds) <= Cardinality(new \cup mine)
      BY <2>3, <3>1, FS_Subset
    <3>3. Cardinality(new \cap mine) \in Nat
      BY <2>2, FS_Subset, FS_CardinalityType
    <3> HIDE DEF new, mine
    <3>4. Cardinality(OpenFds) <= Cardinality(new) + PROCESS_MAX_OPEN_FILES
      BY <2>2, <2>4, <3>1, <3>2, <3>3, CountsFinite, FdFacts DEF new
    <3> QED
      BY <3>4 DEF new
  <2>6. /\ (lives + 1 - Cardinality(Process)) * PROCESS_MAX_OPEN_FILES
             = (lives - Cardinality(Process)) * PROCESS_MAX_OPEN_FILES + PROCESS_MAX_OPEN_FILES
        /\ (lives - Cardinality(Process)) * PROCESS_MAX_OPEN_FILES \in Int
    BY FdFacts, OneMoreLife DEF FilesInv, FilesTypes
  <2>7. Cardinality(InUse) <= Cardinality(OpenFds)
          + (lives - Cardinality(Process)) * PROCESS_MAX_OPEN_FILES
    BY DEF FilesInv, Counted
  <2>8. Cardinality(InUse) <= Cardinality(OpenFds')
          + (lives + 1 - Cardinality(Process)) * PROCESS_MAX_OPEN_FILES
    <3> HIDE DEF mine
    <3> QED
      BY <2>4, <2>5, <2>6, <2>7, CountsFinite, FdFacts
  <2>9. Cardinality(InUse') <= Cardinality(OpenFds')
          + (lives' - Cardinality(Process)) * PROCESS_MAX_OPEN_FILES
    <3>1. Cardinality(InUse') = Cardinality(InUse)
      BY <2>1
    <3>2. lives' - Cardinality(Process) = lives + 1 - Cardinality(Process)
      <4>1. lives' = lives + 1 /\ lives \in Nat
        BY <1>1 DEF FilesInv, FilesTypes
      <4> QED
        BY <4>1, FdFacts
    <3> DEFINE more == (lives' - Cardinality(Process)) * PROCESS_MAX_OPEN_FILES
    <3>3. more = (lives + 1 - Cardinality(Process)) * PROCESS_MAX_OPEN_FILES
      BY <3>2
    <3>4. Cardinality(InUse) <= Cardinality(OpenFds') + more
      BY <2>8, <3>3
    <3> HIDE DEF more
    <3>5. Cardinality(InUse') <= Cardinality(OpenFds') + more
      BY <3>1, <3>4
    <3> QED
      BY <3>5 DEF more
  <2> QED
    BY <2>9 DEF Counted
<1>10. OpenedAllowed'
  <2>1. ASSUME NEW q \in Process, NEW fd \in Fd, IsOpen(q, fd)'
        PROVE  Allowed(q, FileOf(q, fd).path)'
    <3>1. IsOpen(q, fd) /\ FileOf(q, fd)' = FileOf(q, fd)
      BY <1>5, <2>1
    <3>2. Allowed(q, FileOf(q, fd).path)
      BY <3>1 DEF FilesInv, OpenedAllowed
    <3> QED
      BY <1>2, <3>1, <3>2 DEF Allowed
  <2> QED
    BY <1>1, <2>1 DEF OpenedAllowed, InCall
<1>11. Owned'
  <2> SUFFICES ASSUME NEW q \in Process, NEW r \in Process, NEW fd \in Fd, NEW gd \in Fd,
                      IsOpen(q, fd)', IsOpen(r, gd)'
               PROVE  /\ FileOf(q, fd)'.filep
                      /\ fd_table'[q][fd].ptr = fd_table'[r][gd].ptr => q = r /\ fd = gd
    BY DEF Owned
  <2>1. /\ IsOpen(q, fd) /\ IsOpen(r, gd) /\ FileOf(q, fd)' = FileOf(q, fd)
        /\ fd_table'[q][fd] = fd_table[q][fd] /\ fd_table'[r][gd] = fd_table[r][gd]
    BY <1>4, <1>5
  <2> QED
    BY <2>1 DEF FilesInv, Owned
<1>12. Backed'
  <2>1. lives' # Cardinality(Process)
    BY <1>1, FdFacts DEF FilesInv, FilesTypes
  <2> QED
    BY <2>1 DEF Backed
<1> QED
  BY <1>6, <1>7, <1>8, <1>9, <1>10, <1>11, <1>12 DEF FilesInv
-----------------------------------------------------------------------------
\* Every step keeps the invariant.
LEMMA NextFiles ==
    ASSUME Roomy, ~Interleaved, FilesInv, [Next]_vars
    PROVE  FilesInv'
<1>1. ASSUME NEW p \in Process, NEW path \in Asked, NEW mode \in Mode, OpenRefused(p, path, mode)
      PROVE  FilesInv'
  BY <1>1, QuietFiles DEF OpenRefused, TablesSame
<1>2. ASSUME NEW p \in Process, NEW fd \in Fd \cup {PROCESS_MAX_OPEN_FILES},
             Read(p, fd) \/ CloseRefused(p, fd)
      PROVE  FilesInv'
  BY <1>2, QuietFiles DEF Read, CloseRefused, TablesSame
<1>3. ASSUME NEW p \in Process, Write(p) PROVE FilesInv'
  BY <1>3, QuietFiles DEF Write, TablesSame
<1>4. CASE UNCHANGED vars
  BY <1>4, QuietFiles DEF vars, TablesSame
<1>5. CASE Next
  BY <1>1, <1>2, <1>3, <1>5, BeginsFiles, PassOverFiles, PickFiles, OpenedFiles,
     ReturnsFiles, CloseFiles, RestartFiles DEF Next
<1> QED
  BY <1>4, <1>5

\* The invariant holds while one process at a time is in fs_open and the table is as
\* large as the descriptors of all processes there have been.
THEOREM FilesInvariant ==
    ASSUME Roomy, ~Interleaved PROVE Spec => []FilesInv
<1>1. Init => FilesInv
  BY InitFiles
<1>2. Roomy /\ ~Interleaved /\ FilesInv /\ [Next]_vars => FilesInv'
  BY NextFiles
<1> QED
  BY <1>1, <1>2, PTL DEF Spec

\* fs.c: no two open descriptors share an entry, each has one in use, and until a
\* process ends every entry in use is some descriptor's.
THEOREM FilesEntriesBacked ==
    ASSUME Roomy, ~Interleaved PROVE Spec => []EntriesBacked
<1>1. FilesInv => EntriesBacked
  BY DEF FilesInv, Owned, Backed, EntriesBacked
<1> QED
  BY <1>1, FilesInvariant, PTL

\* path_permitted_by_allowance: what it permits is the path itself or lies below it.
LEMMA PermittedMeans ==
    ASSUME NEW path \in Seq(STRING), NEW a \in [path : Seq(STRING), below : BOOLEAN],
           Permitted(path, a)
    PROVE  path = a.path \/ (a.below /\ IsPrefix(Append(a.path, "/"), path))
<1> PICK s \in Seq(STRING) : s = a.path
  OBVIOUS
<1>1. CASE ~a.below
  BY <1>1 DEF Permitted
<1>2. CASE a.below
  <2> DEFINE n == Len(s)
             t == Append(s, "/")
  <2>1. n <= Len(path) /\ SubSeq(s, 1, n) = SubSeq(path, 1, n) /\ n \in Nat /\ Len(path) \in Nat
    BY <1>2 DEF Permitted, IsPrefix
  <2>2. \A i \in 1 .. n : s[i] = path[i]
    <3>1. \A i \in 1 .. n : SubSeq(s, 1, n)[i] = s[i] /\ SubSeq(path, 1, n)[i] = path[i]
      BY <2>1
    <3> QED
      BY <2>1, <3>1
  <2>3. CASE Len(path) = n
    <3>1. path = s
      BY <2>2, <2>3, SeqEqual
    <3> QED
      BY <3>1
  <2>4. CASE Len(path) > n
    <3>1. path[n + 1] = "/"
      BY <1>2, <2>4 DEF Permitted
    <3>2. t \in Seq(STRING) /\ Len(t) = n + 1 /\ t[n + 1] = "/" /\ \A i \in 1 .. n : t[i] = s[i]
      <4>1. "/" \in STRING
        <5>1. path[n + 1] \in STRING
          BY <2>1, <2>4
        <5> QED
          BY <3>1, <5>1
      <4> QED
        BY <4>1, AppendProperties
    <3>3. \A i \in 1 .. n + 1 : t[i] = path[i]
      BY <2>1, <2>2, <3>1, <3>2
    <3> HIDE DEF t, n
    <3>4. SubSeq(t, 1, n + 1) = SubSeq(path, 1, n + 1)
      <4> DEFINE a1 == SubSeq(t, 1, n + 1)
                 a2 == SubSeq(path, 1, n + 1)
      <4>1. n + 1 <= Len(path) /\ n + 1 \in Nat
        BY <2>1, <2>4
      <4>2. a1 \in Seq(STRING) /\ Len(a1) = n + 1 /\ \A i \in 1 .. n + 1 : a1[i] = t[i]
        BY <3>2, <4>1
      <4>3. a2 \in Seq(STRING) /\ Len(a2) = n + 1 /\ \A i \in 1 .. n + 1 : a2[i] = path[i]
        BY <4>1
      <4> HIDE DEF a1, a2
      <4>4. \A i \in 1 .. Len(a1) : a1[i] = a2[i]
        BY <3>3, <4>2, <4>3
      <4>5. a1 = a2
        BY <4>2, <4>3, <4>4, SeqEqual
      <4> QED
        BY <4>5 DEF a1, a2
    <3>5. n + 1 <= Len(path)
      BY <2>1, <2>4
    <3> QED
      BY <1>2, <3>2, <3>4, <3>5 DEF IsPrefix, t
  <2> QED
    BY <2>1, <2>3, <2>4
<1> QED
  BY <1>1, <1>2

\* fs_security_check: what is open, some allowance of the process names or contains.
THEOREM FilesAllowedOnly ==
    ASSUME Roomy, ~Interleaved PROVE Spec => []AllowedOnly
<1>1. FilesInv => AllowedOnly
  <2> SUFFICES ASSUME FilesInv, NEW p \in Process, NEW fd \in Fd, IsOpen(p, fd)
               PROVE  \E i \in DOMAIN Allowance[p] :
                        \/ FileOf(p, fd).path = Allowance[p][i].path
                        \/ /\ Allowance[p][i].below
                           /\ IsPrefix(Append(Allowance[p][i].path, "/"), FileOf(p, fd).path)
    BY DEF AllowedOnly
  <2> DEFINE path == FileOf(p, fd).path
             list == Allowance[p]
  <2>1. path \in Seq(STRING)
    <3>1. FileOf(p, fd) \in FileEntry
      BY OpenFacts DEF FileOf, FilesInv, FilesTypes
    <3> QED
      BY <3>1 DEF FileEntry
  <2>2. list \in Seq([path : Seq(STRING), below : BOOLEAN])
    BY FilesAssumption
  <2>3. fs_allowances_list[p] = [i \in 1 .. Len(list) |-> list[Len(list) - i + 1]]
    BY DEF FilesInv, FilesTypes, Copied, Reverse
  <2>4. PICK i \in 1 .. Len(list) : Permitted(path, list[Len(list) - i + 1])
    BY <2>3 DEF FilesInv, OpenedAllowed, Allowed
  <2> HIDE DEF path, list
  <2>5. PICK k \in 1 .. Len(list) : k = Len(list) - i + 1
    BY <2>2, <2>4
  <2>6. k \in DOMAIN list /\ list[k] \in [path : Seq(STRING), below : BOOLEAN]
    <3> DEFINE S == [path : Seq(STRING), below : BOOLEAN]
    <3>1. list \in Seq(S) /\ k \in 1 .. Len(list)
      BY <2>2, <2>5
    <3> HIDE DEF S
    <3>2. k \in DOMAIN list /\ list[k] \in S
      BY <3>1
    <3> QED
      BY <3>2 DEF S
  <2>7. path = list[k].path \/ (list[k].below /\ IsPrefix(Append(list[k].path, "/"), path))
    BY <2>1, <2>4, <2>5, <2>6, PermittedMeans
  <2> QED
    BY <2>6, <2>7 DEF path, list
<1> QED
  BY <1>1, FilesInvariant, PTL

-----------------------------------------------------------------------------
(***************************************************************************)
(* The ISO file system.                                                    *)
(***************************************************************************)
\* The sizes: every read is smaller than a block.
SmallReads ==
    /\ ATAPI_BLOCKSIZE \in Nat /\ MAX_DR_SIZE \in 1 .. ATAPI_BLOCKSIZE - 1
    /\ ReadSize \subseteq 0 .. ATAPI_BLOCKSIZE - 1

\* Reads of less than a block, on a medium as iso.c expects it.
MediumFits == SmallReads /\ RecordsFit /\ DirectoriesFit /\ NoUnit \notin Unit

\* The place a handle has come to, and the records it has passed.
Pos(h) == h.extent * ATAPI_BLOCKSIZE + h.cur
Behind(h) == {q \in Within(h.extent, h.len) : q < Pos(h)}

\* The fields.
IsHandle(h) ==
    h = [kind |-> h.kind, unit |-> h.unit, extent |-> h.extent, cur |-> h.cur,
         len |-> h.len, eof |-> h.eof, got |-> h.got, right |-> h.right]

IsCall(c) ==
    c = [op |-> c.op, at |-> c.at, busy |-> c.busy, unit |-> c.unit,
         extent |-> c.extent, offset |-> c.offset, bytes |-> c.bytes, path |-> c.path,
         dir |-> c.dir, asked |-> c.asked, final |-> c.final, over |-> c.over]

\* s is c at another point.
SameCall(s, c) ==
    /\ s.op = c.op /\ s.at = c.at /\ s.busy = c.busy /\ s.unit = c.unit
    /\ s.bytes = c.bytes /\ s.path = c.path /\ s.dir = c.dir
    /\ s.asked = c.asked /\ s.final = c.final /\ s.over = c.over

\* A handle: what was read is what comes before the position.
HandleFits(h) ==
    /\ IsHandle(h)
    /\ h.kind \in {"none", "file", "dir"}
    /\ h.kind # "none" =>
         /\ h.unit \in Unit /\ h.extent \in Nat /\ h.len \in Nat /\ h.right
         /\ h.cur \in Nat /\ h.got \in Nat
    /\ h.kind = "file" => (h.cur <= h.len => h.got = h.cur)
    /\ h.kind = "dir" =>
         /\ Directory(h.extent, h.len)
         /\ Pos(h) < Stop(h.extent, h.len)
         /\ Pos(h) \in DOMAIN Record \/ RestZero(h.extent, h.len, Pos(h))
         /\ Cardinality(Behind(h)) = h.got

\* A point of the medium: it is never more than a block into its extent.
PointFits(c) ==
    /\ IsCall(c)
    /\ c.unit \in Unit /\ c.extent \in Nat /\ c.offset \in 0 .. ATAPI_BLOCKSIZE
    /\ c.bytes \in 0 .. ATAPI_BLOCKSIZE - 1
    /\ c.dir \in BOOLEAN

\* A call in progress, and its handle.
CallFits(c, h) ==
    \/ c = Idle
    \/ /\ PointFits(c)
       /\ c.busy \in {"no", "waits", "filled"}
       /\ c.busy # "no" => c.bytes > 0
       /\ \/ /\ c.op = "look up"
             /\ c.at \in {"root", "self", "parent", "peek", "record"}
             /\ c.bytes > 0
             /\ c.at = "root" => Place(c) = ROOT_DR_OFFSET
             /\ h = Closed
          \/ /\ c.op = "fread" /\ c.at = "fread"
             /\ h.kind = "file" /\ c.unit = h.unit
             /\ Place(c) = Pos(h)
             /\ h.cur <= h.len
             /\ IF c.over THEN h.cur + c.bytes = h.len ELSE h.cur + c.bytes <= h.len
          \/ /\ c.op = "dread" /\ c.at \in {"dread peek", "dread"}
             /\ c.bytes > 0
             /\ h.kind = "dir" /\ c.unit = h.unit
             /\ Place(c) = Pos(h) /\ c.offset < ATAPI_BLOCKSIZE
             /\ c.final = FinalExtent(h.extent, h.len)
             /\ c.at = "dread" => Pos(h) \in DOMAIN Record

\* The label of the cache is right, but while it is being changed.
CacheFits ==
    /\ \A q, r \in Reader : call[q].busy = "filled" /\ call[r].busy = "filled" => q = r
    /\ \A q \in Reader :
         call[q].busy = "filled" =>
           cache.holds = LastBlock(call[q]).holds /\ cache.of = call[q].unit
    /\ (\A q \in Reader : call[q].busy # "filled") =>
         cache.holds = cache.extent /\ cache.of = cache.unit

\* The invariant.
IsoInv ==
    /\ DOMAIN call = Reader /\ DOMAIN handle = Reader
    /\ DOMAIN cache = {"unit", "extent", "holds", "of"}
    /\ \A r \in Reader : HandleFits(handle[r]) /\ CallFits(call[r], handle[r])
    /\ CacheFits
-----------------------------------------------------------------------------
\* Quotient and remainder.
LEMMA Quotients ==
  ASSUME NEW b \in Nat \ {0}, NEW n \in Nat
  PROVE  /\ n = (n \div b) * b + (n % b)
         /\ n % b \in 0 .. b - 1
         /\ n \div b \in Nat
BY SMTT(20)

\* A place that was put together from extent and offset falls apart into them.
LEMMA QuotientIs ==
  ASSUME NEW b \in Nat \ {0}, NEW e \in Nat, NEW o \in 0 .. b - 1
  PROVE  (e * b + o) \div b = e /\ (e * b + o) % b = o
<1>1. e * b + o \in Nat
  BY SMTT(20)
<1> PICK q \in Nat, r \in 0 .. b - 1 :
      q = (e * b + o) \div b /\ r = (e * b + o) % b /\ e * b + o = q * b + r
  BY <1>1, Quotients
<1>2. b * (q - e) = o - r
  BY SMTT(20)
<1>3. CASE q - e >= 1
  <2>1. b * (q - e) >= b
    BY <1>3, SMTT(20)
  <2> QED
    BY <1>2, <2>1
<1>4. CASE q - e <= -1
  <2>1. b * (q - e) <= -b
    BY <1>4, SMTT(20)
  <2> QED
    BY <1>2, <2>1
<1>5. CASE q = e
  BY <1>2, <1>5, SMTT(20)
<1> QED
  BY <1>3, <1>4, <1>5

\* The next block begins where the places of a later one do.
LEMMA LaterBlock ==
  ASSUME NEW b \in Nat \ {0}, NEW n \in Nat, NEW e \in Nat
  PROVE  /\ e * b \in Nat
         /\ n \div b > e => n >= (e + 1) * b
         /\ n >= (e + 1) * b => n \div b > e
         /\ (e + 1) * b = e * b + b
<1> PICK q \in Nat, r \in 0 .. b - 1 : q = n \div b /\ r = n % b /\ n = q * b + r
  BY Quotients
<1>1. q > e => q * b >= (e + 1) * b
  BY SMTT(20)
<1>2. q <= e => q * b <= e * b
  BY SMTT(20)
<1>3. (e + 1) * b = e * b + b /\ e * b \in Nat /\ q * b \in Nat
  BY SMTT(20)
<1> QED
  BY <1>1, <1>2, <1>3

\* The size of a block.
BS == ATAPI_BLOCKSIZE

\* A block has room for more than one byte.
LEMMA Sizes ==
  ASSUME SmallReads
  PROVE  BS \in Nat \ {0} /\ MAX_DR_SIZE \in 1 .. BS - 1 /\ BS > 1
BY DEF SmallReads, BS

\* iso_media_seek.
LEMMA SeekSetFacts ==
  ASSUME SmallReads, NEW c, IsCall(c), NEW place \in Nat
  PROVE  LET s == SeekSet(c, place) IN
         /\ IsCall(s)
         /\ s.extent \in Nat /\ s.offset \in 0 .. BS - 1
         /\ Place(s) = place /\ s.extent = place \div BS
         /\ SameCall(s, c)
<1> PICK e, o : e = place \div BS /\ o = place % BS
  OBVIOUS
<1>1. e \in Nat /\ o \in 0 .. BS - 1 /\ e * BS + o = place
  BY Sizes, Quotients
<1>2. SeekSet(c, place)
        = [op |-> c.op, at |-> c.at, busy |-> c.busy, unit |-> c.unit,
           extent |-> e, offset |-> o, bytes |-> c.bytes, path |-> c.path,
           dir |-> c.dir, asked |-> c.asked, final |-> c.final, over |-> c.over]
  <2>1. SeekSet(c, place) = [c EXCEPT !.extent = e, !.offset = o]
    BY DEF SeekSet, BS
  <2> QED
    BY <2>1 DEF IsCall
<1> QED
  BY <1>1, <1>2 DEF IsCall, SameCall, Place, BS

\* iso_media_seek from where it is, by less than a block either way: the offset may
\* end on the size of a block, but the place is right.
LEMMA SeekCurFacts ==
  ASSUME SmallReads, NEW c, IsCall(c), c.extent \in Nat, c.offset \in 0 .. BS,
         NEW n \in 1 - BS .. BS - 1
  PROVE  LET s == SeekCur(c, n) IN
         /\ IsCall(s)
         /\ s.extent = IF c.offset + n > BS THEN c.extent + 1 ELSE c.extent
         /\ s.offset = IF c.offset + n > BS THEN c.offset + n - BS ELSE c.offset + n
         /\ Place(s) = Place(c) + n
         /\ SameCall(s, c)
<1>1. BS \in Nat \ {0} /\ n \in Int
  BY Sizes
<1>2. n >= 0 => n \div BS = 0
  <2>1. CASE n >= 0
    <3>1. n \in 0 .. BS - 1
      BY <2>1
    <3>2. (0 * BS + n) \div BS = 0
      BY <1>1, <3>1, QuotientIs
    <3>3. 0 * BS + n = n
      BY <1>1
    <3> QED
      BY <1>1, <2>1, <3>2, <3>3
  <2> QED
    BY <2>1
<1>3. PICK e, o : /\ e = IF c.offset + n > BS THEN c.extent + 1 ELSE c.extent
                  /\ o = IF c.offset + n > BS THEN c.offset + n - BS ELSE c.offset + n
  OBVIOUS
<1>4. SeekCur(c, n)
        = [op |-> c.op, at |-> c.at, busy |-> c.busy, unit |-> c.unit,
           extent |-> e, offset |-> o, bytes |-> c.bytes, path |-> c.path,
           dir |-> c.dir, asked |-> c.asked, final |-> c.final, over |-> c.over]
  <2>1. SeekCur(c, n) = [c EXCEPT !.extent = e, !.offset = o]
    <3>1. PICK w : w = IF n < 0 THEN 0 ELSE n \div BS
      OBVIOUS
    <3>2. PICK off : off = c.offset + n - w * BS
      OBVIOUS
    <3>3. PICK e1, e0, o1 : e1 = c.extent + w + 1 /\ e0 = c.extent + w /\ o1 = off - BS
      OBVIOUS
    <3>4. SeekCur(c, n) = IF off > BS THEN [c EXCEPT !.extent = e1, !.offset = o1]
                                      ELSE [c EXCEPT !.extent = e0, !.offset = off]
      BY ONLY <3>1, <3>2, <3>3, Zenon DEF SeekCur, BS
    <3>5. off = c.offset + n
      <4>1. w = 0
        BY <1>1, <1>2, <3>1
      <4>2. off = c.offset + n - 0 * BS
        BY <3>2, <4>1
      <4> QED
        BY <1>1, <4>2
    <3>6. IF off > BS THEN e = e1 /\ o = o1 ELSE e = e0 /\ o = off
      <4>1. w = 0
        BY <1>1, <1>2, <3>1
      <4> QED
        BY <1>1, <1>3, <3>3, <3>5, <4>1
    <3> QED
      BY ONLY <3>4, <3>6, Zenon
  <2> QED
    BY <2>1 DEF IsCall
<1>5. e * BS + o = c.extent * BS + c.offset + n
  <2>1. (c.extent + 1) * BS = c.extent * BS + BS /\ c.extent * BS \in Nat
    BY <1>1, LaterBlock
  <2> QED
    BY <1>1, <1>3, <2>1
<1> QED
  BY <1>3, <1>4, <1>5 DEF IsCall, SameCall, Place, BS

\* get_directory_record leaves the point behind the record, at most at the end of its
\* block.
LEMMA AfterRecordFacts ==
  ASSUME SmallReads, RecordsFit, NEW c, IsCall(c), c.extent \in Nat, c.offset \in 0 .. BS,
         NEW from, from.place = Place(c)
  PROVE  LET s == AfterRecord(c, RecordAt(from)) IN
         /\ IsCall(s)
         /\ s.extent \in Nat /\ s.offset \in 0 .. BS
         /\ Place(s) = Place(c) + RecordAt(from).length
         /\ SameCall(s, c)
<1>1. BS \in Nat \ {0} /\ MAX_DR_SIZE \in 1 .. BS - 1
  BY Sizes
<1>2. PICK len : len = RecordAt(from).length
  OBVIOUS
<1>3. PICK m : m = SeekCur(c, MAX_DR_SIZE)
  OBVIOUS
<1>4. /\ IsCall(m) /\ SameCall(m, c)
      /\ m.extent = IF c.offset + MAX_DR_SIZE > BS THEN c.extent + 1 ELSE c.extent
      /\ m.offset = IF c.offset + MAX_DR_SIZE > BS THEN c.offset + MAX_DR_SIZE - BS
                     ELSE c.offset + MAX_DR_SIZE
      /\ Place(m) = Place(c) + MAX_DR_SIZE
  BY <1>1, <1>3, SeekCurFacts
<1>5. m.extent \in Nat /\ m.offset \in 0 .. BS
  BY <1>1, <1>4
<1>6. /\ len \in 1 .. BS
      /\ m.offset + len - MAX_DR_SIZE \in 0 .. BS
  <2>1. CASE Place(c) \in DOMAIN Record
    <3>1. PICK off : off = Place(c) % BS
      OBVIOUS
    <3>2. /\ len \in Nat \ {0} /\ off + len <= BS
          /\ off + MAX_DR_SIZE > BS => off + len = BS
      BY <1>2, <2>1, <3>1 DEF RecordsFit, RecordAt, BS
    <3>3. CASE c.offset < BS
      <4>1. off = c.offset
        <5>1. c.offset \in 0 .. BS - 1
          BY <1>1, <3>3
        <5>2. Place(c) = c.extent * BS + c.offset
          BY DEF Place, BS
        <5>3. (c.extent * BS + c.offset) % BS = c.offset
          BY ONLY <1>1, <5>1, c.extent \in Nat, QuotientIs
        <5> QED
          BY ONLY <3>1, <5>2, <5>3
      <4> QED
        BY <1>1, <1>4, <3>2, <4>1
    <3>4. CASE c.offset = BS
      <4>1. Place(c) = (c.extent + 1) * BS + 0
        BY <1>1, <3>4, LaterBlock DEF Place, BS
      <4>2. off = 0
        <5>1. c.extent + 1 \in Nat /\ 0 \in 0 .. BS - 1
          BY <1>1
        <5> QED
          BY <1>1, <3>1, <4>1, <5>1, QuotientIs
      <4> QED
        BY <1>1, <1>4, <3>2, <3>4, <4>2
    <3> QED
      BY <1>1, <3>3, <3>4
  <2>2. CASE Place(c) \notin DOMAIN Record
    <3>1. len = MAX_DR_SIZE
      BY <1>2, <2>2 DEF RecordAt
    <3> QED
      BY <1>1, <1>5, <3>1
  <2> QED
    BY <2>1, <2>2
<1>7. PICK n : n = len - MAX_DR_SIZE
  OBVIOUS
<1>8. n \in 1 - BS .. BS - 1
  BY <1>1, <1>6, <1>7
<1>9. PICK s : s = SeekCur(m, n)
  OBVIOUS
<1>10. /\ IsCall(s) /\ SameCall(s, m)
       /\ s.extent = IF m.offset + n > BS THEN m.extent + 1 ELSE m.extent
       /\ s.offset = IF m.offset + n > BS THEN m.offset + n - BS ELSE m.offset + n
       /\ Place(s) = Place(m) + n
  BY <1>4, <1>5, <1>8, <1>9, SeekCurFacts
<1>11. AfterRecord(c, RecordAt(from)) = s
  BY <1>2, <1>3, <1>7, <1>9 DEF AfterRecord
<1>12. m.offset + n \in 0 .. BS
  BY <1>1, <1>5, <1>6, <1>7
<1>13. s.extent \in Nat /\ s.offset \in 0 .. BS
  BY <1>1, <1>5, <1>10, <1>12
<1>14. Place(s) = Place(c) + len
  <2>1. Place(c) \in Int
    BY <1>1, LaterBlock DEF Place, BS
  <2> QED
    BY <1>1, <1>4, <1>6, <1>7, <1>10, <2>1
<1>15. SameCall(s, c)
  BY <1>4, <1>10 DEF SameCall
<1> QED
  BY <1>2, <1>10, <1>11, <1>13, <1>14, <1>15

\* The point after iso_media_peek_byte is the one before, or the beginning of the next
\* block.
LEMMA PeekFacts ==
  ASSUME SmallReads, NEW c, IsCall(c), c.extent \in Nat, c.offset \in 0 .. BS
  PROVE  LET s == SeekCur(SeekCur(c, 1), -1) IN
         /\ IsCall(s)
         /\ s.extent \in Nat /\ s.offset \in 0 .. BS - 1
         /\ c.offset < BS => s.extent = c.extent /\ s.offset = c.offset
         /\ Place(s) = Place(c)
         /\ SameCall(s, c)
<1>1. BS \in Nat \ {0} /\ BS > 1
  BY Sizes
<1>2. PICK m, n : m = SeekCur(c, 1) /\ n = -1
  OBVIOUS
<1>3. 1 \in 1 - BS .. BS - 1 /\ n \in 1 - BS .. BS - 1 /\ n = 0 - 1
  BY <1>1, <1>2
<1>4. /\ IsCall(m) /\ SameCall(m, c)
      /\ m.extent = IF c.offset + 1 > BS THEN c.extent + 1 ELSE c.extent
      /\ m.offset = IF c.offset + 1 > BS THEN c.offset + 1 - BS ELSE c.offset + 1
      /\ Place(m) = Place(c) + 1
  BY <1>2, <1>3, SeekCurFacts
<1>5. m.extent \in Nat /\ m.offset \in 1 .. BS
  BY <1>1, <1>4
<1>6. PICK s : s = SeekCur(m, n)
  OBVIOUS
<1>7. /\ IsCall(s) /\ SameCall(s, m)
      /\ s.extent = IF m.offset + n > BS THEN m.extent + 1 ELSE m.extent
      /\ s.offset = IF m.offset + n > BS THEN m.offset + n - BS ELSE m.offset + n
      /\ Place(s) = Place(m) + n
  <2>1. m.offset \in 0 .. BS
    BY <1>1, <1>5
  <2> QED
    BY <1>3, <1>4, <1>5, <1>6, <2>1, SeekCurFacts
<1>8. s.extent \in Nat /\ s.offset \in 0 .. BS - 1
  BY <1>1, <1>3, <1>5, <1>7
<1>9. c.offset < BS => s.extent = c.extent /\ s.offset = c.offset
  BY <1>1, <1>3, <1>4, <1>7
<1>10. Place(s) = Place(c)
  <2>1. Place(c) \in Int
    BY <1>1, LaterBlock DEF Place, BS
  <2> QED
    BY <1>3, <1>4, <1>7, <2>1
<1>11. SameCall(s, c)
  BY <1>4, <1>7 DEF SameCall
<1> QED
  BY <1>2, <1>6, <1>7, <1>8, <1>9, <1>10, <1>11

\* The last block of a read is the one that the cache is labelled with.
LEMMA LabelFacts ==
  ASSUME SmallReads, NEW c, PointFits(c), c.bytes > 0
  PROVE  LastBlock(c).extent = LastBlock(c).holds /\ LastBlock(c).of = c.unit
<1>1. BS \in Nat \ {0} /\ c.extent \in Nat /\ c.offset \in 0 .. BS /\ c.bytes \in 1 .. BS - 1
  BY Sizes DEF PointFits, BS
<1>2. PICK last : last = c.offset + c.bytes
  OBVIOUS
<1>3. last \in 1 .. BS + BS - 1
  BY <1>1, <1>2
<1>4. BlocksToRead(c) = IF last > BS THEN 2 ELSE 1
  <2>1. PICK q, m : q = last \div BS /\ m = last % BS
    OBVIOUS
  <2>2. q \in Nat /\ m \in 0 .. BS - 1 /\ last = q * BS + m
    <3>1. last \in Nat
      BY <1>1, <1>3
    <3> QED
      BY <1>1, <2>1, <3>1, Quotients
  <2>3. BlocksToRead(c) = q + (IF m # 0 THEN 1 ELSE 0)
    BY <1>1, <1>2, <1>3, <2>1 DEF BlocksToRead, BS
  <2>4. q >= 2 => q * BS >= 2 * BS
    BY <1>1, <2>2, SMTT(20)
  <2>5. q < 2
    BY <1>1, <1>3, <2>2, <2>4
  <2>6. 0 * BS = 0 /\ 1 * BS = BS
    BY <1>1
  <2>7. CASE q = 0
    BY <1>1, <1>3, <2>2, <2>3, <2>6, <2>7
  <2>8. CASE q = 1
    BY <1>1, <1>3, <2>2, <2>3, <2>6, <2>8
  <2> QED
    BY <2>2, <2>5, <2>7, <2>8
<1>5. SeekCur(c, c.bytes).extent = IF last > BS THEN c.extent + 1 ELSE c.extent
  BY <1>1, <1>2, SeekCurFacts DEF PointFits
<1> QED
  BY <1>1, <1>3, <1>4, <1>5 DEF LastBlock

\* What is read from a block of a unit is what is there.
LEMMA BytesAre ==
  ASSUME NEW c, NEW u, NEW b, c.offset >= 0, u # NoUnit
  PROVE  Bytes(c, u, b) = {[unit |-> u, place |-> b * BS + c.offset]}
BY DEF Bytes, BS

-----------------------------------------------------------------------------
Below(S, x) == {q \in S : q < x}

\* The record before which there are n is the nth, and with it there are n + 1.
LEMMA NthIs ==
  ASSUME NEW S \in SUBSET Int, IsFiniteSet(S), NEW p \in S, NEW n,
         Cardinality(Below(S, p)) = n
  PROVE  /\ Nth(S, n) = p
         /\ n < Cardinality(S)
         /\ Cardinality(Below(S, p) \cup {p}) = n + 1
<1>1. ASSUME NEW x \in S
      PROVE  /\ IsFiniteSet(Below(S, x)) /\ Cardinality(Below(S, x)) \in Nat
             /\ Cardinality(Below(S, x) \cup {x}) = Cardinality(Below(S, x)) + 1
             /\ Cardinality(Below(S, x)) < Cardinality(S)
  <2>1. Below(S, x) \in SUBSET S /\ x \notin Below(S, x)
    BY DEF Below
  <2>2. IsFiniteSet(Below(S, x))
    BY <2>1, FS_Subset
  <2>3. Below(S, x) \cup {x} \in SUBSET S
    BY <2>1
  <2>4. /\ Cardinality(Below(S, x)) \in Nat /\ Cardinality(S) \in Nat
        /\ Cardinality(Below(S, x) \cup {x}) = Cardinality(Below(S, x)) + 1
    BY <2>1, <2>2, FS_AddElement, FS_CardinalityType
  <2>5. Cardinality(Below(S, x) \cup {x}) <= Cardinality(S)
    BY <2>3, FS_Subset
  <2> QED
    BY <2>2, <2>4, <2>5
<1>2. ASSUME NEW x \in S, NEW y \in S, x < y
      PROVE  Cardinality(Below(S, x)) < Cardinality(Below(S, y))
  <2>1. x \in Int /\ y \in Int /\ \A q \in S : q \in Int
    OBVIOUS
  <2>2. \A q \in S : q < x => q < y
    BY <1>2, <2>1
  <2>3. Below(S, x) \cup {x} \in SUBSET Below(S, y)
    BY <1>2, <2>2 DEF Below
  <2>4. Cardinality(Below(S, x) \cup {x}) <= Cardinality(Below(S, y))
    BY <1>1, <2>3, FS_Subset
  <2>5. /\ Cardinality(Below(S, x)) \in Nat /\ Cardinality(Below(S, y)) \in Nat
        /\ Cardinality(Below(S, x) \cup {x}) = Cardinality(Below(S, x)) + 1
    BY <1>1
  <2> QED
    BY <2>4, <2>5
<1>3. ASSUME NEW x \in S, Cardinality(Below(S, x)) = n
      PROVE  x = p
  <2>1. x \in Int /\ p \in Int /\ n \in Nat
    BY <1>1
  <2>2. ~(x < p)
    BY <1>2, <1>3, <2>1
  <2>3. ~(p < x)
    BY <1>2, <1>3, <2>1
  <2> QED
    BY <2>1, <2>2, <2>3
<1>4. Nth(S, n) = p
  BY <1>3 DEF Nth, Below
<1> QED
  BY <1>1, <1>4

\* A directory is the blocks from its extent to its last.
LEMMA DirectoryFacts ==
  ASSUME SmallReads, RecordsFit, NEW e, NEW d, Directory(e, d)
  PROVE  /\ e \in Nat /\ d \in Nat /\ e * BS \in Nat
         /\ FinalExtent(e, d) \in Nat /\ e <= FinalExtent(e, d)
         /\ Stop(e, d) = (FinalExtent(e, d) + 1) * BS
         /\ \A b \in e .. FinalExtent(e, d) : b * BS \in DOMAIN Record
         /\ Within(e, d) = {p \in DOMAIN Record : p >= e * BS /\ p < Stop(e, d)}
         /\ Within(e, d) \in SUBSET Nat /\ IsFiniteSet(Within(e, d))
<1>1. /\ BS \in Nat \ {0} /\ e \in Nat /\ d \in Nat \ {0} /\ d % BS = 0
      /\ \A b \in e .. FinalExtent(e, d) : b * BS \in DOMAIN Record
  BY Sizes DEF Directory, BS
<1> PICK q : q = d \div BS
  OBVIOUS
<1>2. q \in Nat /\ d = q * BS + 0
  BY <1>1, Quotients
<1>3. q # 0
  <2>1. 0 * BS = 0
    BY <1>1
  <2> QED
    BY <1>1, <1>2, <2>1
<1>4. FinalExtent(e, d) = e + q - 1
  BY DEF FinalExtent, BS
<1>5. Stop(e, d) = (e + q) * BS
  <2>1. (e + q) * BS = e * BS + q * BS
    BY <1>1, <1>2, SMTT(20)
  <2>2. e * BS \in Nat
    BY <1>1, LaterBlock
  <2>3. Stop(e, d) = e * BS + d
    BY DEF Stop, BS
  <2> QED
    BY <1>1, <1>2, <2>1, <2>2, <2>3
<1>6. FinalExtent(e, d) + 1 = e + q
  BY <1>1, <1>2, <1>4
<1>7. Within(e, d) = {p \in DOMAIN Record : p >= e * BS /\ p < Stop(e, d)}
  BY DEF Within, Stop, BS
<1>8. IsFiniteSet(DOMAIN Record) /\ DOMAIN Record \in SUBSET Nat
  BY DEF RecordsFit
<1>9. Within(e, d) \in SUBSET DOMAIN Record
  BY <1>7
<1>10. IsFiniteSet(Within(e, d))
  BY <1>8, <1>9, FS_Subset
<1>11. e * BS \in Nat
  BY <1>1, LaterBlock
<1> QED
  BY <1>1, <1>2, <1>3, <1>4, <1>5, <1>6, <1>7, <1>8, <1>9, <1>10, <1>11

\* Behind the last record of a block, the next of the directory is in a later block.
LEMMA RestFacts ==
  ASSUME SmallReads, RecordsFit, NEW e, NEW d, Directory(e, d),
         NEW ext \in Nat, NEW o \in 0 .. BS - 1, RestZero(e, d, ext * BS + o),
         NEW q \in Within(e, d), q >= ext * BS + o
  PROVE  q >= (ext + 1) * BS
<1>1. BS \in Nat \ {0} /\ q \in Nat
  BY Sizes, DirectoryFacts
<1>2. (ext * BS + o) \div BS = ext
  BY <1>1, QuotientIs
<1>3. q \div BS > ext
  BY <1>2 DEF RestZero, BS
<1> QED
  BY <1>1, <1>3, LaterBlock

\* A handle with another value in one field.
LEMMA HandleSet ==
  ASSUME NEW h, IsHandle(h), NEW x
  PROVE  /\ [h EXCEPT !.kind = x] =
            [kind |-> x, unit |-> h.unit, extent |-> h.extent, cur |-> h.cur,
             len |-> h.len, eof |-> h.eof, got |-> h.got, right |-> h.right]
         /\ [h EXCEPT !.unit = x] =
            [kind |-> h.kind, unit |-> x, extent |-> h.extent, cur |-> h.cur,
             len |-> h.len, eof |-> h.eof, got |-> h.got, right |-> h.right]
         /\ [h EXCEPT !.extent = x] =
            [kind |-> h.kind, unit |-> h.unit, extent |-> x, cur |-> h.cur,
             len |-> h.len, eof |-> h.eof, got |-> h.got, right |-> h.right]
         /\ [h EXCEPT !.cur = x] =
            [kind |-> h.kind, unit |-> h.unit, extent |-> h.extent, cur |-> x,
             len |-> h.len, eof |-> h.eof, got |-> h.got, right |-> h.right]
         /\ [h EXCEPT !.len = x] =
            [kind |-> h.kind, unit |-> h.unit, extent |-> h.extent, cur |-> h.cur,
             len |-> x, eof |-> h.eof, got |-> h.got, right |-> h.right]
         /\ [h EXCEPT !.eof = x] =
            [kind |-> h.kind, unit |-> h.unit, extent |-> h.extent, cur |-> h.cur,
             len |-> h.len, eof |-> x, got |-> h.got, right |-> h.right]
         /\ [h EXCEPT !.got = x] =
            [kind |-> h.kind, unit |-> h.unit, extent |-> h.extent, cur |-> h.cur,
             len |-> h.len, eof |-> h.eof, got |-> x, right |-> h.right]
         /\ [h EXCEPT !.right = x] =
            [kind |-> h.kind, unit |-> h.unit, extent |-> h.extent, cur |-> h.cur,
             len |-> h.len, eof |-> h.eof, got |-> h.got, right |-> x]
<1>1. [h EXCEPT !.kind = x] =
            [kind |-> x, unit |-> h.unit, extent |-> h.extent, cur |-> h.cur,
             len |-> h.len, eof |-> h.eof, got |-> h.got, right |-> h.right]
  BY DEF IsHandle
<1>2. [h EXCEPT !.unit = x] =
            [kind |-> h.kind, unit |-> x, extent |-> h.extent, cur |-> h.cur,
             len |-> h.len, eof |-> h.eof, got |-> h.got, right |-> h.right]
  BY DEF IsHandle
<1>3. [h EXCEPT !.extent = x] =
            [kind |-> h.kind, unit |-> h.unit, extent |-> x, cur |-> h.cur,
             len |-> h.len, eof |-> h.eof, got |-> h.got, right |-> h.right]
  BY DEF IsHandle
<1>4. [h EXCEPT !.cur = x] =
            [kind |-> h.kind, unit |-> h.unit, extent |-> h.extent, cur |-> x,
             len |-> h.len, eof |-> h.eof, got |-> h.got, right |-> h.right]
  BY DEF IsHandle
<1>5. [h EXCEPT !.len = x] =
            [kind |-> h.kind, unit |-> h.unit, extent |-> h.extent, cur |-> h.cur,
             len |-> x, eof |-> h.eof, got |-> h.got, right |-> h.right]
  BY DEF IsHandle
<1>6. [h EXCEPT !.eof = x] =
            [kind |-> h.kind, unit |-> h.unit, extent |-> h.extent, cur |-> h.cur,
             len |-> h.len, eof |-> x, got |-> h.got, right |-> h.right]
  BY DEF IsHandle
<1>7. [h EXCEPT !.got = x] =
            [kind |-> h.kind, unit |-> h.unit, extent |-> h.extent, cur |-> h.cur,
             len |-> h.len, eof |-> h.eof, got |-> x, right |-> h.right]
  BY DEF IsHandle
<1>8. [h EXCEPT !.right = x] =
            [kind |-> h.kind, unit |-> h.unit, extent |-> h.extent, cur |-> h.cur,
             len |-> h.len, eof |-> h.eof, got |-> h.got, right |-> x]
  BY DEF IsHandle
<1> QED
  BY <1>1, <1>2, <1>3, <1>4, <1>5, <1>6, <1>7, <1>8

\* What iso_fopen and iso_dopen make of what was found.
LEMMA OpenedFits ==
  ASSUME MediumFits, NEW c, c.unit \in Unit, c.dir \in BOOLEAN,
         NEW rec, rec.extent \in Nat, rec.data \in Nat,
         c.dir => Directory(rec.extent, rec.data)
  PROVE  HandleFits(Opened(c, Found(rec)))
<1>0. SmallReads /\ RecordsFit /\ BS \in Nat \ {0}
  BY Sizes DEF MediumFits
<1>1. Found(rec) # NotFound
  BY DEF Found, NotFound, NoExtent
<1> PICK kind : kind = IF c.dir THEN "dir" ELSE "file"
  OBVIOUS
<1> PICK h : h = [kind |-> kind, unit |-> c.unit, extent |-> rec.extent, cur |-> 0,
                  len |-> rec.data, eof |-> FALSE, got |-> 0, right |-> TRUE]
  OBVIOUS
<1>2. Opened(c, Found(rec)) = h
  <2> PICK f : f = Found(rec)
    OBVIOUS
  <2>1. f.extent = rec.extent /\ f.len = rec.data
    BY DEF Found
  <2>2. Opened(c, f) = [Closed EXCEPT !.kind = kind, !.unit = c.unit,
                                      !.extent = f.extent, !.len = f.len]
    BY <1>1, Zenon DEF Opened
  <2> PICK u, e, l : u = c.unit /\ e = f.extent /\ l = f.len
    OBVIOUS
  <2> PICK k1, k2, k3, k4 :
        /\ k1 = [Closed EXCEPT !.kind = kind] /\ k2 = [k1 EXCEPT !.unit = u]
        /\ k3 = [k2 EXCEPT !.extent = e] /\ k4 = [k3 EXCEPT !.len = l]
    OBVIOUS
  <2>3. [Closed EXCEPT !.kind = kind, !.unit = u, !.extent = e, !.len = l] = k4
    BY Zenon
  <2>4. IsHandle(Closed)
    BY DEF IsHandle, Closed
  <2>5. IsHandle(k1) /\ k1.kind = kind /\ k1.cur = 0 /\ k1.eof = FALSE /\ k1.got = 0
        /\ k1.right = TRUE
    BY <2>4, HandleSet DEF IsHandle, Closed
  <2>6. IsHandle(k2) /\ k2.kind = kind /\ k2.cur = 0 /\ k2.eof = FALSE /\ k2.got = 0
        /\ k2.right = TRUE /\ k2.unit = u
    BY <2>5, HandleSet DEF IsHandle
  <2>7. IsHandle(k3) /\ k3.kind = kind /\ k3.cur = 0 /\ k3.eof = FALSE /\ k3.got = 0
        /\ k3.right = TRUE /\ k3.unit = u /\ k3.extent = e
    BY <2>6, HandleSet DEF IsHandle
  <2>8. k4 = [kind |-> kind, unit |-> u, extent |-> e, cur |-> 0, len |-> l,
              eof |-> FALSE, got |-> 0, right |-> TRUE]
    <3> IsHandle(k3)
      BY <2>7
    <3>1. k4 = [kind |-> k3.kind, unit |-> k3.unit, extent |-> k3.extent, cur |-> k3.cur,
                len |-> l, eof |-> k3.eof, got |-> k3.got, right |-> k3.right]
      BY ONLY IsHandle(k3), k4 = [k3 EXCEPT !.len = l], HandleSet, Zenon
    <3> QED
      BY ONLY <2>7, <3>1
  <2> QED
    BY <2>1, <2>2, <2>3, <2>8
<1>3. IsHandle(h)
  BY DEF IsHandle
<1>4. Pos(h) = rec.extent * BS
  <2>1. Pos(h) = rec.extent * BS + 0
    BY DEF Pos, BS
  <2> QED
    BY <1>0, <2>1, LaterBlock
<1>5. ASSUME c.dir
      PROVE  /\ Pos(h) < Stop(h.extent, h.len) /\ Pos(h) \in DOMAIN Record
             /\ Cardinality(Behind(h)) = h.got
  <2>1. PICK e, d : e = rec.extent /\ d = rec.data
    OBVIOUS
  <2>2. Directory(e, d)
    BY <1>5, <2>1
  <2>3. /\ e * BS \in Nat /\ e \in Nat
        /\ FinalExtent(e, d) \in Nat /\ e <= FinalExtent(e, d)
        /\ Stop(e, d) = (FinalExtent(e, d) + 1) * BS
        /\ \A b \in e .. FinalExtent(e, d) : b * BS \in DOMAIN Record
        /\ Within(e, d) = {p \in DOMAIN Record : p >= e * BS /\ p < Stop(e, d)}
        /\ Within(e, d) \in SUBSET Nat
    BY <1>0, <2>2, DirectoryFacts
  <2>4. e * BS \in DOMAIN Record
    BY <2>3
  <2>5. e * BS < (FinalExtent(e, d) + 1) * BS
    BY ONLY <1>0, <2>3, SMTT(20)
  <2>6. Behind(h) = {}
    BY <1>4, <2>1, <2>3 DEF Behind
  <2>7. Cardinality(Behind(h)) = 0
    BY <2>6, FS_EmptySet
  <2> QED
    BY <1>4, <2>1, <2>3, <2>4, <2>5, <2>7
<1>6. HandleFits(h)
  BY <1>3, <1>5 DEF HandleFits
<1> QED
  BY <1>2, <1>6

\* No handle.
LEMMA ClosedFits == HandleFits(Closed)
BY DEF HandleFits, IsHandle, Closed

-----------------------------------------------------------------------------
\* A call with another value in one field.
LEMMA CallSet ==
  ASSUME NEW c, IsCall(c), NEW x
  PROVE  /\ [c EXCEPT !.op = x] =
            [op |-> x, at |-> c.at, busy |-> c.busy, unit |-> c.unit, extent |-> c.extent,
             offset |-> c.offset, bytes |-> c.bytes, path |-> c.path, dir |-> c.dir,
             asked |-> c.asked, final |-> c.final, over |-> c.over]
         /\ [c EXCEPT !.at = x] =
            [op |-> c.op, at |-> x, busy |-> c.busy, unit |-> c.unit, extent |-> c.extent,
             offset |-> c.offset, bytes |-> c.bytes, path |-> c.path, dir |-> c.dir,
             asked |-> c.asked, final |-> c.final, over |-> c.over]
         /\ [c EXCEPT !.busy = x] =
            [op |-> c.op, at |-> c.at, busy |-> x, unit |-> c.unit, extent |-> c.extent,
             offset |-> c.offset, bytes |-> c.bytes, path |-> c.path, dir |-> c.dir,
             asked |-> c.asked, final |-> c.final, over |-> c.over]
         /\ [c EXCEPT !.unit = x] =
            [op |-> c.op, at |-> c.at, busy |-> c.busy, unit |-> x, extent |-> c.extent,
             offset |-> c.offset, bytes |-> c.bytes, path |-> c.path, dir |-> c.dir,
             asked |-> c.asked, final |-> c.final, over |-> c.over]
         /\ [c EXCEPT !.bytes = x] =
            [op |-> c.op, at |-> c.at, busy |-> c.busy, unit |-> c.unit, extent |-> c.extent,
             offset |-> c.offset, bytes |-> x, path |-> c.path, dir |-> c.dir,
             asked |-> c.asked, final |-> c.final, over |-> c.over]
         /\ [c EXCEPT !.path = x] =
            [op |-> c.op, at |-> c.at, busy |-> c.busy, unit |-> c.unit, extent |-> c.extent,
             offset |-> c.offset, bytes |-> c.bytes, path |-> x, dir |-> c.dir,
             asked |-> c.asked, final |-> c.final, over |-> c.over]
         /\ [c EXCEPT !.dir = x] =
            [op |-> c.op, at |-> c.at, busy |-> c.busy, unit |-> c.unit, extent |-> c.extent,
             offset |-> c.offset, bytes |-> c.bytes, path |-> c.path, dir |-> x,
             asked |-> c.asked, final |-> c.final, over |-> c.over]
         /\ [c EXCEPT !.asked = x] =
            [op |-> c.op, at |-> c.at, busy |-> c.busy, unit |-> c.unit, extent |-> c.extent,
             offset |-> c.offset, bytes |-> c.bytes, path |-> c.path, dir |-> c.dir,
             asked |-> x, final |-> c.final, over |-> c.over]
         /\ [c EXCEPT !.final = x] =
            [op |-> c.op, at |-> c.at, busy |-> c.busy, unit |-> c.unit, extent |-> c.extent,
             offset |-> c.offset, bytes |-> c.bytes, path |-> c.path, dir |-> c.dir,
             asked |-> c.asked, final |-> x, over |-> c.over]
         /\ [c EXCEPT !.over = x] =
            [op |-> c.op, at |-> c.at, busy |-> c.busy, unit |-> c.unit, extent |-> c.extent,
             offset |-> c.offset, bytes |-> c.bytes, path |-> c.path, dir |-> c.dir,
             asked |-> c.asked, final |-> c.final, over |-> x]
<1>1. [c EXCEPT !.op = x] =
            [op |-> x, at |-> c.at, busy |-> c.busy, unit |-> c.unit, extent |-> c.extent,
             offset |-> c.offset, bytes |-> c.bytes, path |-> c.path, dir |-> c.dir,
             asked |-> c.asked, final |-> c.final, over |-> c.over]
  BY DEF IsCall
<1>2. [c EXCEPT !.at = x] =
            [op |-> c.op, at |-> x, busy |-> c.busy, unit |-> c.unit, extent |-> c.extent,
             offset |-> c.offset, bytes |-> c.bytes, path |-> c.path, dir |-> c.dir,
             asked |-> c.asked, final |-> c.final, over |-> c.over]
  BY DEF IsCall
<1>3. [c EXCEPT !.busy = x] =
            [op |-> c.op, at |-> c.at, busy |-> x, unit |-> c.unit, extent |-> c.extent,
             offset |-> c.offset, bytes |-> c.bytes, path |-> c.path, dir |-> c.dir,
             asked |-> c.asked, final |-> c.final, over |-> c.over]
  BY DEF IsCall
<1>4. [c EXCEPT !.unit = x] =
            [op |-> c.op, at |-> c.at, busy |-> c.busy, unit |-> x, extent |-> c.extent,
             offset |-> c.offset, bytes |-> c.bytes, path |-> c.path, dir |-> c.dir,
             asked |-> c.asked, final |-> c.final, over |-> c.over]
  BY DEF IsCall
<1>5. [c EXCEPT !.bytes = x] =
            [op |-> c.op, at |-> c.at, busy |-> c.busy, unit |-> c.unit, extent |-> c.extent,
             offset |-> c.offset, bytes |-> x, path |-> c.path, dir |-> c.dir,
             asked |-> c.asked, final |-> c.final, over |-> c.over]
  BY DEF IsCall
<1>6. [c EXCEPT !.path = x] =
            [op |-> c.op, at |-> c.at, busy |-> c.busy, unit |-> c.unit, extent |-> c.extent,
             offset |-> c.offset, bytes |-> c.bytes, path |-> x, dir |-> c.dir,
             asked |-> c.asked, final |-> c.final, over |-> c.over]
  BY DEF IsCall
<1>7. [c EXCEPT !.dir = x] =
            [op |-> c.op, at |-> c.at, busy |-> c.busy, unit |-> c.unit, extent |-> c.extent,
             offset |-> c.offset, bytes |-> c.bytes, path |-> c.path, dir |-> x,
             asked |-> c.asked, final |-> c.final, over |-> c.over]
  BY DEF IsCall
<1>8. [c EXCEPT !.asked = x] =
            [op |-> c.op, at |-> c.at, busy |-> c.busy, unit |-> c.unit, extent |-> c.extent,
             offset |-> c.offset, bytes |-> c.bytes, path |-> c.path, dir |-> c.dir,
             asked |-> x, final |-> c.final, over |-> c.over]
  BY DEF IsCall
<1>9. [c EXCEPT !.final = x] =
            [op |-> c.op, at |-> c.at, busy |-> c.busy, unit |-> c.unit, extent |-> c.extent,
             offset |-> c.offset, bytes |-> c.bytes, path |-> c.path, dir |-> c.dir,
             asked |-> c.asked, final |-> x, over |-> c.over]
  BY DEF IsCall
<1>10. [c EXCEPT !.over = x] =
            [op |-> c.op, at |-> c.at, busy |-> c.busy, unit |-> c.unit, extent |-> c.extent,
             offset |-> c.offset, bytes |-> c.bytes, path |-> c.path, dir |-> c.dir,
             asked |-> c.asked, final |-> c.final, over |-> x]
  BY DEF IsCall
<1> QED
  BY <1>1, <1>2, <1>3, <1>4, <1>5, <1>6, <1>7, <1>8, <1>9, <1>10

\* s is at the same point for the same purpose.
SameAs(s, c) ==
    /\ s.extent = c.extent /\ s.offset = c.offset
    /\ s.op = c.op /\ s.unit = c.unit /\ s.path = c.path /\ s.dir = c.dir
    /\ s.asked = c.asked /\ s.final = c.final /\ s.over = c.over

\* The next read of a call begins where the last one ended.
LEMMA ReadingIs ==
  ASSUME SmallReads, NEW c, IsCall(c), NEW at
  PROVE  LET s == Reading(c, at) IN
         /\ IsCall(s)
         /\ s.at = at /\ s.busy = "no" /\ s.bytes \in 1 .. BS - 1
         /\ Place(s) = Place(c) /\ SameAs(s, c)
<1> PICK n : n = IF at \in {"peek", "dread peek"} THEN 1 ELSE MAX_DR_SIZE
  OBVIOUS
<1> PICK b, s1, s2, s : /\ b = "no" /\ s1 = [c EXCEPT !.at = at]
                        /\ s2 = [s1 EXCEPT !.busy = b] /\ s = [s2 EXCEPT !.bytes = n]
  OBVIOUS
<1>1. Reading(c, at) = s
  BY Zenon DEF Reading
<1>2. s1 = [op |-> c.op, at |-> at, busy |-> c.busy, unit |-> c.unit, extent |-> c.extent,
             offset |-> c.offset, bytes |-> c.bytes, path |-> c.path, dir |-> c.dir,
             asked |-> c.asked, final |-> c.final, over |-> c.over]
  BY CallSet
<1>3. IsCall(s1) /\ SameAs(s1, c) /\ s1.at = at
  BY ONLY <1>2 DEF IsCall, SameAs
<1>4. s2 = [op |-> s1.op, at |-> s1.at, busy |-> b, unit |-> s1.unit, extent |-> s1.extent,
             offset |-> s1.offset, bytes |-> s1.bytes, path |-> s1.path, dir |-> s1.dir,
             asked |-> s1.asked, final |-> s1.final, over |-> s1.over]
  BY ONLY <1>3, s2 = [s1 EXCEPT !.busy = b], CallSet, Zenon
<1>5. IsCall(s2) /\ SameAs(s2, s1) /\ s2.at = s1.at /\ s2.busy = b
  BY ONLY <1>4 DEF IsCall, SameAs
<1>6. s = [op |-> s2.op, at |-> s2.at, busy |-> s2.busy, unit |-> s2.unit, extent |-> s2.extent,
             offset |-> s2.offset, bytes |-> n, path |-> s2.path, dir |-> s2.dir,
             asked |-> s2.asked, final |-> s2.final, over |-> s2.over]
  BY ONLY <1>5, s = [s2 EXCEPT !.bytes = n], CallSet, Zenon
<1>7. IsCall(s) /\ SameAs(s, s2) /\ s.at = s2.at /\ s.busy = s2.busy /\ s.bytes = n
  BY ONLY <1>6 DEF IsCall, SameAs
<1>8. n \in 1 .. BS - 1
  <2>1. MAX_DR_SIZE \in 1 .. BS - 1 /\ 1 \in 1 .. BS - 1
    BY ONLY SmallReads, Sizes
  <2>2. n = 1 \/ n = MAX_DR_SIZE
    BY Zenon
  <2> QED
    BY ONLY <2>1, <2>2
<1>9. SameAs(s, c) /\ s.at = at /\ s.busy = b
  BY ONLY <1>3, <1>5, <1>7 DEF SameAs
<1> QED
  BY ONLY <1>1, <1>7, <1>8, <1>9, b = "no" DEF Place, SameAs

\* A step of one reader.
Moved(r, c, h) ==
    /\ DOMAIN call' = Reader /\ DOMAIN handle' = Reader
    /\ call'[r] = c /\ handle'[r] = h
    /\ \A q \in Reader : q # r => call'[q] = call[q] /\ handle'[q] = handle[q]

\* A call that reads on leaves its handle alone.
LEMMA ReadNextMoves ==
  ASSUME NEW r \in Reader, DOMAIN call = Reader, DOMAIN handle = Reader,
         NEW c, NEW at, ReadNext(r, c, at)
  PROVE  Moved(r, Reading(c, at), handle[r])
BY DEF ReadNext, Moved

\* A look-up that ends, well or badly, opens what it found or nothing.
LEMMA LookedUpMoves ==
  ASSUME NEW r \in Reader, DOMAIN call = Reader, DOMAIN handle = Reader,
         NEW found, LookedUp(r, found)
  PROVE  Moved(r, Idle, Opened(call[r], found))
BY DEF LookedUp, Moved

\* A step of a reader that fits.
StepFits(r) ==
    \E c, h : Moved(r, c, h) /\ HandleFits(h) /\ CallFits(c, h) /\ c.busy = "no"

\* No call.
LEMMA IdleFits == ASSUME NEW h PROVE CallFits(Idle, h) /\ Idle.busy = "no"
BY DEF CallFits, Idle

\* The steps of iso_look_up.
Looks(c) ==
    /\ IsCall(c) /\ c.op = "look up" /\ c.unit \in Unit /\ c.dir \in BOOLEAN
    /\ c.extent \in Nat /\ c.offset \in 0 .. BS

\* iso_look_up reads on.
LEMMA LooksOn ==
  ASSUME MediumFits, NEW r \in Reader, DOMAIN call = Reader, DOMAIN handle = Reader,
         handle[r] = Closed, NEW c, Looks(c),
         NEW at \in {"self", "parent", "peek", "record"}, ReadNext(r, c, at)
  PROVE  StepFits(r)
<1> PICK s : s = Reading(c, at)
  OBVIOUS
<1>1. SmallReads
  BY DEF MediumFits
<1>2. /\ IsCall(s) /\ s.at = at /\ s.busy = "no" /\ s.bytes \in 1 .. BS - 1
      /\ s.extent = c.extent /\ s.offset = c.offset
      /\ s.op = c.op /\ s.unit = c.unit /\ s.dir = c.dir
  <2>1. IsCall(c)
    BY DEF Looks
  <2>2. /\ IsCall(s) /\ s.at = at /\ s.busy = "no" /\ s.bytes \in 1 .. BS - 1
        /\ SameAs(s, c)
    BY ONLY <1>1, <2>1, s = Reading(c, at), ReadingIs
  <2> QED
    BY ONLY <2>2 DEF SameAs
<1>3. s.bytes > 0 /\ s.bytes \in 0 .. BS - 1
  BY <1>1, <1>2, Sizes
<1>4. PointFits(s)
  BY <1>2, <1>3 DEF PointFits, Looks, BS
<1>5. CallFits(s, Closed)
  BY <1>2, <1>3, <1>4 DEF CallFits, Looks
<1>6. Moved(r, s, Closed)
  BY ReadNextMoves
<1> QED
  BY <1>2, <1>5, <1>6, ClosedFits DEF StepFits

\* iso_look_up has not found the name.
LEMMA LooksNoMore ==
  ASSUME NEW r \in Reader, DOMAIN call = Reader, DOMAIN handle = Reader,
         LookedUp(r, NotFound)
  PROVE  StepFits(r)
<1>1. Opened(call[r], NotFound) = Closed
  BY DEF Opened
<1>2. Moved(r, Idle, Closed)
  BY <1>1, LookedUpMoves
<1> QED
  BY <1>2, IdleFits, ClosedFits DEF StepFits

\* iso_look_up has found it.
LEMMA LooksFound ==
  ASSUME MediumFits, NEW r \in Reader, DOMAIN call = Reader, DOMAIN handle = Reader,
         Looks(call[r]), NEW rec, rec.extent \in Nat, rec.data \in Nat,
         call[r].dir => Directory(rec.extent, rec.data), LookedUp(r, Found(rec))
  PROVE  StepFits(r)
<1> PICK h : h = Opened(call[r], Found(rec))
  OBVIOUS
<1>1. HandleFits(h)
  BY OpenedFits DEF Looks
<1>2. Moved(r, Idle, h)
  BY LookedUpMoves
<1> QED
  BY <1>1, <1>2, IdleFits DEF StepFits

\* The seeks of iso_look_up and what else it changes.
LEMMA LooksAnywhere ==
  ASSUME MediumFits, NEW c, Looks(c)
  PROVE  /\ \A place \in Nat : Looks(SeekSet(c, place))
         /\ \A from : from.place = Place(c) => Looks(AfterRecord(c, RecordAt(from)))
         /\ Looks(SeekCur(SeekCur(c, 1), -1))
         /\ \A x : Looks([c EXCEPT !.final = x]) /\ Looks([c EXCEPT !.path = x])
<1>1. SmallReads /\ RecordsFit /\ BS \in Nat \ {0}
  BY Sizes DEF MediumFits
<1>2. /\ IsCall(c) /\ c.op = "look up" /\ c.unit \in Unit /\ c.dir \in BOOLEAN
      /\ c.extent \in Nat /\ c.offset \in 0 .. BS
  BY DEF Looks
<1>3. ASSUME NEW s, IsCall(s), SameCall(s, c), s.extent \in Nat, s.offset \in 0 .. BS
      PROVE  Looks(s)
  BY ONLY <1>2, <1>3 DEF Looks, SameCall
<1>4. ASSUME NEW place \in Nat
      PROVE  Looks(SeekSet(c, place))
  <2> PICK s : s = SeekSet(c, place)
    OBVIOUS
  <2>1. IsCall(s) /\ SameCall(s, c) /\ s.extent \in Nat /\ s.offset \in 0 .. BS - 1
    BY ONLY <1>1, <1>2, s = SeekSet(c, place), place \in Nat, SeekSetFacts
  <2>2. s.offset \in 0 .. BS
    BY ONLY <1>1, <2>1
  <2> QED
    BY <1>3, <2>1, <2>2
<1>5. ASSUME NEW from, from.place = Place(c)
      PROVE  Looks(AfterRecord(c, RecordAt(from)))
  <2> PICK s : s = AfterRecord(c, RecordAt(from))
    OBVIOUS
  <2>1. IsCall(s) /\ SameCall(s, c) /\ s.extent \in Nat /\ s.offset \in 0 .. BS
    BY ONLY <1>1, <1>2, <1>5, s = AfterRecord(c, RecordAt(from)), AfterRecordFacts
  <2> QED
    BY <1>3, <2>1
<1>6. Looks(SeekCur(SeekCur(c, 1), -1))
  <2> PICK s : s = SeekCur(SeekCur(c, 1), -1)
    OBVIOUS
  <2>1. IsCall(s) /\ SameCall(s, c) /\ s.extent \in Nat /\ s.offset \in 0 .. BS - 1
    BY ONLY <1>1, <1>2, s = SeekCur(SeekCur(c, 1), -1), PeekFacts
  <2>2. s.offset \in 0 .. BS
    BY ONLY <1>1, <2>1
  <2> QED
    BY <1>3, <2>1, <2>2
<1>7. ASSUME NEW x
      PROVE  Looks([c EXCEPT !.final = x]) /\ Looks([c EXCEPT !.path = x])
  <2> PICK s, t : s = [c EXCEPT !.final = x] /\ t = [c EXCEPT !.path = x]
    OBVIOUS
  <2>1. s = [op |-> c.op, at |-> c.at, busy |-> c.busy, unit |-> c.unit, extent |-> c.extent,
             offset |-> c.offset, bytes |-> c.bytes, path |-> c.path, dir |-> c.dir,
             asked |-> c.asked, final |-> x, over |-> c.over]
    BY ONLY <1>2, s = [c EXCEPT !.final = x], CallSet, Zenon
  <2>2. t = [op |-> c.op, at |-> c.at, busy |-> c.busy, unit |-> c.unit, extent |-> c.extent,
             offset |-> c.offset, bytes |-> c.bytes, path |-> x, dir |-> c.dir,
             asked |-> c.asked, final |-> c.final, over |-> c.over]
    BY ONLY <1>2, t = [c EXCEPT !.path = x], CallSet, Zenon
  <2>3. Looks(s)
    BY ONLY <1>2, <2>1 DEF Looks, IsCall
  <2>4. Looks(t)
    BY ONLY <1>2, <2>2 DEF Looks, IsCall
  <2> QED
    BY <2>3, <2>4
<1> QED
  BY <1>4, <1>5, <1>6, <1>7

\* What is read as a record.
LEMMA RecordFacts ==
  ASSUME MediumFits, NEW from
  PROVE  LET rec == RecordAt(from) IN
         /\ rec.extent \in Nat /\ rec.data \in Nat /\ rec.dir \in BOOLEAN
         /\ rec.dir => Directory(rec.extent, rec.data)
         /\ rec.extent * BS \in Nat
<1> PICK rec : rec = RecordAt(from)
  OBVIOUS
<1>1. /\ rec.extent \in Nat /\ rec.data \in Nat /\ rec.dir \in BOOLEAN
      /\ rec.dir => Directory(rec.extent, rec.data)
  <2>1. CASE from.place \in DOMAIN Record
    BY <2>1 DEF RecordAt, MediumFits, RecordsFit, DirectoriesFit
  <2>2. CASE from.place \notin DOMAIN Record
    BY <2>2 DEF RecordAt
  <2> QED
    BY <2>1, <2>2
<1>2. BS \in Nat \ {0}
  BY Sizes DEF MediumFits
<1>3. rec.extent * BS \in Nat
  BY <1>1, <1>2, LaterBlock
<1> QED
  BY <1>1, <1>3

\* What iso_look_up does with a byte or a record that it was given.
LEMMA LookUpStep ==
  ASSUME MediumFits, NEW r \in Reader, DOMAIN call = Reader, DOMAIN handle = Reader,
         handle[r] = Closed, NEW c, c = call[r], Looks(c),
         c.at \in {"root", "self", "parent", "peek", "record"},
         c.at = "root" => Place(c) = ROOT_DR_OFFSET,
         NEW from, from.place = Place(c), Received(r, c, from)
  PROVE  StepFits(r)
<1> PICK rec : rec = RecordAt(from)
  OBVIOUS
<1>1. /\ rec.extent \in Nat /\ rec.data \in Nat /\ rec.dir \in BOOLEAN
      /\ rec.dir => Directory(rec.extent, rec.data)
      /\ rec.extent * BS \in Nat
  BY RecordFacts
<1>2. Looks(SeekSet(c, rec.extent * ATAPI_BLOCKSIZE))
  BY <1>1, LooksAnywhere DEF BS
<1>3. Looks(AfterRecord(c, rec))
  BY LooksAnywhere
<1>4. CASE c.at = "root"
  <2>1. RootRead(r, c, rec)
    BY <1>4 DEF Received
  <2>2. rec.dir
    BY <1>4 DEF MediumFits, DirectoriesFit, RecordAt
  <2>3. CASE c.path = <<>> /\ c.dir
    <3>1. LookedUp(r, Found(rec))
      BY <2>1, <2>3 DEF RootRead
    <3> QED
      BY <1>1, <2>2, <3>1, LooksFound
  <2>4. CASE c.path = <<>> /\ ~c.dir
    <3>1. LookedUp(r, NotFound)
      BY <2>1, <2>4 DEF RootRead
    <3> QED
      BY <3>1, LooksNoMore
  <2>5. CASE c.path # <<>>
    <3>1. ReadNext(r, SeekSet(c, rec.extent * ATAPI_BLOCKSIZE), "self")
      BY <2>1, <2>5 DEF RootRead
    <3> QED
      BY <1>2, <3>1, LooksOn
  <2> QED
    BY <2>3, <2>4, <2>5
<1>5. CASE c.at = "self"
  <2>1. SelfRead(r, c, rec)
    BY <1>5 DEF Received
  <2>2. PICK x : ReadNext(r, [AfterRecord(c, rec) EXCEPT !.final = x], "parent")
    BY <2>1 DEF SelfRead
  <2>3. Looks([AfterRecord(c, rec) EXCEPT !.final = x])
    BY <1>3, LooksAnywhere
  <2> QED
    BY <2>2, <2>3, LooksOn
<1>6. CASE c.at = "parent"
  <2>1. ReadNext(r, AfterRecord(c, rec), "peek")
    BY <1>6 DEF Received
  <2> QED
    BY <1>3, <2>1, LooksOn
<1>7. CASE c.at = "peek"
  <2> PICK back : back = SeekCur(SeekCur(c, 1), -1)
    OBVIOUS
  <2>1. PeekRead(r, c, from)
    BY <1>7 DEF Received
  <2>2. Looks(back)
    BY LooksAnywhere
  <2>3. CASE ~IsZero(from)
    <3>1. ReadNext(r, back, "record")
      BY <2>1, <2>3 DEF PeekRead
    <3> QED
      BY <2>2, <3>1, LooksOn
  <2>4. CASE IsZero(from) /\ back.extent = c.final
    <3>1. LookedUp(r, NotFound)
      BY <2>1, <2>4 DEF PeekRead
    <3> QED
      BY <3>1, LooksNoMore
  <2>5. CASE IsZero(from) /\ back.extent # c.final
    <3> PICK place : place = (back.extent + 1) * ATAPI_BLOCKSIZE
      OBVIOUS
    <3>1. ReadNext(r, SeekSet(back, place), "peek")
      BY <2>1, <2>5 DEF PeekRead
    <3>2. back.extent + 1 \in Nat
      <4>1. back.extent \in Nat
        BY <2>2, Zenon DEF Looks
      <4> QED
        BY ONLY <4>1
    <3>3. BS \in Nat \ {0}
      BY Sizes DEF MediumFits
    <3>4. place \in Nat
      BY ONLY <3>2, <3>3, place = (back.extent + 1) * ATAPI_BLOCKSIZE, LaterBlock DEF BS
    <3>5. Looks(SeekSet(back, place))
      BY <2>2, <3>4, LooksAnywhere
    <3> QED
      BY <3>1, <3>5, LooksOn
  <2> QED
    BY <2>3, <2>4, <2>5
<1>8. CASE c.at = "record"
  <2>1. EntryRead(r, c, rec)
    BY <1>8 DEF Received
  <2>2. CASE ~IsNamed(rec, c.path)
    <3>1. ReadNext(r, AfterRecord(c, rec), "peek")
      BY <2>1, <2>2 DEF EntryRead
    <3> QED
      BY <1>3, <3>1, LooksOn
  <2>3. CASE IsNamed(rec, c.path) /\ Len(c.path) = 1 /\ rec.dir = c.dir
    <3>1. LookedUp(r, Found(rec))
      BY <2>1, <2>3 DEF EntryRead
    <3> QED
      BY <1>1, <2>3, <3>1, LooksFound
  <2>4. CASE IsNamed(rec, c.path) /\ Len(c.path) = 1 /\ rec.dir # c.dir
    <3>1. LookedUp(r, NotFound)
      BY <2>1, <2>4 DEF EntryRead
    <3> QED
      BY <3>1, LooksNoMore
  <2>5. CASE IsNamed(rec, c.path) /\ Len(c.path) # 1
    <3> PICK s : s = SeekSet(c, rec.extent * ATAPI_BLOCKSIZE)
      OBVIOUS
    <3>1. PICK x : ReadNext(r, [s EXCEPT !.path = x], "self")
      BY <2>1, <2>5 DEF EntryRead
    <3>2. Looks([s EXCEPT !.path = x])
      BY <1>2, LooksAnywhere
    <3> QED
      BY <3>1, <3>2, LooksOn
  <2> QED
    BY <2>2, <2>3, <2>4, <2>5
<1> QED
  BY <1>4, <1>5, <1>6, <1>7, <1>8

\* A handle after a read.
LEMMA HandleRead ==
  ASSUME NEW h, IsHandle(h), NEW x, NEW y, NEW z
  PROVE  [h EXCEPT !.cur = x, !.got = y, !.right = z]
           = [kind |-> h.kind, unit |-> h.unit, extent |-> h.extent, cur |-> x,
              len |-> h.len, eof |-> h.eof, got |-> y, right |-> z]
<1> PICK h1, h2, h3 : /\ h1 = [h EXCEPT !.cur = x] /\ h2 = [h1 EXCEPT !.got = y]
                        /\ h3 = [h2 EXCEPT !.right = z]
  OBVIOUS
<1>2. h1 = [kind |-> h.kind, unit |-> h.unit, extent |-> h.extent, cur |-> x,
            len |-> h.len, eof |-> h.eof, got |-> h.got, right |-> h.right]
  BY HandleSet, Zenon
<1>3. IsHandle(h1)
  BY <1>2 DEF IsHandle
<1>4. h2 = [kind |-> h1.kind, unit |-> h1.unit, extent |-> h1.extent, cur |-> h1.cur,
            len |-> h1.len, eof |-> h1.eof, got |-> y, right |-> h1.right]
  BY ONLY <1>3, h2 = [h1 EXCEPT !.got = y], HandleSet, Zenon
<1>5. IsHandle(h2)
  BY ONLY <1>4 DEF IsHandle
<1>6. h3 = [kind |-> h2.kind, unit |-> h2.unit, extent |-> h2.extent, cur |-> h2.cur,
            len |-> h2.len, eof |-> h2.eof, got |-> h2.got, right |-> z]
  BY ONLY <1>5, h3 = [h2 EXCEPT !.right = z], HandleSet, Zenon
<1>7. [h EXCEPT !.cur = x, !.got = y, !.right = z] = h3
  BY Zenon
<1> QED
  BY ONLY <1>2, <1>4, <1>6, <1>7

\* The end of iso_fread.
LEMMA FileStep ==
  ASSUME MediumFits, NEW r \in Reader, DOMAIN call = Reader, DOMAIN handle = Reader,
         NEW c, c = call[r], NEW h, h = handle[r], HandleFits(h), PointFits(c),
         c.at = "fread", h.kind = "file", c.unit = h.unit, Place(c) = Pos(h), h.cur <= h.len,
         IF c.over THEN h.cur + c.bytes = h.len ELSE h.cur + c.bytes <= h.len,
         NEW from, c.bytes = 0 \/ from = [unit |-> c.unit, place |-> Place(c)],
         Received(r, c, from)
  PROVE  StepFits(r)
<1>1. FileRead(r, c, from)
  BY DEF Received
<1>2. PICK x, y, z :
        /\ x = h.cur + c.bytes + (IF c.over THEN 1 ELSE 0)
        /\ y = h.got + c.bytes
        /\ z = (h.right /\ (c.bytes = 0 \/ from = [unit |-> h.unit,
                                                  place |-> h.extent * ATAPI_BLOCKSIZE + h.got]))
  OBVIOUS
<1> PICK g : g = [h EXCEPT !.cur = x, !.got = y, !.right = z]
  OBVIOUS
<1>4. handle' = [handle EXCEPT ![r] = g] /\ call' = [call EXCEPT ![r] = Idle]
  BY <1>1, <1>2, Zenon DEF FileRead
<1>5. Moved(r, Idle, g)
  BY <1>4 DEF Moved
<1>6. g = [kind |-> h.kind, unit |-> h.unit, extent |-> h.extent, cur |-> x,
           len |-> h.len, eof |-> h.eof, got |-> y, right |-> z]
  <2>1. IsHandle(h)
    BY DEF HandleFits
  <2> QED
    BY ONLY g = [h EXCEPT !.cur = x, !.got = y, !.right = z], <2>1, HandleRead, Zenon
<1>7. /\ h.unit \in Unit /\ h.extent \in Nat /\ h.len \in Nat /\ h.right
      /\ h.cur \in Nat /\ h.got \in Nat /\ h.got = h.cur /\ c.bytes \in Nat
  BY DEF HandleFits, PointFits
<1>8. z
  BY <1>2, <1>7 DEF Pos
<1>9. x \in Nat /\ y \in Nat /\ (x <= h.len => y = x)
  BY <1>2, <1>7
<1>10. HandleFits(g)
  BY ONLY <1>6, <1>7, <1>8, <1>9, h.kind = "file" DEF HandleFits, IsHandle
<1> QED
  BY <1>5, <1>10, IdleFits DEF StepFits

\* An iso_dir between two calls.
IsDir(h) ==
    /\ IsHandle(h) /\ h.kind = "dir"
    /\ h.unit \in Unit /\ h.extent \in Nat /\ h.len \in Nat /\ h.right
    /\ h.cur \in Nat /\ h.got \in Nat
    /\ Directory(h.extent, h.len)
    /\ Pos(h) < Stop(h.extent, h.len)
    /\ Pos(h) \in DOMAIN Record \/ RestZero(h.extent, h.len, Pos(h))
    /\ Cardinality(Behind(h)) = h.got

\* IsDir is what HandleFits says of a directory.
LEMMA DirFits == ASSUME NEW h PROVE IsDir(h) <=> HandleFits(h) /\ h.kind = "dir"
BY DEF IsDir, HandleFits

\* Where a directory is being read, and that without a record there the rest of the
\* block has none.
LEMMA DirPlace ==
  ASSUME MediumFits, NEW h, IsDir(h), NEW ext \in Nat, NEW o \in 0 .. BS - 1,
         Pos(h) = ext * BS + o
  PROVE  /\ h.extent <= ext
         /\ Pos(h) >= h.extent * BS /\ h.extent * BS \in Nat /\ Pos(h) \in Nat
         /\ Pos(h) = h.extent * BS + h.cur
         /\ Pos(h) \notin DOMAIN Record =>
              \A q \in Within(h.extent, h.len) : q >= Pos(h) => q >= (ext + 1) * BS
<1>1. SmallReads /\ RecordsFit /\ BS \in Nat \ {0}
  BY Sizes DEF MediumFits
<1> PICK e, d, cur : e = h.extent /\ d = h.len /\ cur = h.cur
  OBVIOUS
<1>2. e \in Nat /\ cur \in Nat /\ Directory(e, d)
  BY DEF IsDir
<1>3. Pos(h) = e * BS + cur /\ e * BS \in Nat
  BY <1>1, <1>2, LaterBlock DEF Pos, BS
<1>4. e <= ext
  <2>1. CASE ext + 1 <= e
    <3>1. (ext + 1) * BS <= e * BS
      BY ONLY <1>1, <1>2, <2>1, ext \in Nat, SMTT(20)
    <3>2. (ext + 1) * BS = ext * BS + BS /\ ext * BS \in Nat
      BY <1>1, LaterBlock
    <3>3. e * BS + cur = ext * BS + o
      BY <1>3
    <3> QED
      BY ONLY <1>1, <1>2, <1>3, <3>1, <3>2, <3>3, o \in 0 .. BS - 1
  <2> QED
    BY <1>2, <2>1
<1>5. ASSUME Pos(h) \notin DOMAIN Record, NEW q \in Within(e, d), q >= Pos(h)
      PROVE  q >= (ext + 1) * BS
  <2>1. RestZero(e, d, ext * BS + o)
    BY <1>5 DEF IsDir
  <2> QED
    BY <1>1, <1>2, <1>5, <2>1, RestFacts
<1>6. Pos(h) >= e * BS /\ Pos(h) \in Nat
  BY ONLY <1>2, <1>3
<1> QED
  BY <1>3, <1>4, <1>5, <1>6

\* iso_dread goes on in the next block, which begins with a record.
LEMMA NextBlock ==
  ASSUME MediumFits, NEW h, IsDir(h), NEW ext \in Nat, NEW o \in 0 .. BS - 1,
         Pos(h) = ext * BS + o, Pos(h) \notin DOMAIN Record,
         ext < FinalExtent(h.extent, h.len),
         NEW g, g = [kind |-> h.kind, unit |-> h.unit, extent |-> h.extent,
                     cur |-> (ext + 1 - h.extent) * BS, len |-> h.len, eof |-> h.eof,
                     got |-> h.got, right |-> h.right]
  PROVE  IsDir(g) /\ Pos(g) = (ext + 1) * BS /\ Pos(g) \in DOMAIN Record
<1>1. SmallReads /\ RecordsFit /\ BS \in Nat \ {0}
  BY Sizes DEF MediumFits
<1> PICK e, d, f : e = h.extent /\ d = h.len /\ f = FinalExtent(e, d)
  OBVIOUS
<1>2. e \in Nat /\ Directory(e, d)
  BY DEF IsDir
<1>3. /\ f \in Nat /\ e <= f /\ Stop(e, d) = (f + 1) * BS
      /\ \A b \in e .. f : b * BS \in DOMAIN Record
      /\ Within(e, d) \in SUBSET Nat
  BY <1>1, <1>2, DirectoryFacts
<1>4. /\ e <= ext
      /\ Pos(h) >= e * BS /\ e * BS \in Nat /\ Pos(h) \in Nat
      /\ \A q \in Within(e, d) : q >= Pos(h) => q >= (ext + 1) * BS
  BY DirPlace
<1> PICK k : k = ext + 1 - e
  OBVIOUS
<1>5. k \in Nat /\ ext + 1 = e + k /\ ext + 1 \in e .. f
  BY <1>2, <1>3, <1>4
<1>6. IsHandle(g) /\ g.extent = e /\ g.len = d /\ g.cur = k * BS
  BY ONLY e = h.extent, d = h.len, k = ext + 1 - e,
          g = [kind |-> h.kind, unit |-> h.unit, extent |-> h.extent,
               cur |-> (ext + 1 - h.extent) * BS, len |-> h.len, eof |-> h.eof,
               got |-> h.got, right |-> h.right] DEF IsHandle
<1>7. Pos(g) = (ext + 1) * BS
  <2>1. Pos(g) = e * BS + k * BS
    BY ONLY <1>6 DEF Pos, BS
  <2>2. e * BS + k * BS = (e + k) * BS
    BY ONLY <1>1, <1>2, <1>5, SMTT(20)
  <2> QED
    BY ONLY <1>5, <2>1, <2>2
<1>8. Pos(g) \in DOMAIN Record
  BY ONLY <1>3, <1>5, <1>7
<1>9. Pos(g) < Stop(e, d)
  <2>1. ext + 1 < f + 1
    BY ONLY <1>3, <1>5, ext \in Nat
  <2>2. (ext + 1) * BS < (f + 1) * BS
    BY ONLY <1>1, <1>3, <2>1, ext \in Nat, SMTT(20)
  <2> QED
    BY ONLY <1>3, <1>7, <2>2
<1>10. k * BS \in Nat
  BY ONLY <1>1, <1>5, LaterBlock
<1>11. Behind(g) = Behind(h)
  <2>1. Pos(h) < Pos(g)
    <3>1. (ext + 1) * BS = ext * BS + BS /\ ext * BS \in Nat
      BY ONLY <1>1, ext \in Nat, LaterBlock
    <3> QED
      BY ONLY <1>1, <1>7, <3>1, Pos(h) = ext * BS + o, o \in 0 .. BS - 1
  <2>2. \A q \in Within(e, d) : q < Pos(g) <=> q < Pos(h)
    <3>1. Pos(g) \in Nat /\ Pos(h) \in Nat
      BY ONLY <1>1, <1>4, <1>7, ext \in Nat, LaterBlock
    <3> QED
      BY ONLY <1>3, <1>4, <1>7, <2>1, <3>1
  <2> QED
    BY ONLY <1>6, <2>2, e = h.extent, d = h.len DEF Behind
<1>12. /\ g.kind = h.kind /\ g.unit = h.unit /\ g.right = h.right /\ g.got = h.got
  BY ONLY g = [kind |-> h.kind, unit |-> h.unit, extent |-> h.extent,
               cur |-> (ext + 1 - h.extent) * BS, len |-> h.len, eof |-> h.eof,
               got |-> h.got, right |-> h.right]
<1>13. /\ h.kind = "dir" /\ h.unit \in Unit /\ d \in Nat /\ h.right /\ h.got \in Nat
       /\ Cardinality(Behind(h)) = h.got
  BY DEF IsDir
<1> QED
  BY ONLY <1>2, <1>6, <1>7, <1>8, <1>9, <1>10, <1>11, <1>12, <1>13 DEF IsDir

\* At a zero in the last block, all records have been read.
LEMMA AllRead ==
  ASSUME MediumFits, NEW h, IsDir(h), NEW ext \in Nat, NEW o \in 0 .. BS - 1,
         Pos(h) = ext * BS + o, Pos(h) \notin DOMAIN Record,
         ext >= FinalExtent(h.extent, h.len)
  PROVE  h.got = Cardinality(Within(h.extent, h.len))
<1>1. SmallReads /\ RecordsFit /\ BS \in Nat \ {0}
  BY Sizes DEF MediumFits
<1> PICK e, d, f : e = h.extent /\ d = h.len /\ f = FinalExtent(e, d)
  OBVIOUS
<1>2. e \in Nat /\ Directory(e, d) /\ Cardinality(Behind(h)) = h.got
  BY DEF IsDir
<1>3. /\ f \in Nat /\ Stop(e, d) = (f + 1) * BS
      /\ Within(e, d) = {p \in DOMAIN Record : p >= e * BS /\ p < Stop(e, d)}
      /\ Within(e, d) \in SUBSET Nat
  BY <1>1, <1>2, DirectoryFacts
<1>4. /\ Pos(h) \in Nat
      /\ \A q \in Within(e, d) : q >= Pos(h) => q >= (ext + 1) * BS
  BY DirPlace
<1>5. (ext + 1) * BS >= (f + 1) * BS /\ (ext + 1) * BS \in Nat /\ (f + 1) * BS \in Nat
  <2>1. ext + 1 >= f + 1
    BY <1>3
  <2> QED
    BY ONLY <1>1, <1>3, <2>1, ext \in Nat, SMTT(20)
<1>6. \A q \in Within(e, d) : q < Pos(h)
  <2> SUFFICES ASSUME NEW q \in Within(e, d), q >= Pos(h)
               PROVE  FALSE
    BY <1>3, <1>4
  <2>1. q >= (ext + 1) * BS
    BY <1>4
  <2>2. q < (f + 1) * BS /\ q \in Nat
    BY ONLY <1>3, q \in Within(e, d)
  <2> QED
    BY ONLY <1>5, <2>1, <2>2
<1>7. Behind(h) = Within(e, d)
  BY ONLY <1>6, e = h.extent, d = h.len DEF Behind
<1> QED
  BY <1>2, <1>7

\* The record at the position of the directory is its next one.
LEMMA NextRecord ==
  ASSUME MediumFits, NEW h, IsDir(h), NEW p, p = Pos(h), p \in DOMAIN Record,
         NEW n, n = p + Record[p].length - h.extent * BS,
         NEW g, g = [kind |-> h.kind, unit |-> h.unit, extent |-> h.extent, cur |-> n,
                     len |-> h.len, eof |-> h.eof, got |-> h.got + 1, right |-> h.right]
  PROVE  /\ IsDir(g)
         /\ h.got < Cardinality(Within(h.extent, h.len))
         /\ p = Nth(Within(h.extent, h.len), h.got)
<1>1. SmallReads /\ RecordsFit /\ BS \in Nat \ {0}
  BY Sizes DEF MediumFits
<1> PICK e, d, f, len, next :
      /\ e = h.extent /\ d = h.len /\ f = FinalExtent(e, d)
      /\ len = Record[p].length /\ next = p + len
  OBVIOUS
<1>2. /\ e \in Nat /\ Directory(e, d) /\ Cardinality(Behind(h)) = h.got
      /\ h.kind = "dir" /\ h.unit \in Unit /\ d \in Nat /\ h.right /\ h.got \in Nat
      /\ h.cur \in Nat /\ p < Stop(e, d)
  BY DEF IsDir
<1>3. /\ f \in Nat /\ Stop(e, d) = (f + 1) * BS /\ e * BS \in Nat
      /\ \A b \in e .. f : b * BS \in DOMAIN Record
      /\ Within(e, d) = {q \in DOMAIN Record : q >= e * BS /\ q < Stop(e, d)}
      /\ Within(e, d) \in SUBSET Nat /\ IsFiniteSet(Within(e, d))
  BY <1>1, <1>2, DirectoryFacts
<1>4. p = e * BS + h.cur /\ p \in Nat /\ len \in Nat \ {0}
  BY <1>1, <1>2, <1>3 DEF Pos, BS, RecordsFit
<1>5. p \in Within(e, d)
  BY ONLY <1>2, <1>3, <1>4, p \in DOMAIN Record
<1>6. /\ \A q \in Within(e, d) : p < q => next <= q
      /\ \/ next \in DOMAIN Record \/ next % BS = 0 \/ RestZero(e, d, next)
      /\ next < Stop(e, d)
  BY <1>2, <1>5 DEF Directory, BS
<1>7. Behind(h) = Below(Within(e, d), p)
  BY DEF Behind, Below
<1>8. /\ Nth(Within(e, d), h.got) = p
      /\ h.got < Cardinality(Within(e, d))
      /\ Cardinality(Below(Within(e, d), p) \cup {p}) = h.got + 1
  <2>1. Within(e, d) \in SUBSET Int
    BY ONLY <1>3
  <2>2. Cardinality(Below(Within(e, d), p)) = h.got
    BY ONLY <1>2, <1>7
  <2> QED
    BY ONLY <1>3, <1>5, <2>1, <2>2, NthIs
<1>9. IsHandle(g) /\ g.extent = e /\ g.len = d /\ g.cur = n /\ g.kind = h.kind
      /\ g.unit = h.unit /\ g.right = h.right /\ g.got = h.got + 1
  BY ONLY e = h.extent, d = h.len,
          g = [kind |-> h.kind, unit |-> h.unit, extent |-> h.extent, cur |-> n,
               len |-> h.len, eof |-> h.eof, got |-> h.got + 1, right |-> h.right]
     DEF IsHandle
<1>10. n = h.cur + len /\ n \in Nat
  BY ONLY <1>2, <1>3, <1>4, n = p + Record[p].length - h.extent * BS, e = h.extent,
          len = Record[p].length
<1>11. Pos(g) = next
  <2>1. Pos(g) = e * BS + n
    BY ONLY <1>9 DEF Pos, BS
  <2> QED
    BY ONLY <1>2, <1>3, <1>4, <1>10, <2>1, next = p + len
<1>12. Behind(g) = Below(Within(e, d), p) \cup {p}
  <2>1. next \in Nat /\ p < next
    BY ONLY <1>4, next = p + len
  <2>2. \A q \in Within(e, d) : q < next <=> q < p \/ q = p
    BY ONLY <1>3, <1>4, <1>6, <2>1
  <2> QED
    BY ONLY <1>5, <1>9, <1>11, <2>2 DEF Behind, Below
<1>13. Cardinality(Behind(g)) = g.got
  BY ONLY <1>8, <1>9, <1>12
<1>14. Pos(g) \in DOMAIN Record \/ RestZero(e, d, Pos(g))
  <2>1. CASE next % BS = 0
    <3>1. next \in Nat /\ next >= e * BS
      BY ONLY <1>2, <1>3, <1>4, next = p + len
    <3> PICK b : b = next \div BS
      OBVIOUS
    <3>2. next = b * BS + 0 /\ b \in Nat
      BY ONLY <1>1, <2>1, <3>1, b = next \div BS, Quotients
    <3>3. next = b * BS
      BY ONLY <1>1, <3>1, <3>2, LaterBlock
    <3>4. b >= e
      <4>1. b + 1 <= e => (b + 1) * BS <= e * BS
        BY ONLY <1>1, <1>2, <3>2, SMTT(20)
      <4>2. (b + 1) * BS = b * BS + BS
        BY ONLY <1>1, <3>2, LaterBlock
      <4> QED
        BY ONLY <1>1, <1>2, <1>3, <3>1, <3>2, <3>3, <4>1, <4>2
    <3>5. b <= f
      <4>1. b >= f + 1 => b * BS >= (f + 1) * BS
        BY ONLY <1>1, <1>3, <3>2, SMTT(20)
      <4>2. next < (f + 1) * BS /\ (f + 1) * BS \in Nat
        <5>1. (f + 1) * BS \in Nat
          BY ONLY <1>1, <1>3, LaterBlock
        <5> QED
          BY ONLY <1>3, <1>6, <5>1
      <4> QED
        BY ONLY <1>3, <3>1, <3>2, <3>3, <4>1, <4>2
    <3>6. b \in e .. f
      BY ONLY <1>2, <1>3, <3>2, <3>4, <3>5
    <3> QED
      BY ONLY <1>3, <1>11, <3>3, <3>6
  <2> QED
    BY ONLY <1>6, <1>11, <2>1
<1>15. IsDir(g)
  BY ONLY <1>2, <1>3, <1>6, <1>9, <1>10, <1>11, <1>13, <1>14 DEF IsDir
<1> QED
  BY <1>8, <1>15

\* A call of iso_dread.
Lists(c, h) ==
    /\ IsCall(c) /\ c.op = "dread" /\ c.unit \in Unit /\ c.dir \in BOOLEAN
    /\ c.extent \in Nat /\ c.offset \in 0 .. BS - 1
    /\ c.unit = h.unit /\ Place(c) = Pos(h) /\ c.final = FinalExtent(h.extent, h.len)

\* iso_dread goes on at a record.
LEMMA ListsOn ==
  ASSUME MediumFits, NEW h, IsDir(h), NEW c, Lists(c, h), Pos(h) \in DOMAIN Record
  PROVE  CallFits(Reading(c, "dread"), h) /\ Reading(c, "dread").busy = "no"
<1> PICK s, at : at = "dread" /\ s = Reading(c, at)
  OBVIOUS
<1>1. SmallReads /\ BS \in Nat \ {0}
  BY Sizes DEF MediumFits
<1>2. IsCall(c)
  BY DEF Lists
<1>3. /\ IsCall(s) /\ s.at = at /\ s.busy = "no" /\ s.bytes \in 1 .. BS - 1
      /\ Place(s) = Place(c) /\ SameAs(s, c)
  BY ONLY <1>1, <1>2, s = Reading(c, at), ReadingIs
<1>4. /\ s.extent \in Nat /\ s.offset \in 0 .. BS /\ s.offset < BS
      /\ s.bytes > 0 /\ s.bytes \in 0 .. BS - 1
      /\ s.unit \in Unit /\ s.dir \in BOOLEAN /\ s.op = "dread" /\ s.unit = h.unit
      /\ s.final = FinalExtent(h.extent, h.len) /\ Place(s) = Pos(h)
  BY ONLY <1>1, <1>3, Lists(c, h) DEF Lists, SameAs
<1>5. PointFits(s)
  BY ONLY <1>3, <1>4 DEF PointFits, BS
<1>6. CallFits(s, h)
  BY ONLY <1>3, <1>4, <1>5, at = "dread", IsDir(h), Pos(h) \in DOMAIN Record DEF CallFits, IsDir, BS
<1> QED
  BY <1>3, <1>6

\* iso_dread looks at a byte: a record, the zero behind the last record of a block, or
\* the end.
LEMMA DirPeekStep ==
  ASSUME MediumFits, NEW r \in Reader, DOMAIN call = Reader, DOMAIN handle = Reader,
         NEW c, c = call[r], NEW h, h = handle[r], IsDir(h), Lists(c, h),
         c.at = "dread peek",
         NEW from, from.place = Place(c), Received(r, c, from)
  PROVE  StepFits(r)
<1>1. SmallReads /\ RecordsFit /\ BS \in Nat \ {0}
  BY Sizes DEF MediumFits
<1>2. DirPeek(r, c, from)
  BY DEF Received
<1> PICK back : back = SeekCur(SeekCur(c, 1), -1)
  OBVIOUS
<1>3. /\ IsCall(c) /\ c.extent \in Nat /\ c.offset \in 0 .. BS - 1 /\ c.offset \in 0 .. BS
      /\ Place(c) = Pos(h)
  BY ONLY <1>1, Lists(c, h) DEF Lists
<1>4. /\ IsCall(back) /\ SameCall(back, c) /\ back.extent \in Nat
      /\ back.offset \in 0 .. BS - 1 /\ Place(back) = Place(c)
      /\ back.extent = c.extent /\ back.offset = c.offset
  BY ONLY <1>1, <1>3, back = SeekCur(SeekCur(c, 1), -1), PeekFacts
<1>5. Lists(back, h)
  BY ONLY <1>3, <1>4, Lists(c, h) DEF Lists, SameCall
<1> PICK ext, o : ext = c.extent /\ o = c.offset
  OBVIOUS
<1>6. ext \in Nat /\ o \in 0 .. BS - 1 /\ Pos(h) = ext * BS + o
  BY <1>3 DEF Place, BS
<1>7. IsZero(from) <=> Pos(h) \notin DOMAIN Record
  BY <1>3 DEF IsZero
<1>8. c.final = FinalExtent(h.extent, h.len) /\ FinalExtent(h.extent, h.len) \in Nat
  BY <1>1, DirectoryFacts DEF Lists, IsDir
<1>9. CASE ~IsZero(from)
  <2>1. ReadNext(r, back, "dread")
    BY <1>2, <1>9 DEF DirPeek
  <2>2. Moved(r, Reading(back, "dread"), h)
    BY <2>1, ReadNextMoves
  <2>3. CallFits(Reading(back, "dread"), h) /\ Reading(back, "dread").busy = "no"
    BY <1>5, <1>7, <1>9, ListsOn
  <2>4. HandleFits(h)
    BY DirFits
  <2> QED
    BY <2>2, <2>3, <2>4 DEF StepFits
<1>10. CASE IsZero(from) /\ back.extent < c.final
  <2> PICK next, place : /\ place = (back.extent + 1) * ATAPI_BLOCKSIZE
                         /\ next = SeekSet(back, place)
    OBVIOUS
  <2>1. /\ call' = [call EXCEPT ![r] = Reading(next, "dread")]
        /\ handle' = [handle EXCEPT ![r].cur = (next.extent - handle[r].extent) * ATAPI_BLOCKSIZE]
    BY <1>2, <1>10 DEF DirPeek
  <2> PICK g, n : /\ n = (next.extent - h.extent) * BS
                  /\ g = [h EXCEPT !.cur = n]
    OBVIOUS
  <2>2. handle' = [handle EXCEPT ![r] = g]
    BY <2>1, Zenon DEF BS
  <2>3. Moved(r, Reading(next, "dread"), g)
    BY <2>1, <2>2 DEF Moved
  <2>4. place \in Nat /\ place = (ext + 1) * BS
    <3>1. ext + 1 \in Nat
      BY ONLY <1>6
    <3>2. (ext + 1) * BS \in Nat
      BY ONLY <1>1, <3>1, LaterBlock
    <3> QED
      BY ONLY <1>4, <3>2, place = (back.extent + 1) * ATAPI_BLOCKSIZE, ext = c.extent DEF BS
  <2>5. /\ IsCall(next) /\ SameCall(next, back) /\ next.extent \in Nat
        /\ next.offset \in 0 .. BS - 1 /\ Place(next) = place
        /\ next.extent = place \div BS
    BY ONLY <1>1, <1>4, <2>4, next = SeekSet(back, place), SeekSetFacts
  <2>6. next.extent = ext + 1
    <3>1. ext + 1 \in Nat /\ 0 \in 0 .. BS - 1 /\ (ext + 1) * BS + 0 = (ext + 1) * BS
      BY ONLY <1>1, <1>6, <2>4
    <3>2. ((ext + 1) * BS + 0) \div BS = ext + 1
      BY ONLY <1>1, <3>1, QuotientIs
    <3> QED
      BY ONLY <2>4, <2>5, <3>1, <3>2
  <2>7. g = [kind |-> h.kind, unit |-> h.unit, extent |-> h.extent, cur |-> n,
             len |-> h.len, eof |-> h.eof, got |-> h.got, right |-> h.right]
    <3>1. IsHandle(h)
      BY DEF IsDir
    <3> QED
      BY ONLY <3>1, g = [h EXCEPT !.cur = n], HandleSet, Zenon
  <2>8. n = (ext + 1 - h.extent) * BS
    <3>1. h.extent \in Nat
      BY DEF IsDir
    <3>2. next.extent - h.extent = ext + 1 - h.extent
      BY ONLY <1>6, <2>5, <2>6, <3>1
    <3> QED
      BY ONLY <3>2, n = (next.extent - h.extent) * BS
  <2>9. IsDir(g) /\ Pos(g) = (ext + 1) * BS /\ Pos(g) \in DOMAIN Record
    <3>1. ext < FinalExtent(h.extent, h.len)
      BY ONLY <1>4, <1>8, <1>10, ext = c.extent
    <3>2. Pos(h) \notin DOMAIN Record
      BY <1>7, <1>10
    <3> QED
      BY ONLY MediumFits, IsDir(h), <1>6, <2>7, <2>8, <3>1, <3>2, NextBlock
  <2>10. Lists(next, g)
    <3>1. g.unit = h.unit /\ g.extent = h.extent /\ g.len = h.len
      BY ONLY <2>7
    <3> QED
      BY ONLY <1>5, <2>4, <2>5, <2>9, <3>1 DEF Lists, SameCall
  <2>11. CallFits(Reading(next, "dread"), g) /\ Reading(next, "dread").busy = "no"
    BY ONLY MediumFits, <2>9, <2>10, ListsOn
  <2>12. HandleFits(g)
    BY <2>9, DirFits
  <2> QED
    BY <2>3, <2>11, <2>12 DEF StepFits
<1>11. CASE IsZero(from) /\ ~(back.extent < c.final)
  <2> PICK z : z = (h.right /\ h.got = Cardinality(Within(h.extent, h.len)))
    OBVIOUS
  <2> PICK t, g1, g : t = TRUE /\ g1 = [h EXCEPT !.eof = t] /\ g = [g1 EXCEPT !.right = z]
    OBVIOUS
  <2>1. /\ handle' = [handle EXCEPT ![r] = g]
        /\ call' = [call EXCEPT ![r] = Idle]
    <3>1. /\ handle' = [handle EXCEPT ![r] =
                          [h EXCEPT !.eof = TRUE,
                                    !.right = h.right /\ h.got = Cardinality(Within(h.extent, h.len))]]
          /\ call' = [call EXCEPT ![r] = Idle]
      BY <1>2, <1>11, Zenon DEF DirPeek
    <3> QED
      BY <3>1, Zenon
  <2>2. Moved(r, Idle, g)
    BY <2>1 DEF Moved
  <2>3. z
    <3>1. ext >= FinalExtent(h.extent, h.len)
      BY ONLY <1>4, <1>6, <1>8, <1>11, ext = c.extent
    <3>2. Pos(h) \notin DOMAIN Record
      BY <1>7, <1>11
    <3>3. h.got = Cardinality(Within(h.extent, h.len))
      BY ONLY MediumFits, IsDir(h), <1>6, <3>1, <3>2, AllRead
    <3> QED
      BY <3>3 DEF IsDir
  <2>4. IsHandle(h)
    BY DEF IsDir
  <2>5. g1 = [kind |-> h.kind, unit |-> h.unit, extent |-> h.extent, cur |-> h.cur,
              len |-> h.len, eof |-> t, got |-> h.got, right |-> h.right]
    BY ONLY <2>4, g1 = [h EXCEPT !.eof = t], HandleSet, Zenon
  <2>6. IsHandle(g1)
    BY ONLY <2>5 DEF IsHandle
  <2>7. g = [kind |-> g1.kind, unit |-> g1.unit, extent |-> g1.extent, cur |-> g1.cur,
             len |-> g1.len, eof |-> g1.eof, got |-> g1.got, right |-> z]
    BY ONLY <2>6, g = [g1 EXCEPT !.right = z], HandleSet, Zenon
  <2>8. /\ IsHandle(g) /\ g.kind = h.kind /\ g.unit = h.unit /\ g.extent = h.extent
        /\ g.cur = h.cur /\ g.len = h.len /\ g.got = h.got /\ g.right = z
    BY ONLY <2>5, <2>7 DEF IsHandle
  <2>9. Pos(g) = Pos(h) /\ Behind(g) = Behind(h)
    BY ONLY <2>8 DEF Pos, Behind
  <2>10. IsDir(g)
    BY ONLY <2>3, <2>8, <2>9, IsDir(h) DEF IsDir
  <2>11. HandleFits(g)
    BY <2>10, DirFits
  <2> QED
    BY <2>2, <2>11, IdleFits DEF StepFits
<1> QED
  BY <1>9, <1>10, <1>11

\* iso_dread returns a record, which is the next one, and goes to the one behind it.
LEMMA DirRecordStep ==
  ASSUME MediumFits, NEW r \in Reader, DOMAIN call = Reader, DOMAIN handle = Reader,
         NEW c, c = call[r], NEW h, h = handle[r], IsDir(h), Lists(c, h),
         c.at = "dread", Pos(h) \in DOMAIN Record,
         NEW from, from = [unit |-> c.unit, place |-> Place(c)], Received(r, c, from)
  PROVE  StepFits(r)
<1>1. SmallReads /\ RecordsFit /\ BS \in Nat \ {0}
  BY Sizes DEF MediumFits
<1>2. DirRecord(r, c, from)
  BY DEF Received
<1> PICK p, next, n, y, z :
      /\ p = Pos(h) /\ next = AfterRecord(c, RecordAt(from))
      /\ n = Place(next) - h.extent * BS
      /\ y = h.got + 1
      /\ z = (/\ h.right /\ h.got < Cardinality(Within(h.extent, h.len))
             /\ from.place = Nth(Within(h.extent, h.len), h.got)
             /\ from.unit = h.unit)
  OBVIOUS
<1> PICK g : g = [h EXCEPT !.cur = n, !.got = y, !.right = z]
  OBVIOUS
<1>3. /\ handle' = [handle EXCEPT ![r] = g]
      /\ call' = [call EXCEPT ![r] = Idle]
  BY <1>2, Zenon DEF DirRecord, BS
<1>4. Moved(r, Idle, g)
  BY <1>3 DEF Moved
<1>5. /\ IsCall(c) /\ c.extent \in Nat /\ c.offset \in 0 .. BS
      /\ Place(c) = p /\ c.unit = h.unit
  BY ONLY <1>1, Lists(c, h), p = Pos(h) DEF Lists
<1>6. Place(next) = p + RecordAt(from).length
  BY ONLY <1>1, <1>5, next = AfterRecord(c, RecordAt(from)),
          from = [unit |-> c.unit, place |-> Place(c)], AfterRecordFacts
<1>7. RecordAt(from).length = Record[p].length
  BY <1>5 DEF RecordAt
<1>8. n = p + Record[p].length - h.extent * BS
  <2>1. Place(next) = p + Record[p].length
    BY ONLY <1>6, <1>7
  <2>2. p \in Nat /\ Record[p].length \in Nat
    BY <1>1 DEF RecordsFit
  <2>3. h.extent * BS \in Nat
    BY <1>1, LaterBlock DEF IsDir
  <2> QED
    BY ONLY <2>1, <2>2, <2>3, n = Place(next) - h.extent * BS
<1>9. IsHandle(h)
  BY DEF IsDir
<1>10. g = [kind |-> h.kind, unit |-> h.unit, extent |-> h.extent, cur |-> n,
            len |-> h.len, eof |-> h.eof, got |-> y, right |-> z]
  BY ONLY <1>9, g = [h EXCEPT !.cur = n, !.got = y, !.right = z], HandleRead, Zenon
<1> PICK g0 : g0 = [kind |-> h.kind, unit |-> h.unit, extent |-> h.extent, cur |-> n,
                    len |-> h.len, eof |-> h.eof, got |-> h.got + 1, right |-> h.right]
  OBVIOUS
<1>11. /\ IsDir(g0)
       /\ h.got < Cardinality(Within(h.extent, h.len))
       /\ p = Nth(Within(h.extent, h.len), h.got)
  BY ONLY MediumFits, IsDir(h), p = Pos(h), Pos(h) \in DOMAIN Record, <1>8,
          g0 = [kind |-> h.kind, unit |-> h.unit, extent |-> h.extent, cur |-> n,
                len |-> h.len, eof |-> h.eof, got |-> h.got + 1, right |-> h.right],
          NextRecord
<1>12. z
  BY <1>5, <1>11 DEF IsDir
<1>13. IsDir(g)
  <2>1. g.kind = g0.kind /\ g.unit = g0.unit /\ g.extent = g0.extent /\ g.cur = g0.cur
        /\ g.len = g0.len /\ g.got = g0.got /\ g.right /\ IsHandle(g)
    BY ONLY <1>10, <1>12, y = h.got + 1,
            g0 = [kind |-> h.kind, unit |-> h.unit, extent |-> h.extent, cur |-> n,
                  len |-> h.len, eof |-> h.eof, got |-> h.got + 1, right |-> h.right]
       DEF IsHandle
  <2>2. Pos(g) = Pos(g0) /\ Behind(g) = Behind(g0)
    BY ONLY <2>1 DEF Pos, Behind
  <2> QED
    BY ONLY <1>11, <2>1, <2>2 DEF IsDir
<1>14. HandleFits(g)
  BY <1>13, DirFits
<1> QED
  BY <1>4, <1>14, IdleFits DEF StepFits

-----------------------------------------------------------------------------
\* What a reader goes on with, when the bytes come from its point of its unit.
LEMMA ReceivedFits ==
  ASSUME MediumFits, NEW r \in Reader, DOMAIN call = Reader, DOMAIN handle = Reader,
         NEW c, c = call[r], NEW h, h = handle[r], HandleFits(h), CallFits(c, h),
         c.op # "none",
         NEW from, c.bytes = 0 \/ from = [unit |-> c.unit, place |-> Place(c)],
         Received(r, c, from)
  PROVE  StepFits(r)
<1>1. c # Idle /\ PointFits(c)
  <2>1. Idle.op = "none"
    BY DEF Idle
  <2>2. c # Idle
    BY <2>1
  <2> QED
    BY ONLY <2>2, CallFits(c, h) DEF CallFits
<1>2. /\ IsCall(c) /\ c.unit \in Unit /\ c.dir \in BOOLEAN
      /\ c.extent \in Nat /\ c.offset \in 0 .. BS /\ c.bytes \in Int
  BY <1>1 DEF PointFits, BS
<1>3. CASE /\ c.op = "look up"
           /\ c.at \in {"root", "self", "parent", "peek", "record"}
           /\ c.bytes > 0
           /\ c.at = "root" => Place(c) = ROOT_DR_OFFSET
           /\ h = Closed
  <2>1. Looks(c)
    BY <1>2, <1>3 DEF Looks
  <2>2. c.bytes # 0
    <3>1. c.bytes > 0 /\ c.bytes \in Int
      BY <1>2, <1>3, Zenon
    <3> QED
      BY ONLY <3>1
  <2>3. from.place = Place(c)
    BY ONLY <2>2, c.bytes = 0 \/ from = [unit |-> c.unit, place |-> Place(c)]
  <2> QED
    BY <1>3, <2>1, <2>3, LookUpStep
<1>4. CASE /\ c.op = "fread" /\ c.at = "fread"
           /\ h.kind = "file" /\ c.unit = h.unit
           /\ Place(c) = Pos(h)
           /\ h.cur <= h.len
           /\ IF c.over THEN h.cur + c.bytes = h.len ELSE h.cur + c.bytes <= h.len
  BY <1>1, <1>4, FileStep
<1>5. CASE /\ c.op = "dread" /\ c.at \in {"dread peek", "dread"}
           /\ c.bytes > 0
           /\ h.kind = "dir" /\ c.unit = h.unit
           /\ Place(c) = Pos(h) /\ c.offset < ATAPI_BLOCKSIZE
           /\ c.final = FinalExtent(h.extent, h.len)
           /\ c.at = "dread" => Pos(h) \in DOMAIN Record
  <2>1. IsDir(h)
    BY <1>5, DirFits
  <2>2. c.offset \in 0 .. BS - 1
    <3>1. BS \in Nat
      BY Sizes DEF MediumFits
    <3>2. c.offset < BS
      BY ONLY <1>5 DEF BS
    <3> QED
      BY ONLY <1>2, <3>1, <3>2
  <2>3. Lists(c, h)
    BY <1>2, <1>5, <2>2 DEF Lists
  <2>4. c.bytes # 0
    <3>1. c.bytes > 0 /\ c.bytes \in Int
      BY <1>2, <1>5, Zenon
    <3> QED
      BY ONLY <3>1
  <2>5. from = [unit |-> c.unit, place |-> Place(c)]
    BY ONLY <2>4, c.bytes = 0 \/ from = [unit |-> c.unit, place |-> Place(c)]
  <2>6. from.place = Place(c)
    BY ONLY <2>5
  <2>7. CASE c.at = "dread peek"
    BY <2>1, <2>3, <2>6, <2>7, DirPeekStep
  <2>8. CASE c.at = "dread"
    BY <1>5, <2>1, <2>3, <2>5, <2>8, DirRecordStep
  <2> QED
    BY <1>5, <2>7, <2>8
<1> QED
  BY <1>1, <1>3, <1>4, <1>5 DEF CallFits

\* A call that waits, or has filled the cache.
LEMMA BusyFits ==
  ASSUME MediumFits, NEW c, NEW h, CallFits(c, h), c.op # "none", c.bytes > 0,
         NEW b \in {"waits", "filled"}, NEW s, s = [c EXCEPT !.busy = b]
  PROVE  /\ CallFits(s, h) /\ s.busy = b /\ s.unit = c.unit
         /\ LastBlock(s).holds = LastBlock(c).holds
<1>1. c # Idle /\ PointFits(c)
  <2>1. Idle.op = "none"
    BY DEF Idle
  <2>2. c # Idle
    BY <2>1
  <2> QED
    BY ONLY <2>2, CallFits(c, h) DEF CallFits
<1>2. IsCall(c)
  BY <1>1 DEF PointFits
<1>3. s = [op |-> c.op, at |-> c.at, busy |-> b, unit |-> c.unit, extent |-> c.extent,
           offset |-> c.offset, bytes |-> c.bytes, path |-> c.path, dir |-> c.dir,
           asked |-> c.asked, final |-> c.final, over |-> c.over]
  BY ONLY <1>2, s = [c EXCEPT !.busy = b], CallSet, Zenon
<1>4. /\ IsCall(s) /\ s.op = c.op /\ s.at = c.at /\ s.busy = b /\ s.unit = c.unit
      /\ s.extent = c.extent /\ s.offset = c.offset /\ s.bytes = c.bytes /\ s.dir = c.dir
      /\ s.final = c.final /\ s.over = c.over
  BY ONLY <1>3 DEF IsCall
<1>5. Place(s) = Place(c) /\ PointFits(s)
  BY ONLY <1>1, <1>4 DEF Place, PointFits
<1>6. CallFits(s, h)
  BY ONLY <1>1, <1>4, <1>5, CallFits(c, h), c.bytes > 0, b \in {"waits", "filled"} DEF CallFits
<1>7. LastBlock(s).holds = LastBlock(c).holds
  BY ONLY <1>4 DEF LastBlock, BlocksToRead
<1> QED
  BY <1>4, <1>6, <1>7

\* A step of a reader that leaves the cache alone.
LEMMA CacheAlone ==
  ASSUME IsoInv, NEW r \in Reader, NEW c, NEW h, Moved(r, c, h), UNCHANGED cache,
         c.busy # "filled", call[r].busy # "filled"
  PROVE  CacheFits'
<1>1. \A q \in Reader : call'[q].busy = "filled" => q # r /\ call'[q] = call[q]
  BY DEF Moved
<1>2. (\A q \in Reader : call'[q].busy # "filled") => \A q \in Reader : call[q].busy # "filled"
  BY DEF Moved
<1>3. CacheFits
  BY DEF IsoInv
<1> QED
  BY <1>1, <1>2, <1>3 DEF CacheFits

\* A step of one reader keeps the invariant if what it leaves behind fits.
LEMMA InvKept ==
  ASSUME IsoInv, NEW r \in Reader, NEW c, NEW h, Moved(r, c, h), HandleFits(h), CallFits(c, h),
         CacheFits', DOMAIN cache' = DOMAIN cache
  PROVE  IsoInv'
<1>1. ASSUME NEW q \in Reader
      PROVE  HandleFits(handle'[q]) /\ CallFits(call'[q], handle'[q])
  <2>1. CASE q = r
    BY <2>1 DEF Moved
  <2>2. CASE q # r
    BY <2>2 DEF Moved, IsoInv
  <2> QED
    BY <2>1, <2>2
<1> QED
  BY <1>1 DEF IsoInv, Moved

\* And if the cache stays as it was, its label still fits.
LEMMA StepKeeps ==
  ASSUME IsoInv, NEW r \in Reader, StepFits(r), UNCHANGED cache, call[r].busy # "filled"
  PROVE  IsoInv'
<1>1. PICK c, h : Moved(r, c, h) /\ HandleFits(h) /\ CallFits(c, h) /\ c.busy = "no"
  BY DEF StepFits
<1>2. CacheFits'
  BY <1>1, CacheAlone
<1> QED
  BY <1>1, <1>2, InvKept

\* What the cache gives to a reader while no one else is changing it.
LEMMA CachedBytes ==
  ASSUME MediumFits, IsoInv, NEW c, PointFits(c), Cached(c),
         \A q \in Reader : call[q].busy # "filled",
         NEW from \in Bytes(c, cache.of, cache.holds)
  PROVE  from = [unit |-> c.unit, place |-> Place(c)]
<1>1. cache.holds = c.extent /\ cache.of = c.unit
  BY DEF IsoInv, CacheFits, Cached
<1>2. c.unit # NoUnit /\ c.offset >= 0
  BY DEF MediumFits, SmallReads, PointFits
<1>3. Bytes(c, c.unit, c.extent) = {[unit |-> c.unit, place |-> c.extent * BS + c.offset]}
  BY <1>2, BytesAre
<1> QED
  BY <1>1, <1>3 DEF Place, BS

\* What a read from the medium itself gives.
LEMMA ReadBytes ==
  ASSUME MediumFits, NEW c, PointFits(c), NEW from \in Bytes(c, c.unit, c.extent)
  PROVE  from = [unit |-> c.unit, place |-> Place(c)]
<1>1. c.unit # NoUnit /\ c.offset >= 0
  BY DEF MediumFits, SmallReads, PointFits
<1>2. Bytes(c, c.unit, c.extent) = {[unit |-> c.unit, place |-> c.extent * BS + c.offset]}
  BY <1>1, BytesAre
<1> QED
  BY <1>2 DEF Place, BS

-----------------------------------------------------------------------------
\* The actions, one by one.
LEMMA OpenMoves ==
  ASSUME MediumFits, IsoInv, NEW r \in Reader, NEW u \in Unit, NEW path, NEW dir \in BOOLEAN,
         Open(r, u, path, dir)
  PROVE  /\ call[r] = Idle /\ UNCHANGED cache
         /\ \E s : /\ Moved(r, s, Closed) /\ CallFits(s, Closed) /\ s.busy = "no"
                  /\ s.at = "root" /\ s.path = path /\ s.asked = path
<1>1. SmallReads /\ RecordsFit /\ BS \in Nat \ {0} /\ MAX_DR_SIZE \in 1 .. BS - 1
      /\ ROOT_DR_OFFSET \in Nat
  BY Sizes DEF MediumFits, DirectoriesFit, RecordsFit
<1> PICK op, at, n : op = "look up" /\ at = "root" /\ n = MAX_DR_SIZE
  OBVIOUS
<1> PICK i : i = [Idle EXCEPT !.op = op, !.at = at, !.unit = u, !.bytes = n, !.path = path,
                              !.asked = path, !.dir = dir]
  OBVIOUS
<1> PICK s : s = SeekSet(i, ROOT_DR_OFFSET)
  OBVIOUS
<1>2. /\ call[r] = Idle /\ handle[r] = Closed
      /\ call' = [call EXCEPT ![r] = s] /\ UNCHANGED <<cache, handle>>
  BY Zenon DEF Open
<1>3. /\ IsCall(i) /\ i.busy = "no" /\ i.op = op /\ i.at = at /\ i.unit = u /\ i.bytes = n
      /\ i.dir = dir /\ i.path = path /\ i.asked = path
  <2> PICK s0, s1, s2, s3, s4, s5, s6, s7 :
        /\ s0 = Idle
        /\ s1 = [s0 EXCEPT !.op = op]
        /\ s2 = [s1 EXCEPT !.at = at]
        /\ s3 = [s2 EXCEPT !.unit = u]
        /\ s4 = [s3 EXCEPT !.bytes = n]
        /\ s5 = [s4 EXCEPT !.path = path]
        /\ s6 = [s5 EXCEPT !.asked = path]
        /\ s7 = [s6 EXCEPT !.dir = dir]
    OBVIOUS
  <2>0. IsCall(s0) /\ s0.busy = "no" /\ s0.dir = FALSE
    BY ONLY s0 = Idle DEF IsCall, Idle
  <2>1. IsCall(s1) /\ s1.busy = "no" /\ s1.dir = FALSE /\ s1.op = op
    <3>1. s1 = [op |-> op, at |-> s0.at, busy |-> s0.busy, unit |-> s0.unit, extent |-> s0.extent,
                offset |-> s0.offset, bytes |-> s0.bytes, path |-> s0.path, dir |-> s0.dir,
                asked |-> s0.asked, final |-> s0.final, over |-> s0.over]
      BY ONLY <2>0, s1 = [s0 EXCEPT !.op = op], CallSet, Zenon
    <3> QED
      BY ONLY <2>0, <3>1 DEF IsCall
  <2>2. IsCall(s2) /\ s2.busy = "no" /\ s2.dir = FALSE /\ s2.op = op /\ s2.at = at
    <3>1. s2 = [op |-> s1.op, at |-> at, busy |-> s1.busy, unit |-> s1.unit, extent |-> s1.extent,
                offset |-> s1.offset, bytes |-> s1.bytes, path |-> s1.path, dir |-> s1.dir,
                asked |-> s1.asked, final |-> s1.final, over |-> s1.over]
      BY ONLY <2>1, s2 = [s1 EXCEPT !.at = at], CallSet, Zenon
    <3> QED
      BY ONLY <2>1, <3>1 DEF IsCall
  <2>3. IsCall(s3) /\ s3.busy = "no" /\ s3.dir = FALSE /\ s3.op = op /\ s3.at = at /\ s3.unit = u
    <3>1. s3 = [op |-> s2.op, at |-> s2.at, busy |-> s2.busy, unit |-> u, extent |-> s2.extent,
                offset |-> s2.offset, bytes |-> s2.bytes, path |-> s2.path, dir |-> s2.dir,
                asked |-> s2.asked, final |-> s2.final, over |-> s2.over]
      BY ONLY <2>2, s3 = [s2 EXCEPT !.unit = u], CallSet, Zenon
    <3> QED
      BY ONLY <2>2, <3>1 DEF IsCall
  <2>4. /\ IsCall(s4) /\ s4.busy = "no" /\ s4.dir = FALSE /\ s4.op = op /\ s4.at = at
        /\ s4.unit = u /\ s4.bytes = n
    <3>1. s4 = [op |-> s3.op, at |-> s3.at, busy |-> s3.busy, unit |-> s3.unit, extent |-> s3.extent,
                offset |-> s3.offset, bytes |-> n, path |-> s3.path, dir |-> s3.dir,
                asked |-> s3.asked, final |-> s3.final, over |-> s3.over]
      BY ONLY <2>3, s4 = [s3 EXCEPT !.bytes = n], CallSet, Zenon
    <3> QED
      BY ONLY <2>3, <3>1 DEF IsCall
  <2>5. /\ IsCall(s5) /\ s5.busy = "no" /\ s5.dir = FALSE /\ s5.op = op /\ s5.at = at
        /\ s5.unit = u /\ s5.bytes = n /\ s5.path = path
    <3>1. s5 = [op |-> s4.op, at |-> s4.at, busy |-> s4.busy, unit |-> s4.unit, extent |-> s4.extent,
                offset |-> s4.offset, bytes |-> s4.bytes, path |-> path, dir |-> s4.dir,
                asked |-> s4.asked, final |-> s4.final, over |-> s4.over]
      BY ONLY <2>4, s5 = [s4 EXCEPT !.path = path], CallSet, Zenon
    <3> QED
      BY ONLY <2>4, <3>1 DEF IsCall
  <2>6. /\ IsCall(s6) /\ s6.busy = "no" /\ s6.dir = FALSE /\ s6.op = op /\ s6.at = at
        /\ s6.unit = u /\ s6.bytes = n /\ s6.path = path /\ s6.asked = path
    <3>0. IsCall(s5)
      BY ONLY <2>5
    <3>1. s6 = [op |-> s5.op, at |-> s5.at, busy |-> s5.busy, unit |-> s5.unit, extent |-> s5.extent,
                offset |-> s5.offset, bytes |-> s5.bytes, path |-> s5.path, dir |-> s5.dir,
                asked |-> path, final |-> s5.final, over |-> s5.over]
      BY ONLY <3>0, s6 = [s5 EXCEPT !.asked = path], CallSet, Zenon
    <3> QED
      BY ONLY <2>5, <3>1 DEF IsCall
  <2>7. /\ IsCall(s7) /\ s7.busy = "no" /\ s7.dir = dir /\ s7.op = op /\ s7.at = at
        /\ s7.unit = u /\ s7.bytes = n /\ s7.path = path /\ s7.asked = path
    <3>1. s7 = [op |-> s6.op, at |-> s6.at, busy |-> s6.busy, unit |-> s6.unit, extent |-> s6.extent,
                offset |-> s6.offset, bytes |-> s6.bytes, path |-> s6.path, dir |-> dir,
                asked |-> s6.asked, final |-> s6.final, over |-> s6.over]
      BY ONLY <2>6, s7 = [s6 EXCEPT !.dir = dir], CallSet, Zenon
    <3> QED
      BY ONLY <2>6, <3>1 DEF IsCall
  <2>8. i = s7
    BY Zenon
  <2> QED
    BY ONLY <2>7, <2>8
<1>4. /\ IsCall(s) /\ s.extent \in Nat /\ s.offset \in 0 .. BS - 1
      /\ Place(s) = ROOT_DR_OFFSET /\ SameCall(s, i)
  BY ONLY <1>1, <1>3, s = SeekSet(i, ROOT_DR_OFFSET), SeekSetFacts
<1>5. /\ s.busy = "no" /\ s.op = "look up" /\ s.at = "root" /\ s.unit \in Unit
      /\ s.dir \in BOOLEAN /\ s.bytes = MAX_DR_SIZE /\ s.path = path /\ s.asked = path
  BY ONLY <1>3, <1>4, op = "look up", at = "root", n = MAX_DR_SIZE, u \in Unit,
          dir \in BOOLEAN DEF SameCall
<1>6. s.bytes > 0 /\ s.bytes \in 0 .. BS - 1 /\ s.offset \in 0 .. BS
  <2>1. s.bytes = MAX_DR_SIZE /\ s.offset \in 0 .. BS - 1
    BY ONLY <1>4, <1>5
  <2>2. BS \in Nat \ {0} /\ MAX_DR_SIZE \in 1 .. BS - 1
    BY ONLY <1>1
  <2> QED
    BY ONLY <2>1, <2>2
<1>7. PointFits(s)
  BY ONLY <1>4, <1>5, <1>6 DEF PointFits, BS
<1>8. CallFits(s, Closed)
  BY ONLY <1>4, <1>5, <1>6, <1>7 DEF CallFits
<1>9. Moved(r, s, Closed)
  BY <1>2 DEF Moved, IsoInv
<1>10. /\ Moved(r, s, Closed) /\ CallFits(s, Closed) /\ s.busy = "no"
       /\ s.at = "root" /\ s.path = path /\ s.asked = path
  BY ONLY <1>5, <1>8, <1>9
<1>11. call[r] = Idle /\ UNCHANGED cache
  BY ONLY <1>2
<1> QED
  BY ONLY <1>10, <1>11

\* It fits.
LEMMA OpenKeeps ==
  ASSUME MediumFits, IsoInv, NEW r \in Reader, NEW u \in Unit, NEW path, NEW dir \in BOOLEAN,
         Open(r, u, path, dir)
  PROVE  IsoInv'
<1>1. UNCHANGED cache /\ call[r] = Idle
  BY OpenMoves
<1>2. call[r].busy # "filled"
  BY ONLY <1>1 DEF Idle
<1>3. StepFits(r)
  BY OpenMoves, ClosedFits DEF StepFits
<1> QED
  BY <1>1, <1>2, <1>3, StepKeeps

\* iso_fread begins: the bytes it asks for are cut at the end of the file.
LEMMA IsoReadKeeps ==
  ASSUME MediumFits, IsoInv, NEW r \in Reader, NEW n \in ReadSize, IsoRead(r, n)
  PROVE  IsoInv'
<1>1. SmallReads /\ RecordsFit /\ BS \in Nat \ {0} /\ n \in 0 .. BS - 1
  BY Sizes DEF MediumFits, SmallReads, BS
<1> PICK h, over :
      h = handle[r] /\ over = (n + h.cur > h.len)
  OBVIOUS
<1> PICK op, at, u, m, place :
      /\ op = "fread" /\ at = "fread" /\ u = h.unit /\ m = (IF over THEN h.len - h.cur ELSE n)
      /\ place = h.extent * BS + h.cur
  OBVIOUS
<1> PICK i : i = [Idle EXCEPT !.op = op, !.at = at, !.unit = u, !.over = over, !.bytes = m]
  OBVIOUS
<1> PICK s : s = SeekSet(i, place)
  OBVIOUS
<1> PICK e, g : e = (h.eof \/ over) /\ g = [h EXCEPT !.eof = e]
  OBVIOUS
<1>2. /\ call[r] = Idle /\ h.kind = "file" /\ h.cur <= h.len
      /\ handle' = [handle EXCEPT ![r].eof = handle[r].eof \/ over]
      /\ call' = [call EXCEPT ![r] = s] /\ UNCHANGED cache
  BY Zenon DEF IsoRead, BS
<1>3. handle' = [handle EXCEPT ![r] = g]
  BY <1>2, Zenon
<1>4. HandleFits(h)
  BY DEF IsoInv
<1>5. /\ IsHandle(h) /\ h.unit \in Unit /\ h.extent \in Nat /\ h.len \in Nat /\ h.right
      /\ h.cur \in Nat /\ h.got \in Nat /\ h.got = h.cur
  BY ONLY <1>2, <1>4 DEF HandleFits
<1>6. g = [kind |-> h.kind, unit |-> h.unit, extent |-> h.extent, cur |-> h.cur,
           len |-> h.len, eof |-> e, got |-> h.got, right |-> h.right]
  BY ONLY <1>5, g = [h EXCEPT !.eof = e], HandleSet, Zenon
<1>7. /\ IsHandle(g) /\ g.kind = "file" /\ g.unit = h.unit /\ g.extent = h.extent
      /\ g.cur = h.cur /\ g.len = h.len /\ g.got = h.got /\ g.right = h.right
  BY ONLY <1>2, <1>6 DEF IsHandle
<1>8. HandleFits(g)
  BY ONLY <1>5, <1>7 DEF HandleFits
<1>9. place \in Nat
  <2>1. h.extent * BS \in Nat
    BY ONLY <1>1, <1>5, LaterBlock
  <2> QED
    BY ONLY <1>5, <2>1, place = h.extent * BS + h.cur
<1>10. /\ IsCall(i) /\ i.busy = "no" /\ i.op = op /\ i.at = at /\ i.unit = u
       /\ i.over = over /\ i.bytes = m /\ i.dir = FALSE
  <2> PICK s0, s1, s2, s3, s4, s5 :
        /\ s0 = Idle
        /\ s1 = [s0 EXCEPT !.op = op]
        /\ s2 = [s1 EXCEPT !.at = at]
        /\ s3 = [s2 EXCEPT !.unit = u]
        /\ s4 = [s3 EXCEPT !.over = over]
        /\ s5 = [s4 EXCEPT !.bytes = m]
    OBVIOUS
  <2>0. IsCall(s0) /\ s0.busy = "no" /\ s0.dir = FALSE
    BY ONLY s0 = Idle DEF IsCall, Idle
  <2>1. IsCall(s1) /\ s1.busy = "no" /\ s1.dir = FALSE /\ s1.op = op
    <3>1. s1 = [op |-> op, at |-> s0.at, busy |-> s0.busy, unit |-> s0.unit, extent |-> s0.extent,
                offset |-> s0.offset, bytes |-> s0.bytes, path |-> s0.path, dir |-> s0.dir,
                asked |-> s0.asked, final |-> s0.final, over |-> s0.over]
      BY ONLY <2>0, s1 = [s0 EXCEPT !.op = op], CallSet, Zenon
    <3> QED
      BY ONLY <2>0, <3>1 DEF IsCall
  <2>2. IsCall(s2) /\ s2.busy = "no" /\ s2.dir = FALSE /\ s2.op = op /\ s2.at = at
    <3>1. s2 = [op |-> s1.op, at |-> at, busy |-> s1.busy, unit |-> s1.unit, extent |-> s1.extent,
                offset |-> s1.offset, bytes |-> s1.bytes, path |-> s1.path, dir |-> s1.dir,
                asked |-> s1.asked, final |-> s1.final, over |-> s1.over]
      BY ONLY <2>1, s2 = [s1 EXCEPT !.at = at], CallSet, Zenon
    <3> QED
      BY ONLY <2>1, <3>1 DEF IsCall
  <2>3. IsCall(s3) /\ s3.busy = "no" /\ s3.dir = FALSE /\ s3.op = op /\ s3.at = at /\ s3.unit = u
    <3>1. s3 = [op |-> s2.op, at |-> s2.at, busy |-> s2.busy, unit |-> u, extent |-> s2.extent,
                offset |-> s2.offset, bytes |-> s2.bytes, path |-> s2.path, dir |-> s2.dir,
                asked |-> s2.asked, final |-> s2.final, over |-> s2.over]
      BY ONLY <2>2, s3 = [s2 EXCEPT !.unit = u], CallSet, Zenon
    <3> QED
      BY ONLY <2>2, <3>1 DEF IsCall
  <2>4. /\ IsCall(s4) /\ s4.busy = "no" /\ s4.dir = FALSE /\ s4.op = op /\ s4.at = at
        /\ s4.unit = u /\ s4.over = over
    <3>1. s4 = [op |-> s3.op, at |-> s3.at, busy |-> s3.busy, unit |-> s3.unit, extent |-> s3.extent,
                offset |-> s3.offset, bytes |-> s3.bytes, path |-> s3.path, dir |-> s3.dir,
                asked |-> s3.asked, final |-> s3.final, over |-> over]
      BY ONLY <2>3, s4 = [s3 EXCEPT !.over = over], CallSet, Zenon
    <3> QED
      BY ONLY <2>3, <3>1 DEF IsCall
  <2>5. /\ IsCall(s5) /\ s5.busy = "no" /\ s5.dir = FALSE /\ s5.op = op /\ s5.at = at
        /\ s5.unit = u /\ s5.over = over /\ s5.bytes = m
    <3>1. s5 = [op |-> s4.op, at |-> s4.at, busy |-> s4.busy, unit |-> s4.unit, extent |-> s4.extent,
                offset |-> s4.offset, bytes |-> m, path |-> s4.path, dir |-> s4.dir,
                asked |-> s4.asked, final |-> s4.final, over |-> s4.over]
      BY ONLY <2>4, s5 = [s4 EXCEPT !.bytes = m], CallSet, Zenon
    <3> QED
      BY ONLY <2>4, <3>1 DEF IsCall
  <2>6. i = s5
    BY Zenon
  <2> QED
    BY ONLY <2>5, <2>6
<1>11. /\ IsCall(s) /\ s.extent \in Nat /\ s.offset \in 0 .. BS - 1
       /\ Place(s) = place /\ SameCall(s, i)
  BY ONLY <1>1, <1>9, <1>10, s = SeekSet(i, place), SeekSetFacts
<1>12. /\ s.busy = "no" /\ s.op = "fread" /\ s.at = "fread" /\ s.unit = h.unit
       /\ s.dir = FALSE /\ s.bytes = m /\ s.over = over
  BY ONLY <1>10, <1>11, op = "fread", at = "fread", u = h.unit DEF SameCall
<1>13. /\ m \in 0 .. BS - 1
       /\ IF over THEN h.cur + m = h.len ELSE h.cur + m <= h.len
  <2>1. /\ BS \in Nat /\ n \in 0 .. BS - 1
        /\ h.cur \in Nat /\ h.len \in Nat /\ h.cur <= h.len
    BY ONLY <1>1, <1>2, <1>5
  <2>2. CASE over
    <3>1. n + h.cur > h.len
      BY <2>2
    <3>2. m = h.len - h.cur
      BY <2>2
    <3> QED
      BY ONLY <2>1, <2>2, <3>1, <3>2
  <2>3. CASE ~over
    <3>1. ~(n + h.cur > h.len)
      BY <2>3
    <3>2. m = n
      BY <2>3
    <3> QED
      BY ONLY <2>1, <2>3, <3>1, <3>2
  <2> QED
    BY ONLY <2>2, <2>3
<1>14. Place(s) = Pos(g)
  BY ONLY <1>7, <1>11, place = h.extent * BS + h.cur DEF Pos, BS
<1>15. PointFits(s)
  <2>1. s.offset \in 0 .. BS /\ s.bytes \in 0 .. BS - 1 /\ s.dir \in BOOLEAN
    <3>1. BS \in Nat /\ s.offset \in 0 .. BS - 1
      BY ONLY <1>1, <1>11
    <3>2. s.bytes \in 0 .. BS - 1 /\ s.dir \in BOOLEAN
      BY ONLY <1>12, <1>13
    <3> QED
      BY ONLY <3>1, <3>2
  <2> QED
    BY ONLY <1>5, <1>11, <1>12, <2>1 DEF PointFits, BS
<1>16. IF s.over THEN g.cur + s.bytes = g.len ELSE g.cur + s.bytes <= g.len
  BY ONLY <1>7, <1>12, <1>13
<1>17. CallFits(s, g)
  BY ONLY <1>2, <1>7, <1>12, <1>14, <1>15, <1>16 DEF CallFits
<1>18. Moved(r, s, g)
  BY <1>2, <1>3 DEF Moved, IsoInv
<1>19. StepFits(r)
  BY <1>8, <1>12, <1>17, <1>18 DEF StepFits
<1>20. UNCHANGED cache /\ call[r] = Idle
  BY <1>2
<1>21. call[r].busy # "filled"
  BY ONLY <1>20 DEF Idle
<1> QED
  BY <1>19, <1>20, <1>21, StepKeeps

\* iso_dread begins, at the handle's place.
LEMMA ReadDirKeeps ==
  ASSUME MediumFits, IsoInv, NEW r \in Reader, ReadDir(r)
  PROVE  IsoInv'
<1>1. SmallReads /\ RecordsFit /\ BS \in Nat \ {0} /\ 1 \in 0 .. BS - 1
  BY Sizes DEF MediumFits
<1> PICK h : h = handle[r]
  OBVIOUS
<1> PICK op, at, u, n, f, place :
      /\ op = "dread" /\ at = "dread peek" /\ u = h.unit /\ n = 1
      /\ f = FinalExtent(h.extent, h.len)
      /\ place = h.extent * BS + h.cur
  OBVIOUS
<1> PICK i : i = [Idle EXCEPT !.op = op, !.at = at, !.unit = u, !.bytes = n, !.final = f]
  OBVIOUS
<1> PICK s : s = SeekSet(i, place)
  OBVIOUS
<1>2. /\ call[r] = Idle /\ h.kind = "dir"
      /\ call' = [call EXCEPT ![r] = s] /\ UNCHANGED <<cache, handle>>
  BY Zenon DEF ReadDir, BS
<1>3. HandleFits(h)
  BY DEF IsoInv
<1>4. /\ h.unit \in Unit /\ h.extent \in Nat /\ h.cur \in Nat
  BY ONLY <1>2, <1>3 DEF HandleFits
<1>5. place \in Nat
  <2>1. h.extent * BS \in Nat
    BY ONLY <1>1, <1>4, LaterBlock
  <2> QED
    BY ONLY <1>4, <2>1, place = h.extent * BS + h.cur
<1>6. /\ IsCall(i) /\ i.busy = "no" /\ i.op = op /\ i.at = at /\ i.unit = u
      /\ i.bytes = n /\ i.final = f /\ i.dir = FALSE
  <2> PICK s0, s1, s2, s3, s4, s5 :
        /\ s0 = Idle
        /\ s1 = [s0 EXCEPT !.op = op]
        /\ s2 = [s1 EXCEPT !.at = at]
        /\ s3 = [s2 EXCEPT !.unit = u]
        /\ s4 = [s3 EXCEPT !.bytes = n]
        /\ s5 = [s4 EXCEPT !.final = f]
    OBVIOUS
  <2>0. IsCall(s0) /\ s0.busy = "no" /\ s0.dir = FALSE
    BY ONLY s0 = Idle DEF IsCall, Idle
  <2>1. IsCall(s1) /\ s1.busy = "no" /\ s1.dir = FALSE /\ s1.op = op
    <3>1. s1 = [op |-> op, at |-> s0.at, busy |-> s0.busy, unit |-> s0.unit, extent |-> s0.extent,
                offset |-> s0.offset, bytes |-> s0.bytes, path |-> s0.path, dir |-> s0.dir,
                asked |-> s0.asked, final |-> s0.final, over |-> s0.over]
      BY ONLY <2>0, s1 = [s0 EXCEPT !.op = op], CallSet, Zenon
    <3> QED
      BY ONLY <2>0, <3>1 DEF IsCall
  <2>2. IsCall(s2) /\ s2.busy = "no" /\ s2.dir = FALSE /\ s2.op = op /\ s2.at = at
    <3>1. s2 = [op |-> s1.op, at |-> at, busy |-> s1.busy, unit |-> s1.unit, extent |-> s1.extent,
                offset |-> s1.offset, bytes |-> s1.bytes, path |-> s1.path, dir |-> s1.dir,
                asked |-> s1.asked, final |-> s1.final, over |-> s1.over]
      BY ONLY <2>1, s2 = [s1 EXCEPT !.at = at], CallSet, Zenon
    <3> QED
      BY ONLY <2>1, <3>1 DEF IsCall
  <2>3. IsCall(s3) /\ s3.busy = "no" /\ s3.dir = FALSE /\ s3.op = op /\ s3.at = at /\ s3.unit = u
    <3>1. s3 = [op |-> s2.op, at |-> s2.at, busy |-> s2.busy, unit |-> u, extent |-> s2.extent,
                offset |-> s2.offset, bytes |-> s2.bytes, path |-> s2.path, dir |-> s2.dir,
                asked |-> s2.asked, final |-> s2.final, over |-> s2.over]
      BY ONLY <2>2, s3 = [s2 EXCEPT !.unit = u], CallSet, Zenon
    <3> QED
      BY ONLY <2>2, <3>1 DEF IsCall
  <2>4. /\ IsCall(s4) /\ s4.busy = "no" /\ s4.dir = FALSE /\ s4.op = op /\ s4.at = at
        /\ s4.unit = u /\ s4.bytes = n
    <3>1. s4 = [op |-> s3.op, at |-> s3.at, busy |-> s3.busy, unit |-> s3.unit, extent |-> s3.extent,
                offset |-> s3.offset, bytes |-> n, path |-> s3.path, dir |-> s3.dir,
                asked |-> s3.asked, final |-> s3.final, over |-> s3.over]
      BY ONLY <2>3, s4 = [s3 EXCEPT !.bytes = n], CallSet, Zenon
    <3> QED
      BY ONLY <2>3, <3>1 DEF IsCall
  <2>5. /\ IsCall(s5) /\ s5.busy = "no" /\ s5.dir = FALSE /\ s5.op = op /\ s5.at = at
        /\ s5.unit = u /\ s5.bytes = n /\ s5.final = f
    <3>1. s5 = [op |-> s4.op, at |-> s4.at, busy |-> s4.busy, unit |-> s4.unit, extent |-> s4.extent,
                offset |-> s4.offset, bytes |-> s4.bytes, path |-> s4.path, dir |-> s4.dir,
                asked |-> s4.asked, final |-> f, over |-> s4.over]
      BY ONLY <2>4, s5 = [s4 EXCEPT !.final = f], CallSet, Zenon
    <3> QED
      BY ONLY <2>4, <3>1 DEF IsCall
  <2>6. i = s5
    BY Zenon
  <2> QED
    BY ONLY <2>5, <2>6
<1>7. /\ IsCall(s) /\ s.extent \in Nat /\ s.offset \in 0 .. BS - 1
      /\ Place(s) = place /\ SameCall(s, i)
  BY ONLY <1>1, <1>5, <1>6, s = SeekSet(i, place), SeekSetFacts
<1>8. /\ s.busy = "no" /\ s.op = "dread" /\ s.at = "dread peek" /\ s.unit = h.unit
      /\ s.dir = FALSE /\ s.bytes = 1 /\ s.final = FinalExtent(h.extent, h.len)
  BY ONLY <1>6, <1>7, op = "dread", at = "dread peek", u = h.unit, n = 1,
          f = FinalExtent(h.extent, h.len) DEF SameCall
<1>9. /\ s.offset \in 0 .. BS /\ s.offset < BS /\ s.bytes \in 0 .. BS - 1 /\ s.bytes > 0
      /\ s.dir \in BOOLEAN
  <2>1. BS \in Nat /\ 1 \in 0 .. BS - 1 /\ s.offset \in 0 .. BS - 1 /\ s.bytes = 1
    BY ONLY <1>1, <1>7, <1>8
  <2>2. s.dir \in BOOLEAN
    BY ONLY <1>8
  <2> QED
    BY ONLY <2>1, <2>2
<1>10. PointFits(s)
  BY ONLY <1>4, <1>7, <1>8, <1>9 DEF PointFits, BS
<1>11. Place(s) = Pos(h)
  BY ONLY <1>7, place = h.extent * BS + h.cur DEF Pos, BS
<1>12. CallFits(s, h)
  BY ONLY <1>2, <1>8, <1>9, <1>10, <1>11 DEF CallFits, BS
<1>13. Moved(r, s, h)
  BY <1>2 DEF Moved, IsoInv
<1>14. StepFits(r)
  <2>1. s.busy = "no"
    BY ONLY <1>8
  <2> QED
    BY ONLY <1>3, <1>12, <1>13, <2>1 DEF StepFits
<1>20. UNCHANGED cache /\ call[r] = Idle
  BY <1>2
<1>21. call[r].busy # "filled"
  BY ONLY <1>20 DEF Idle
<1> QED
  BY <1>14, <1>20, <1>21, StepKeeps

\* iso_fclose, iso_dclose.
LEMMA IsoCloseKeeps ==
  ASSUME IsoInv, NEW r \in Reader, IsoClose(r)
  PROVE  IsoInv'
<1>1. call[r] = Idle /\ call[r].busy # "filled" /\ UNCHANGED cache
  BY DEF IsoClose, Idle
<1>2. Moved(r, Idle, Closed)
  BY DEF IsoClose, Moved, IsoInv
<1>3. StepFits(r)
  BY <1>2, IdleFits, ClosedFits DEF StepFits
<1> QED
  BY <1>1, <1>3, StepKeeps

\* Reads that do not wait.
LEMMA AtOnceKeeps ==
  ASSUME MediumFits, IsoInv, NEW r \in Reader, \A q \in Reader \ {r} : call[q].busy # "filled",
         Hit(r) \/ Nothing(r)
  PROVE  IsoInv'
<1> PICK c, h : c = call[r] /\ h = handle[r]
  OBVIOUS
<1>1. /\ c.op # "none" /\ c.busy = "no" /\ UNCHANGED cache
  BY DEF Hit, Nothing
<1>2. HandleFits(h) /\ CallFits(c, h)
  BY DEF IsoInv
<1>3. DOMAIN call = Reader /\ DOMAIN handle = Reader
  BY DEF IsoInv
<1>4. call[r].busy # "filled"
  BY <1>1
<1>5. CASE Hit(r)
  <2>1. PICK from \in Bytes(c, cache.of, cache.holds) : Received(r, c, from)
    BY <1>5 DEF Hit
  <2>2. Cached(c)
    BY <1>5 DEF Hit
  <2>3. PointFits(c)
    <3>1. Idle.op = "none"
      BY DEF Idle
    <3>2. c # Idle
      BY <1>1, <3>1
    <3> QED
      BY ONLY <1>2, <3>2 DEF CallFits
  <2>4. \A q \in Reader : call[q].busy # "filled"
    BY <1>4
  <2>5. from = [unit |-> c.unit, place |-> Place(c)]
    BY <2>1, <2>2, <2>3, <2>4, CachedBytes
  <2>6. StepFits(r)
    BY <1>1, <1>2, <1>3, <2>1, <2>5, ReceivedFits
  <2> QED
    BY <1>1, <1>4, <2>6, StepKeeps
<1>6. CASE Nothing(r)
  <2> PICK from : from = [unit |-> NoUnit, place |-> 0]
    OBVIOUS
  <2>1. c.bytes = 0 /\ Received(r, c, from)
    BY <1>6 DEF Nothing
  <2>2. StepFits(r)
    BY <1>1, <1>2, <1>3, <2>1, ReceivedFits
  <2> QED
    BY <1>1, <1>4, <2>2, StepKeeps
<1> QED
  BY <1>5, <1>6

\* A read that has to wait for the drive.
LEMMA MissKeeps ==
  ASSUME MediumFits, IsoInv, NEW r \in Reader, Miss(r)
  PROVE  IsoInv'
<1> PICK c, h, b, s : c = call[r] /\ h = handle[r] /\ b = "waits" /\ s = [c EXCEPT !.busy = b]
  OBVIOUS
<1>1. /\ c.op # "none" /\ c.busy = "no" /\ c.bytes > 0
      /\ call' = [call EXCEPT ![r].busy = "waits"] /\ UNCHANGED <<cache, handle>>
  BY DEF Miss
<1>2. HandleFits(h) /\ CallFits(c, h)
  BY DEF IsoInv
<1>3. CallFits(s, h) /\ s.busy = "waits"
  BY <1>1, <1>2, BusyFits
<1>4. call' = [call EXCEPT ![r] = s]
  BY <1>1, Zenon
<1>5. Moved(r, s, h)
  BY <1>1, <1>4 DEF Moved, IsoInv
<1>6. call[r].busy # "filled" /\ s.busy # "filled"
  BY <1>1, <1>3
<1>7. CacheFits'
  BY <1>1, <1>5, <1>6, CacheAlone
<1> QED
  BY <1>1, <1>2, <1>3, <1>5, <1>7, InvKept

\* The block is in the cache, and its label is still the old one.
LEMMA FillKeeps ==
  ASSUME MediumFits, IsoInv, NEW r \in Reader, \A q \in Reader \ {r} : call[q].busy # "filled",
         Fill(r)
  PROVE  IsoInv'
<1> PICK c, h, b, s : c = call[r] /\ h = handle[r] /\ b = "filled" /\ s = [c EXCEPT !.busy = b]
  OBVIOUS
<1>1. /\ c.busy = "waits"
      /\ cache' = [cache EXCEPT !.holds = LastBlock(c).holds, !.of = LastBlock(c).of]
      /\ call' = [call EXCEPT ![r].busy = "filled"] /\ UNCHANGED handle
  BY DEF Fill
<1>2. HandleFits(h) /\ CallFits(c, h)
  BY DEF IsoInv
<1>3. c.op # "none" /\ c.bytes > 0 /\ PointFits(c)
  <2>1. Idle.busy = "no"
    BY DEF Idle
  <2>2. c # Idle
    BY <1>1, <2>1
  <2>3. c.busy # "no"
    BY <1>1
  <2> QED
    BY ONLY <1>2, <2>2, <2>3 DEF CallFits
<1>4. /\ CallFits(s, h) /\ s.busy = "filled" /\ s.unit = c.unit
      /\ LastBlock(s).holds = LastBlock(c).holds
  BY <1>2, <1>3, BusyFits
<1>5. call' = [call EXCEPT ![r] = s]
  BY <1>1, Zenon
<1>6. Moved(r, s, h)
  BY <1>1, <1>5 DEF Moved, IsoInv
<1>7. LastBlock(c).of = c.unit
  BY <1>3, LabelFacts DEF MediumFits
<1>8. /\ cache'.holds = LastBlock(s).holds /\ cache'.of = s.unit
      /\ DOMAIN cache' = DOMAIN cache
  BY <1>1, <1>4, <1>7 DEF IsoInv
<1>9. \A q \in Reader : call'[q].busy = "filled" => q = r
  BY <1>6 DEF Moved
<1>10. call'[r] = s
  BY <1>6 DEF Moved
<1>11. CacheFits'
  BY <1>4, <1>8, <1>9, <1>10 DEF CacheFits
<1> QED
  BY <1>2, <1>4, <1>6, <1>8, <1>11, InvKept

\* The label names the block again, since the read was less than a block, and the
\* reader has its bytes.
LEMMA LabelKeeps ==
  ASSUME MediumFits, IsoInv, NEW r \in Reader, Label(r)
  PROVE  IsoInv'
<1> PICK c, h : c = call[r] /\ h = handle[r]
  OBVIOUS
<1>1. /\ c.busy = "filled"
      /\ cache' = [cache EXCEPT !.extent = LastBlock(c).extent, !.unit = c.unit]
  BY DEF Label
<1>2. HandleFits(h) /\ CallFits(c, h)
  BY DEF IsoInv
<1>3. c.op # "none" /\ c.bytes > 0 /\ PointFits(c)
  <2>1. Idle.busy = "no"
    BY DEF Idle
  <2>2. c # Idle
    BY <1>1, <2>1
  <2>3. c.busy # "no"
    BY <1>1
  <2> QED
    BY ONLY <1>2, <2>2, <2>3 DEF CallFits
<1>4. PICK from \in Bytes(c, c.unit, c.extent) : Received(r, c, from)
  BY DEF Label
<1>5. from = [unit |-> c.unit, place |-> Place(c)]
  BY <1>3, <1>4, ReadBytes
<1>6. DOMAIN call = Reader /\ DOMAIN handle = Reader
  BY DEF IsoInv
<1>7. StepFits(r)
  BY <1>2, <1>3, <1>4, <1>5, <1>6, ReceivedFits
<1>8. PICK c2, h2 : Moved(r, c2, h2) /\ HandleFits(h2) /\ CallFits(c2, h2) /\ c2.busy = "no"
  BY <1>7 DEF StepFits
<1>9. /\ \A q \in Reader : call[q].busy = "filled" => q = r
      /\ cache.holds = LastBlock(c).holds /\ cache.of = c.unit
  BY <1>1 DEF IsoInv, CacheFits
<1>10. \A q \in Reader : call'[q].busy # "filled"
  BY <1>8, <1>9 DEF Moved
<1>11. LastBlock(c).extent = LastBlock(c).holds
  BY <1>3, LabelFacts DEF MediumFits
<1>12. /\ cache'.extent = LastBlock(c).extent /\ cache'.unit = c.unit
       /\ cache'.holds = cache.holds /\ cache'.of = cache.of
       /\ DOMAIN cache' = DOMAIN cache
  BY <1>1 DEF IsoInv
<1>13. CacheFits'
  BY <1>9, <1>10, <1>11, <1>12 DEF CacheFits
<1> QED
  BY <1>8, <1>12, <1>13, InvKept

\* The drive has failed.
LEMMA FailKeeps ==
  ASSUME MediumFits, IsoInv, NEW r \in Reader, Fail(r) \/ FailPeek(r)
  PROVE  IsoInv'
<1> PICK c, h : c = call[r] /\ h = handle[r]
  OBVIOUS
<1>1. c.busy = "waits" /\ c.busy # "filled" /\ UNCHANGED cache
  BY DEF Fail, FailPeek
<1>2. HandleFits(h) /\ DOMAIN call = Reader /\ DOMAIN handle = Reader
  BY DEF IsoInv
<1>3. StepFits(r)
  <2>1. CASE LookedUp(r, NotFound)
    BY <1>2, <2>1, LooksNoMore
  <2>2. CASE call' = [call EXCEPT ![r] = Idle] /\ UNCHANGED handle
    <3>1. Moved(r, Idle, h)
      BY <1>2, <2>2 DEF Moved
    <3> QED
      BY <1>2, <3>1, IdleFits DEF StepFits
  <2>3. CASE call' = [call EXCEPT ![r] = Idle] /\ handle' = [handle EXCEPT ![r] = Closed]
    <3>1. Moved(r, Idle, Closed)
      BY <1>2, <2>3 DEF Moved
    <3> QED
      BY <3>1, IdleFits, ClosedFits DEF StepFits
  <2> QED
    BY <2>1, <2>2, <2>3 DEF Fail, FailPeek
<1> QED
  BY <1>1, <1>3, StepKeeps

\* No calls, no handles, nothing in the cache.
LEMMA IsoInitFits ==
  ASSUME IsoInit
  PROVE  IsoInv
<1>1. \A r \in Reader : call[r] = Idle /\ handle[r] = Closed
  BY DEF IsoInit
<1>2. CacheFits
  BY <1>1 DEF IsoInit, CacheFits, Idle
<1>3. \A r \in Reader : HandleFits(handle[r]) /\ CallFits(call[r], handle[r])
  BY <1>1, ClosedFits, IdleFits
<1> QED
  BY <1>2, <1>3 DEF IsoInit, IsoInv

\* Every step keeps the invariant: the label is changed by one reader at a time.
LEMMA IsoStepKeeps ==
  ASSUME MediumFits, ~Unprotected, IsoInv, [IsoNext]_isoVars
  PROVE  IsoInv'
<1>1. CASE UNCHANGED isoVars
  BY <1>1 DEF isoVars, IsoInv, CacheFits
<1>2. CASE IsoNext
  <2>1. PICK r \in Reader :
          /\ MayRun(r)
          /\ \/ \E u \in Unit, path \in Path, dir \in BOOLEAN : Open(r, u, path, dir)
             \/ \E n \in ReadSize : IsoRead(r, n)
             \/ ReadDir(r) \/ IsoClose(r)
             \/ Hit(r) \/ Nothing(r) \/ Miss(r) \/ Fill(r) \/ Label(r)
             \/ Fail(r) \/ FailPeek(r)
    BY <1>2, Zenon DEF IsoNext
  <2>2. \A q \in Reader \ {r} : call[q].busy # "filled"
    BY <2>1 DEF MayRun
  <2>3. CASE \E u \in Unit, path \in Path, dir \in BOOLEAN : Open(r, u, path, dir)
    BY <2>3, OpenKeeps
  <2>4. CASE \E n \in ReadSize : IsoRead(r, n)
    BY <2>4, IsoReadKeeps
  <2>5. CASE ReadDir(r)
    BY <2>5, ReadDirKeeps
  <2>6. CASE IsoClose(r)
    BY <2>6, IsoCloseKeeps
  <2>7. CASE Hit(r) \/ Nothing(r)
    BY <2>2, <2>7, AtOnceKeeps
  <2>8. CASE Miss(r)
    BY <2>8, MissKeeps
  <2>9. CASE Fill(r)
    BY <2>2, <2>9, FillKeeps
  <2>10. CASE Label(r)
    BY <2>10, LabelKeeps
  <2>11. CASE Fail(r) \/ FailPeek(r)
    BY <2>11, FailKeeps
  <2> QED
    BY <2>1, <2>3, <2>4, <2>5, <2>6, <2>7, <2>8, <2>9, <2>10, <2>11
<1> QED
  BY <1>1, <1>2

\* On a well-formed medium, and with no interrupt between the filling of the cache and its
\* label, files are read in pieces smaller than a block, and directories record by
\* record, in order and completely, by any number of readers on any units, also when the
\* drive fails (iso_fread, iso_dread, iso_media_read).
THEOREM IsoReadsInOrder ==
  ASSUME MediumFits, ~Unprotected
  PROVE  IsoSpec => []ReadsInOrder
<1>1. IsoInit => IsoInv
  BY IsoInitFits
<1>2. IsoInv /\ [IsoNext]_isoVars => IsoInv'
  BY IsoStepKeeps
<1>3. IsoInv => ReadsInOrder
  <2> SUFFICES ASSUME IsoInv, NEW r \in Reader, handle[r].kind # "none"
               PROVE  handle[r].right
    BY DEF ReadsInOrder
  <2> PICK h : h = handle[r]
    OBVIOUS
  <2>1. HandleFits(h)
    BY DEF IsoInv
  <2> QED
    BY <2>1, Zenon DEF HandleFits
<1> QED
  BY <1>1, <1>2, <1>3, PTL DEF IsoSpec

-----------------------------------------------------------------------------
(***************************************************************************)
(* Looking paths up.                                                       *)
(***************************************************************************)
\* Induction, for a set: one that holds 0 and the successors of its members
\* holds every natural number.
LEMMA NumbersIn ==
  ASSUME NEW S, 0 \in S, \A n \in Nat : n \in S => n + 1 \in S
  PROVE  Nat \subseteq S
<1> SUFFICES ASSUME NEW m \in Nat, m \notin S PROVE FALSE
  OBVIOUS
<1> DEFINE T == (0 .. m) \cap S
           f == [n \in T |-> n + 1]
<1>1. IsFiniteSet(T)
  <2>1. IsFiniteSet(0 .. m)
    BY FS_Interval
  <2> QED
    BY <2>1, FS_Subset
<1>2. f \in Injection(T, T)
  BY DEF Injection, IsInjective
<1>3. f \in Surjection(T, T)
  BY <1>1, <1>2, FS_Injection
<1>4. 0 \in T
  OBVIOUS
<1>5. PICK n \in T : f[n] = 0
  BY <1>3, <1>4 DEF Surjection
<1> QED
  BY <1>5

\* k is the way path takes, up to its place n.
IsWay(path, n, k) ==
    k = [i \in 0 .. n |-> IF i = 0 THEN ROOT_DR_OFFSET ELSE Named(k[i - 1], path[i])]

\* There is one, of any length.
LEMMA WayExists ==
  ASSUME NEW path, NEW n \in Nat
  PROVE  \E k : IsWay(path, n, k)
<1> DEFINE N == {m \in Nat : \E k : IsWay(path, m, k)}
<1>1. 0 \in N
  <2>1. PICK k : k = [i \in 0 .. 0 |-> ROOT_DR_OFFSET]
    OBVIOUS
  <2>2. IsWay(path, 0, k)
    BY <2>1 DEF IsWay
  <2> QED
    BY <2>2
<1>2. ASSUME NEW m \in Nat, m \in N PROVE m + 1 \in N
  <2>1. PICK k : IsWay(path, m, k)
    BY <1>2
  <2>2. PICK l : l = [i \in 0 .. m + 1 |-> IF i <= m THEN k[i] ELSE Named(k[m], path[m + 1])]
    OBVIOUS
  <2>3. ASSUME NEW i \in 0 .. m + 1
        PROVE  l[i] = IF i = 0 THEN ROOT_DR_OFFSET ELSE Named(l[i - 1], path[i])
    <3>1. CASE i = 0
      BY <2>1, <2>2, <3>1 DEF IsWay
    <3>2. CASE i # 0 /\ i <= m
      <4>1. l[i] = k[i] /\ l[i - 1] = k[i - 1]
        BY <2>2, <3>2
      <4>2. k[i] = Named(k[i - 1], path[i])
        BY <2>1, <3>2 DEF IsWay
      <4> QED
        BY <3>2, <4>1, <4>2
    <3>3. CASE i = m + 1
      <4>1. l[i] = Named(k[m], path[m + 1]) /\ l[i - 1] = k[m]
        BY <2>2, <3>3
      <4> QED
        BY <3>3, <4>1
    <3> QED
      BY <3>1, <3>2, <3>3
  <2>4. IsWay(path, m + 1, l)
    BY <2>2, <2>3 DEF IsWay
  <2> QED
    BY <2>4
<1> HIDE DEF N
<1>3. n \in N
  BY <1>1, <1>2, NumbersIn
<1> QED
  BY <1>3 DEF N

\* So the way of a path begins at the root and goes on to what each name names.
LEMMA WayFacts ==
  ASSUME NEW path, Len(path) \in Nat
  PROVE  /\ Way(path)[0] = ROOT_DR_OFFSET
         /\ \A n \in 1 .. Len(path) : Way(path)[n] = Named(Way(path)[n - 1], path[n])
<1>1. PICK k : IsWay(path, Len(path), k)
  BY WayExists
<1>2. Way(path) = CHOOSE w : IsWay(path, Len(path), w)
  BY Zenon DEF Way, IsWay
<1>3. IsWay(path, Len(path), Way(path))
  BY <1>1, <1>2
<1> QED
  BY <1>3 DEF IsWay

\* Once it leads nowhere it leads nowhere.
LEMMA WayEnds ==
  ASSUME NEW path, Len(path) \in Nat, NEW n \in 0 .. Len(path), Way(path)[n] = Nowhere
  PROVE  Way(path)[Len(path)] = Nowhere
<1> DEFINE N == {m \in Nat : n + m <= Len(path) => Way(path)[n + m] = Nowhere}
<1>1. 0 \in N
  OBVIOUS
<1>2. ASSUME NEW m \in Nat, m \in N PROVE m + 1 \in N
  <2> SUFFICES ASSUME n + (m + 1) <= Len(path) PROVE Way(path)[n + (m + 1)] = Nowhere
    OBVIOUS
  <2> PICK i : i = n + (m + 1)
    OBVIOUS
  <2>1. i \in 1 .. Len(path) /\ i - 1 = n + m /\ n + m <= Len(path)
    OBVIOUS
  <2>2. Way(path)[i] = Named(Way(path)[i - 1], path[i])
    BY <2>1, WayFacts
  <2>3. Way(path)[i - 1] = Nowhere
    BY <1>2, <2>1
  <2> QED
    BY <2>2, <2>3 DEF Named
<1> HIDE DEF N
<1>3. Len(path) - n \in N
  BY <1>1, <1>2, NumbersIn
<1> QED
  BY <1>3 DEF N

-----------------------------------------------------------------------------
\* Where the records of a directory begin, and the one of its parent.
First(p) == Record[p].extent * BS
Parent(p) == First(p) + Record[First(p)].length

IsDirectory(p) == p \in DOMAIN Record /\ Record[p].dir

\* x is a place in the directory at p that iso_dread can come to.
At(p, x) ==
    \E h : IsDir(h) /\ h.extent = Record[p].extent /\ h.len = Record[p].data /\ Pos(h) = x

\* The records of the directory at p, and what can be said of all of them.
Records(p) == Within(Record[p].extent, Record[p].data)

LEMMA RecordsAre ==
  ASSUME MediumFits, NEW p, IsDirectory(p)
  PROVE  /\ Directory(Record[p].extent, Record[p].data)
         /\ Record[p].extent \in Nat /\ Record[p].data \in Nat
         /\ Records(p) \in SUBSET Nat /\ IsFiniteSet(Records(p))
         /\ Records(p) \subseteq DOMAIN Record
         /\ \A x \in DOMAIN Record : x \in Nat /\ Record[x].length \in Nat \ {0}
         /\ \A x, q \in Records(p) : x < q => x + Record[x].length <= q
<1>1. Directory(Record[p].extent, Record[p].data)
  BY DEF MediumFits, DirectoriesFit, IsDirectory
<1>2. SmallReads /\ RecordsFit
  BY DEF MediumFits
<1>3. \A x \in DOMAIN Record : x \in Nat /\ Record[x].length \in Nat \ {0}
  BY <1>2 DEF RecordsFit
<1>4. Records(p) \in SUBSET Nat /\ IsFiniteSet(Records(p)) /\ Records(p) \subseteq DOMAIN Record
  BY <1>1, <1>2, DirectoryFacts DEF Records
<1>5. \A x, q \in Records(p) : x < q => x + Record[x].length <= q
  BY <1>1 DEF Directory, Records
<1> QED
  BY <1>1, <1>2, <1>3, <1>4, <1>5, DirectoryFacts DEF MediumFits, DirectoriesFit, RecordsFit, IsDirectory

\* A place is in the directory.
LEMMA AtFacts ==
  ASSUME MediumFits, NEW p, IsDirectory(p), NEW x, At(p, x)
  PROVE  /\ x \in Nat
         /\ x \in DOMAIN Record => x \in Records(p)
<1>1. SmallReads /\ RecordsFit /\ BS \in Nat \ {0}
  BY Sizes DEF MediumFits
<1>2. PICK h : IsDir(h) /\ h.extent = Record[p].extent /\ h.len = Record[p].data /\ Pos(h) = x
  BY DEF At
<1> PICK e, d : e = Record[p].extent /\ d = Record[p].data
  OBVIOUS
<1>3. e \in Nat /\ h.cur \in Nat /\ Directory(e, d) /\ x < Stop(e, d)
  BY <1>2 DEF IsDir
<1>4. /\ Within(e, d) = {q \in DOMAIN Record : q >= e * BS /\ q < Stop(e, d)}
      /\ e * BS \in Nat
  BY <1>1, <1>3, DirectoryFacts
<1>5. x = e * BS + h.cur
  BY <1>2 DEF Pos, BS
<1>6. x \in Nat /\ x >= e * BS
  BY ONLY <1>3, <1>4, <1>5
<1> QED
  BY <1>3, <1>4, <1>6 DEF Records

\* It begins at a record.
LEMMA AtFirst ==
  ASSUME MediumFits, Unit # {}, NEW p, IsDirectory(p)
  PROVE  At(p, First(p)) /\ First(p) \in Records(p) /\ First(p) \in DOMAIN Record
         /\ \A q \in Records(p) : First(p) <= q
<1>1. SmallReads /\ RecordsFit /\ BS \in Nat \ {0}
  BY Sizes DEF MediumFits
<1> PICK u \in Unit : TRUE
  OBVIOUS
<1> PICK c, rec : c = [unit |-> u, dir |-> TRUE] /\ rec = Record[p]
  OBVIOUS
<1>2. c.unit \in Unit /\ c.dir \in BOOLEAN /\ c.dir /\ c.unit = u
  OBVIOUS
<1>3. rec.extent \in Nat /\ rec.data \in Nat /\ Directory(rec.extent, rec.data)
  BY RecordsAre
<1> PICK h : h = Opened(c, Found(rec))
  OBVIOUS
<1>4. HandleFits(h)
  BY <1>2, <1>3, OpenedFits
<1>5. Found(rec) # NotFound
  BY <1>3 DEF Found, NotFound, NoExtent
<1>6. h = [Closed EXCEPT !.kind = "dir", !.unit = c.unit,
                         !.extent = Found(rec).extent, !.len = Found(rec).len]
  BY <1>2, <1>5 DEF Opened
<1>7. h.kind = "dir" /\ h.extent = rec.extent /\ h.len = rec.data /\ h.cur = 0
  BY <1>6 DEF Closed, Found
<1>8. IsDir(h)
  BY <1>4, <1>7, DirFits
<1>9. First(p) \in Nat
  BY <1>1, <1>3, LaterBlock DEF First
<1>10. Pos(h) = First(p)
  BY <1>7, <1>9 DEF Pos, First, BS
<1>11. At(p, First(p))
  BY <1>7, <1>8, <1>10 DEF At
<1> PICK e, d, f : e = rec.extent /\ d = rec.data /\ f = FinalExtent(e, d)
  OBVIOUS
<1>12. /\ e \in Nat /\ f \in Nat /\ e <= f
       /\ \A b \in e .. f : b * BS \in DOMAIN Record
       /\ Within(e, d) = {q \in DOMAIN Record : q >= e * BS /\ q < Stop(e, d)}
  BY <1>1, <1>3, DirectoryFacts
<1>13. e \in e .. f
  BY ONLY <1>12
<1>14. First(p) \in DOMAIN Record
  BY <1>12, <1>13 DEF First
<1>15. \A q \in Records(p) : First(p) <= q
  <2> SUFFICES ASSUME NEW q \in Records(p) PROVE First(p) <= q
    OBVIOUS
  <2>1. q >= e * BS /\ q \in Nat
    BY <1>12, RecordsAre DEF Records
  <2> QED
    BY <1>9, <2>1 DEF First
<1> QED
  BY <1>11, <1>14, <1>15, AtFacts

\* It goes on behind each record, and nothing was passed over.
LEMMA AtNext ==
  ASSUME MediumFits, NEW p, IsDirectory(p), NEW x, At(p, x), x \in DOMAIN Record
  PROVE  /\ At(p, x + Record[x].length)
         /\ \A q \in Records(p) : q < x + Record[x].length <=> q < x \/ q = x
<1>1. SmallReads /\ RecordsFit /\ BS \in Nat \ {0}
  BY Sizes DEF MediumFits
<1>2. PICK h : IsDir(h) /\ h.extent = Record[p].extent /\ h.len = Record[p].data /\ Pos(h) = x
  BY DEF At
<1> PICK n, g : /\ n = x + Record[x].length - h.extent * BS
                /\ g = [kind |-> h.kind, unit |-> h.unit, extent |-> h.extent, cur |-> n,
                        len |-> h.len, eof |-> h.eof, got |-> h.got + 1, right |-> h.right]
  OBVIOUS
<1>3. IsDir(g)
  BY <1>2, NextRecord
<1>4. g.extent = h.extent /\ g.len = h.len /\ g.cur = n
  OBVIOUS
<1>5. h.extent * BS \in Nat
  BY <1>1, <1>2, LaterBlock DEF IsDir
<1>6. x \in Nat /\ x \in Records(p) /\ Record[x].length \in Nat \ {0}
  BY AtFacts, RecordsAre
<1>7. Pos(g) = x + Record[x].length
  <2>1. Pos(g) = h.extent * BS + n
    BY ONLY <1>4 DEF Pos, BS
  <2> QED
    BY ONLY <1>5, <1>6, <2>1, n = x + Record[x].length - h.extent * BS
<1>8. At(p, x + Record[x].length)
  BY <1>2, <1>3, <1>4, <1>7 DEF At
<1>9. ASSUME NEW q \in Records(p)
      PROVE  q < x + Record[x].length <=> q < x \/ q = x
  <2>1. q \in Nat /\ (x < q => x + Record[x].length <= q)
    BY <1>6, RecordsAre
  <2> QED
    BY ONLY <1>6, <2>1
<1> QED
  BY <1>8, <1>9

\* Where no record begins it goes on in the next block, if there is one.
LEMMA AtBlock ==
  ASSUME MediumFits, NEW p, IsDirectory(p), NEW ext \in Nat, NEW o \in 0 .. BS - 1,
         NEW x, x = ext * BS + o, At(p, x), x \notin DOMAIN Record
  PROVE  LET final == FinalExtent(Record[p].extent, Record[p].data) IN
         /\ ext = final => \A q \in Records(p) : q < x
         /\ ext # final =>
              /\ At(p, (ext + 1) * BS) /\ (ext + 1) * BS > x
              /\ \A q \in Records(p) : q < (ext + 1) * BS <=> q < x
<1>1. SmallReads /\ RecordsFit /\ BS \in Nat \ {0}
  BY Sizes DEF MediumFits
<1>2. PICK h : IsDir(h) /\ h.extent = Record[p].extent /\ h.len = Record[p].data /\ Pos(h) = x
  BY DEF At
<1> PICK e, d, f : e = Record[p].extent /\ d = Record[p].data /\ f = FinalExtent(e, d)
  OBVIOUS
<1>3. e \in Nat /\ Directory(e, d) /\ x < Stop(e, d)
  BY <1>2 DEF IsDir
<1>4. /\ f \in Nat /\ Stop(e, d) = (f + 1) * BS
      /\ Within(e, d) = {q \in DOMAIN Record : q >= e * BS /\ q < Stop(e, d)}
      /\ Within(e, d) \in SUBSET Nat
  BY <1>1, <1>3, DirectoryFacts
<1>5. \A q \in Within(e, d) : q >= x => q >= (ext + 1) * BS
  BY <1>2, DirPlace
<1>6. /\ x \in Nat /\ (ext + 1) * BS \in Nat /\ (f + 1) * BS \in Nat /\ (ext + 1) * BS > x
      /\ ext * BS \in Nat /\ (ext + 1) * BS = ext * BS + BS
  <2>1. /\ ext * BS \in Nat /\ (ext + 1) * BS = ext * BS + BS /\ (f + 1) * BS \in Nat
    BY ONLY <1>1, <1>4, ext \in Nat, LaterBlock
  <2> QED
    BY ONLY <1>1, <2>1, x = ext * BS + o, o \in 0 .. BS - 1
<1>7. ext <= f
  <2>1. ext >= f + 1 => ext * BS >= (f + 1) * BS
    BY ONLY <1>1, <1>4, ext \in Nat, SMTT(20)
  <2> QED
    BY ONLY <1>1, <1>3, <1>4, <1>6, <2>1, ext \in Nat, x = ext * BS + o, o \in 0 .. BS - 1
<1>8. ASSUME ext = f, NEW q \in Within(e, d)
      PROVE  q < x
  <2>1. q < (ext + 1) * BS /\ q \in Nat
    BY <1>4, <1>8
  <2> QED
    BY ONLY <1>5, <1>6, <2>1, q \in Within(e, d)
<1>9. ASSUME ext # f
      PROVE  /\ At(p, (ext + 1) * BS)
             /\ \A q \in Within(e, d) : q < (ext + 1) * BS <=> q < x
  <2> PICK g : g = [kind |-> h.kind, unit |-> h.unit, extent |-> h.extent,
                    cur |-> (ext + 1 - h.extent) * BS, len |-> h.len, eof |-> h.eof,
                    got |-> h.got, right |-> h.right]
    OBVIOUS
  <2>1. ext < FinalExtent(h.extent, h.len)
    <3>1. ext < f
      BY ONLY <1>4, <1>7, <1>9, ext \in Nat
    <3> QED
      BY <1>2, <3>1
  <2>2. IsDir(g) /\ Pos(g) = (ext + 1) * BS
    BY <1>2, <2>1, NextBlock
  <2>3. g.extent = h.extent /\ g.len = h.len
    OBVIOUS
  <2>4. At(p, (ext + 1) * BS)
    BY <1>2, <2>2, <2>3 DEF At
  <2>5. \A q \in Within(e, d) : q < (ext + 1) * BS <=> q < x
    BY ONLY <1>4, <1>5, <1>6
  <2> QED
    BY <2>4, <2>5
<1> QED
  BY <1>6, <1>8, <1>9 DEF Records

\* Behind its own record and its parent's come the entries.
LEMMA EntriesAre ==
  ASSUME MediumFits, SelvesFit, Unit # {}, NEW p, IsDirectory(p)
  PROVE  /\ At(p, Parent(p)) /\ Parent(p) \in DOMAIN Record /\ Parent(p) \in Nat
         /\ Record[First(p)].extent = Record[p].extent /\ Record[First(p)].data = Record[p].data
         /\ Entries(p) = {q \in Records(p) : q > Parent(p)}
<1> PICK S, x, y : S = Records(p) /\ x = First(p) /\ y = Parent(p)
  OBVIOUS
<1>1. /\ At(p, x) /\ x \in S /\ x \in DOMAIN Record
      /\ \A q \in S : x <= q
  BY AtFirst
<1>2. S \in SUBSET Nat /\ IsFiniteSet(S) /\ S \subseteq DOMAIN Record
      /\ Record[x].length \in Nat \ {0}
  BY <1>1, RecordsAre
<1>3. y = x + Record[x].length
  BY DEF Parent
<1>4. /\ Record[x].extent = Record[p].extent /\ Record[x].data = Record[p].data
      /\ y \in S
  BY DEF SelvesFit, IsDirectory, First, Parent, Records, BS
<1>5. At(p, y) /\ \A q \in S : q < y <=> q < x \/ q = x
  BY <1>1, <1>3, AtNext
<1>6. Nth(S, 0) = x
  <2>1. Below(S, x) = {}
    BY <1>1, <1>2 DEF Below
  <2>2. Cardinality(Below(S, x)) = 0
    BY <2>1, FS_EmptySet
  <2>3. S \in SUBSET Int /\ IsFiniteSet(S) /\ x \in S
    BY ONLY <1>1, <1>2
  <2> QED
    BY ONLY <2>2, <2>3, NthIs
<1>7. Nth(S, 1) = y
  <2>1. Below(S, y) = {x}
    BY <1>1, <1>2, <1>5 DEF Below
  <2>2. Cardinality(Below(S, y)) = 1
    BY <2>1, FS_Singleton
  <2>3. S \in SUBSET Int /\ IsFiniteSet(S) /\ y \in S
    BY ONLY <1>2, <1>4
  <2> QED
    BY ONLY <2>2, <2>3, NthIs
<1>8. Entries(p) = S \ {x, y}
  BY <1>6, <1>7 DEF Entries, Records
<1>9. S \ {x, y} = {q \in S : q > y}
  BY ONLY <1>1, <1>2, <1>4, <1>5
<1> QED
  BY <1>2, <1>4, <1>5, <1>8, <1>9

\* The entry of a name is the first that has it.
LEMMA NamedIs ==
  ASSUME MediumFits, NEW p, IsDirectory(p), NEW name, Entries(p) \subseteq Records(p)
  PROVE  /\ (\A q \in Entries(p) : Record[q].name # name) => Named(p, name) = Nowhere
         /\ \A x \in Entries(p) :
              /\ Record[x].name = name
              /\ \A q \in Entries(p) : q < x => Record[q].name # name
              => Named(p, name) = x
<1> PICK S : S = {q \in Entries(p) : Record[q].name = name}
  OBVIOUS
<1>1. S \in SUBSET Int /\ IsFiniteSet(S)
  <2>1. S \subseteq Records(p)
    OBVIOUS
  <2>2. Records(p) \in SUBSET Nat /\ IsFiniteSet(Records(p))
    BY RecordsAre
  <2> QED
    BY <2>1, <2>2, FS_Subset
<1>2. p # Nowhere
  BY RecordsAre DEF IsDirectory, Nowhere
<1>3. Named(p, name) = IF S = {} THEN Nowhere ELSE Nth(S, 0)
  BY <1>2 DEF Named, IsDirectory
<1>4. ASSUME NEW x \in Entries(p), Record[x].name = name,
             \A q \in Entries(p) : q < x => Record[q].name # name
      PROVE  Named(p, name) = x
  <2>1. x \in S /\ Below(S, x) = {}
    BY <1>4 DEF Below
  <2>2. Cardinality(Below(S, x)) = 0
    BY <2>1, FS_EmptySet
  <2>3. Nth(S, 0) = x
    <3>1. x \in S
      BY ONLY <2>1
    <3> QED
      BY ONLY <1>1, <2>2, <3>1, NthIs
  <2> QED
    BY <1>3, <2>1, <2>3
<1> QED
  BY <1>3, <1>4

-----------------------------------------------------------------------------
\* What is left of a path after n names.
LEMMA PathLeft ==
  ASSUME NEW T, NEW s \in Seq(T), NEW n \in 0 .. Len(s) - 1, NEW t, t = SubSeq(s, n + 1, Len(s))
  PROVE  /\ Head(t) = s[n + 1] /\ Len(t) = Len(s) - n
         /\ Len(t) # 1 => n + 1 \in 0 .. Len(s) - 1 /\ Tail(t) = SubSeq(s, (n + 1) + 1, Len(s))
<1>1. Len(s) \in Nat /\ n \in Nat /\ n + 1 \in 1 .. Len(s)
  OBVIOUS
<1>2. t = [i \in 1 .. Len(s) - n |-> s[i + n]]
  BY <1>1
<1>3. t \in Seq(T) /\ Len(t) = Len(s) - n
  BY <1>1
<1>4. t # <<>> /\ Head(t) = s[n + 1]
  <2>1. Len(t) \in Nat /\ Len(t) >= 1
    BY ONLY <1>1, <1>3
  <2>2. t # <<>> /\ Head(t) = t[1]
    BY ONLY <1>3, <2>1
  <2>3. t[1] = s[1 + n] /\ 1 + n = n + 1
    BY ONLY <1>1, <1>2
  <2> QED
    BY ONLY <2>2, <2>3
<1>5. ASSUME Len(t) # 1
      PROVE  n + 1 \in 0 .. Len(s) - 1 /\ Tail(t) = SubSeq(s, (n + 1) + 1, Len(s))
  <2>1. n + 1 \in 0 .. Len(s) - 1
    <3>1. Len(s) - n # 1
      BY ONLY <1>3, <1>5
    <3> QED
      BY ONLY <1>1, <3>1
  <2>2. Tail(t) = [i \in 1 .. Len(t) - 1 |-> t[i + 1]]
    BY <1>3, <1>4
  <2>3. SubSeq(s, (n + 1) + 1, Len(s)) = [i \in 1 .. Len(s) - (n + 1) |-> s[i + (n + 1)]]
    BY <1>1, <2>1
  <2>4. \A i \in 1 .. Len(t) - 1 : t[i + 1] = s[i + (n + 1)]
    BY <1>1, <1>2, <1>3
  <2> QED
    BY <1>1, <1>3, <2>1, <2>2, <2>3, <2>4
<1> QED
  BY <1>3, <1>4, <1>5

\* Before x there is no entry of the directory at p that has the name.
Passed(p, x, name) ==
    /\ x > Parent(p)
    /\ \A q \in Entries(p) : q < x => Record[q].name # name

\* A look-up that has come to the directory of name n + 1 of its path, where it is to
\* read at.
LookAt(c, at, n) ==
    LET p == Way(c.asked)[n] IN
    /\ IsDirectory(p)
    /\ c.path = SubSeq(c.asked, n + 1, Len(c.asked))
    /\ At(p, Place(c))
    /\ at = "self" => Place(c) = First(p)
    /\ at = "parent" => Place(c) = Parent(p)
    /\ at # "self" => c.final = FinalExtent(Record[p].extent, Record[p].data)
    /\ at \in {"peek", "record"} => Passed(p, Place(c), c.asked[n + 1])
    /\ at = "record" => Place(c) \in DOMAIN Record

\* And one that has just begun, or has come to a directory.
LookFits(c) ==
    /\ c.asked \in Path
    /\ \/ c.at = "root" /\ c.path = c.asked
       \/ c.at # "root" /\ \E n \in 0 .. Len(c.asked) - 1 : LookAt(c, c.at, n)

\* The invariant of looking paths up.
LookInv == \A r \in Reader : call[r].op = "look up" => LookFits(call[r])

\* What a step of a look-up may do: go on, or end with what the path names.
StepLooks(r) ==
    \E s, h : /\ Moved(r, s, h)
              /\ \/ s.op = "look up" /\ LookFits(s)
                 \/ s = Idle /\ h = Opened(call[r], Resolve(call[r].asked, call[r].dir))

\* What is assumed of the medium and the paths, and a reader that looks one up.
LookingUp(r, c) ==
    /\ MediumFits /\ SelvesFit /\ PathsFit
    /\ DOMAIN call = Reader /\ DOMAIN handle = Reader
    /\ c = call[r] /\ Looks(c) /\ c.asked \in Path

\* It goes on.
LEMMA StillLooks ==
  ASSUME MediumFits, NEW r \in Reader, DOMAIN call = Reader, DOMAIN handle = Reader,
         NEW c, Looks(c), c.asked \in Path, NEW n \in 0 .. Len(c.asked) - 1,
         NEW at, at # "root", LookAt(c, at, n), ReadNext(r, c, at)
  PROVE  StepLooks(r)
<1> PICK s : s = Reading(c, at)
  OBVIOUS
<1>1. SmallReads /\ IsCall(c) /\ c.op = "look up"
  BY DEF MediumFits, Looks
<1>2. s.at = at /\ Place(s) = Place(c) /\ SameAs(s, c)
  BY ONLY <1>1, s = Reading(c, at), ReadingIs
<1>3. s.path = c.path /\ s.asked = c.asked /\ s.final = c.final /\ s.op = c.op
  BY ONLY <1>2 DEF SameAs
<1>4. LookAt(s, at, n)
  BY ONLY <1>2, <1>3, LookAt(c, at, n) DEF LookAt
<1>5. LookFits(s)
  BY <1>2, <1>3, <1>4 DEF LookFits
<1>6. Moved(r, s, handle[r])
  BY ReadNextMoves
<1> QED
  BY <1>1, <1>3, <1>5, <1>6 DEF StepLooks

\* It ends, with the right thing.
LEMMA LooksRight ==
  ASSUME NEW r \in Reader, DOMAIN call = Reader, DOMAIN handle = Reader,
         NEW found, LookedUp(r, found), found = Resolve(call[r].asked, call[r].dir)
  PROVE  StepLooks(r)
BY LookedUpMoves DEF StepLooks

\* A point that is given another end, or another path.
Ending(c, x) == [c EXCEPT !.final = x]
Going(c, x) == [c EXCEPT !.path = x]

LEMMA EndingFields ==
  ASSUME NEW c, Looks(c), NEW x, NEW s, s = Ending(c, x)
  PROVE  Place(s) = Place(c) /\ s.path = c.path /\ s.asked = c.asked /\ s.final = x
<1>1. IsCall(c)
  BY DEF Looks
<1>2. s = [c EXCEPT !.final = x]
  BY DEF Ending
<1>3. s = [op |-> c.op, at |-> c.at, busy |-> c.busy, unit |-> c.unit, extent |-> c.extent,
           offset |-> c.offset, bytes |-> c.bytes, path |-> c.path, dir |-> c.dir,
           asked |-> c.asked, final |-> x, over |-> c.over]
  BY ONLY <1>1, <1>2, CallSet, Zenon
<1> QED
  BY ONLY <1>3 DEF Place

LEMMA GoingFields ==
  ASSUME NEW c, Looks(c), NEW x, NEW s, s = Going(c, x)
  PROVE  Place(s) = Place(c) /\ s.path = x /\ s.asked = c.asked /\ s.final = c.final
<1>1. IsCall(c)
  BY DEF Looks
<1>2. s = [c EXCEPT !.path = x]
  BY DEF Going
<1>3. s = [op |-> c.op, at |-> c.at, busy |-> c.busy, unit |-> c.unit, extent |-> c.extent,
           offset |-> c.offset, bytes |-> c.bytes, path |-> x, dir |-> c.dir,
           asked |-> c.asked, final |-> c.final, over |-> c.over]
  BY ONLY <1>1, <1>2, CallSet, Zenon
<1> QED
  BY ONLY <1>3 DEF Place

\* And of one moved by a seek.
LEMMA LookPlaces ==
  ASSUME MediumFits, NEW c, Looks(c)
  PROVE  /\ \A place \in Nat :
              LET s == SeekSet(c, place) IN
              Place(s) = place /\ s.path = c.path /\ s.asked = c.asked /\ s.final = c.final
         /\ \A from : from.place = Place(c) =>
              LET s == AfterRecord(c, RecordAt(from)) IN
              /\ Place(s) = Place(c) + RecordAt(from).length
              /\ s.path = c.path /\ s.asked = c.asked /\ s.final = c.final
         /\ LET s == SeekCur(SeekCur(c, 1), -1) IN
            /\ s.extent \in Nat /\ s.offset \in 0 .. BS - 1
            /\ Place(s) = Place(c) /\ s.path = c.path /\ s.asked = c.asked
            /\ s.final = c.final
<1>1. SmallReads /\ RecordsFit /\ IsCall(c) /\ c.extent \in Nat /\ c.offset \in 0 .. BS
  BY DEF MediumFits, Looks
<1>2. ASSUME NEW place \in Nat, NEW s, s = SeekSet(c, place)
      PROVE  Place(s) = place /\ s.path = c.path /\ s.asked = c.asked /\ s.final = c.final
  <2>1. Place(s) = place /\ SameCall(s, c)
    BY <1>1, <1>2, SeekSetFacts
  <2> QED
    BY ONLY <2>1 DEF SameCall
<1>3. ASSUME NEW from, from.place = Place(c), NEW s, s = AfterRecord(c, RecordAt(from))
      PROVE  /\ Place(s) = Place(c) + RecordAt(from).length
             /\ s.path = c.path /\ s.asked = c.asked /\ s.final = c.final
  <2>1. Place(s) = Place(c) + RecordAt(from).length /\ SameCall(s, c)
    BY ONLY <1>1, <1>3, AfterRecordFacts
  <2> QED
    BY ONLY <2>1 DEF SameCall
<1>4. ASSUME NEW s, s = SeekCur(SeekCur(c, 1), -1)
      PROVE  /\ s.extent \in Nat /\ s.offset \in 0 .. BS - 1
             /\ Place(s) = Place(c) /\ s.path = c.path /\ s.asked = c.asked
             /\ s.final = c.final
  <2>1. /\ s.extent \in Nat /\ s.offset \in 0 .. BS - 1 /\ Place(s) = Place(c)
        /\ SameCall(s, c)
    BY ONLY <1>1, <1>4, PeekFacts
  <2> QED
    BY ONLY <2>1 DEF SameCall
<1> QED
  BY <1>2, <1>3, <1>4

\* The root.
LEMMA LooksRoot ==
  ASSUME NEW r \in Reader, NEW c, LookingUp(r, c), NEW from, from.place = Place(c),
         Place(c) = ROOT_DR_OFFSET, c.path = c.asked, RootRead(r, c, RecordAt(from))
  PROVE  StepLooks(r)
<1> PICK p, path : p = ROOT_DR_OFFSET /\ path = c.asked
  OBVIOUS
<1>1. /\ MediumFits /\ SelvesFit /\ PathsFit /\ DOMAIN call = Reader /\ DOMAIN handle = Reader
      /\ c = call[r] /\ Looks(c) /\ path \in Path /\ c.dir \in BOOLEAN
  BY DEF LookingUp, Looks
<1>2. path \in Seq(ToSet(path)) /\ Len(path) \in Nat
  BY <1>1 DEF PathsFit
<1>3. Way(path)[0] = p
  BY <1>2, WayFacts
<1>4. IsDirectory(p)
  BY <1>1 DEF MediumFits, DirectoriesFit, IsDirectory
<1>5. RecordAt(from) = Record[p]
  BY <1>4 DEF RecordAt, IsDirectory
<1>6. CASE c.path = <<>>
  <2>1. LookedUp(r, IF c.dir THEN Found(Record[p]) ELSE NotFound)
    BY <1>5, <1>6 DEF RootRead
  <2>2. p # Nowhere
    BY <1>1, <1>4, RecordsAre DEF IsDirectory, Nowhere
  <2>3. Len(path) = 0
    BY <1>6
  <2>4. Way(path)[Len(path)] = p
    BY <1>3, <2>3
  <2>5. Resolve(path, c.dir) = IF c.dir THEN Found(Record[p]) ELSE NotFound
    BY <1>1, <1>4, <2>2, <2>4, Zenon DEF Resolve, IsDirectory
  <2> QED
    BY <1>1, <2>1, <2>5, LooksRight
<1>7. CASE c.path # <<>>
  <2> PICK s, place : place = Record[p].extent * BS /\ s = SeekSet(c, place)
    OBVIOUS
  <2>1. ReadNext(r, s, "self")
    BY <1>5, <1>7 DEF RootRead, BS
  <2>2. place \in Nat /\ place = First(p)
    <3>1. Record[p].extent \in Nat /\ BS \in Nat \ {0}
      BY <1>1, <1>4, RecordsAre, Sizes DEF MediumFits
    <3> QED
      BY <3>1, LaterBlock DEF First
  <2>3. Place(s) = place /\ s.path = path /\ s.asked = path
    BY <1>1, <2>2, LookPlaces
  <2>4. Looks(s)
    BY <1>1, <2>2, LooksAnywhere
  <2>5. 0 \in 0 .. Len(path) - 1 /\ SubSeq(path, 0 + 1, Len(path)) = path
    <3>1. path # <<>>
      BY <1>7
    <3>2. Len(path) # 0
      BY ONLY <1>2, <3>1
    <3> QED
      BY ONLY <1>2, <3>2
  <2>6. At(p, First(p))
    <3>1. Unit # {}
      BY <1>1 DEF Looks
    <3> QED
      BY <1>1, <1>4, <3>1, AtFirst
  <2>7. LookAt(s, "self", 0)
    BY <1>3, <1>4, <2>2, <2>3, <2>5, <2>6 DEF LookAt
  <2> QED
    BY <1>1, <2>1, <2>3, <2>4, <2>5, <2>7, StillLooks
<1> QED
  BY <1>6, <1>7

\* A directory's own record.
LEMMA LooksSelf ==
  ASSUME NEW r \in Reader, NEW c, LookingUp(r, c), NEW from, from.place = Place(c),
         NEW n \in 0 .. Len(c.asked) - 1, LookAt(c, "self", n), SelfRead(r, c, RecordAt(from))
  PROVE  StepLooks(r)
<1> PICK p : p = Way(c.asked)[n]
  OBVIOUS
<1>1. /\ MediumFits /\ SelvesFit /\ PathsFit /\ DOMAIN call = Reader /\ DOMAIN handle = Reader
      /\ c = call[r] /\ Looks(c) /\ c.asked \in Path /\ Unit # {}
  BY DEF LookingUp, Looks
<1>2. /\ IsDirectory(p) /\ Place(c) = First(p)
      /\ c.path = SubSeq(c.asked, n + 1, Len(c.asked))
  BY DEF LookAt
<1> PICK rec, final : rec = RecordAt(from) /\ final = FinalExtent(rec.extent, rec.data)
  OBVIOUS
<1>3. rec = Record[First(p)] /\ rec.extent = Record[p].extent /\ rec.data = Record[p].data
      /\ At(p, Parent(p))
  <2>1. First(p) \in DOMAIN Record
    BY <1>1, <1>2, AtFirst
  <2> QED
    BY <1>1, <1>2, <2>1, EntriesAre DEF RecordAt
<1> PICK s, t : s = AfterRecord(c, rec) /\ t = [s EXCEPT !.final = final]
  OBVIOUS
<1>4. ReadNext(r, t, "parent")
  BY DEF SelfRead
<1>5. Place(s) = Parent(p) /\ s.path = c.path /\ s.asked = c.asked
  <2>0. MediumFits /\ Looks(c) /\ from.place = Place(c)
        /\ rec = RecordAt(from) /\ s = AfterRecord(c, rec)
    BY <1>1
  <2>1. Place(s) = Place(c) + rec.length /\ s.path = c.path /\ s.asked = c.asked
    BY ONLY <2>0, LookPlaces
  <2> QED
    BY ONLY <1>2, <1>3, <2>1 DEF Parent
<1>6. Looks(s)
  BY <1>1, LooksAnywhere
<1>7. Looks(t)
  BY <1>1, <1>6, LooksAnywhere
<1>8. Place(t) = Parent(p) /\ t.path = c.path /\ t.asked = c.asked /\ t.final = final
  <2>1. t = Ending(s, final)
    BY DEF Ending
  <2>2. Place(t) = Place(s) /\ t.path = s.path /\ t.asked = s.asked /\ t.final = final
    BY ONLY <1>6, <2>1, EndingFields
  <2> QED
    BY ONLY <1>5, <2>2
<1>9. LookAt(t, "parent", n)
  BY <1>2, <1>3, <1>8 DEF LookAt
<1> QED
  BY <1>1, <1>4, <1>7, <1>8, <1>9, StillLooks

\* Its parent's.
LEMMA LooksParent ==
  ASSUME NEW r \in Reader, NEW c, LookingUp(r, c), NEW from, from.place = Place(c),
         NEW n \in 0 .. Len(c.asked) - 1, LookAt(c, "parent", n),
         ReadNext(r, AfterRecord(c, RecordAt(from)), "peek")
  PROVE  StepLooks(r)
<1> PICK p, x : p = Way(c.asked)[n] /\ x = Parent(p)
  OBVIOUS
<1>1. /\ MediumFits /\ SelvesFit /\ PathsFit /\ DOMAIN call = Reader /\ DOMAIN handle = Reader
      /\ c = call[r] /\ Looks(c) /\ c.asked \in Path /\ Unit # {}
  BY DEF LookingUp, Looks
<1>2. /\ IsDirectory(p) /\ Place(c) = x /\ At(p, x)
      /\ c.path = SubSeq(c.asked, n + 1, Len(c.asked))
      /\ c.final = FinalExtent(Record[p].extent, Record[p].data)
  BY DEF LookAt
<1>3. x \in DOMAIN Record /\ x \in Nat /\ Entries(p) = {q \in Records(p) : q > x}
  BY <1>1, <1>2, EntriesAre
<1> PICK s, next : s = AfterRecord(c, RecordAt(from)) /\ next = x + Record[x].length
  OBVIOUS
<1>4. RecordAt(from) = Record[x]
  BY <1>2, <1>3 DEF RecordAt
<1>5. Place(s) = next /\ s.path = c.path /\ s.asked = c.asked /\ s.final = c.final
  <2>1. MediumFits /\ Looks(c) /\ from.place = Place(c)
    BY <1>1
  <2>2. s = AfterRecord(c, RecordAt(from)) /\ next = x + Record[x].length
    OBVIOUS
  <2>3. /\ Place(s) = Place(c) + RecordAt(from).length
        /\ s.path = c.path /\ s.asked = c.asked /\ s.final = c.final
    BY ONLY <2>1, <2>2, LookPlaces
  <2> QED
    BY ONLY <1>2, <1>4, <2>2, <2>3
<1>6. Looks(s)
  BY <1>1, LooksAnywhere
<1>7. At(p, next) /\ \A q \in Records(p) : q < next <=> q < x \/ q = x
  BY <1>1, <1>2, <1>3, AtNext
<1>8. next > x
  <2>1. Record[x].length \in Nat \ {0}
    BY <1>1, <1>2, <1>3, RecordsAre
  <2> QED
    BY ONLY <1>3, <2>1, next = x + Record[x].length
<1>9. ASSUME NEW q \in Entries(p), q < next
      PROVE  FALSE
  <2>1. q \in Records(p) /\ q > x /\ q \in Nat
    BY <1>1, <1>2, <1>3, RecordsAre
  <2> QED
    BY ONLY <1>3, <1>7, <1>9, <2>1
<1>10. Passed(p, next, s.asked[n + 1])
  BY <1>8, <1>9 DEF Passed
<1>11. LookAt(s, "peek", n)
  BY <1>2, <1>5, <1>7, <1>10 DEF LookAt
<1> QED
  BY <1>1, <1>5, <1>6, <1>11, StillLooks

\* If no entry has the name, the path leads nowhere.
LEMMA NotThere ==
  ASSUME MediumFits, SelvesFit, PathsFit, Unit # {}, NEW path \in Path,
         NEW n \in 0 .. Len(path) - 1, NEW p, p = Way(path)[n], IsDirectory(p),
         \A q \in Entries(p) : Record[q].name # path[n + 1], NEW dir
  PROVE  Resolve(path, dir) = NotFound
<1>1. Len(path) \in Nat
  BY DEF PathsFit
<1>2. Entries(p) \subseteq Records(p)
  BY EntriesAre
<1>3. Named(p, path[n + 1]) = Nowhere
  BY <1>2, NamedIs
<1> PICK k : k = n + 1
  OBVIOUS
<1>4. k \in 1 .. Len(path) /\ k \in 0 .. Len(path) /\ k - 1 = n
  BY <1>1
<1>5. Way(path)[k] = Nowhere
  BY <1>1, <1>3, <1>4, WayFacts
<1>6. Way(path)[Len(path)] = Nowhere
  BY <1>1, <1>4, <1>5, WayEnds
<1> QED
  BY <1>6 DEF Resolve

\* A byte: a record, or the zero behind the last of a block.
LEMMA LooksPeek ==
  ASSUME NEW r \in Reader, NEW c, LookingUp(r, c), NEW from, from.place = Place(c),
         NEW n \in 0 .. Len(c.asked) - 1, LookAt(c, "peek", n), PeekRead(r, c, from)
  PROVE  StepLooks(r)
<1> PICK p, x, back, name : /\ p = Way(c.asked)[n] /\ x = Place(c)
                            /\ back = SeekCur(SeekCur(c, 1), -1)
                            /\ name = c.asked[n + 1]
  OBVIOUS
<1>1. /\ MediumFits /\ SelvesFit /\ PathsFit /\ DOMAIN call = Reader /\ DOMAIN handle = Reader
      /\ c = call[r] /\ Looks(c) /\ c.asked \in Path /\ Unit # {}
  BY DEF LookingUp, Looks
<1>2. /\ IsDirectory(p) /\ At(p, x) /\ Passed(p, x, name)
      /\ c.path = SubSeq(c.asked, n + 1, Len(c.asked))
      /\ c.final = FinalExtent(Record[p].extent, Record[p].data)
  BY DEF LookAt
<1> PICK ext, o : ext = back.extent /\ o = back.offset
  OBVIOUS
<1>3. /\ ext \in Nat /\ o \in 0 .. BS - 1 /\ Place(back) = x
      /\ back.path = c.path /\ back.asked = c.asked /\ back.final = c.final
  BY <1>1, LookPlaces
<1>4. Looks(back)
  BY <1>1, LooksAnywhere
<1>5. x = ext * BS + o
  BY <1>3 DEF Place, BS
<1>6. CASE ~IsZero(from)
  <2>1. ReadNext(r, back, "record")
    BY <1>6 DEF PeekRead
  <2>2. x \in DOMAIN Record
    BY <1>6 DEF IsZero
  <2>3. LookAt(back, "record", n)
    BY <1>2, <1>3, <2>2 DEF LookAt
  <2> QED
    BY <1>1, <1>3, <1>4, <2>1, <2>3, StillLooks
<1>7. CASE IsZero(from) /\ ext = c.final
  <2>1. LookedUp(r, NotFound)
    BY <1>7 DEF PeekRead
  <2>2. x \notin DOMAIN Record
    BY <1>7 DEF IsZero
  <2>3. \A q \in Records(p) : q < x
    BY <1>1, <1>2, <1>3, <1>5, <1>7, <2>2, AtBlock
  <2>4. \A q \in Entries(p) : Record[q].name # name
    <3>1. Entries(p) \subseteq Records(p)
      BY <1>1, <1>2, EntriesAre
    <3> QED
      BY <1>2, <2>3, <3>1 DEF Passed
  <2>5. Resolve(c.asked, c.dir) = NotFound
    BY <1>1, <1>2, <2>4, NotThere
  <2> QED
    BY <1>1, <2>1, <2>5, LooksRight
<1>8. CASE IsZero(from) /\ ext # c.final
  <2> PICK place, s : place = (ext + 1) * BS /\ s = SeekSet(back, place)
    OBVIOUS
  <2>1. ReadNext(r, s, "peek")
    BY <1>8 DEF PeekRead, BS
  <2>2. x \notin DOMAIN Record
    BY <1>8 DEF IsZero
  <2>3. /\ At(p, place) /\ place > x
        /\ \A q \in Records(p) : q < place <=> q < x
    BY <1>1, <1>2, <1>3, <1>5, <1>8, <2>2, AtBlock, SMTT(40)
  <2>4. place \in Nat /\ x \in Nat
    BY <1>1, <1>2, <2>3, AtFacts
  <2>5. Place(s) = place /\ s.path = c.path /\ s.asked = c.asked /\ s.final = c.final
    BY <1>1, <1>3, <1>4, <2>4, LookPlaces
  <2>6. Looks(s)
    BY <1>1, <1>4, <2>4, LooksAnywhere
  <2>7. Passed(p, place, name)
    <3>1. Entries(p) \subseteq Records(p) /\ Parent(p) \in Nat
      BY <1>1, <1>2, EntriesAre
    <3>2. place > Parent(p)
      BY <1>2, <2>3, <2>4, <3>1 DEF Passed
    <3> QED
      BY <1>2, <2>3, <3>1, <3>2 DEF Passed
  <2>8. LookAt(s, "peek", n)
    BY <1>2, <2>3, <2>5, <2>7 DEF LookAt
  <2> QED
    BY <1>1, <2>1, <2>5, <2>6, <2>8, StillLooks
<1> QED
  BY <1>6, <1>7, <1>8

\* An entry.
LEMMA LooksEntry ==
  ASSUME NEW r \in Reader, NEW c, LookingUp(r, c), NEW from, from.place = Place(c),
         NEW n \in 0 .. Len(c.asked) - 1, LookAt(c, "record", n),
         EntryRead(r, c, RecordAt(from))
  PROVE  StepLooks(r)
<1> PICK p, x, path, name : /\ p = Way(c.asked)[n] /\ x = Place(c) /\ path = c.asked
                            /\ name = path[n + 1]
  OBVIOUS
<1>1. /\ MediumFits /\ SelvesFit /\ PathsFit /\ DOMAIN call = Reader /\ DOMAIN handle = Reader
      /\ c = call[r] /\ Looks(c) /\ path \in Path /\ Unit # {} /\ c.dir \in BOOLEAN
  BY DEF LookingUp, Looks
<1>2. /\ IsDirectory(p) /\ At(p, x) /\ Passed(p, x, name) /\ x \in DOMAIN Record
      /\ c.path = SubSeq(path, n + 1, Len(path))
      /\ c.final = FinalExtent(Record[p].extent, Record[p].data)
  BY DEF LookAt
<1>3. path \in Seq(ToSet(path)) /\ Len(path) \in Nat
  BY <1>1 DEF PathsFit
<1>4. /\ Head(c.path) = name /\ Len(c.path) = Len(path) - n
      /\ Len(c.path) # 1 => /\ n + 1 \in 0 .. Len(path) - 1
                            /\ Tail(c.path) = SubSeq(path, (n + 1) + 1, Len(path))
  BY <1>2, <1>3, PathLeft
<1> PICK rec : rec = Record[x]
  OBVIOUS
<1>5. rec = RecordAt(from)
  BY <1>2 DEF RecordAt
<1>6. /\ Entries(p) = {q \in Records(p) : q > Parent(p)} /\ Parent(p) \in Nat
      /\ x \in Records(p) /\ x \in Nat /\ rec.length \in Nat \ {0}
  BY <1>1, <1>2, EntriesAre, AtFacts, RecordsAre
<1>7. Entries(p) \subseteq Records(p) /\ x \in Entries(p)
  BY <1>2, <1>6 DEF Passed
<1>8. CASE ~IsNamed(rec, c.path)
  <2> PICK next, s : next = x + rec.length /\ s = AfterRecord(c, rec)
    OBVIOUS
  <2>1. ReadNext(r, s, "peek")
    BY <1>5, <1>8 DEF EntryRead
  <2>2. rec.name # name
    BY <1>4, <1>8 DEF IsNamed
  <2>3. At(p, next) /\ \A q \in Records(p) : q < next <=> q < x \/ q = x
    BY <1>1, <1>2, AtNext
  <2>4. Place(s) = next /\ s.path = c.path /\ s.asked = path /\ s.final = c.final
    BY <1>1, <1>5, LookPlaces
  <2>5. Looks(s)
    BY <1>1, <1>5, LooksAnywhere
  <2>6. Passed(p, next, name)
    <3>1. next > Parent(p)
      BY <1>2, <1>6 DEF Passed
    <3> QED
      BY <1>2, <1>7, <2>2, <2>3, <3>1 DEF Passed
  <2>7. LookAt(s, "peek", n)
    BY <1>2, <2>3, <2>4, <2>6 DEF LookAt
  <2> QED
    BY <1>1, <2>1, <2>4, <2>5, <2>7, StillLooks
<1>9. CASE IsNamed(rec, c.path)
  <2>1. Named(p, name) = x
    <3>1. rec.name = name
      BY <1>4, <1>9 DEF IsNamed
    <3>2. \A q \in Entries(p) : q < x => Record[q].name # name
      BY <1>2 DEF Passed
    <3>3. Record[x].name = name
      BY <3>1
    <3> QED
      BY ONLY <1>1, <1>2, <1>7, <3>2, <3>3, NamedIs
  <2> PICK k : k = n + 1
    OBVIOUS
  <2>2. k \in 1 .. Len(path) /\ k - 1 = n
    BY <1>3
  <2>3. Way(path)[k] = x
    BY <1>3, <2>1, <2>2, WayFacts
  <2>4. x # Nowhere
    BY <1>6 DEF Nowhere
  <2>5. CASE Len(c.path) = 1
    <3>1. LookedUp(r, IF rec.dir = c.dir THEN Found(rec) ELSE NotFound)
      BY <1>5, <1>9, <2>5 DEF EntryRead
    <3>2. Len(path) = k
      BY ONLY <1>3, <1>4, <2>2, <2>5
    <3>3. Resolve(path, c.dir) = IF rec.dir = c.dir THEN Found(rec) ELSE NotFound
      BY <2>3, <2>4, <3>2, Zenon DEF Resolve
    <3> QED
      BY <1>1, <3>1, <3>3, LooksRight
  <2>6. CASE Len(c.path) # 1
    <3> PICK place, s, t, tail : /\ place = rec.extent * BS /\ s = SeekSet(c, place)
                                 /\ tail = Tail(c.path) /\ t = [s EXCEPT !.path = tail]
      OBVIOUS
    <3>1. ReadNext(r, t, "self")
      <4>1. s.path = c.path
        BY <1>1, <1>5, LookPlaces, RecordFacts
      <4>2. ReadNext(r, [s EXCEPT !.path = Tail(@)], "self")
        BY <1>5, <1>9, <2>6 DEF EntryRead, BS
      <4> QED
        BY <4>1, <4>2
    <3>2. k \in 0 .. Len(path) - 1 /\ tail = SubSeq(path, k + 1, Len(path))
      BY <1>4, <2>6
    <3>3. IsDirectory(x)
      <4>1. k \in 1 .. Len(path) - 1
        BY ONLY <1>3, <2>2, <3>2
      <4>2. Record[x].dir
        BY <1>1, <2>3, <2>4, <4>1 DEF PathsFit
      <4> QED
        BY <1>2, <4>2 DEF IsDirectory
    <3>4. place \in Nat /\ place = First(x)
      <4>1. place \in Nat
        BY <1>1, <1>5, RecordFacts
      <4> QED
        BY <4>1 DEF First
    <3>5. Place(s) = place /\ s.asked = path
      BY <1>1, <3>4, LookPlaces
    <3>6. Looks(s)
      BY <1>1, <3>4, LooksAnywhere
    <3>7. Looks(t)
      BY <1>1, <3>6, LooksAnywhere
    <3>8. Place(t) = place /\ t.asked = path /\ t.path = tail
      <4>1. t = Going(s, tail)
        BY DEF Going
      <4>2. Place(t) = Place(s) /\ t.asked = s.asked /\ t.path = tail
        BY ONLY <3>6, <4>1, GoingFields
      <4> QED
        BY ONLY <3>5, <4>2
    <3>9. At(x, First(x))
      BY <1>1, <3>3, AtFirst
    <3>10. LookAt(t, "self", k)
      BY <2>3, <3>2, <3>3, <3>4, <3>8, <3>9 DEF LookAt
    <3> QED
      BY <1>1, <3>1, <3>2, <3>7, <3>8, <3>10, StillLooks
  <2> QED
    BY <2>5, <2>6
<1> QED
  BY <1>8, <1>9

\* What iso_look_up does with a byte or a record keeps the invariant, or is right.
LEMMA LookReceived ==
  ASSUME NEW r \in Reader, NEW c, LookingUp(r, c), LookFits(c),
         c.at \in {"root", "self", "parent", "peek", "record"},
         c.at = "root" => Place(c) = ROOT_DR_OFFSET,
         NEW from, from.place = Place(c), Received(r, c, from)
  PROVE  StepLooks(r)
<1>1. CASE c.at = "root"
  <2>1. c.path = c.asked /\ RootRead(r, c, RecordAt(from))
    BY <1>1 DEF LookFits, Received
  <2> QED
    BY <1>1, <2>1, LooksRoot
<1>2. CASE c.at # "root"
  <2>1. PICK n \in 0 .. Len(c.asked) - 1 : LookAt(c, c.at, n)
    BY <1>2 DEF LookFits
  <2>2. CASE c.at = "self"
    <3>1. SelfRead(r, c, RecordAt(from)) /\ LookAt(c, "self", n)
      BY <2>1, <2>2 DEF Received
    <3> QED
      BY <3>1, LooksSelf
  <2>3. CASE c.at = "parent"
    <3>1. ReadNext(r, AfterRecord(c, RecordAt(from)), "peek") /\ LookAt(c, "parent", n)
      BY <2>1, <2>3 DEF Received
    <3> QED
      BY <3>1, LooksParent
  <2>4. CASE c.at = "peek"
    <3>1. PeekRead(r, c, from) /\ LookAt(c, "peek", n)
      BY <2>1, <2>4 DEF Received
    <3> QED
      BY <3>1, LooksPeek
  <2>5. CASE c.at = "record"
    <3>1. EntryRead(r, c, RecordAt(from)) /\ LookAt(c, "record", n)
      BY <2>1, <2>5 DEF Received
    <3> QED
      BY <3>1, LooksEntry
  <2> QED
    BY <1>2, <2>2, <2>3, <2>4, <2>5
<1> QED
  BY <1>1, <1>2

\* The end of a look-up is right.
LookEnds(r) ==
    call[r].op = "look up" /\ call'[r] = Idle /\ ~Fail(r) /\ ~FailPeek(r)
      => handle'[r] = Opened(call[r], Resolve(call[r].asked, call[r].dir))

\* A step of r that keeps the invariant, and that is the end of no look-up or a right one.
LookMoves(r) ==
    /\ \E s, h : Moved(r, s, h) /\ (s.op = "look up" => LookFits(s))
    /\ LookEnds(r)

\* It is so for every reader if it is for the one that moves.
LEMMA LookKept ==
  ASSUME LookInv, NEW r \in Reader, LookMoves(r)
  PROVE  LookInv' /\ \A q \in Reader : LookEnds(q)
<1>1. PICK s, h : Moved(r, s, h) /\ (s.op = "look up" => LookFits(s))
  BY DEF LookMoves
<1>2. ASSUME NEW q \in Reader, call'[q].op = "look up"
      PROVE  LookFits(call'[q])
  <2>1. CASE q = r
    BY <1>1, <1>2, <2>1 DEF Moved
  <2>2. CASE q # r
    BY <1>1, <1>2, <2>2 DEF Moved, LookInv
  <2> QED
    BY <2>1, <2>2
<1>3. LookInv'
  BY <1>2 DEF LookInv
<1>4. ASSUME NEW q \in Reader, q # r
      PROVE  LookEnds(q)
  <2>1. call'[q] = call[q]
    BY <1>1, <1>4 DEF Moved
  <2>2. Idle.op = "none"
    BY DEF Idle
  <2>3. call[q].op = "look up" => call'[q] # Idle
    BY <2>1, <2>2
  <2> QED
    BY <2>3 DEF LookEnds
<1> QED
  BY <1>3, <1>4 DEF LookMoves

\* A reader that has no call, or one of another kind, ends no look-up.
LEMMA LookNothing ==
  ASSUME NEW r \in Reader, NEW s, NEW h, Moved(r, s, h), s.op # "look up",
         call[r].op # "look up" \/ Fail(r) \/ FailPeek(r)
  PROVE  LookMoves(r)
BY DEF LookMoves, LookEnds

\* While a handle is open its reader does not look up.
LEMMA OpenHandles ==
  ASSUME NEW s, NEW h, CallFits(s, h), h.kind # "none"
  PROVE  s.op # "look up"
<1>1. Idle.op = "none" /\ Closed.kind = "none"
  BY DEF Idle, Closed
<1>2. h # Closed
  BY <1>1
<1> QED
  BY <1>1, <1>2 DEF CallFits

\* A reader has received what it read.
LEMMA LookReads ==
  ASSUME MediumFits, SelvesFit, PathsFit, IsoInv, IsoInv', LookInv, NEW r \in Reader,
         NEW c, c = call[r], c.op # "none",
         NEW from, c.bytes = 0 \/ from = [unit |-> c.unit, place |-> Place(c)],
         Received(r, c, from)
  PROVE  LookMoves(r)
<1> PICK h : h = handle[r]
  OBVIOUS
<1>1. /\ HandleFits(h) /\ CallFits(c, h) /\ IsHandle(h)
      /\ DOMAIN call = Reader /\ DOMAIN handle = Reader
  BY DEF IsoInv, HandleFits
<1>2. c # Idle
  <2>1. Idle.op = "none"
    BY DEF Idle
  <2> QED
    BY <2>1
<1>3. PointFits(c)
  BY ONLY <1>1, <1>2 DEF CallFits
<1>4. /\ IsCall(c) /\ c.unit \in Unit /\ c.dir \in BOOLEAN
      /\ c.extent \in Nat /\ c.offset \in 0 .. BS /\ c.bytes \in Int
  BY <1>3 DEF PointFits, BS
<1>5. CASE c.op = "look up"
  <2>1. /\ c.at \in {"root", "self", "parent", "peek", "record"} /\ c.bytes > 0
        /\ c.at = "root" => Place(c) = ROOT_DR_OFFSET
    BY ONLY <1>1, <1>2, <1>5 DEF CallFits
  <2>2. from.place = Place(c)
    <3>1. c.bytes # 0
      BY ONLY <1>4, <2>1
    <3> QED
      BY ONLY <3>1, c.bytes = 0 \/ from = [unit |-> c.unit, place |-> Place(c)]
  <2>3. LookFits(c)
    BY <1>5 DEF LookInv
  <2>4. LookingUp(r, c)
    BY <1>1, <1>4, <1>5, <2>3 DEF LookingUp, Looks, LookFits
  <2>5. StepLooks(r)
    BY <2>1, <2>2, <2>3, <2>4, LookReceived
  <2>6. PICK s, g : /\ Moved(r, s, g)
                    /\ \/ s.op = "look up" /\ LookFits(s)
                       \/ s = Idle /\ g = Opened(call[r], Resolve(call[r].asked, call[r].dir))
    BY <2>5 DEF StepLooks
  <2>7. Idle.op = "none" /\ Idle.op # "look up"
    BY DEF Idle
  <2>8. s.op = "look up" => LookFits(s)
    BY <2>6, <2>7
  <2>9. LookEnds(r)
    BY <2>6, <2>7 DEF LookEnds, Moved
  <2> QED
    BY <2>6, <2>8, <2>9 DEF LookMoves
<1>6. CASE c.op # "look up"
  <2>1. h.kind # "none" /\ c.at \in {"fread", "dread peek", "dread"}
    BY ONLY <1>1, <1>2, <1>6 DEF CallFits
  <2>2. StepFits(r)
    BY <1>1, ReceivedFits
  <2>3. PICK s, g : Moved(r, s, g) /\ HandleFits(g) /\ CallFits(s, g)
    BY <2>2 DEF StepFits
  <2>4. s = call'[r] /\ g = handle'[r]
    BY <2>3 DEF Moved
  <2>5. s = Idle \/ g.kind = h.kind
    <3>1. CASE c.at = "fread"
      <4>1. call' = [call EXCEPT ![r] = Idle]
        BY <3>1 DEF Received, FileRead
      <4> QED
        BY <1>1, <2>4, <4>1
    <3>2. CASE c.at = "dread"
      <4>1. call' = [call EXCEPT ![r] = Idle]
        BY <3>2 DEF Received, DirRecord
      <4> QED
        BY <1>1, <2>4, <4>1
    <3>3. CASE c.at = "dread peek"
      <4>1. DirPeek(r, c, from)
        BY <3>3 DEF Received
      <4>2. \/ UNCHANGED handle
            \/ \E n : handle' = [handle EXCEPT ![r].cur = n]
            \/ call' = [call EXCEPT ![r] = Idle]
        BY <4>1 DEF DirPeek, ReadNext
      <4>3. CASE UNCHANGED handle
        BY <2>4, <4>3
      <4>4. CASE \E n : handle' = [handle EXCEPT ![r].cur = n]
        <5>1. PICK n : handle' = [handle EXCEPT ![r].cur = n]
          BY <4>4
        <5>2. g = [h EXCEPT !.cur = n]
          BY <1>1, <2>4, <5>1
        <5> QED
          BY <1>1, <5>2 DEF IsHandle
      <4>5. CASE call' = [call EXCEPT ![r] = Idle]
        BY <1>1, <2>4, <4>5
      <4> QED
        BY <4>2, <4>3, <4>4, <4>5
    <3> QED
      BY <2>1, <3>1, <3>2, <3>3
  <2>6. s.op # "look up"
    <3>1. Idle.op # "look up"
      BY DEF Idle
    <3>2. g.kind # "none" => s.op # "look up"
      BY <2>3, OpenHandles
    <3> QED
      BY <2>1, <2>5, <3>1, <3>2
  <2> QED
    BY <1>6, <2>3, <2>6, LookNothing
<1> QED
  BY <1>5, <1>6

\* A call that waits or has filled the cache is where it was.
LEMMA LookBusy ==
  ASSUME IsoInv, LookInv, NEW r \in Reader, call[r].op # "none",
         NEW b, call' = [call EXCEPT ![r].busy = b], UNCHANGED handle
  PROVE  LookMoves(r)
<1> PICK c, s : c = call[r] /\ s = [c EXCEPT !.busy = b]
  OBVIOUS
<1>1. CallFits(c, handle[r]) /\ DOMAIN call = Reader /\ DOMAIN handle = Reader
  BY DEF IsoInv
<1>2. IsCall(c)
  <2>1. Idle.op = "none"
    BY DEF Idle
  <2>2. c # Idle
    BY <2>1
  <2> QED
    BY ONLY <1>1, <2>2 DEF CallFits, PointFits
<1>3. s = [op |-> c.op, at |-> c.at, busy |-> b, unit |-> c.unit, extent |-> c.extent,
           offset |-> c.offset, bytes |-> c.bytes, path |-> c.path, dir |-> c.dir,
           asked |-> c.asked, final |-> c.final, over |-> c.over]
  BY ONLY <1>2, s = [c EXCEPT !.busy = b], CallSet, Zenon
<1>4. /\ s.op = c.op /\ s.at = c.at /\ s.path = c.path /\ s.asked = c.asked
      /\ s.final = c.final /\ Place(s) = Place(c)
  BY ONLY <1>3 DEF Place
<1>5. call' = [call EXCEPT ![r] = s]
  BY Zenon
<1>6. Moved(r, s, handle[r])
  BY <1>1, <1>5 DEF Moved
<1>7. s.op = "look up" => LookFits(s)
  <2> SUFFICES ASSUME s.op = "look up" PROVE LookFits(s)
    OBVIOUS
  <2>1. LookFits(c)
    BY <1>4 DEF LookInv
  <2> QED
    BY ONLY <1>4, <2>1 DEF LookFits, LookAt
<1>8. call'[r] # Idle
  <2>1. Idle.op = "none"
    BY DEF Idle
  <2>2. s.op # "none"
    BY <1>4
  <2>3. call'[r] = s
    BY ONLY <1>6 DEF Moved
  <2> QED
    BY ONLY <2>1, <2>2, <2>3
<1> QED
  BY <1>6, <1>7, <1>8 DEF LookMoves, LookEnds

\* Every step of a reader.
LEMMA LookActions ==
  ASSUME MediumFits, SelvesFit, PathsFit, ~Unprotected, IsoInv, IsoInv', LookInv,
         NEW r \in Reader, MayRun(r),
         \/ \E u \in Unit, path \in Path, dir \in BOOLEAN : Open(r, u, path, dir)
         \/ \E n \in ReadSize : IsoRead(r, n)
         \/ ReadDir(r) \/ IsoClose(r)
         \/ Hit(r) \/ Nothing(r) \/ Miss(r) \/ Fill(r) \/ Label(r)
         \/ Fail(r) \/ FailPeek(r)
  PROVE  LookMoves(r)
<1> PICK c, h : c = call[r] /\ h = handle[r]
  OBVIOUS
<1>1. /\ HandleFits(h) /\ CallFits(c, h) /\ IsHandle(h)
      /\ DOMAIN call = Reader /\ DOMAIN handle = Reader
      /\ DOMAIN call' = Reader /\ DOMAIN handle' = Reader
      /\ CallFits(call'[r], handle'[r])
  BY DEF IsoInv, HandleFits
<1>2. Idle.op = "none" /\ Idle.busy = "no"
  BY DEF Idle
<1>3. \A q \in Reader \ {r} : call[q].busy # "filled"
  BY DEF MayRun
<1>4. CASE \E u \in Unit, path \in Path, dir \in BOOLEAN : Open(r, u, path, dir)
  <2>1. PICK u \in Unit, path \in Path, dir \in BOOLEAN : Open(r, u, path, dir)
    BY <1>4
  <2>2. call[r] = Idle
    BY <2>1, OpenMoves
  <2>3. PICK s : Moved(r, s, Closed) /\ s.at = "root" /\ s.path = path /\ s.asked = path
    BY <2>1, OpenMoves
  <2>4. LookFits(s)
    BY <2>3 DEF LookFits
  <2> QED
    BY <1>2, <2>2, <2>3, <2>4 DEF LookMoves, LookEnds
<1>5. CASE (\E n \in ReadSize : IsoRead(r, n)) \/ ReadDir(r)
  <2>1. /\ call[r] = Idle /\ h.kind # "none"
        /\ \E s : call' = [call EXCEPT ![r] = s]
        /\ \/ UNCHANGED handle
           \/ \E x : handle' = [handle EXCEPT ![r].eof = x]
    BY <1>5 DEF IsoRead, ReadDir
  <2>2. PICK s : call' = [call EXCEPT ![r] = s]
    BY <2>1
  <2> PICK g : g = handle'[r]
    OBVIOUS
  <2>3. g.kind = h.kind /\ \A q \in Reader : q # r => handle'[q] = handle[q]
    <3>1. CASE UNCHANGED handle
      BY <1>1, <3>1
    <3>2. CASE \E x : handle' = [handle EXCEPT ![r].eof = x]
      <4>1. PICK x : handle' = [handle EXCEPT ![r].eof = x]
        BY <3>2
      <4>2. g = [h EXCEPT !.eof = x] /\ \A q \in Reader : q # r => handle'[q] = handle[q]
        BY <1>1, <4>1
      <4>3. [h EXCEPT !.eof = x].kind = h.kind
        BY <1>1 DEF IsHandle
      <4> QED
        BY <4>2, <4>3
    <3> QED
      BY <2>1, <3>1, <3>2
  <2>5. Moved(r, s, g)
    BY <1>1, <2>2, <2>3 DEF Moved
  <2>6. s.op # "look up"
    <3>1. CallFits(s, g)
      BY <1>1, <2>5 DEF Moved
    <3> QED
      BY <2>1, <2>3, <3>1, OpenHandles
  <2> QED
    BY <1>2, <2>1, <2>5, <2>6, LookNothing
<1>6. CASE IsoClose(r)
  <2>1. Moved(r, Idle, Closed) /\ call[r] = Idle
    BY <1>1, <1>6 DEF IsoClose, Moved
  <2> QED
    BY <1>2, <2>1, LookNothing
<1>7. CASE Hit(r)
  <2>1. c.op # "none" /\ c.busy = "no" /\ Cached(c)
    BY <1>7 DEF Hit
  <2>2. PICK from \in Bytes(c, cache.of, cache.holds) : Received(r, c, from)
    BY <1>7 DEF Hit
  <2>3. PointFits(c)
    <3>1. c # Idle
      BY <1>2, <2>1
    <3> QED
      BY ONLY <1>1, <3>1 DEF CallFits
  <2>4. \A q \in Reader : call[q].busy # "filled"
    BY <1>3, <2>1
  <2>5. from = [unit |-> c.unit, place |-> Place(c)]
    BY <2>1, <2>2, <2>3, <2>4, CachedBytes
  <2> QED
    BY <2>1, <2>2, <2>5, LookReads
<1>8. CASE Nothing(r)
  <2> PICK from : from = [unit |-> NoUnit, place |-> 0]
    OBVIOUS
  <2>1. c.op # "none" /\ c.bytes = 0 /\ Received(r, c, from)
    BY <1>8 DEF Nothing
  <2> QED
    BY <2>1, LookReads
<1>9. CASE Miss(r)
  BY <1>9, LookBusy DEF Miss
<1>10. CASE Fill(r)
  <2>1. c # Idle /\ c.busy = "waits"
    BY <1>2, <1>10 DEF Fill
  <2>2. c.op # "none"
    BY ONLY <1>1, <2>1 DEF CallFits
  <2> QED
    BY <1>10, <2>2, LookBusy DEF Fill
<1>11. CASE Label(r)
  <2>1. c # Idle
    BY <1>2, <1>11 DEF Label
  <2>2. PointFits(c) /\ c.op # "none"
    BY ONLY <1>1, <2>1 DEF CallFits
  <2>3. PICK from \in Bytes(c, c.unit, c.extent) : Received(r, c, from)
    BY <1>11 DEF Label
  <2>4. from = [unit |-> c.unit, place |-> Place(c)]
    BY <2>2, <2>3, ReadBytes
  <2> QED
    BY <2>2, <2>3, <2>4, LookReads
<1>12. CASE Fail(r) \/ FailPeek(r)
  <2>1. \E g : Moved(r, Idle, g)
    <3>1. CASE LookedUp(r, NotFound)
      BY <1>1, <3>1, LookedUpMoves
    <3>2. CASE call' = [call EXCEPT ![r] = Idle] /\ UNCHANGED handle
      <4>1. Moved(r, Idle, h)
        BY <1>1, <3>2 DEF Moved
      <4> QED
        BY <4>1
    <3>3. CASE call' = [call EXCEPT ![r] = Idle] /\ handle' = [handle EXCEPT ![r] = Closed]
      <4>1. Moved(r, Idle, Closed)
        BY <1>1, <3>3 DEF Moved
      <4> QED
        BY <4>1
    <3> QED
      BY <1>12, <3>1, <3>2, <3>3 DEF Fail, FailPeek
  <2>2. PICK g : Moved(r, Idle, g)
    BY <2>1
  <2> QED
    BY <1>2, <1>12, <2>2, LookNothing
<1> QED
  BY <1>4, <1>5, <1>6, <1>7, <1>8, <1>9, <1>10, <1>11, <1>12

\* Every step of the system.
LEMMA LookSteps ==
  ASSUME MediumFits, SelvesFit, PathsFit, ~Unprotected, IsoInv, LookInv, [IsoNext]_isoVars
  PROVE  /\ LookInv'
         /\ UNCHANGED isoVars \/ \A r \in Reader : LookEnds(r)
<1>1. CASE UNCHANGED isoVars
  BY <1>1 DEF isoVars, LookInv
<1>2. CASE IsoNext
  <2>1. PICK r \in Reader :
          /\ MayRun(r)
          /\ \/ \E u \in Unit, path \in Path, dir \in BOOLEAN : Open(r, u, path, dir)
             \/ \E n \in ReadSize : IsoRead(r, n)
             \/ ReadDir(r) \/ IsoClose(r)
             \/ Hit(r) \/ Nothing(r) \/ Miss(r) \/ Fill(r) \/ Label(r)
             \/ Fail(r) \/ FailPeek(r)
    BY <1>2, Zenon DEF IsoNext
  <2>2. IsoInv'
    BY IsoStepKeeps
  <2>3. LookMoves(r)
    BY <2>1, <2>2, LookActions
  <2> QED
    BY <2>3, LookKept
<1> QED
  BY <1>1, <1>2

\* On a well-formed medium, and with no interrupt between the filling of the cache and its
\* label, a path whose way goes through directories is found where the directories say it
\* is, or not at all if they do not have it, by any number of readers on any units
\* (iso_look_up, iso_recursive_look_up, iso_media_read).
THEOREM IsoLookupRight ==
  ASSUME MediumFits, SelvesFit, PathsFit, ~Unprotected
  PROVE  IsoSpec => LookupRight
<1>1. IsoInit => IsoInv /\ LookInv
  <2>1. ASSUME IsoInit, NEW r \in Reader
        PROVE  call[r].op # "look up"
    <3>1. call[r] = Idle
      BY <2>1 DEF IsoInit
    <3>2. Idle.op # "look up"
      BY DEF Idle
    <3> QED
      BY <3>1, <3>2
  <2> QED
    BY <2>1, IsoInitFits DEF LookInv
<1>2. IsoInv /\ LookInv /\ [IsoNext]_isoVars => (IsoInv /\ LookInv)'
  BY IsoStepKeeps, LookSteps
<1>3. IsoInv /\ LookInv /\ [IsoNext]_isoVars
        => [\A r \in Reader :
              call[r].op = "look up" /\ call'[r] = Idle /\ ~Fail(r) /\ ~FailPeek(r)
                => handle'[r] = Opened(call[r], Resolve(call[r].asked, call[r].dir))]_isoVars
  BY LookSteps DEF LookEnds
<1> QED
  BY <1>1, <1>2, <1>3, PTL DEF IsoSpec, LookupRight
=============================================================================
