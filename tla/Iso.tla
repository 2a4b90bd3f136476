-------------------------------- MODULE Iso ---------------------------------
(***************************************************************************)
(* The ISO 9660 file system of iso.c: looking paths up, reading files and  *)
(* directories, all through iso_media_read and its cache of one block.     *)
(*                                                                         *)
(* A byte is known by its place on the medium, so what a read returns is   *)
(* where its bytes came from. Directory records are the exception: Record  *)
(* says which there are. A read that is not answered from the cache waits  *)
(* in atapi_read while other readers run; with Unprotected, a process may  *)
(* also be preempted between filling the cache and labelling it.           *)
(***************************************************************************)
EXTENDS Integers, Sequences, FiniteSets, SequencesExt

CONSTANTS Reader,          \* processes that read
          Unit,            \* drives with a medium, all with the same records
          NoUnit,          \* -1
          ATAPI_BLOCKSIZE, \* 2048, less in an instance
          MAX_DR_SIZE,     \* 64, less in an instance
          ROOT_DR_OFFSET,
          Record,          \* the records, by the place of their first byte
          Path,            \* the paths looked up, sequences of names
          ReadSize,        \* the sizes asked of iso_fread
          DriveFails,      \* may atapi_read fail?
          Unprotected

NoExtent == -1

VARIABLES cache,  \* global_atapi_unit, _extent and what _block really holds
          call,   \* per reader, the call in progress and its iso_point
          handle  \* per reader, its iso_file or iso_dir

isoVars == <<cache, call, handle>>

\* iso_file, iso_dir. got and right are not in the code: how much was read, and
\* whether it was what comes next in the file or directory.
Closed == [kind |-> "none", unit |-> NoUnit, extent |-> 0, cur |-> 0, len |-> 0,
           eof |-> FALSE, got |-> 0, right |-> TRUE]

Idle == [op |-> "none", at |-> "none", busy |-> "no",
         unit |-> NoUnit, extent |-> 0, offset |-> 0, bytes |-> 0,
         path |-> <<>>, dir |-> FALSE, asked |-> <<>>, final |-> 0, over |-> FALSE]

NotFound == [extent |-> NoExtent, len |-> 0]

IsoInit ==
    /\ cache = [unit |-> NoUnit, extent |-> NoExtent, holds |-> NoExtent, of |-> NoUnit]
    /\ call = [r \in Reader |-> Idle]
    /\ handle = [r \in Reader |-> Closed]
-----------------------------------------------------------------------------
\* iso_media_seek. SEEK_CUR takes the offset past the end of the block only when
\* it is greater than the block's size.
SeekSet(c, place) ==
    [c EXCEPT !.extent = place \div ATAPI_BLOCKSIZE,
              !.offset = place % ATAPI_BLOCKSIZE]

SeekCur(c, n) ==
    LET whole == IF n < 0 THEN 0 ELSE n \div ATAPI_BLOCKSIZE
        off == c.offset + n - whole * ATAPI_BLOCKSIZE
    IN IF off > ATAPI_BLOCKSIZE
       THEN [c EXCEPT !.extent = @ + whole + 1, !.offset = off - ATAPI_BLOCKSIZE]
       ELSE [c EXCEPT !.extent = @ + whole, !.offset = off]

Place(c) == c.extent * ATAPI_BLOCKSIZE + c.offset

\* iso_media_read: how many blocks, from the start of the extent. C's division: a
\* read that ends before its block counts as one, one that ends at it as none.
BlocksToRead(c) ==
    LET last == c.offset + c.bytes IN
    IF last < 0 THEN 1
    ELSE (last \div ATAPI_BLOCKSIZE) + (IF last % ATAPI_BLOCKSIZE # 0 THEN 1 ELSE 0)

\* Mutant: the unit is not compared.
CachedAnywhere(c) == BlocksToRead(c) <= 1 /\ cache.extent = c.extent

Cached(c) ==
    /\ BlocksToRead(c) <= 1
    /\ cache.extent = c.extent
    /\ cache.unit = c.unit

\* The label is the stream's extent after the seek. What is copied from a buffer of
\* no blocks is of no unit.
LastBlock(c) ==
    [unit |-> c.unit, extent |-> SeekCur(c, c.bytes).extent,
     holds |-> c.extent + BlocksToRead(c) - 1,
     of |-> IF BlocksToRead(c) = 0 THEN NoUnit ELSE c.unit]

\* The bytes at c's offset in a block. What lies in memory before the block, or is no
\* block of a unit, may be anything: a zero or any record.
Bytes(c, unit, block) ==
    IF c.offset >= 0 /\ unit # NoUnit
    THEN {[unit |-> unit, place |-> block * ATAPI_BLOCKSIZE + c.offset]}
    ELSE {[unit |-> NoUnit, place |-> p] : p \in DOMAIN Record \cup {NoExtent}}

Peeks(c) == c.at \in {"peek", "dread peek"}

\* A byte is zero where no record begins: at the end of a block of records.
IsZero(from) == from.place \notin DOMAIN Record

\* What is found at a place that no record begins at.
RecordAt(from) ==
    IF from.place \in DOMAIN Record THEN Record[from.place]
    ELSE [length |-> MAX_DR_SIZE, name |-> "?", extent |-> 0, data |-> 0,
          dir |-> FALSE]

FinalExtent(extent, data) == extent + (data \div ATAPI_BLOCKSIZE) - 1

\* get_directory_record moves to the end of the record it read.
\* Mutant: the length of the whole buffer.
AfterBuffer(c, rec) == SeekCur(c, MAX_DR_SIZE)

AfterRecord(c, rec) == SeekCur(SeekCur(c, MAX_DR_SIZE), rec.length - MAX_DR_SIZE)

\* A call goes on to its next read.
Reading(c, at) ==
    [c EXCEPT !.at = at, !.busy = "no",
              !.bytes = IF at \in {"peek", "dread peek"} THEN 1 ELSE MAX_DR_SIZE]

ReadNext(r, c, at) ==
    /\ call' = [call EXCEPT ![r] = Reading(c, at)]
    /\ UNCHANGED handle

\* iso_fopen and iso_dopen make a handle of what iso_look_up found.
Opened(c, found) ==
    IF found = NotFound THEN Closed
    ELSE [Closed EXCEPT !.kind = IF c.dir THEN "dir" ELSE "file", !.unit = c.unit,
                        !.extent = found.extent, !.len = found.len]

LookedUp(r, found) ==
    /\ call' = [call EXCEPT ![r] = Idle]
    /\ handle' = [handle EXCEPT ![r] = Opened(call[r], found)]

Found(rec) == [extent |-> rec.extent, len |-> rec.data]

\* iso_look_up and iso_recursive_look_up after each of their reads.
RootRead(r, c, rec) ==
    IF c.path = <<>>
    THEN LookedUp(r, IF c.dir THEN Found(rec) ELSE NotFound)
    ELSE ReadNext(r, SeekSet(c, rec.extent * ATAPI_BLOCKSIZE), "self")

SelfRead(r, c, rec) ==
    ReadNext(r, [AfterRecord(c, rec) EXCEPT
                   !.final = FinalExtent(rec.extent, rec.data)], "parent")

PeekRead(r, c, from) ==
    IF ~IsZero(from) THEN ReadNext(r, SeekCur(SeekCur(c, 1), -1), "record")
    ELSE LET back == SeekCur(SeekCur(c, 1), -1) IN
         IF back.extent = c.final THEN LookedUp(r, NotFound)
         ELSE ReadNext(r, SeekSet(back, (back.extent + 1) * ATAPI_BLOCKSIZE), "peek")

\* Mutant: a name is found whatever it is.
IsSomeName(rec, path) == TRUE

IsNamed(rec, path) == rec.name = Head(path)

EntryRead(r, c, rec) ==
    IF ~IsNamed(rec, c.path) THEN ReadNext(r, AfterRecord(c, rec), "peek")
    ELSE IF Len(c.path) = 1
    THEN LookedUp(r, IF rec.dir = c.dir THEN Found(rec) ELSE NotFound)
    ELSE ReadNext(r, [SeekSet(c, rec.extent * ATAPI_BLOCKSIZE) EXCEPT
                        !.path = Tail(@)], "self")
-----------------------------------------------------------------------------
\* The places of a directory's records, in order.
Within(extent, data) == {p \in DOMAIN Record :
                           /\ p >= extent * ATAPI_BLOCKSIZE
                           /\ p < extent * ATAPI_BLOCKSIZE + data}
Nth(S, n) == CHOOSE p \in S : Cardinality({q \in S : q < p}) = n

\* iso_dread: the record, and the offset in the directory of what follows it.
DirRecord(r, c, from) ==
    LET h == handle[r]
        next == AfterRecord(c, RecordAt(from))
        all == Within(h.extent, h.len)
    IN /\ handle' = [handle EXCEPT ![r] =
                       [h EXCEPT !.cur = Place(next) - h.extent * ATAPI_BLOCKSIZE,
                                 !.got = @ + 1,
                                 !.right = @ /\ h.got < Cardinality(all)
                                             /\ from.place = Nth(all, h.got)
                                             /\ from.unit = h.unit]]
       /\ call' = [call EXCEPT ![r] = Idle]

DirPeek(r, c, from) ==
    LET h == handle[r]
        back == SeekCur(SeekCur(c, 1), -1)
    IN CASE ~IsZero(from) -> ReadNext(r, back, "dread")
         [] IsZero(from) /\ back.extent < c.final ->
              LET next == SeekSet(back, (back.extent + 1) * ATAPI_BLOCKSIZE) IN
              /\ call' = [call EXCEPT ![r] = Reading(next, "dread")]
              /\ handle' = [handle EXCEPT
                   ![r].cur = (next.extent - h.extent) * ATAPI_BLOCKSIZE]
         [] OTHER ->
              /\ handle' = [handle EXCEPT ![r] =
                              [h EXCEPT !.eof = TRUE,
                                        !.right = @ /\ h.got =
                                          Cardinality(Within(h.extent, h.len))]]
              /\ call' = [call EXCEPT ![r] = Idle]

\* The end of iso_fread: a read that would go past the end of the file moves one
\* byte past it.
FileRead(r, c, from) ==
    LET h == handle[r] IN
       /\ handle' = [handle EXCEPT ![r] =
                       [h EXCEPT !.cur = @ + c.bytes + (IF c.over THEN 1 ELSE 0),
                                 !.got = @ + c.bytes,
                                 !.right = @ /\ \/ c.bytes = 0
                                                \/ from = [unit |-> h.unit,
                                                           place |-> h.extent * ATAPI_BLOCKSIZE + h.got]]]
       /\ call' = [call EXCEPT ![r] = Idle]

\* What the bytes, which come from a place on a unit, are used for.
Received(r, c, from) ==
    CASE c.at = "root"       -> RootRead(r, c, RecordAt(from))
      [] c.at = "self"       -> SelfRead(r, c, RecordAt(from))
      [] c.at = "parent"     -> ReadNext(r, AfterRecord(c, RecordAt(from)), "peek")
      [] c.at = "peek"       -> PeekRead(r, c, from)
      [] c.at = "record"     -> EntryRead(r, c, RecordAt(from))
      [] c.at = "dread peek" -> DirPeek(r, c, from)
      [] c.at = "dread"      -> DirRecord(r, c, from)
      [] c.at = "fread"      -> FileRead(r, c, from)
-----------------------------------------------------------------------------
\* iso_media_read answers from the cache: what the block holds, whatever it is
\* labelled.
Hit(r) ==
    LET c == call[r] IN
    /\ c.op # "none" /\ c.busy = "no"
    /\ c.bytes > 0 /\ Cached(c)
    /\ \E from \in Bytes(c, cache.of, cache.holds) : Received(r, c, from)
    /\ UNCHANGED cache

Nothing(r) ==
    /\ call[r].op # "none" /\ call[r].busy = "no" /\ call[r].bytes = 0
    /\ Received(r, call[r], [unit |-> NoUnit, place |-> 0])
    /\ UNCHANGED cache

\* Or it waits for the drive.
Miss(r) ==
    /\ call[r].op # "none" /\ call[r].busy = "no"
    /\ call[r].bytes > 0 /\ ~Cached(call[r])
    /\ call' = [call EXCEPT ![r].busy = "waits"]
    /\ UNCHANGED <<cache, handle>>

\* And then copies the bytes out and the last block into the cache,
Fill(r) ==
    LET c == call[r] IN
    /\ c.busy = "waits"
    /\ cache' = [cache EXCEPT !.holds = LastBlock(c).holds, !.of = LastBlock(c).of]
    /\ call' = [call EXCEPT ![r].busy = "filled"]
    /\ UNCHANGED handle

\* seeks, and labels the cache.
Label(r) ==
    LET c == call[r] IN
    /\ c.busy = "filled"
    /\ cache' = [cache EXCEPT !.extent = LastBlock(c).extent, !.unit = c.unit]
    /\ \E from \in Bytes(c, c.unit, c.extent) : Received(r, c, from)

\* atapi_read fails: a lookup finds nothing, iso_dread returns null, iso_fread
\* -1 and the position in the file stays.
Fail(r) ==
    LET c == call[r] IN
    /\ DriveFails /\ c.busy = "waits" /\ ~Peeks(c)
    /\ IF c.op = "look up" THEN LookedUp(r, NotFound)
       ELSE /\ call' = [call EXCEPT ![r] = Idle]
            /\ UNCHANGED handle
    /\ UNCHANGED cache

\* A peek that fails goes on with a byte nobody read, a byte before its place:
\* the rest of that call is not followed.
FailPeek(r) ==
    /\ DriveFails /\ call[r].busy = "waits" /\ Peeks(call[r])
    /\ IF call[r].op = "look up" THEN LookedUp(r, NotFound)
       ELSE /\ call' = [call EXCEPT ![r] = Idle]
            /\ handle' = [handle EXCEPT ![r] = Closed]
    /\ UNCHANGED cache
-----------------------------------------------------------------------------
\* iso_fopen and iso_dopen: iso_look_up starts at the root's record.
Open(r, u, path, dir) ==
    /\ call[r] = Idle /\ handle[r] = Closed
    /\ call' = [call EXCEPT ![r] =
                  SeekSet([Idle EXCEPT !.op = "look up", !.at = "root", !.unit = u,
                                       !.bytes = MAX_DR_SIZE, !.path = path,
                                       !.asked = path, !.dir = dir], ROOT_DR_OFFSET)]
    /\ UNCHANGED <<cache, handle>>

\* iso_fread. A caller that goes on after the end gets -1, and nothing changes.
IsoRead(r, n) ==
    LET h == handle[r]
        over == n + h.cur > h.len
    IN /\ call[r] = Idle /\ h.kind = "file" /\ h.cur <= h.len
       /\ handle' = [handle EXCEPT ![r].eof = @ \/ over]
       /\ call' = [call EXCEPT ![r] =
                     SeekSet([Idle EXCEPT !.op = "fread", !.at = "fread",
                                !.unit = h.unit, !.over = over,
                                !.bytes = IF over THEN h.len - h.cur ELSE n],
                             h.extent * ATAPI_BLOCKSIZE + h.cur)]
       /\ UNCHANGED cache

ReadDir(r) ==
    LET h == handle[r] IN
    /\ call[r] = Idle /\ h.kind = "dir" /\ ~h.eof
    /\ call' = [call EXCEPT ![r] =
                  SeekSet([Idle EXCEPT !.op = "dread", !.at = "dread peek",
                             !.unit = h.unit, !.bytes = 1,
                             !.final = FinalExtent(h.extent, h.len)],
                          h.extent * ATAPI_BLOCKSIZE + h.cur)]
    /\ UNCHANGED <<cache, handle>>

\* iso_fclose, iso_dclose.
IsoClose(r) ==
    /\ call[r] = Idle /\ handle[r] # Closed
    /\ handle' = [handle EXCEPT ![r] = Closed]
    /\ UNCHANGED <<cache, call>>

\* No one else runs between the filling of the cache and its label.
MayRun(r) == Unprotected \/ \A q \in Reader \ {r} : call[q].busy # "filled"

IsoNext ==
    \E r \in Reader : MayRun(r) /\
        (\/ \E u \in Unit, path \in Path, dir \in BOOLEAN : Open(r, u, path, dir)
         \/ \E n \in ReadSize : IsoRead(r, n)
         \/ ReadDir(r) \/ IsoClose(r)
         \/ Hit(r) \/ Nothing(r) \/ Miss(r) \/ Fill(r) \/ Label(r)
         \/ Fail(r) \/ FailPeek(r))

IsoSpec == IsoInit /\ [][IsoNext]_isoVars
-----------------------------------------------------------------------------
\* What iso.c takes for granted of the medium it reads; it checks none of it.

\* A record lies in one block, and one that begins so near the end of its block that
\* get_directory_record reads into the next one ends with the block.
RecordsFit ==
    /\ IsFiniteSet(DOMAIN Record)
    /\ \A p \in DOMAIN Record :
         LET rec == Record[p]
             off == p % ATAPI_BLOCKSIZE
         IN /\ p \in Nat /\ rec.length \in Nat \ {0}
            /\ rec.extent \in Nat /\ rec.data \in Nat /\ rec.dir \in BOOLEAN
            /\ off + rec.length <= ATAPI_BLOCKSIZE
            /\ off + MAX_DR_SIZE > ATAPI_BLOCKSIZE => off + rec.length = ATAPI_BLOCKSIZE

Stop(e, d) == e * ATAPI_BLOCKSIZE + d

\* Behind p, up to the end of its block, there is no record of the directory.
RestZero(e, d, p) ==
    \A q \in Within(e, d) : q >= p => q \div ATAPI_BLOCKSIZE > p \div ATAPI_BLOCKSIZE

\* A directory is whole blocks, each of them begins with a record, records follow each
\* other up to the end of the block or to a zero, and the last one to a zero.
Directory(e, d) ==
    /\ e \in Nat /\ d \in Nat \ {0} /\ d % ATAPI_BLOCKSIZE = 0
    /\ \A b \in e .. FinalExtent(e, d) : b * ATAPI_BLOCKSIZE \in DOMAIN Record
    /\ \A p \in Within(e, d) :
         LET next == p + Record[p].length IN
         /\ \A q \in Within(e, d) : p < q => next <= q
         /\ \/ next \in DOMAIN Record
            \/ next % ATAPI_BLOCKSIZE = 0
            \/ RestZero(e, d, next)
         /\ next < Stop(e, d)

DirectoriesFit ==
    /\ ROOT_DR_OFFSET \in DOMAIN Record /\ Record[ROOT_DR_OFFSET].dir
    /\ \A p \in DOMAIN Record :
         Record[p].dir => Directory(Record[p].extent, Record[p].data)

\* The first record of a directory is its own, and its parent's follows at once.
SelvesFit ==
    \A p \in DOMAIN Record : Record[p].dir =>
        LET e == Record[p].extent
            self == Record[e * ATAPI_BLOCKSIZE]
        IN /\ self.extent = e /\ self.data = Record[p].data
           /\ e * ATAPI_BLOCKSIZE + self.length \in Within(e, Record[p].data)
-----------------------------------------------------------------------------
\* Reading a file in pieces gives its bytes, and reading a directory its records,
\* each once and in order and all of them before the end: over the blocks, and
\* whatever other readers and a drive that fails do in between. This is for pieces
\* smaller than a block; BytesOfFile is about the others.
ReadsInOrder == \A r \in Reader : handle[r].kind # "none" => handle[r].right

\* iso.h: iso_fread reads the next objects of that size from the file. Violated
\* when a read takes whole blocks from the start of one, as sys_run's do: the
\* label is then that of the block behind the one the cache holds.
BytesOfFile == \A r \in Reader : handle[r].kind = "file" => handle[r].right

\* What a path names, as the place of a record: from the root on the entry of the next
\* name, behind the directory's own record and its parent's. Nothing is below a file.
Nowhere == -1

Entries(p) ==
    LET S == Within(Record[p].extent, Record[p].data) IN S \ {Nth(S, 0), Nth(S, 1)}

Named(p, name) ==
    LET S == IF p = Nowhere \/ ~Record[p].dir THEN {}
             ELSE {q \in Entries(p) : Record[q].name = name}
    IN IF S = {} THEN Nowhere ELSE Nth(S, 0)

Way(path) ==
    LET at[n \in 0 .. Len(path)] ==
            IF n = 0 THEN ROOT_DR_OFFSET ELSE Named(at[n - 1], path[n])
    IN at

Resolve(path, dir) ==
    LET end == Way(path)[Len(path)] IN
    IF end # Nowhere /\ Record[end].dir = dir THEN Found(Record[end]) ELSE NotFound

\* The way to what a path names goes through directories. The code does not look: it
\* takes the bytes of a file for the records of a directory.
PathsFit ==
    \A path \in Path :
        /\ path \in Seq(ToSet(path))
        /\ \A n \in 1 .. Len(path) - 1 :
             LET p == Way(path)[n] IN p # Nowhere => Record[p].dir

\* iso.h: a path is found where the medium's directories say it is, as the file
\* or directory asked for, whatever other readers did to the cache meanwhile;
\* unless the drive failed.
LookupRight ==
    [][\A r \in Reader :
         call[r].op = "look up" /\ call'[r] = Idle /\ ~Fail(r) /\ ~FailPeek(r)
           => handle'[r] = Opened(call[r], Resolve(call[r].asked, call[r].dir))]_isoVars
=============================================================================
