-------------------------------- MODULE Disk --------------------------------
(***************************************************************************)
(* Bytes at any place of the disk (disk.c) from whole blocks of the drive. *)
(* disk_read and disk_write move one block per turn of their loops, and    *)
(* other processes use the drive between two turns.  One process uses the  *)
(* blocks in question; the results of ata_read and ata_write, which disk.c *)
(* ignores, are successes here.                                            *)
(***************************************************************************)
EXTENDS Naturals, Sequences

CONSTANTS ATA_BLOCKSIZE,
          Blocks,     \* of the drive
          Byte,       \* values of a byte
          MaxBytes    \* bound: bytes moved by one call

ASSUME DiskAssumption ==
    /\ {ATA_BLOCKSIZE, Blocks} \subseteq Nat \ {0}
    /\ MaxBytes \in Nat

VARIABLES disk,      \* every byte of the drive
          before,    \* the same when the call began
          op,        \* the call: "read" or "write", "idle" between calls
          place,     \* its arguments start_block_index and offset, as one place
          bytes,     \* its buffer: the source, or the destination so far
          size,      \* num_bytes
          turn       \* blocks_read_in

diskVars == <<disk, before, op, place, bytes, size, turn>>

DiskPlace == 0 .. (Blocks * ATA_BLOCKSIZE - 1)
StartBlock == place \div ATA_BLOCKSIZE
InBlock == place % ATA_BLOCKSIZE
Block(b) == (b * ATA_BLOCKSIZE) .. ((b + 1) * ATA_BLOCKSIZE - 1)

\* Mutant: a last block that is only touched is left out.
BlocksWhole == (InBlock + size) \div ATA_BLOCKSIZE

BlocksNeeded == (InBlock + size + ATA_BLOCKSIZE - 1) \div ATA_BLOCKSIZE

\* memcpy_offset, the bytes moved before this turn and those moved in it.
MemcpyOffset == IF turn = 0 THEN InBlock ELSE 0
Moved == IF turn = 0 THEN 0 ELSE turn * ATA_BLOCKSIZE - InBlock

BytesToCopy ==
    IF (size - Moved) + MemcpyOffset > ATA_BLOCKSIZE
    THEN ATA_BLOCKSIZE - MemcpyOffset ELSE size - Moved

DiskInit ==
    /\ disk \in [DiskPlace -> Byte]
    /\ before = disk
    /\ op = "idle"
    /\ place = 0
    /\ bytes = <<>>
    /\ size = 0
    /\ turn = 0

DiskCall(p, n) ==
    /\ op = "idle"
    /\ p + n <= Blocks * ATA_BLOCKSIZE
    /\ place' = p /\ size' = n /\ turn' = 0 /\ before' = disk
    /\ UNCHANGED disk

DiskRead(p, n) == DiskCall(p, n) /\ op' = "read" /\ bytes' = <<>>
DiskWrite(p, source) == DiskCall(p, Len(source)) /\ op' = "write" /\ bytes' = source

\* A turn of disk_read: ata_read of the block, memcpy of its part.
ReadTurn ==
    /\ op = "read" /\ turn < BlocksNeeded
    /\ bytes' = bytes \o
           [k \in 1 .. BytesToCopy |->
               disk[(StartBlock + turn) * ATA_BLOCKSIZE + MemcpyOffset + k - 1]]
    /\ turn' = turn + 1
    /\ UNCHANGED <<disk, before, op, place, size>>

\* A turn of disk_write: the block that is read is the first one in every turn;
\* part of it is replaced and it is written to its place.
WriteTurn ==
    /\ op = "write" /\ turn < BlocksNeeded
    /\ LET target == StartBlock + turn
           first == target * ATA_BLOCKSIZE + MemcpyOffset IN
         disk' = [q \in DiskPlace |->
                    IF q \notin Block(target) THEN disk[q]
                    ELSE IF q \in first .. (first + BytesToCopy - 1)
                         THEN bytes[Moved + q - first + 1]
                         ELSE disk[StartBlock * ATA_BLOCKSIZE + (q % ATA_BLOCKSIZE)]]
    /\ turn' = turn + 1
    /\ UNCHANGED <<before, op, place, bytes, size>>

DiskReturns ==
    /\ op \in {"read", "write"} /\ turn = BlocksNeeded
    /\ op' = "idle"
    /\ bytes' = <<>> /\ place' = 0 /\ size' = 0 /\ turn' = 0 /\ before' = disk
    /\ UNCHANGED disk

DiskNext ==
    \/ \E p \in DiskPlace, n \in 0 .. MaxBytes : DiskRead(p, n)
    \/ \E p \in DiskPlace, n \in 0 .. MaxBytes : \E source \in [1 .. n -> Byte] :
           DiskWrite(p, source)
    \/ ReadTurn \/ WriteTurn \/ DiskReturns

DiskSpec == DiskInit /\ [][DiskNext]_diskVars
-----------------------------------------------------------------------------
\* disk_read returns the bytes of the disk from the place on, whatever blocks they
\* are in.
ReadThere ==
    op = "read" /\ turn = BlocksNeeded =>
        bytes = [k \in 1 .. size |-> disk[place + k - 1]]

\* disk_write leaves the bytes at the place, whatever blocks they are in, and the
\* rest of the disk as it was: all but the blocks behind the first one, which it
\* fills up with bytes of the first.
WrittenThere ==
    op = "write" /\ turn = BlocksNeeded =>
        /\ \A k \in 1 .. size : disk[place + k - 1] = bytes[k]
        /\ \A q \in DiskPlace \ (place .. (place + size - 1)) :
               disk[q] # before[q] =>
                   \E b \in (StartBlock + 1) .. (StartBlock + BlocksNeeded - 1) : q \in Block(b)

\* A call that returns has moved the bytes it was asked to move.
BytesThere == ReadThere /\ WrittenThere
=============================================================================
