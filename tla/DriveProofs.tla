----------------------------- MODULE DriveProofs ----------------------------
(***************************************************************************)
(* What the disk keeps and gives back, for every number of processes,      *)
(* drives and blocks, every block size and every size of a call: a         *)
(* transfer that succeeds has its own blocks (Drive), and a call of disk.c *)
(* has its own bytes (Disk).                                               *)
(*                                                                         *)
(* The theorems about Drive have the hypothesis Unprotected = FALSE: with  *)
(* it no interrupt comes before the sleep it should end.                   *)
(***************************************************************************)
EXTENDS Drive, Disk, Integers, SequenceTheorems, TLAPS
-----------------------------------------------------------------------------
(* Drive: one process at a time commands the channel (OneAtATime), a drive *)
(* works for no one else (Commands, Followed), so the process that has the *)
(* mutex finds each answer to be its own (Proceeds, place by place).       *)

\* The steps of a transfer from its command on.
Started == {"packet", "test", "asleep", "data", "done"}

Operation == {"none", "read", "write", "packet", "identify", "identify packet"}
JobType == [op : Operation, block : Int, left : Int, ready : BOOLEAN]
CallType == [op : Operation, id : Drive, offset : Int, nblocks : Int]
Medium == [Reached -> Process \cup {"old", "lost"}]

DriveTypes ==
    /\ selected \in Drive
    /\ ata_mutex \subseteq Process /\ queue \subseteq Process
    /\ status \in [Drive -> SUBSET {"BSY", "RDY", "DRQ", "ERR"}]
    /\ job \in [Drive -> JobType]
    /\ medium \in [Drive -> Medium]
    /\ pc \in [Process -> Place]
    /\ call \in [Process -> CallType]
    /\ buffer \in [Process -> Seq(Drive \X Int)]
    /\ result \in [Process -> {"none", "good", "failed"}]

\* One process at a time uses the channel: ata_init alone until it is through, then
\* the one that has the mutex.
OneAtATime ==
    /\ unit \in Drive => ata_mutex = NoOne
    /\ \A p \in Process : pc[p] # "idle" =>
         IF Identifies(call[p].op) THEN p = Boot /\ unit \in Drive
         ELSE ata_mutex = {p} /\ unit \notin Drive

\* Only the drive that is selected has a command. Who has a command has something
\* to do after its last block, and only such a drive asks.
Commands ==
    \A d \in Drive :
      /\ job[d] # NoJob => d = selected
      /\ job[d] # NoJob /\ job[d].left = 0 => "BSY" \in status[d]
      /\ "DRQ" \in status[d] => job[d] # NoJob /\ job[d].left > 0

\* A command that no one follows any more is an atapi_read's, all of it read.
Followed ==
    \A d \in Drive : job[d] # NoJob =>
       job[d].left = 0 \/ \E p \in Process : pc[p] \in Started

\* The call is one the driver is asked for.
KnownCall(p) ==
    /\ call[p].nblocks >= 1
    /\ call[p].op = "write" =>
         \A k \in 1 .. call[p].nblocks : call[p].offset + k - 1 \in Reached

Unstarted(p) ==
    /\ pc[p] \in {"calm", "ready", "packet"} => buffer[p] = <<>>
    /\ pc[p] = "ready" => selected = call[p].id /\ \A d \in Drive : job[d] = NoJob
    /\ pc[p] = "packet" => call[p].op = "packet"

BlocksMoved(p) == Len(buffer[p])

Kept(p) ==
    \A k \in 1 .. BlocksMoved(p) : medium[call[p].id][call[p].offset + k - 1] = p

InOrder(p) ==
    \A k \in 1 .. BlocksMoved(p) : buffer[p][k] = <<call[p].id, call[p].offset + k - 1>>

\* The drive and the process agree on what is left; without a command the process
\* gets no further, unless it has only the end of the command to wait for.
Follows(p) ==
    /\ selected = call[p].id
    /\ InOrder(p)
    /\ pc[p] = "done" => BlocksMoved(p) = call[p].nblocks
    /\ pc[p] \in {"test", "asleep"} /\ call[p].op = "write" => BlocksMoved(p) = call[p].nblocks
    /\ job[selected] # NoJob =>
         /\ job[selected].op = call[p].op
         /\ job[selected].block = call[p].offset + BlocksMoved(p)
         /\ job[selected].left = call[p].nblocks - BlocksMoved(p)
    /\ call[p].op = "write" /\ (pc[p] # "data" \/ job[selected] # NoJob) => Kept(p)

Returns(p) ==
    /\ result[p] = "good" =>
         /\ BlocksMoved(p) = call[p].nblocks
         /\ InOrder(p)
         /\ call[p].op = "write" => Kept(p)
    /\ result[p] = "failed" => job[call[p].id] = NoJob

Proceeds(p) ==
    /\ pc[p] # "idle" => KnownCall(p) /\ Unstarted(p)
    /\ pc[p] \in Started => Follows(p)
    /\ pc[p] = "over" => Returns(p)
    /\ p \in queue => pc[p] = "asleep"

DriveInv ==
    /\ DriveTypes /\ OneAtATime /\ Commands /\ Followed
    /\ \A p \in Process : Proceeds(p)
-----------------------------------------------------------------------------
\* Of two processes that command the channel, both are one.
LEMMA Alone ==
    ASSUME OneAtATime, NEW p \in Process, NEW q \in Process, pc[p] # "idle", pc[q] # "idle"
    PROVE  p = q
BY DEF OneAtATime, NoOne

\* A step of the process that uses the channel leaves the others where they are.
LEMMA OthersProceed ==
    ASSUME DriveInv, NEW p \in Process, pc[p] # "idle",
           \A q \in Process \ {p} : pc'[q] = pc[q],
           queue' \subseteq queue \cup {p},
           Proceeds(p)'
    PROVE  \A q \in Process : Proceeds(q)'
<1> SUFFICES ASSUME NEW q \in Process, q # p PROVE Proceeds(q)'
  OBVIOUS
<1>1. pc[q] = "idle"
  BY Alone DEF DriveInv
<1>2. q \notin queue
  BY <1>1 DEF DriveInv, Proceeds
<1> QED
  BY <1>1, <1>2 DEF Proceeds, Started

\* A drive without a command is ready or silent.
LEMMA IdleFacts ==
    ASSUME NEW d
    PROVE  /\ Idle(d) \subseteq {"RDY"}
           /\ "DRQ" \notin Idle(d) /\ "BSY" \notin Idle(d)
BY DEF Idle

\* What stands for no command and no call.
LEMMA NoJobFacts ==
    /\ NoJob \in JobType /\ NoJob.op = "none"
    /\ NoCall \in CallType
BY DriveAssumption DEF NoJob, NoCall, JobType, CallType, Operation

\* Before the probe nothing has been commanded.
LEMMA DriveInitInv == Init => DriveInv
<1> SUFFICES ASSUME Init PROVE DriveInv
  OBVIOUS
<1>1. DriveTypes
  BY DriveAssumption, NoJobFacts, IdleFacts DEF Init, DriveTypes, Place, NoOne, Medium
<1>2. Commands /\ Followed
  BY IdleFacts DEF Init, Commands, Followed
<1> QED
  BY <1>1, <1>2 DEF Init, DriveInv, OneAtATime, Proceeds, Started
-----------------------------------------------------------------------------
\* The probe resets the channel: its drives have no command.
LEMMA ResetFacts ==
    ASSUME DriveInv, Reset
    PROVE  /\ selected' \in Drive
           /\ status' \in [Drive -> SUBSET {"BSY", "RDY", "DRQ", "ERR"}]
           /\ job' \in [Drive -> JobType]
           /\ medium' \in [Drive -> Medium]
           /\ \A d \in Drive : job'[d] = NoJob
           /\ Commands' /\ Followed'
<1>1. selected' \in Drive /\ job' \in [Drive -> JobType] /\ medium' \in [Drive -> Medium]
      /\ \A d \in Drive : job'[d] = NoJob
  BY DriveAssumption, NoJobFacts DEF Reset, DriveInv, DriveTypes
<1>2. \A d \in Drive : status'[d] = Idle(d)
  BY DEF Reset
<1>3. status' \in [Drive -> SUBSET {"BSY", "RDY", "DRQ", "ERR"}]
  BY IdleFacts DEF Reset
<1> QED
  BY <1>1, <1>2, <1>3, IdleFacts DEF Commands, Followed

\* The probe finds no drive.
LEMMA ProbeEmptyInv == DriveInv /\ ProbeEmpty => DriveInv'
<1> SUFFICES ASSUME DriveInv, ProbeEmpty PROVE DriveInv'
  OBVIOUS
<1>1. unit \in Drive /\ pc[Boot] = "idle" /\ ata_mutex' = ata_mutex /\ pc' = pc /\ queue' = queue
  BY DEF ProbeEmpty
<1>2. \A p \in Process : pc[p] = "idle"
  BY <1>1 DEF DriveInv, OneAtATime, NoOne
<1>3. DriveTypes' /\ Commands' /\ Followed'
  BY DEF ProbeEmpty, channel, DriveInv, DriveTypes, Commands, Followed
<1>4. OneAtATime'
  BY <1>1, <1>2 DEF DriveInv, OneAtATime, NoOne
<1>5. \A p \in Process : Proceeds(p)'
  BY <1>1, <1>2 DEF DriveInv, Proceeds, Started
<1> QED
  BY <1>3, <1>4, <1>5 DEF DriveInv

\* The probe selects, resets and identifies, drive after drive.
LEMMA ProbeInv == DriveInv /\ Probe => DriveInv'
<1> SUFFICES ASSUME DriveInv, Probe PROVE DriveInv'
  OBVIOUS
<1> PICK c : c = [op |-> "identify", id |-> unit, offset |-> 0, nblocks |-> 1]
  OBVIOUS
<1>1. /\ unit \in Drive /\ pc[Boot] = "idle" /\ Reset
      /\ UNCHANGED <<ata_interrupt_active, queue, ata_mutex, unit, found>>
      /\ call' = [call EXCEPT ![Boot] = c]
      /\ buffer' = [buffer EXCEPT ![Boot] = <<>>]
      /\ result' = [result EXCEPT ![Boot] = "none"]
      /\ pc' = [pc EXCEPT ![Boot] = "calm"]
  BY DEF Probe, Begins, Goes, driver
<1>2. \A p \in Process : pc[p] = "idle"
  BY <1>1 DEF DriveInv, OneAtATime, NoOne
<1>3. Boot \in Process /\ c \in CallType /\ Identifies(c.op) /\ c.nblocks = 1 /\ c.op # "write"
  BY <1>1, DriveAssumption DEF CallType, Operation, Identifies
<1>4. pc'[Boot] = "calm" /\ call'[Boot] = c /\ buffer'[Boot] = <<>>
      /\ \A q \in Process \ {Boot} : pc'[q] = "idle"
  BY <1>1, <1>2, <1>3 DEF DriveInv, DriveTypes
<1>5. DriveTypes'
  BY <1>1, <1>3, ResetFacts DEF DriveInv, DriveTypes, Place, Waits
<1>6. OneAtATime'
  BY <1>1, <1>3, <1>4 DEF DriveInv, OneAtATime, NoOne
<1>7. \A p \in Process : Proceeds(p)'
  BY <1>1, <1>2, <1>3, <1>4 DEF DriveInv, Proceeds, KnownCall, Unstarted, Started
<1> QED
  BY <1>1, <1>5, <1>6, <1>7, ResetFacts DEF DriveInv

\* mutex_lock: the call begins when the mutex is free.
LEMMA LockInv ==
    ASSUME DriveInv, NEW p \in Process, NEW c \in Call, Lock(p, c)
    PROVE  DriveInv'
<1>1. /\ unit \notin Drive /\ pc[p] = "idle" /\ ata_mutex = NoOne /\ ata_mutex' = {p}
      /\ UNCHANGED <<queue, unit, kind, selected, status, job, medium>>
      /\ call' = [call EXCEPT ![p] = c]
      /\ buffer' = [buffer EXCEPT ![p] = <<>>]
      /\ result' = [result EXCEPT ![p] = "none"]
      /\ pc' = [pc EXCEPT ![p] = "calm"]
  BY DEF Lock, Begins, Goes, channel
<1>2. \A q \in Process : pc[q] = "idle"
  BY <1>1 DEF DriveInv, OneAtATime, NoOne
<1>3. PICK d \in Drive : c \in [op : Op(kind[d]), id : {d}, offset : Offset, nblocks : 1 .. MaxBlocks]
  BY DEF Call
<1>4. c.op \in {"read", "write", "packet"} /\ c.id \in Drive /\ c.offset \in Offset
      /\ c.nblocks \in 1 .. MaxBlocks
  BY <1>3 DEF Op
<1>5. c \in CallType
  <2>1. c.op \in Operation
    BY <1>4 DEF Operation
  <2>2. c.offset \in Int
    <3>1. Offset \subseteq Nat
      BY DriveAssumption
    <3>2. c.offset \in Nat
      BY <1>4, <3>1
    <3> QED
      BY <3>2
  <2>3. c.nblocks \in Int
    BY <1>4
  <2> QED
    BY <1>3, <1>4, <2>1, <2>2, <2>3 DEF CallType
<1>6. \A k \in 1 .. c.nblocks : c.offset + k - 1 \in Reached
  <2> SUFFICES ASSUME NEW k \in 1 .. c.nblocks PROVE c.offset + k - 1 \in Reached
    OBVIOUS
  <2>1. k - 1 \in 0 .. MaxBlocks - 1 /\ c.offset + k - 1 = c.offset + (k - 1)
    BY <1>4, DriveAssumption
  <2> QED
    BY <1>4, <2>1 DEF Reached
<1>7. pc'[p] = "calm" /\ call'[p] = c /\ buffer'[p] = <<>>
      /\ \A q \in Process \ {p} : pc'[q] = "idle"
  BY <1>1, <1>2 DEF DriveInv, DriveTypes
<1>8. DriveTypes'
  BY <1>1, <1>5 DEF DriveInv, DriveTypes, Place, Waits
<1>9. OneAtATime'
  BY <1>1, <1>4, <1>7 DEF DriveInv, OneAtATime, Identifies
<1>10. Commands' /\ Followed'
  BY <1>1, <1>2 DEF DriveInv, Commands, Followed, Started
<1>11. \A q \in Process : Proceeds(q)'
  BY <1>1, <1>2, <1>4, <1>6, <1>7 DEF DriveInv, Proceeds, KnownCall, Unstarted, Started
<1> QED
  BY <1>8, <1>9, <1>10, <1>11 DEF DriveInv
-----------------------------------------------------------------------------
\* What a step of the process that has the channel leaves to be shown.
LEMMA StepShown ==
    ASSUME DriveInv, NEW p \in Process, pc[p] # "idle",
           \A q \in Process \ {p} : pc'[q] = pc[q],
           queue' \subseteq queue \cup {p},
           DriveTypes', OneAtATime', Commands', Followed', Proceeds(p)'
    PROVE  DriveInv'
BY OthersProceed DEF DriveInv

\* The process goes on with its call.
LEMMA SameCall ==
    ASSUME DriveInv, NEW p \in Process, pc[p] # "idle",
           \A q \in Process \ {p} : pc'[q] = pc[q],
           UNCHANGED <<ata_mutex, unit, call>>
    PROVE  OneAtATime'
BY DEF DriveInv, OneAtATime, NoOne

\* An identification is over.
LEMMA IdentifiedInv ==
    ASSUME DriveInv, NEW p \in Process, Identified(p)
    PROVE  DriveInv'
<1>1. pc[p] = "over" /\ Identifies(call[p].op)
      /\ UNCHANGED <<ata_interrupt_active, queue, ata_mutex, kind, selected, status, job, medium>>
  BY DEF Identified, channel
<1>2. ~(\E q \in Process : pc[q] \in Started)
  BY <1>1, Alone DEF DriveInv, Started
<1>3. Commands' /\ Followed'
  BY <1>1, <1>2 DEF DriveInv, Commands, Followed
<1>4. p = Boot /\ unit \in Drive /\ ata_mutex = NoOne
  BY <1>1 DEF DriveInv, OneAtATime
<1>5. CASE call[p].op = "identify" /\ result[p] = "failed"
  <2> PICK c : c = [call[p] EXCEPT !.op = "identify packet"]
    OBVIOUS
  <2>1. /\ call' = [call EXCEPT ![p] = c]
        /\ buffer' = [buffer EXCEPT ![p] = <<>>]
        /\ result' = [result EXCEPT ![p] = "none"]
        /\ pc' = [pc EXCEPT ![p] = "calm"]
        /\ unit' = unit
    BY <1>5 DEF Identified, Begins, Goes
  <2>2. c \in CallType /\ c.op = "identify packet" /\ c.nblocks = call[p].nblocks
    BY DEF DriveInv, DriveTypes, CallType, Operation
  <2>3. DriveTypes'
    <3>1. call' \in [Process -> CallType]
      BY <2>1, <2>2 DEF DriveInv, DriveTypes
    <3>2. pc' \in [Process -> Place]
      BY <2>1 DEF DriveInv, DriveTypes, Place, Waits
    <3>3. buffer' \in [Process -> Seq(Drive \X Int)]
      <4>1. buffer' = [buffer EXCEPT ![p] = <<>>] /\ <<>> \in Seq(Drive \X Int)
        BY <2>1, EmptySeq, Zenon
      <4> QED
        BY <4>1 DEF DriveInv, DriveTypes
    <3>4. result' \in [Process -> {"none", "good", "failed"}]
      BY <2>1 DEF DriveInv, DriveTypes
    <3> QED
      BY <1>1, <3>1, <3>2, <3>3, <3>4 DEF DriveInv, DriveTypes
  <2>4. pc'[p] = "calm" /\ call'[p] = c /\ buffer'[p] = <<>>
        /\ \A q \in Process \ {p} : pc'[q] = pc[q] /\ call'[q] = call[q]
    BY <2>1 DEF DriveInv, DriveTypes
  <2>5. OneAtATime'
    <3>1. Identifies(call'[p].op)
      BY <2>2, <2>4 DEF Identifies
    <3>2. \A q \in Process \ {p} : pc'[q] = "idle"
      BY <1>1, <2>4, Alone DEF DriveInv
    <3> QED
      BY <1>1, <1>4, <2>1, <3>1, <3>2 DEF OneAtATime
  <2>6. Proceeds(p)'
    BY <1>1, <2>2, <2>4 DEF DriveInv, Proceeds, KnownCall, Unstarted, Started
  <2> QED
    BY <1>1, <1>3, <2>3, <2>4, <2>5, <2>6, StepShown
<1>6. CASE ~(call[p].op = "identify" /\ result[p] = "failed")
  <2>1. /\ call' = [call EXCEPT ![p] = NoCall]
        /\ buffer' = [buffer EXCEPT ![p] = <<>>]
        /\ result' = [result EXCEPT ![p] = "none"]
        /\ pc' = [pc EXCEPT ![p] = "idle"]
    BY <1>6 DEF Identified, Begins, Goes
  <2>2. DriveTypes'
    BY <1>1, <2>1, NoJobFacts DEF DriveInv, DriveTypes, Place
  <2>3. pc'[p] = "idle" /\ \A q \in Process \ {p} : pc'[q] = pc[q] /\ call'[q] = call[q]
    BY <2>1 DEF DriveInv, DriveTypes
  <2>4. \A q \in Process : pc'[q] = "idle"
    BY <1>1, <2>3, Alone DEF DriveInv
  <2>5. OneAtATime'
    BY <1>1, <1>4, <2>4 DEF OneAtATime, NoOne
  <2>6. Proceeds(p)'
    BY <1>1, <2>3 DEF DriveInv, Proceeds, Started
  <2> QED
    BY <1>1, <1>3, <2>2, <2>3, <2>5, <2>6, StepShown
<1> QED
  BY <1>5, <1>6

\* mutex_unlock ends the call.
LEMMA UnlockInv ==
    ASSUME DriveInv, NEW p \in Process, Unlock(p)
    PROVE  DriveInv'
<1>1. /\ pc[p] = "over" /\ ~Identifies(call[p].op)
      /\ UNCHANGED <<queue, unit, kind, selected, status, job, medium>>
      /\ ata_mutex' = NoOne
      /\ call' = [call EXCEPT ![p] = NoCall]
      /\ buffer' = [buffer EXCEPT ![p] = <<>>]
      /\ result' = [result EXCEPT ![p] = "none"]
      /\ pc' = [pc EXCEPT ![p] = "idle"]
  BY DEF Unlock, Begins, Goes, channel
<1>2. ~(\E q \in Process : pc[q] \in Started)
  BY <1>1, Alone DEF DriveInv, Started
<1>3. Commands' /\ Followed'
  BY <1>1, <1>2 DEF DriveInv, Commands, Followed
<1>4. DriveTypes'
  BY <1>1, NoJobFacts DEF DriveInv, DriveTypes, Place, NoOne
<1>5. pc'[p] = "idle" /\ \A q \in Process \ {p} : pc'[q] = pc[q]
  BY <1>1 DEF DriveInv, DriveTypes
<1>6. \A q \in Process : pc'[q] = "idle"
  BY <1>1, <1>5, Alone DEF DriveInv
<1>7. OneAtATime'
  BY <1>1, <1>6 DEF OneAtATime
<1>8. Proceeds(p)'
  BY <1>1, <1>5 DEF DriveInv, Proceeds, Started
<1> QED
  BY <1>1, <1>3, <1>4, <1>5, <1>7, <1>8, StepShown

\* The drive is selected and given time.
LEMMA SelectInv ==
    ASSUME DriveInv, NEW p \in Process, Select(p)
    PROVE  DriveInv'
<1>1. /\ pc[p] = "calm" /\ Seen(p)
      /\ selected' = call[p].id
      /\ pc' = [pc EXCEPT ![p] = "ready"]
      /\ UNCHANGED <<ata_mutex, unit, queue, kind, status, job, medium, call, buffer, result>>
  BY DEF Select, Goes, driver
<1>2. ~(\E q \in Process : pc[q] \in Started)
  BY <1>1, Alone DEF DriveInv, Started
<1>3. \A d \in Drive : job[d] = NoJob
  <2> SUFFICES ASSUME NEW d \in Drive, job[d] # NoJob PROVE FALSE
    OBVIOUS
  <2>1. d = selected /\ job[d].left = 0 /\ "BSY" \in status[selected]
    BY <1>2 DEF DriveInv, Commands, Followed
  <2>2. "BSY" \notin status[selected]
    BY <1>1 DEF Seen, Mask, Wanted
  <2> QED
    BY <2>1, <2>2
<1>4. pc'[p] = "ready" /\ \A q \in Process \ {p} : pc'[q] = pc[q]
  BY <1>1 DEF DriveInv, DriveTypes
<1>5. DriveTypes'
  BY <1>1 DEF DriveInv, DriveTypes, Place, Waits, CallType
<1>6. Commands' /\ Followed'
  BY <1>1, <1>3 DEF DriveInv, Commands, Followed
<1>7. Proceeds(p)'
  BY <1>1, <1>3, <1>4 DEF DriveInv, Proceeds, Started, KnownCall, Unstarted
<1> QED
  BY <1>1, <1>4, <1>5, <1>6, <1>7, SameCall, StepShown

\* The registers are written, with the command last.
LEMMA CommandInv ==
    ASSUME DriveInv, NEW p \in Process, Command(p)
    PROVE  DriveInv'
<1> PICK c \in CallType : c = call[p]
  BY DEF DriveInv, DriveTypes
<1> PICK next : next = AfterCommand(c.op)
  OBVIOUS
<1>1. /\ pc[p] = "ready"
      /\ pc' = [pc EXCEPT ![p] = next]
      /\ UNCHANGED <<ata_mutex, unit, queue, kind, selected, medium, call, buffer, result>>
  BY DEF Command, Goes, driver
<1>2. next \in {"test", "packet", "data"} /\ (next = "packet" <=> c.op = "packet")
      /\ (next = "test" <=> c.op = "read")
  BY DEF AfterCommand
<1>3. pc'[p] = next /\ \A q \in Process \ {p} : pc'[q] = pc[q]
  BY <1>1 DEF DriveInv, DriveTypes
<1>4. selected = c.id /\ selected \in Drive /\ buffer[p] = <<>> /\ BlocksMoved(p) = 0
      /\ \A d \in Drive : job[d] = NoJob
  BY <1>1 DEF DriveInv, DriveTypes, Proceeds, Unstarted, BlocksMoved
<1>5. KnownCall(p) /\ c.nblocks \in Int /\ c.offset \in Int /\ p \notin queue
  BY <1>1 DEF DriveInv, Proceeds, CallType
<1>6. InOrder(p)' /\ Kept(p)' /\ BlocksMoved(p)' = 0 /\ KnownCall(p)'
  BY <1>1, <1>4, <1>5 DEF InOrder, Kept, BlocksMoved, KnownCall
<1>7. CASE Knows(selected, c.op)
  <2> PICK j : j = [op |-> c.op, block |-> c.offset, left |-> c.nblocks, ready |-> FALSE]
    OBVIOUS
  <2>1. /\ job' = [job EXCEPT ![selected] = j]
        /\ status' = [status EXCEPT ![selected] = {"BSY"}]
    BY <1>7 DEF Command
  <2>2. j \in JobType
    BY DEF CallType, JobType
  <2>3. DriveTypes'
    BY <1>1, <1>2, <2>1, <2>2 DEF DriveInv, DriveTypes, Place, Waits
  <2>4. job'[selected] = j /\ status'[selected] = {"BSY"}
        /\ \A d \in Drive \ {selected} : job'[d] = NoJob /\ status'[d] = status[d]
    BY <1>4, <2>1 DEF DriveInv, DriveTypes
  <2>5. Commands'
    BY <1>1, <1>4, <2>4 DEF DriveInv, Commands
  <2>6. Followed'
    BY <1>2, <1>3 DEF Followed, Started
  <2>7. Follows(p)'
    BY <1>1, <1>2, <1>3, <1>4, <1>5, <1>6, <2>4 DEF Follows
  <2>8. Proceeds(p)'
    BY <1>1, <1>2, <1>3, <1>4, <1>5, <1>6, <2>7 DEF Proceeds, Unstarted, Started
  <2> QED
    BY <1>1, <1>3, <2>3, <2>5, <2>6, <2>8, SameCall, StepShown
<1>8. CASE ~Knows(selected, c.op)
  <2> PICK s \in SUBSET {"RDY", "ERR"} : status' = [status EXCEPT ![selected] = s]
    <3> DEFINE s == IF kind[selected] = "none" THEN {} ELSE Idle(selected) \cup {"ERR"}
    <3>1. s \in SUBSET {"RDY", "ERR"}
      BY IdleFacts
    <3>2. status' = [status EXCEPT ![selected] = s]
      BY <1>8 DEF Command
    <3> QED
      BY <3>1, <3>2
  <2>1. job' = job
    BY <1>8 DEF Command
  <2>3. DriveTypes'
    BY <1>1, <1>2, <2>1 DEF DriveInv, DriveTypes, Place, Waits
  <2>4. status'[selected] = s /\ \A d \in Drive \ {selected} : status'[d] = status[d]
    BY <1>4 DEF DriveInv, DriveTypes
  <2>5. Commands' /\ Followed'
    BY <1>1, <1>4, <2>1, <2>4 DEF DriveInv, Commands, Followed
  <2>7. Follows(p)'
    BY <1>1, <1>2, <1>3, <1>4, <1>5, <1>6, <2>1 DEF Follows
  <2>8. Proceeds(p)'
    BY <1>1, <1>2, <1>3, <1>4, <1>5, <1>6, <2>7 DEF Proceeds, Unstarted, Started
  <2> QED
    BY <1>1, <1>3, <2>3, <2>5, <2>8, SameCall, StepShown
<1> QED
  BY <1>7, <1>8

\* An ATAPI drive takes its packet.
LEMMA SendPacketInv ==
    ASSUME DriveInv, NEW p \in Process, SendPacket(p)
    PROVE  DriveInv'
<1>1. /\ pc[p] = "packet" /\ Seen(p)
      /\ job' = [job EXCEPT ![selected].ready = TRUE]
      /\ status' = [status EXCEPT ![selected] = {"BSY"}]
      /\ pc' = [pc EXCEPT ![p] = "test"]
      /\ UNCHANGED <<ata_mutex, unit, queue, kind, selected, medium, call, buffer, result>>
  BY DEF SendPacket, Goes, driver
<1>2. pc'[p] = "test" /\ \A q \in Process \ {p} : pc'[q] = pc[q]
  BY <1>1 DEF DriveInv, DriveTypes
<1>3. "DRQ" \in status[selected] /\ selected \in Drive
  BY <1>1 DEF Seen, Mask, Wanted, DriveInv, DriveTypes
<1>4. job[selected] # NoJob /\ job[selected].left > 0
  BY <1>3 DEF DriveInv, Commands
<1> PICK j : j = [job[selected] EXCEPT !.ready = TRUE]
  OBVIOUS
<1>5. j \in JobType /\ j.op = job[selected].op /\ j.block = job[selected].block
      /\ j.left = job[selected].left
  BY <1>3 DEF DriveInv, DriveTypes, JobType
<1>6. job' = [job EXCEPT ![selected] = j]
  BY <1>1
<1>7. job'[selected] = j /\ status'[selected] = {"BSY"}
      /\ \A d \in Drive \ {selected} : job'[d] = job[d] /\ status'[d] = status[d]
  BY <1>1, <1>3, <1>6 DEF DriveInv, DriveTypes
<1>8. DriveTypes'
  BY <1>1, <1>5, <1>6 DEF DriveInv, DriveTypes, Place
<1>9. Commands'
  BY <1>1, <1>7 DEF DriveInv, Commands
<1>10. Followed'
  BY <1>2 DEF Followed, Started
<1>11. Follows(p) /\ KnownCall(p) /\ call[p].op = "packet" /\ p \notin queue
  BY <1>1 DEF DriveInv, Proceeds, Unstarted, Started
<1>12. InOrder(p)' /\ BlocksMoved(p)' = BlocksMoved(p) /\ KnownCall(p)'
  BY <1>1, <1>11 DEF Follows, InOrder, BlocksMoved, KnownCall
<1>13. Follows(p)'
  BY <1>1, <1>2, <1>4, <1>5, <1>7, <1>11, <1>12 DEF Follows
<1>14. Proceeds(p)'
  BY <1>1, <1>2, <1>11, <1>12, <1>13 DEF Proceeds, Unstarted
<1> QED
  BY <1>1, <1>2, <1>8, <1>9, <1>10, <1>14, SameCall, StepShown

\* The process waits for the interrupt.
LEMMA SleepInv ==
    ASSUME DriveInv, NEW p \in Process, Sleep(p)
    PROVE  DriveInv'
<1>1. /\ pc[p] = "test"
      /\ UNCHANGED <<ata_mutex, unit, kind, selected, status, job, medium, call, buffer, result>>
  BY DEF Sleep, channel
<1>2. Follows(p) /\ KnownCall(p) /\ p \notin queue
  BY <1>1 DEF DriveInv, Proceeds, Started
<1> PICK next : /\ next \in {"asleep", AfterTest(call[p].op)}
                /\ pc' = [pc EXCEPT ![p] = next]
                /\ queue' = IF next = "asleep" THEN queue \cup {p} ELSE queue
  <2>1. AfterTest(call[p].op) # "asleep"
    BY DEF AfterTest
  <2>2. CASE ata_interrupt_active
    BY <2>2 DEF Sleep, Goes
  <2>3. CASE ~ata_interrupt_active
    BY <2>1, <2>3 DEF Sleep, Goes
  <2> QED
    BY <2>2, <2>3
<1>3. next \in {"asleep", "done", "data"} /\ (next = "done" => call[p].op = "write")
      /\ (next = "data" => call[p].op # "write")
  BY DEF AfterTest
<1>4. pc'[p] = next /\ \A q \in Process \ {p} : pc'[q] = pc[q]
  BY <1>1 DEF DriveInv, DriveTypes
<1>5. DriveTypes'
  BY <1>1, <1>3 DEF DriveInv, DriveTypes, Place, Waits
<1>6. Commands'
  BY <1>1 DEF DriveInv, Commands
<1>7. Followed'
  BY <1>3, <1>4 DEF Followed, Started
<1>8. InOrder(p)' /\ Kept(p)' = Kept(p) /\ BlocksMoved(p)' = BlocksMoved(p) /\ KnownCall(p)'
  BY <1>1, <1>2 DEF Follows, InOrder, Kept, BlocksMoved, KnownCall
<1>9. Follows(p)'
  BY <1>1, <1>2, <1>3, <1>4, <1>8 DEF Follows
<1>10. p \in queue' => pc'[p] = "asleep"
  BY <1>2, <1>4
<1>11. Proceeds(p)'
  BY <1>3, <1>4, <1>8, <1>9, <1>10 DEF Proceeds, Unstarted, Started
<1>12. queue' \subseteq queue \cup {p}
  OBVIOUS
<1> QED
  BY <1>1, <1>4, <1>5, <1>6, <1>7, <1>11, <1>12, SameCall, StepShown

\* The transfer has ended well.
LEMMA DoneInv ==
    ASSUME DriveInv, NEW p \in Process, Done(p)
    PROVE  DriveInv'
<1>1. /\ pc[p] = "done" /\ Seen(p)
      /\ pc' = [pc EXCEPT ![p] = "over"]
      /\ result' = [result EXCEPT ![p] = "good"]
      /\ UNCHANGED <<queue, ata_mutex, unit, kind, selected, status, job, medium, call, buffer>>
  BY DEF Done, Goes, driver, channel
<1>2. Follows(p) /\ KnownCall(p) /\ p \notin queue
  BY <1>1 DEF DriveInv, Proceeds, Started
<1>3. "BSY" \notin status[selected] /\ selected \in Drive
  BY <1>1 DEF Seen, Mask, Wanted, DriveInv, DriveTypes
<1>4. BlocksMoved(p) = call[p].nblocks /\ call[p].nblocks \in Int
  BY <1>1, <1>2 DEF Follows, DriveInv, DriveTypes, CallType
<1>5. \A d \in Drive : job[d] = NoJob
  BY <1>2, <1>3, <1>4 DEF Follows, DriveInv, Commands
<1>6. pc'[p] = "over" /\ result'[p] = "good" /\ \A q \in Process \ {p} : pc'[q] = pc[q]
  BY <1>1 DEF DriveInv, DriveTypes
<1>7. DriveTypes'
  BY <1>1 DEF DriveInv, DriveTypes, Place
<1>8. Commands' /\ Followed'
  BY <1>1, <1>5 DEF DriveInv, Commands, Followed
<1>9. InOrder(p)' /\ Kept(p)' = Kept(p) /\ BlocksMoved(p)' = BlocksMoved(p) /\ KnownCall(p)'
  BY <1>1, <1>2 DEF Follows, InOrder, Kept, BlocksMoved, KnownCall
<1>10. call[p].op = "write" => Kept(p)
  BY <1>1, <1>2 DEF Follows
<1>11. Proceeds(p)'
  BY <1>1, <1>2, <1>4, <1>6, <1>9, <1>10 DEF Proceeds, Unstarted, Returns, Started
<1> QED
  BY <1>1, <1>6, <1>7, <1>8, <1>11, SameCall, StepShown

\* The drive has failed or does not answer in time.
LEMMA WaitFailsInv ==
    ASSUME Unprotected = FALSE, DriveInv, NEW p \in Process, WaitFails(p)
    PROVE  DriveInv'
<1>1. /\ pc[p] \in Waits /\ pc[p] # "packet" /\ Reset
      /\ pc' = [pc EXCEPT ![p] = "over"]
      /\ result' = [result EXCEPT ![p] = "failed"]
      /\ UNCHANGED <<queue, ata_mutex, unit, call, buffer>>
  BY DEF WaitFails, GivesUp, Goes, driver
<1>2. KnownCall(p) /\ p \notin queue /\ pc[p] # "idle"
  BY <1>1 DEF DriveInv, Proceeds, Waits
<1>3. pc'[p] = "over" /\ result'[p] = "failed" /\ \A q \in Process \ {p} : pc'[q] = pc[q]
  BY <1>1 DEF DriveInv, DriveTypes
<1>4. DriveTypes'
  BY <1>1, ResetFacts DEF DriveInv, DriveTypes, Place
<1>5. KnownCall(p)'
  BY <1>1, <1>2 DEF KnownCall
<1>6. call'[p].id \in Drive
  BY <1>1 DEF DriveInv, DriveTypes, CallType
<1>7. Proceeds(p)'
  BY <1>1, <1>2, <1>3, <1>5, <1>6, ResetFacts DEF Proceeds, Unstarted, Returns, Started
<1> QED
  BY <1>1, <1>2, <1>3, <1>4, <1>7, ResetFacts, SameCall, StepShown
-----------------------------------------------------------------------------
\* A block is the next one of the call, and is put behind those before it.
LEMMA OneMore ==
    ASSUME NEW s \in Seq(Drive \X Int), NEW d \in Drive, NEW o \in Int,
           \A k \in 1 .. Len(s) : s[k] = <<d, o + k - 1>>
    PROVE  \E w \in Seq(Drive \X Int) :
              /\ w = Append(s, <<d, o + Len(s)>>)
              /\ Len(w) = Len(s) + 1
              /\ \A k \in 1 .. Len(w) : w[k] = <<d, o + k - 1>>
<1>0. Len(s) \in Nat
  BY LenProperties
<1> PICK b \in Drive \X Int : b = <<d, o + Len(s)>>
  <2>1. o + Len(s) \in Int
    BY <1>0
  <2> QED
    BY <2>1
<1> PICK w : w = Append(s, b)
  OBVIOUS
<1>1. /\ w \in Seq(Drive \X Int) /\ Len(w) = Len(s) + 1
      /\ \A k \in 1 .. Len(s) : w[k] = s[k]
      /\ w[Len(s) + 1] = b
  BY AppendProperties
<1>2. ASSUME NEW k \in 1 .. Len(w) PROVE w[k] = <<d, o + k - 1>>
  <2>1. CASE k = Len(s) + 1
    BY <1>0, <1>1, <2>1
  <2>2. CASE k # Len(s) + 1
    <3>1. k \in 1 .. Len(s)
      BY <1>0, <1>1, <2>2
    <3> QED
      BY <1>1, <3>1
  <2> QED
    BY <2>1, <2>2
<1> QED
  BY <1>1, <1>2

\* One block is moved between the data port and the buffer.
LEMMA DataInv ==
    ASSUME DriveInv, NEW p \in Process, Data(p)
    PROVE  DriveInv'
<1> PICK c \in CallType : c = call[p]
  BY DEF DriveInv, DriveTypes
<1> PICK j \in JobType : j = job[selected]
  BY DEF DriveInv, DriveTypes
<1> PICK m \in Nat : m = BlocksMoved(p)
  BY LenProperties DEF BlocksMoved, DriveInv, DriveTypes
<1> PICK next : next = IF m + 1 = c.nblocks THEN AfterData(c.op) ELSE "data"
  OBVIOUS
<1> PICK after : after = IF Identifies(j.op) THEN NoJob
                         ELSE [j EXCEPT !.block = @ + 1, !.left = @ - 1, !.ready = TRUE]
  OBVIOUS
<1> PICK bits : bits = IF Identifies(j.op) THEN Idle(selected) ELSE {"BSY"}
  OBVIOUS
<1>1. /\ pc[p] = "data" /\ Seen(p)
      /\ buffer' = [buffer EXCEPT ![p] = Append(@, <<selected, j.block>>)]
      /\ medium' = IF j.op = "write" THEN [medium EXCEPT ![selected][j.block] = p] ELSE medium
      /\ job' = [job EXCEPT ![selected] = after]
      /\ status' = [status EXCEPT ![selected] = bits]
      /\ pc' = [pc EXCEPT ![p] = next]
      /\ result' = IF next = "over" THEN [result EXCEPT ![p] = "good"] ELSE result
      /\ UNCHANGED <<queue, ata_mutex, unit, kind, selected, call>>
  <2>1. /\ pc[p] = "data" /\ Seen(p)
        /\ buffer' = [buffer EXCEPT ![p] = Append(@, <<selected, j.block>>)]
        /\ medium' = IF j.op = "write" THEN [medium EXCEPT ![selected][j.block] = p] ELSE medium
        /\ UNCHANGED <<queue, ata_mutex, unit, kind, selected, call>>
    BY DEF Data, driver
  <2>2. /\ pc' = [pc EXCEPT ![p] = next]
        /\ result' = IF next = "over" THEN [result EXCEPT ![p] = "good"] ELSE result
    BY DEF Data, Goes, IsLast, BlocksMoved
  <2>3. job' = [job EXCEPT ![selected] = after]
    BY DEF Data
  <2>4. status' = [status EXCEPT ![selected] = bits]
    BY DEF Data
  <2> QED
    BY <2>1, <2>2, <2>3, <2>4
<1>2. Follows(p) /\ KnownCall(p) /\ p \notin queue
  BY <1>1 DEF DriveInv, Proceeds, Started
<1>3. "DRQ" \in status[selected] /\ selected \in Drive
  BY <1>1 DEF Seen, Mask, Wanted, DriveInv, DriveTypes
<1>4. j # NoJob /\ j.left > 0
  BY <1>3 DEF DriveInv, Commands
<1>5. /\ c.id = selected /\ c.offset \in Int /\ c.nblocks \in Int
      /\ j.op = c.op /\ j.block = c.offset + m /\ j.left = c.nblocks - m
      /\ j.left \in Int /\ m + 1 <= c.nblocks
  BY <1>2, <1>4 DEF Follows, CallType, JobType
<1>6. next \in {"done", "test", "over", "data"}
      /\ (next # "data" => m + 1 = c.nblocks)
      /\ (next = "test" => c.op = "write")
  BY DEF AfterData
<1>7. /\ after \in JobType
      /\ after # NoJob => after.op = j.op /\ after.block = j.block + 1 /\ after.left = j.left - 1
  <2>1. CASE Identifies(j.op)
    BY <2>1, NoJobFacts
  <2>2. CASE ~Identifies(j.op)
    <3>1. after = [op |-> j.op, block |-> j.block + 1, left |-> j.left - 1, ready |-> TRUE]
      BY <2>2 DEF JobType
    <3>2. j.op \in Operation /\ j.block + 1 \in Int /\ j.left - 1 \in Int
      BY DEF JobType
    <3>3. [op |-> j.op, block |-> j.block + 1, left |-> j.left - 1, ready |-> TRUE] \in JobType
      BY <3>2 DEF JobType
    <3>4. after.op = j.op /\ after.block = j.block + 1 /\ after.left = j.left - 1
      BY <3>1
    <3> QED
      BY <3>1, <3>3, <3>4, Zenon
  <2> QED
    BY <2>1, <2>2
<1>8. bits \subseteq {"BSY", "RDY"} /\ (after # NoJob => "BSY" \in bits)
  BY IdleFacts
<1>9. pc'[p] = next /\ (next = "over" => result'[p] = "good")
      /\ \A q \in Process \ {p} : pc'[q] = pc[q]
  BY <1>1 DEF DriveInv, DriveTypes
<1>10. /\ buffer' \in [Process -> Seq(Drive \X Int)]
       /\ BlocksMoved(p)' = m + 1
       /\ InOrder(p)'
  <2> PICK s \in Seq(Drive \X Int) : s = buffer[p]
    BY DEF DriveInv, DriveTypes
  <2>1. Len(s) = m /\ \A k \in 1 .. Len(s) : s[k] = <<selected, c.offset + k - 1>>
    BY <1>2, <1>5 DEF Follows, InOrder, BlocksMoved
  <2>2. PICK w \in Seq(Drive \X Int) :
          /\ w = Append(s, <<selected, c.offset + Len(s)>>)
          /\ Len(w) = Len(s) + 1
          /\ \A k \in 1 .. Len(w) : w[k] = <<selected, c.offset + k - 1>>
    BY <1>3, <1>5, <2>1, OneMore
  <2>3. buffer' = [buffer EXCEPT ![p] = w]
    BY <1>1, <1>5, <2>1, <2>2
  <2>4. buffer'[p] = w /\ buffer' \in [Process -> Seq(Drive \X Int)]
    BY <2>2, <2>3 DEF DriveInv, DriveTypes
  <2> QED
    BY <1>1, <1>5, <2>1, <2>2, <2>4, SMTT(40) DEF BlocksMoved, InOrder
<1>11. /\ medium' \in [Drive -> Medium]
       /\ c.op = "write" => Kept(p)'
  <2>1. CASE j.op # "write"
    BY <1>1, <1>5, <2>1 DEF DriveInv, DriveTypes
  <2>2. CASE j.op = "write"
    <3> PICK f \in Medium : f = medium[selected]
      BY <1>3 DEF DriveInv, DriveTypes
    <3> PICK g : g = [f EXCEPT ![j.block] = p]
      OBVIOUS
    <3>1. medium' = [medium EXCEPT ![selected] = g]
      BY <1>1, <2>2
    <3>2. g \in Medium
      BY DEF Medium
    <3>3. medium' \in [Drive -> Medium] /\ medium'[selected] = g
      BY <1>3, <3>1, <3>2 DEF DriveInv, DriveTypes
    <3>4. Kept(p)
      BY <1>1, <1>2, <1>4, <1>5, <2>2 DEF Follows
    <3>5. ASSUME NEW k \in 1 .. m + 1 PROVE g[c.offset + k - 1] = p
      <4>1. c.offset + k - 1 \in Reached
        BY <1>2, <1>5, <2>2, <3>5 DEF KnownCall
      <4>2. CASE k = m + 1
        <5>1. c.offset + k - 1 = j.block
          BY <1>5, <4>2
        <5> QED
          BY <4>1, <5>1 DEF Medium
      <4>3. CASE k # m + 1
        <5>1. k \in 1 .. m /\ f[c.offset + k - 1] = p
          BY <1>5, <3>4, <3>5, <4>3 DEF Kept
        <5> QED
          BY <4>1, <5>1 DEF Medium
      <4> QED
        BY <4>2, <4>3
    <3>6. call'[p] = c /\ BlocksMoved(p)' = m + 1 /\ c.id = selected
      BY <1>1, <1>5, <1>10
    <3>7. Kept(p)'
      BY <3>3, <3>5, <3>6 DEF Kept
    <3> QED
      BY <3>3, <3>7
  <2> QED
    BY <2>1, <2>2
<1>12. /\ job' \in [Drive -> JobType]
       /\ job'[selected] = after /\ status'[selected] = bits
       /\ \A d \in Drive \ {selected} : job'[d] = job[d] /\ status'[d] = status[d]
  <2>1. job' \in [Drive -> JobType] /\ job'[selected] = after
        /\ \A d \in Drive \ {selected} : job'[d] = job[d]
    <3>1. job' = [job EXCEPT ![selected] = after] /\ after \in JobType
      BY <1>1, <1>7
    <3> QED
      BY <1>3, <3>1 DEF DriveInv, DriveTypes
  <2>2. status'[selected] = bits /\ \A d \in Drive \ {selected} : status'[d] = status[d]
    BY <1>1, <1>3 DEF DriveInv, DriveTypes
  <2> QED
    BY <2>1, <2>2
<1>13. DriveTypes'
  <2>1. status' \in [Drive -> SUBSET {"BSY", "RDY", "DRQ", "ERR"}]
    BY <1>1, <1>8 DEF DriveInv, DriveTypes
  <2>2. pc' \in [Process -> Place] /\ result' \in [Process -> {"none", "good", "failed"}]
    BY <1>1, <1>6 DEF DriveInv, DriveTypes, Place, Waits
  <2> QED
    BY <1>1, <1>10, <1>11, <1>12, <2>1, <2>2 DEF DriveInv, DriveTypes
<1>14. Commands'
  BY <1>1, <1>8, <1>12 DEF DriveInv, Commands
<1>15. Followed'
  <2>1. CASE next = "over"
    <3>1. after # NoJob => after.left = 0
      BY <1>5, <1>6, <1>7, <2>1
    <3> QED
      BY <1>12, <3>1 DEF Followed, DriveInv, Commands
  <2>2. CASE next # "over"
    BY <1>6, <1>9, <2>2 DEF Followed, Started
  <2> QED
    BY <2>1, <2>2
<1>16. KnownCall(p)'
  BY <1>1, <1>2 DEF KnownCall
<1>17. Follows(p)'
  <2>1. after # NoJob => /\ after.op = c.op /\ after.block = c.offset + (m + 1)
                         /\ after.left = c.nblocks - (m + 1)
    BY <1>5, <1>7
  <2>2. pc'[p] \in {"done", "test", "asleep"} => m + 1 = c.nblocks
    BY <1>6, <1>9
  <2> QED
    BY <1>1, <1>5, <1>10, <1>11, <1>12, <2>1, <2>2 DEF Follows
<1>18. pc'[p] = "over" => Returns(p)'
  <2> SUFFICES ASSUME pc'[p] = "over" PROVE Returns(p)'
    OBVIOUS
  <2>1. m + 1 = c.nblocks /\ result'[p] = "good"
    BY <1>6, <1>9
  <2> QED
    BY <1>1, <1>10, <1>11, <2>1 DEF Returns
<1>19. Proceeds(p)'
  BY <1>1, <1>2, <1>6, <1>9, <1>16, <1>17, <1>18 DEF Proceeds, Unstarted, Started
<1> QED
  BY <1>1, <1>9, <1>13, <1>14, <1>15, <1>19, SameCall, StepShown
-----------------------------------------------------------------------------
\* A drive says that it goes on, that it is done, or that it has lost a write, and
\* whoever sleeps for its interrupt is woken.
DriveSays(p) ==
    /\ UNCHANGED <<ata_mutex, unit, selected, call, buffer, result>>
    /\ \/ pc'[p] = pc[p] /\ queue' = queue
       \/ /\ pc'[p] = IF p \in queue THEN AfterTest(call[p].op) ELSE pc[p]
          /\ queue' = {}
    /\ job'[selected] \in {job[selected], NoJob}
    /\ \A d \in Drive \ {selected} : job'[d] = job[d]
    /\ \/ medium' = medium
       \/ /\ job'[selected] = NoJob /\ job[selected] # NoJob
          /\ job[selected].op = "write" /\ job[selected].left # 0

\* What a drive says takes its process on, to where it may be.
LEMMA SaysProceeds ==
    ASSUME DriveInv, NEW p \in Process, DriveSays(p)
    PROVE  Proceeds(p)' /\ (pc[p] \in Started => pc'[p] \in Started)
           /\ (pc[p] \notin Started => pc'[p] = pc[p])
<1>1. UNCHANGED <<ata_mutex, unit, selected, call, buffer, result>>
  BY DEF DriveSays
<1>2. p \in queue => pc[p] = "asleep"
  BY DEF DriveInv, Proceeds
<1>3. /\ pc'[p] = pc[p] \/ (pc[p] = "asleep" /\ pc'[p] = AfterTest(call[p].op))
      /\ p \in queue' => pc'[p] = "asleep"
  BY <1>2 DEF DriveSays
<1>4. \A d \in Drive : job[d] = NoJob => job'[d] = NoJob
  BY DEF DriveSays
<1>5. InOrder(p)' = InOrder(p) /\ BlocksMoved(p)' = BlocksMoved(p) /\ KnownCall(p)' = KnownCall(p)
  BY <1>1 DEF InOrder, BlocksMoved, KnownCall
<1>6. selected \in Drive /\ BlocksMoved(p) \in Nat /\ call[p].nblocks \in Int
  BY LenProperties DEF DriveInv, DriveTypes, CallType, BlocksMoved
<1>7. CASE pc[p] \in Started
  <2>1. Follows(p) /\ KnownCall(p) /\ Unstarted(p)
    BY <1>7 DEF DriveInv, Proceeds, Started
  <2>2. pc'[p] = pc[p] \/ (pc[p] = "asleep" /\ pc'[p] = "done" /\ call[p].op = "write")
        \/ (pc[p] = "asleep" /\ pc'[p] = "data" /\ call[p].op # "write")
    BY <1>3 DEF AfterTest
  <2>3. pc'[p] \in Started
    BY <1>7, <2>2 DEF Started
  <2>4. job'[selected] # NoJob => job'[selected] = job[selected] /\ medium' = medium
    BY DEF DriveSays
  <2>5. ASSUME call[p].op = "write", pc'[p] # "data" \/ job'[selected] # NoJob
        PROVE  Kept(p)'
    <3>1. CASE job'[selected] # NoJob
      <4>1. job[selected] # NoJob /\ medium' = medium
        BY <1>4, <1>6, <2>4, <3>1
      <4>2. Kept(p)
        BY <2>1, <2>5, <4>1 DEF Follows
      <4> QED
        BY <1>1, <4>1, <4>2 DEF Kept, BlocksMoved
    <3>2. CASE pc'[p] # "data"
      <4>1. pc[p] \in {"test", "asleep", "done"}
        BY <1>7, <2>1, <2>2, <2>5, <3>2 DEF Started, Unstarted
      <4>2. BlocksMoved(p) = call[p].nblocks /\ Kept(p)
        BY <2>1, <2>5, <4>1 DEF Follows
      <4>3. job[selected] # NoJob => job[selected].left = 0
        BY <1>6, <2>1, <4>2 DEF Follows
      <4>4. medium' = medium
        BY <4>3 DEF DriveSays
      <4> QED
        BY <1>1, <4>2, <4>4 DEF Kept, BlocksMoved
    <3> QED
      BY <2>5, <3>1, <3>2
  <2>6. Follows(p)'
    BY <1>1, <1>5, <2>1, <2>2, <2>4, <2>5 DEF Follows
  <2>7. Unstarted(p)'
    BY <1>1, <1>7, <2>1, <2>2 DEF Unstarted, Started
  <2> QED
    BY <1>3, <1>5, <1>7, <2>1, <2>3, <2>6, <2>7 DEF Proceeds, Started
<1>8. CASE pc[p] \notin Started
  <2>1. pc'[p] = pc[p]
    BY <1>3, <1>8 DEF Started
  <2>2. CASE pc[p] = "idle"
    BY <1>3, <2>1, <2>2 DEF Proceeds, Started
  <2>3. CASE pc[p] # "idle"
    <3>1. \A q \in Process : pc[q] \notin Started
      BY <1>8, <2>3, Alone DEF DriveInv, Started
    <3>2. medium' = medium
      BY <1>6, <3>1 DEF DriveSays, DriveInv, Followed
    <3>3. KnownCall(p) /\ Unstarted(p) /\ (pc[p] = "over" => Returns(p))
      BY <2>3 DEF DriveInv, Proceeds
    <3>4. Unstarted(p)'
      BY <1>1, <1>4, <2>1, <3>3 DEF Unstarted
    <3>5. Kept(p)' = Kept(p)
      BY <1>1, <3>2 DEF Kept, BlocksMoved
    <3>6. call[p].id \in Drive
      BY DEF DriveInv, DriveTypes, CallType
    <3>7. pc[p] = "over" => Returns(p)'
      BY <1>1, <1>4, <1>5, <3>3, <3>5, <3>6 DEF Returns
    <3> QED
      BY <1>3, <1>5, <1>8, <2>1, <3>3, <3>4, <3>7 DEF Proceeds
  <2> QED
    BY <2>2, <2>3
<1> QED
  BY <1>7, <1>8

\* What a drive does and says.
LEMMA SaysShown ==
    ASSUME DriveInv, \A p \in Process : DriveSays(p), Commands',
           job'[selected] # NoJob => job'[selected] = job[selected],
           queue' \subseteq queue, pc' \in [Process -> Place],
           status' \in [Drive -> SUBSET {"BSY", "RDY", "DRQ", "ERR"}],
           job' \in [Drive -> JobType], medium' \in [Drive -> Medium],
           UNCHANGED <<ata_mutex, unit, selected, call, buffer, result>>
    PROVE  DriveInv'
<1>1. DriveTypes'
  BY DEF DriveInv, DriveTypes
<1>2. \A p \in Process : Proceeds(p)' /\ (pc[p] \in Started => pc'[p] \in Started)
           /\ (pc[p] \notin Started => pc'[p] = pc[p])
  BY SaysProceeds
<1>3. Followed'
  <2> SUFFICES ASSUME NEW d \in Drive, job'[d] # NoJob
               PROVE  job'[d].left = 0 \/ \E p \in Process : pc'[p] \in Started
    BY DEF Followed
  <2>1. d = selected
    BY DEF Commands
  <2>2. job'[d] = job[d] /\ job[d] # NoJob
    BY <2>1
  <2> QED
    BY <1>2, <2>2 DEF DriveInv, Followed
<1>4. OneAtATime'
  <2>1. \A p \in Process : pc'[p] # "idle" => pc[p] # "idle"
    BY <1>2 DEF Started
  <2> QED
    BY <2>1 DEF DriveInv, OneAtATime
<1> QED
  BY <1>1, <1>2, <1>3, <1>4 DEF DriveInv

\* A drive asks for the transfer of a block.
LEMMA AsksInv ==
    ASSUME DriveInv, NEW d \in Drive, Asks(d)
    PROVE  DriveInv'
<1>1. /\ job[d] # NoJob /\ job[d].left > 0
      /\ status' = [status EXCEPT ![d] = Idle(d) \cup {"DRQ"}]
      /\ UNCHANGED <<ata_mutex, unit, selected, job, medium, call, buffer, result>>
  BY DEF Asks
<1>2. \/ UNCHANGED <<queue, pc>>
      \/ queue' = {} /\ pc' = [p \in Process |-> IF p \in queue THEN AfterTest(call[p].op) ELSE pc[p]]
  BY DEF Asks, Interrupt
<1>3. \A p \in Process : DriveSays(p)
  BY <1>1, <1>2 DEF DriveSays, DriveInv, DriveTypes
<1>4. pc' \in [Process -> Place]
  BY <1>2 DEF DriveInv, DriveTypes, AfterTest, Place, Waits
<1>5. status' \in [Drive -> SUBSET {"BSY", "RDY", "DRQ", "ERR"}]
  BY <1>1, IdleFacts DEF DriveInv, DriveTypes
<1>6. Commands'
  BY <1>1 DEF DriveInv, DriveTypes, Commands
<1> QED
  BY <1>1, <1>2, <1>3, <1>4, <1>5, <1>6, SaysShown DEF DriveInv, DriveTypes

\* The drive has nothing more to do, and a write it had to do more of is lost.
LEMMA EndsInv ==
    ASSUME DriveInv, NEW d \in Drive, job[d] # NoJob, Interrupt,
           NEW bits \in SUBSET {"RDY", "ERR"},
           status' = [status EXCEPT ![d] = bits],
           job' = [job EXCEPT ![d] = NoJob],
           medium' = medium
             \/ (job[d].op = "write" /\ job[d].left # 0 /\ medium' \in [Drive -> Medium]),
           UNCHANGED <<ata_mutex, unit, selected, call, buffer, result>>
    PROVE  DriveInv'
<1>1. d = selected
  BY DEF DriveInv, Commands
<1>2. queue' = {} /\ pc' = [p \in Process |-> IF p \in queue THEN AfterTest(call[p].op) ELSE pc[p]]
  BY DEF Interrupt
<1>3. /\ job' \in [Drive -> JobType] /\ job'[d] = NoJob
      /\ \A e \in Drive \ {d} : job'[e] = job[e] /\ status'[e] = status[e]
      /\ status'[d] = bits
      /\ status' \in [Drive -> SUBSET {"BSY", "RDY", "DRQ", "ERR"}]
  BY NoJobFacts DEF DriveInv, DriveTypes
<1>4. \A p \in Process : DriveSays(p)
  BY <1>1, <1>2, <1>3 DEF DriveSays
<1>5. pc' \in [Process -> Place]
  BY <1>2 DEF DriveInv, DriveTypes, AfterTest, Place, Waits
<1>6. Commands'
  BY <1>3 DEF DriveInv, Commands
<1>7. medium' \in [Drive -> Medium] /\ job'[selected] = NoJob /\ queue' \subseteq queue
  BY <1>1, <1>2, <1>3 DEF DriveInv, DriveTypes
<1> QED
  BY <1>3, <1>4, <1>5, <1>6, <1>7, SaysShown

\* A drive has done what it was told.
LEMMA FinishesInv ==
    ASSUME DriveInv, NEW d \in Drive, Finishes(d)
    PROVE  DriveInv'
<1>1. Idle(d) \in SUBSET {"RDY", "ERR"}
  BY IdleFacts
<1> PICK bits \in SUBSET {"RDY", "ERR"} : bits = Idle(d)
  BY <1>1
<1> QED
  BY EndsInv DEF Finishes

\* A drive fails.
LEMMA BreaksInv ==
    ASSUME Unprotected = FALSE, DriveInv, NEW d \in Drive, Breaks(d)
    PROVE  DriveInv'
<1> PICK bits \in SUBSET {"RDY", "ERR"} : bits = Idle(d) \cup {"ERR"}
  BY IdleFacts
<1>1. /\ job[d] # NoJob /\ Interrupt
      /\ status' = [status EXCEPT ![d] = bits]
      /\ job' = [job EXCEPT ![d] = NoJob]
      /\ UNCHANGED <<ata_mutex, unit, selected, call, buffer, result>>
  BY DEF Breaks
<1>2. \/ medium' = medium
      \/ job[d].op = "write" /\ job[d].left # 0 /\ medium' \in [Drive -> Medium]
  <2>1. CASE job[d].op # "write"
    BY <2>1 DEF Breaks
  <2>2. CASE job[d].op = "write"
    <3>1. job[d].left # 0
      BY <2>2 DEF Breaks
    <3>2. medium' = [medium EXCEPT ![d] = [b \in DOMAIN medium[d] |-> "lost"]]
      BY <2>2 DEF Breaks
    <3>3. DOMAIN medium[d] = Reached
      BY DEF DriveInv, DriveTypes, Medium
    <3>4. [b \in DOMAIN medium[d] |-> "lost"] \in Medium
      BY <3>3 DEF Medium
    <3> QED
      BY <2>2, <3>1, <3>2, <3>4 DEF DriveInv, DriveTypes
  <2> QED
    BY <2>1, <2>2
<1> QED
  BY <1>1, <1>2, EndsInv
-----------------------------------------------------------------------------
\* Every step keeps the invariant.
LEMMA DriveNextInv ==
    Unprotected = FALSE /\ DriveInv /\ [Next]_vars => DriveInv'
<1> SUFFICES ASSUME Unprotected = FALSE, DriveInv, [Next]_vars PROVE DriveInv'
  OBVIOUS
<1>1. CASE ProbeEmpty
  BY <1>1, ProbeEmptyInv
<1>2. CASE Probe
  BY <1>2, ProbeInv
<1>3. ASSUME NEW p \in Process, Step(p) PROVE DriveInv'
  <2>1. CASE Identified(p)
    BY <2>1, IdentifiedInv
  <2>2. CASE Unlock(p)
    BY <2>2, UnlockInv
  <2>3. CASE Select(p)
    BY <2>3, SelectInv
  <2>4. CASE Command(p)
    BY <2>4, CommandInv
  <2>5. CASE SendPacket(p)
    BY <2>5, SendPacketInv
  <2>6. CASE Sleep(p)
    BY <2>6, SleepInv
  <2>7. CASE Data(p)
    BY <2>7, DataInv
  <2>8. CASE Done(p)
    BY <2>8, DoneInv
  <2>9. CASE WaitFails(p)
    BY <2>9, WaitFailsInv
  <2> QED
    BY <1>3, <2>1, <2>2, <2>3, <2>4, <2>5, <2>6, <2>7, <2>8, <2>9 DEF Step
<1>4. ASSUME NEW p \in Process, NEW c \in Call, Lock(p, c) PROVE DriveInv'
  BY <1>4, LockInv
<1>5. ASSUME NEW d \in Drive, DriveStep(d) PROVE DriveInv'
  BY <1>5, AsksInv, FinishesInv, BreaksInv DEF DriveStep
<1>6. CASE UNCHANGED vars
  <2>1. UNCHANGED <<ata_mutex, unit, selected, status, job, medium, pc, call, buffer, result, queue>>
    BY <1>6 DEF vars, driver, channel
  <2>2. DriveTypes' /\ OneAtATime' /\ Commands' /\ Followed'
    BY <2>1 DEF DriveInv, DriveTypes, OneAtATime, Commands, Followed
  <2>3. \A p \in Process : DriveSays(p)
    BY <2>1 DEF DriveSays
  <2> QED
    BY <2>2, <2>3, SaysProceeds DEF DriveInv
<1> QED
  BY <1>1, <1>2, <1>3, <1>4, <1>5, <1>6 DEF Next

\* DriveInv is invariant.
THEOREM DriveInvariant ==
    ASSUME Unprotected = FALSE PROVE Spec => []DriveInv
<1>1. Init => DriveInv
  BY DriveInitInv
<1>2. DriveInv /\ [Next]_vars => DriveInv'
  BY DriveNextInv
<1> QED
  BY <1>1, <1>2, PTL DEF Spec

\* ata_read, ata_write, atapi_read and ata_identify, for every number of processes,
\* drives and blocks: who is told that it has succeeded has its blocks, whatever
\* the drives answered to whom before.
THEOREM DriveRightBlocks ==
    ASSUME Unprotected = FALSE PROVE Spec => []RightBlocks
<1>1. DriveInv => RightBlocks
  <2> SUFFICES ASSUME DriveInv, NEW p \in Process, pc[p] = "over", result[p] = "good"
               PROVE  /\ buffer[p] = [k \in 1 .. call[p].nblocks |->
                                         <<call[p].id, call[p].offset + k - 1>>]
                      /\ call[p].op = "write" =>
                           \A k \in 1 .. call[p].nblocks :
                              medium[call[p].id][call[p].offset + k - 1] = p
    BY DEF RightBlocks
  <2>1. Returns(p)
    BY DEF DriveInv, Proceeds
  <2>2. /\ buffer[p] \in Seq(Drive \X Int) /\ Len(buffer[p]) = call[p].nblocks
        /\ \A k \in 1 .. call[p].nblocks :
              buffer[p][k] = <<call[p].id, call[p].offset + k - 1>>
    BY <2>1 DEF Returns, InOrder, BlocksMoved, DriveInv, DriveTypes
  <2>3. buffer[p] = [k \in 1 .. call[p].nblocks |-> buffer[p][k]]
    BY <2>2, LenProperties
  <2>4. call[p].op = "write" =>
           \A k \in 1 .. call[p].nblocks :
              medium[call[p].id][call[p].offset + k - 1] = p
    BY <2>1 DEF Returns, Kept, BlocksMoved
  <2> QED
    BY <2>2, <2>3, <2>4
<1> QED
  BY <1>1, DriveInvariant, PTL

\* ata_wait's failure, for every number of drives: the reset leaves no command that
\* could answer the next transfer.
THEOREM DriveFailureIsFinal ==
    ASSUME Unprotected = FALSE PROVE Spec => []FailureIsFinal
<1>1. DriveInv => FailureIsFinal
  BY DEF DriveInv, Proceeds, Returns, FailureIsFinal
<1> QED
  BY <1>1, DriveInvariant, PTL
-----------------------------------------------------------------------------
(* Disk: between two turns of its loop a call has moved the first Got      *)
(* bytes, and a turn moves the ones from there to the end of its block     *)
(* (TurnFacts, the arithmetic of disk.c).                                  *)

\* The bytes moved in the turns before this one.
Got == IF turn < BlocksNeeded THEN Moved ELSE size

DiskTypes ==
    /\ disk \in [DiskPlace -> Byte] /\ before \in [DiskPlace -> Byte]
    /\ op \in {"idle", "read", "write"}
    /\ place \in Nat /\ size \in Nat /\ place + size <= Blocks * ATA_BLOCKSIZE
    /\ turn \in Nat /\ turn <= BlocksNeeded
    /\ bytes \in Seq(Byte)

ReadSoFar ==
    op = "read" =>
        Len(bytes) = Got /\ \A k \in 1 .. Got : bytes[k] = disk[place + k - 1]

\* Outside what is asked for only the blocks behind the first one may change, and
\* only when their turn has been.
WrittenSoFar ==
    op = "write" =>
        /\ Len(bytes) = size
        /\ \A k \in 1 .. Got : disk[place + k - 1] = bytes[k]
        /\ \A q \in DiskPlace : disk[q] # before[q] =>
              \/ q \in place .. place + Got - 1
              \/ \E b \in (StartBlock + 1) .. (StartBlock + turn - 1) : q \in Block(b)

DiskInv == DiskTypes /\ ReadSoFar /\ WrittenSoFar
-----------------------------------------------------------------------------
\* The constants are positive.
LEMMA Size == ATA_BLOCKSIZE \in Nat \ {0} /\ Blocks \in Nat \ {0} /\ MaxBytes \in Nat
BY DiskAssumption

\* Division by the size of a block.
LEMMA Parts ==
    ASSUME NEW n \in Nat
    PROVE  /\ n \div ATA_BLOCKSIZE \in Nat /\ n % ATA_BLOCKSIZE \in 0 .. ATA_BLOCKSIZE - 1
           /\ n = (n \div ATA_BLOCKSIZE) * ATA_BLOCKSIZE + (n % ATA_BLOCKSIZE)
<1>1. \A b \in Nat \ {0} :
        /\ n \div b \in Nat /\ n % b \in 0 .. b - 1
        /\ n = (n \div b) * b + (n % b)
  BY SMTT(20)
<1> QED
  BY <1>1, Size

\* A turn begins only where something is left to move, and after the last nothing is.
LEMMA Needed ==
    ASSUME NEW n \in Nat, NEW m \in Nat
    PROVE  LET b == ATA_BLOCKSIZE IN
           /\ (n + b - 1) \div b \in Nat
           /\ m < (n + b - 1) \div b <=> m * b < n
<1> PICK b \in Nat \ {0} : b = ATA_BLOCKSIZE
  BY Size
<1> PICK x \in Nat : x = n + b - 1
  OBVIOUS
<1> PICK d \in Nat, r \in 0 .. b - 1 : d = x \div b /\ x = d * b + r
  BY Parts
<1>1. CASE m < d
  <2>1. (m + 1) * b <= d * b
    BY <1>1, SMTT(20)
  <2>2. (m + 1) * b = m * b + b /\ m * b \in Nat /\ d * b \in Nat
    BY SMTT(20)
  <2> QED
    BY <1>1, <2>1, <2>2
<1>2. CASE m >= d
  <2>1. m * b >= d * b
    BY <1>2, SMTT(20)
  <2>2. m * b \in Nat /\ d * b \in Nat
    BY SMTT(20)
  <2> QED
    BY <1>2, <2>1, <2>2
<1> QED
  BY <1>1, <1>2

\* Where a turn is: x bytes before it, y in it, at place + x, in the block first.
LEMMA TurnFacts ==
    ASSUME DiskTypes, turn < BlocksNeeded
    PROVE  /\ StartBlock \in Nat /\ InBlock \in 0 .. ATA_BLOCKSIZE - 1
           /\ Moved \in 0 .. size /\ BytesToCopy \in 0 .. size - Moved
           /\ (StartBlock + turn) * ATA_BLOCKSIZE + MemcpyOffset = place + Moved
           /\ turn > 0 => place + Moved = (StartBlock + turn) * ATA_BLOCKSIZE
           /\ place + Moved >= (StartBlock + turn) * ATA_BLOCKSIZE
           /\ place + Moved + BytesToCopy <= (StartBlock + turn + 1) * ATA_BLOCKSIZE
           /\ turn + 1 < BlocksNeeded => Moved + BytesToCopy = (turn + 1) * ATA_BLOCKSIZE - InBlock
           /\ turn + 1 >= BlocksNeeded => Moved + BytesToCopy = size
<1> PICK b \in Nat \ {0} : b = ATA_BLOCKSIZE
  BY Size
<1> PICK s \in Nat, o \in 0 .. b - 1 : s = StartBlock /\ o = InBlock /\ place = s * b + o
  BY Parts DEF StartBlock, InBlock, DiskTypes
<1> PICK t \in Nat, z \in Nat, n \in Nat : t = turn /\ z = size /\ n = o + z
  BY DEF DiskTypes
<1> PICK sb \in Nat, tb \in Nat : sb = s * b /\ tb = t * b
  BY SMTT(20)
<1>1. tb < n /\ (t + 1 < BlocksNeeded <=> tb + b < n)
  <2>1. BlocksNeeded = (n + b - 1) \div b
    BY DEF BlocksNeeded
  <2>2. (t + 1) * b = tb + b
    BY SMTT(20)
  <2>3. t < (n + b - 1) \div b <=> t * b < n
    BY Needed
  <2>4. t + 1 < (n + b - 1) \div b <=> (t + 1) * b < n
    BY Needed
  <2> QED
    BY <2>1, <2>2, <2>3, <2>4
<1>2. /\ (s + t) * b = sb + tb /\ (s + t + 1) * b = sb + tb + b /\ (t + 1) * b = tb + b
      /\ t > 0 => tb >= b
      /\ t = 0 => tb = 0
  BY SMTT(20)
<1>3. BlocksNeeded \in Nat
  BY Needed DEF BlocksNeeded
<1>4. CASE t = 0
  <2>1. Moved = 0 /\ MemcpyOffset = o /\ BytesToCopy = IF z + o > b THEN b - o ELSE z
    BY <1>4 DEF Moved, MemcpyOffset, BytesToCopy
  <2> QED
    BY <1>1, <1>2, <1>3, <1>4, <2>1
<1>5. CASE t > 0
  <2>1. Moved = tb - o /\ MemcpyOffset = 0
        /\ BytesToCopy = IF z - (tb - o) > b THEN b ELSE z - (tb - o)
    BY <1>5 DEF Moved, MemcpyOffset, BytesToCopy
  <2> QED
    BY <1>1, <1>2, <1>3, <1>5, <2>1
<1> QED
  BY <1>4, <1>5
-----------------------------------------------------------------------------
\* A concatenation, element by element.
LEMMA Joined ==
    ASSUME NEW S, NEW s \in Seq(S), NEW t \in Seq(S)
    PROVE  /\ s \o t \in Seq(S) /\ Len(s \o t) = Len(s) + Len(t)
           /\ \A k \in 1 .. Len(s) + Len(t) :
                 (s \o t)[k] = IF k <= Len(s) THEN s[k] ELSE t[k - Len(s)]
BY ConcatProperties

\* The places of the disk are those of its blocks.
LEMMA DiskPlaces ==
    \A q : q \in DiskPlace <=> q \in Nat /\ q < Blocks * ATA_BLOCKSIZE
<1>1. Blocks * ATA_BLOCKSIZE \in Nat
  BY Size, SMTT(20)
<1> QED
  BY <1>1 DEF DiskPlace

\* Before the first turn nothing has been moved.
LEMMA DiskInitInv == DiskInit => DiskInv
<1> SUFFICES ASSUME DiskInit PROVE DiskInv
  OBVIOUS
<1>1. BlocksNeeded \in Nat
  <2>1. InBlock \in Nat
    BY Parts, Size DEF InBlock, DiskInit
  <2>2. InBlock + size \in Nat
    BY <2>1 DEF DiskInit
  <2> QED
    BY <2>2, Needed DEF BlocksNeeded
<1>2. Blocks * ATA_BLOCKSIZE \in Nat
  BY Size, SMTT(20)
<1> QED
  BY <1>1, <1>2 DEF DiskInit, DiskInv, DiskTypes, ReadSoFar, WrittenSoFar

\* A call begins with nothing moved.
LEMMA DiskCallInv ==
    ASSUME DiskInv, NEW p \in DiskPlace, NEW n \in Nat, DiskCall(p, n),
           op' \in {"read", "write"}, bytes' \in Seq(Byte),
           Len(bytes') = IF op' = "read" THEN 0 ELSE n
    PROVE  DiskInv'
<1>1. /\ p \in Nat /\ p + n <= Blocks * ATA_BLOCKSIZE
      /\ place' = p /\ size' = n /\ turn' = 0 /\ before' = disk /\ disk' = disk
  BY DiskPlaces DEF DiskCall
<1>2. InBlock' \in Nat /\ BlocksNeeded' \in Nat /\ (0 < BlocksNeeded' <=> 0 < InBlock' + n)
  <2> PICK o \in Nat : o = p % ATA_BLOCKSIZE
    BY <1>1, Parts, Size
  <2>1. InBlock' = o /\ BlocksNeeded' = (o + n + ATA_BLOCKSIZE - 1) \div ATA_BLOCKSIZE
    BY <1>1 DEF InBlock, BlocksNeeded
  <2> PICK m \in Nat : m = o + n
    OBVIOUS
  <2>2. 0 * ATA_BLOCKSIZE = 0
    BY Size
  <2>3. (m + ATA_BLOCKSIZE - 1) \div ATA_BLOCKSIZE \in Nat
        /\ (0 < (m + ATA_BLOCKSIZE - 1) \div ATA_BLOCKSIZE <=> 0 * ATA_BLOCKSIZE < m)
    BY Needed
  <2> QED
    BY <2>1, <2>2, <2>3
<1>3. Got' = 0
  <2>1. Moved' = 0
    BY <1>1 DEF Moved
  <2>2. ~(0 < BlocksNeeded') => n = 0
    <3> PICK o \in Nat, m \in Nat : o = InBlock' /\ m = BlocksNeeded'
      BY <1>2
    <3>1. 0 < m <=> 0 < o + n
      BY <1>2
    <3>2. \A i, j, k \in Nat : (0 < k <=> 0 < i + j) => (0 < k \/ j = 0)
      OBVIOUS
    <3>3. 0 < m \/ n = 0
      BY <3>1, <3>2
    <3> QED
      BY <3>3
  <2> QED
    BY <1>1, <2>1, <2>2 DEF Got
<1>4. DiskTypes'
  BY <1>1, <1>2 DEF DiskInv, DiskTypes
<1> QED
  BY <1>1, <1>3, <1>4 DEF DiskInv, ReadSoFar, WrittenSoFar

\* A turn moves the bytes it is to move.
LEMMA TurnMoves ==
    ASSUME DiskTypes, turn < BlocksNeeded, turn' = turn + 1, UNCHANGED <<place, size>>
    PROVE  /\ Got = Moved /\ Got' = Moved + BytesToCopy
           /\ BlocksNeeded' = BlocksNeeded /\ turn' <= BlocksNeeded
           /\ StartBlock' = StartBlock
<1>1. BlocksNeeded' = BlocksNeeded /\ InBlock' = InBlock /\ StartBlock' = StartBlock
  BY DEF BlocksNeeded, InBlock, StartBlock
<1>2. Moved' = (turn + 1) * ATA_BLOCKSIZE - InBlock
  BY <1>1 DEF Moved, DiskTypes
<1>3. BlocksNeeded \in Nat
  <2>1. InBlock + size \in Nat
    <3>1. InBlock \in Nat /\ size \in Nat
      BY TurnFacts, Size DEF DiskTypes
    <3> QED
      BY <3>1
  <2> QED
    BY <2>1, Needed DEF BlocksNeeded
<1>4. turn' \in Nat /\ turn \in Nat
  BY DEF DiskTypes
<1> QED
  BY <1>1, <1>2, <1>3, <1>4, TurnFacts DEF Got

\* disk_read: a turn appends the bytes it has read.
LEMMA ReadTurnInv == DiskInv /\ ReadTurn => DiskInv'
<1> SUFFICES ASSUME DiskInv, ReadTurn PROVE DiskInv'
  OBVIOUS
<1>1. /\ op = "read" /\ turn < BlocksNeeded /\ DiskTypes /\ turn' = turn + 1
      /\ UNCHANGED <<disk, before, op, place, size>>
  BY DEF ReadTurn, DiskInv
<1> PICK x \in Nat, y \in Nat : x = Moved /\ y = BytesToCopy
  BY <1>1, TurnFacts DEF DiskTypes
<1> PICK piece : piece = [k \in 1 .. y |-> disk[place + x + k - 1]]
  OBVIOUS
<1>2. bytes' = bytes \o piece
  <2>1. (StartBlock + turn) * ATA_BLOCKSIZE + MemcpyOffset = place + x
    BY <1>1, TurnFacts
  <2> QED
    BY <2>1 DEF ReadTurn
<1>3. Got = x /\ Got' = x + y /\ x + y <= size
      /\ turn' <= BlocksNeeded /\ BlocksNeeded' = BlocksNeeded
  BY <1>1, TurnMoves, TurnFacts DEF DiskTypes
<1>4. ASSUME NEW k \in 1 .. y PROVE disk[place + x + k - 1] \in Byte
  <2>1. place + x + k - 1 \in DiskPlace
    BY <1>1, <1>3, DiskPlaces, Size DEF DiskTypes
  <2> QED
    BY <1>1, <2>1 DEF DiskTypes
<1>5. piece \in Seq(Byte) /\ Len(piece) = y /\ \A k \in 1 .. y : piece[k] = disk[place + x + k - 1]
  BY <1>4, LenProperties
<1>6. Len(bytes) = x /\ bytes \in Seq(Byte) /\ \A k \in 1 .. x : bytes[k] = disk[place + k - 1]
  BY <1>1, <1>3 DEF DiskInv, ReadSoFar, DiskTypes
<1>7. bytes' \in Seq(Byte) /\ Len(bytes') = x + y
      /\ \A k \in 1 .. x + y : bytes'[k] = IF k <= x THEN bytes[k] ELSE piece[k - x]
  <2> PICK s \in Seq(Byte), t \in Seq(Byte) : s = bytes /\ t = piece
    BY <1>5, <1>6
  <2>1. /\ s \o t \in Seq(Byte) /\ Len(s \o t) = Len(s) + Len(t)
        /\ \A k \in 1 .. Len(s) + Len(t) :
              (s \o t)[k] = IF k <= Len(s) THEN s[k] ELSE t[k - Len(s)]
    BY Joined
  <2>2. bytes' = s \o t /\ Len(s) = x /\ Len(t) = y
    BY <1>2, <1>5, <1>6
  <2> QED
    BY <2>1, <2>2
<1>8. ASSUME NEW k \in 1 .. x + y PROVE bytes'[k] = disk[place + k - 1]
  <2>1. CASE k <= x
    <3>1. k \in 1 .. x /\ bytes'[k] = bytes[k]
      BY <1>7, <2>1, SMTT(40)
    <3> QED
      BY <1>6, <3>1
  <2>2. CASE k > x
    <3>1. PICK i \in 1 .. y : k = x + i
      <4>1. k - x \in 1 .. y /\ k = x + (k - x)
        BY <2>2
      <4> QED
        BY <4>1
    <3>2. k - x = i /\ place + x + i - 1 = place + k - 1
      BY <1>1, <3>1 DEF DiskTypes
    <3>3. bytes'[k] = piece[i]
      <4>1. bytes'[k] = IF k <= x THEN bytes[k] ELSE piece[k - x]
        BY <1>7
      <4>2. ~(k <= x)
        BY <2>2
      <4> QED
        BY <3>2, <4>1, <4>2
    <3>4. piece[i] = disk[place + k - 1]
      BY <1>5, <3>2
    <3> QED
      BY <3>3, <3>4
  <2> QED
    BY <2>1, <2>2
<1>9. DiskTypes'
  BY <1>1, <1>3, <1>7 DEF DiskTypes
<1>10. ReadSoFar'
  BY <1>1, <1>3, <1>7, <1>8 DEF ReadSoFar
<1> QED
  BY <1>1, <1>9, <1>10 DEF DiskInv, WrittenSoFar

\* disk_write: a turn writes its block.
LEMMA WriteTurnInv == DiskInv /\ WriteTurn => DiskInv'
<1> SUFFICES ASSUME DiskInv, WriteTurn PROVE DiskInv'
  OBVIOUS
<1>1. /\ op = "write" /\ turn < BlocksNeeded /\ DiskTypes /\ turn' = turn + 1
      /\ UNCHANGED <<before, op, place, bytes, size>>
  BY DEF WriteTurn, DiskInv
<1> PICK x \in Nat, y \in Nat : x = Moved /\ y = BytesToCopy
  BY <1>1, TurnFacts DEF DiskTypes
<1> PICK low \in Nat, high \in Nat :
      /\ low = (StartBlock + turn) * ATA_BLOCKSIZE
      /\ high = (StartBlock + turn + 1) * ATA_BLOCKSIZE
      /\ high = low + ATA_BLOCKSIZE
  <2>0. StartBlock \in Nat /\ turn \in Nat
    BY <1>1, TurnFacts DEF DiskTypes
  <2> PICK b \in Nat \ {0}, n \in Nat : b = ATA_BLOCKSIZE /\ n = StartBlock + turn
    BY <2>0, Size
  <2>1. n * b \in Nat /\ (n + 1) * b \in Nat /\ (n + 1) * b = n * b + b
    BY SMTT(20)
  <2>2. n + 1 = StartBlock + turn + 1
    BY <1>1, TurnFacts DEF DiskTypes
  <2> QED
    BY <2>1, <2>2
<1>2. /\ (StartBlock + turn) * ATA_BLOCKSIZE + MemcpyOffset = place + x
      /\ turn > 0 => place + x = low
      /\ place + x >= low /\ place + x + y <= high
      /\ x + y <= size
  BY <1>1, TurnFacts DEF DiskTypes
<1>3. Got = x /\ Got' = x + y /\ turn' <= BlocksNeeded /\ BlocksNeeded' = BlocksNeeded
      /\ StartBlock' = StartBlock
  BY <1>1, TurnMoves
<1>4. Block(StartBlock + turn) = low .. high - 1
  BY DEF Block
<1>5. ASSUME NEW q \in DiskPlace
      PROVE  /\ q \notin low .. high - 1 => disk'[q] = disk[q]
             /\ q \in place + x .. place + x + y - 1 => disk'[q] = bytes[q - place + 1]
             /\ q \in low .. high - 1 /\ q \notin place + x .. place + x + y - 1 =>
                   disk'[q] = disk[StartBlock * ATA_BLOCKSIZE + (q % ATA_BLOCKSIZE)]
  <2>1. q \in Nat /\ place \in Nat
    BY <1>1, DiskPlaces DEF DiskTypes
  <2>2. disk'[q] =
          IF q \notin low .. high - 1 THEN disk[q]
          ELSE IF q \in place + x .. place + x + y - 1 THEN bytes[x + q - (place + x) + 1]
          ELSE disk[StartBlock * ATA_BLOCKSIZE + (q % ATA_BLOCKSIZE)]
    BY <1>2, <1>4 DEF WriteTurn
  <2>3. q \in place + x .. place + x + y - 1 => q \in low .. high - 1
    BY <1>2, <2>1
  <2>4. x + q - (place + x) + 1 = q - place + 1
    BY <2>1
  <2> QED
    BY <2>2, <2>3, <2>4
<1>6. ASSUME NEW q \in DiskPlace, q \in low .. high - 1
      PROVE  StartBlock * ATA_BLOCKSIZE + (q % ATA_BLOCKSIZE) \in DiskPlace
             /\ (turn = 0 => StartBlock * ATA_BLOCKSIZE + (q % ATA_BLOCKSIZE) = q)
  <2> PICK b \in Nat \ {0}, n \in Nat, t \in Nat : b = ATA_BLOCKSIZE /\ n = StartBlock /\ t = turn
    BY <1>1, TurnFacts, Size DEF DiskTypes
  <2> q \in Nat
    BY DiskPlaces
  <2> PICK d \in Nat, r \in 0 .. b - 1 : r = q % b /\ q = d * b + r
    BY Parts
  <2>1. d * b < (n + t + 1) * b /\ (n + t) * b < (d + 1) * b
    BY <1>6, SMTT(20)
  <2>2. d = n + t
    <3>1. CASE d >= n + t + 1
      BY <2>1, <3>1, SMTT(20)
    <3>2. CASE n + t >= d + 1
      BY <2>1, <3>2, SMTT(20)
    <3> QED
      BY <3>1, <3>2
  <2>3. n * b + r <= q /\ n * b + r \in Nat
    BY <2>2, SMTT(20)
  <2>4. t = 0 => n * b + r = q
    BY <2>2
  <2> QED
    BY <2>3, <2>4, DiskPlaces, Size
<1>7. disk' \in [DiskPlace -> Byte]
  <2>1. \A q \in DiskPlace : disk'[q] \in Byte
    <3> SUFFICES ASSUME NEW q \in DiskPlace PROVE disk'[q] \in Byte
      OBVIOUS
    <3>1. q \in place + x .. place + x + y - 1 => bytes[q - place + 1] \in Byte
      <4> SUFFICES ASSUME q \in place + x .. place + x + y - 1 PROVE bytes[q - place + 1] \in Byte
        OBVIOUS
      <4>1. q - place + 1 \in 1 .. Len(bytes)
        BY <1>1, <1>2 DEF DiskTypes, DiskInv, WrittenSoFar
      <4> QED
        BY <1>1, <4>1, ElementOfSeq DEF DiskTypes
    <3> QED
      BY <1>1, <1>5, <1>6, <3>1 DEF DiskTypes
  <2>2. disk' = [q \in DiskPlace |-> disk'[q]]
    BY DEF WriteTurn
  <2> QED
    BY <2>1, <2>2
<1>8. DiskTypes'
  BY <1>1, <1>3, <1>7 DEF DiskTypes
<1>9. ASSUME NEW k \in 1 .. x + y PROVE disk'[place + k - 1] = bytes[k]
  <2> PICK q \in DiskPlace : q = place + k - 1
    <3>1. place + k - 1 \in Nat /\ place + k - 1 < place + size
      BY <1>1, <1>2 DEF DiskTypes
    <3>2. place + size <= Blocks * ATA_BLOCKSIZE /\ Blocks * ATA_BLOCKSIZE \in Nat
          /\ place + size \in Nat
      BY <1>1, Size, SMTT(20) DEF DiskTypes
    <3>3. place + k - 1 < Blocks * ATA_BLOCKSIZE
      BY <3>1, <3>2
    <3> QED
      BY <3>1, <3>3, DiskPlaces
  <2>1. CASE k <= x
    <3>1. turn > 0
      BY <1>1, <2>1 DEF Moved, DiskTypes
    <3>2. q \notin low .. high - 1
      BY <1>1, <1>2, <2>1, <3>1 DEF DiskTypes
    <3>3. disk[q] = bytes[k]
      BY <1>1, <1>3, <2>1 DEF DiskInv, WrittenSoFar
    <3> QED
      BY <1>5, <3>2, <3>3
  <2>2. CASE k > x
    <3>1. q \in place + x .. place + x + y - 1 /\ q - place + 1 = k
      BY <1>1, <2>2 DEF DiskTypes
    <3> QED
      BY <1>5, <3>1
  <2> QED
    BY <2>1, <2>2
<1>10. ASSUME NEW q \in DiskPlace, disk'[q] # before[q]
       PROVE  \/ q \in place .. place + (x + y) - 1
              \/ \E b \in (StartBlock + 1) .. (StartBlock + (turn + 1) - 1) : q \in Block(b)
  <2>0. q \in Nat /\ place \in Nat /\ turn \in Nat /\ StartBlock \in Nat
    BY <1>1, DiskPlaces, TurnFacts DEF DiskTypes
  <2>1. CASE disk'[q] = disk[q]
    <3>1. \/ q \in place .. place + x - 1
          \/ \E b \in (StartBlock + 1) .. (StartBlock + turn - 1) : q \in Block(b)
      BY <1>1, <1>3, <1>10, <2>1 DEF DiskInv, WrittenSoFar
    <3> QED
      BY <2>0, <3>1
  <2>2. CASE disk'[q] # disk[q]
    <3>1. q \in low .. high - 1
      BY <1>5, <2>2
    <3>2. CASE q \in place + x .. place + x + y - 1
      BY <2>0, <3>2
    <3>3. CASE q \notin place + x .. place + x + y - 1
      <4>1. turn > 0
        BY <1>5, <1>6, <2>0, <2>2, <3>1, <3>3
      <4>2. StartBlock + turn \in (StartBlock + 1) .. (StartBlock + (turn + 1) - 1)
        BY <2>0, <4>1
      <4> QED
        BY <1>4, <3>1, <4>2
    <3> QED
      BY <3>2, <3>3
  <2> QED
    BY <2>1, <2>2
<1>11. WrittenSoFar'
  <2>1. \A b : Block(b)' = Block(b)
    BY DEF Block
  <2> QED
    BY <1>1, <1>3, <1>9, <1>10, <2>1 DEF WrittenSoFar, DiskInv, Block
<1> QED
  BY <1>1, <1>8, <1>11 DEF DiskInv, ReadSoFar

\* Every turn keeps the invariant.
LEMMA DiskNextInv == DiskInv /\ [DiskNext]_diskVars => DiskInv'
<1> SUFFICES ASSUME DiskInv, [DiskNext]_diskVars PROVE DiskInv'
  OBVIOUS
<1>1. ASSUME NEW p \in DiskPlace, NEW n \in 0 .. MaxBytes, DiskRead(p, n) PROVE DiskInv'
  <2>1. DiskCall(p, n) /\ op' = "read" /\ bytes' = <<>>
    BY <1>1 DEF DiskRead
  <2>2. bytes' \in Seq(Byte) /\ Len(bytes') = 0 /\ n \in Nat
    BY <2>1
  <2> QED
    BY <2>1, <2>2, DiskCallInv
<1>2. ASSUME NEW p \in DiskPlace, NEW n \in 0 .. MaxBytes, NEW source \in [1 .. n -> Byte],
             DiskWrite(p, source)
      PROVE  DiskInv'
  <2>1. source \in Seq(Byte) /\ Len(source) = n /\ n \in Nat
    BY LenProperties
  <2>2. DiskCall(p, n) /\ op' = "write" /\ bytes' = source
    BY <1>2, <2>1 DEF DiskWrite
  <2> QED
    BY <2>1, <2>2, DiskCallInv
<1>3. CASE DiskReturns
  <2>1. /\ op' = "idle" /\ place' = 0 /\ size' = 0 /\ turn' = 0 /\ bytes' = <<>>
        /\ before' = disk /\ disk' = disk /\ disk \in [DiskPlace -> Byte]
    BY <1>3 DEF DiskReturns, DiskInv, DiskTypes
  <2>2. BlocksNeeded' \in Nat
    <3>1. InBlock' = 0
      BY <2>1, Size DEF InBlock
    <3> PICK b \in Nat \ {0} : b = ATA_BLOCKSIZE
      BY Size
    <3>2. BlocksNeeded' = (0 + b - 1) \div b
      BY <2>1, <3>1 DEF BlocksNeeded
    <3> QED
      BY <3>2, Needed
  <2>3. Blocks * ATA_BLOCKSIZE \in Nat
    BY Size, SMTT(20)
  <2> QED
    BY <2>1, <2>2, <2>3 DEF DiskInv, DiskTypes, ReadSoFar, WrittenSoFar
<1>4. CASE UNCHANGED diskVars
  BY <1>4 DEF diskVars, DiskInv, DiskTypes, ReadSoFar, WrittenSoFar, Got, Moved, BlocksNeeded,
              InBlock, StartBlock
<1> QED
  BY <1>1, <1>2, <1>3, <1>4, ReadTurnInv, WriteTurnInv DEF DiskNext

\* Between two turns of its loop a call has moved what it should have moved by then.
THEOREM DiskInvariant == DiskSpec => []DiskInv
BY DiskInitInv, DiskNextInv, PTL DEF DiskSpec

\* After the last turn all the bytes are there.
LEMMA DiskInvThere == DiskInv => BytesThere
<1> SUFFICES ASSUME DiskInv, turn = BlocksNeeded PROVE BytesThere
  BY DEF BytesThere, ReadThere, WrittenThere
<1>1. Got = size /\ size \in Nat /\ place \in Nat /\ turn \in Nat /\ bytes \in Seq(Byte)
  BY DEF Got, DiskInv, DiskTypes
<1>2. ReadThere
  <2> SUFFICES ASSUME op = "read"
               PROVE  bytes = [k \in 1 .. size |-> disk[place + k - 1]]
    BY DEF ReadThere
  <2>1. Len(bytes) = size /\ \A k \in 1 .. size : bytes[k] = disk[place + k - 1]
    BY <1>1 DEF DiskInv, ReadSoFar
  <2>2. bytes = [k \in 1 .. size |-> bytes[k]]
    BY <1>1, <2>1, LenProperties
  <2> QED
    BY <2>1, <2>2
<1>3. WrittenThere
  BY <1>1 DEF WrittenThere, WrittenSoFar, DiskInv
<1> QED
  BY <1>2, <1>3 DEF BytesThere

\* Whatever the block size, the place and the number of bytes: disk_read returns the
\* bytes that are there, and disk_write leaves there the bytes it was given and, but
\* for the blocks behind the first one, touches no other.
THEOREM DiskBytesThere == DiskSpec => []BytesThere
BY DiskInvariant, DiskInvThere, PTL
=============================================================================
