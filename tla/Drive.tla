------------------------------- MODULE Drive --------------------------------
(***************************************************************************)
(* The disk driver, ata.c, and one channel with its drives. A transfer     *)
(* polls the status register between its steps, sleeps once until the      *)
(* drive's interrupt, and resets the channel when a poll ends in an error  *)
(* or takes too long. ata_mutex admits one transfer at a time.             *)
(*                                                                         *)
(* The driver never clears ata_interrupt_active, and it tests it after it  *)
(* has given the command: it then sleeps whatever has come or will come.   *)
(* The steps that make it sleep for ever happen if Unprotected: an         *)
(* interrupt before the sleep, and a packet the drive does not ask for.    *)
(* So does an error after the last block of a write, which nothing sees.   *)
(*                                                                         *)
(* The drives are external: what the driver expects of them.               *)
(***************************************************************************)
EXTENDS Integers, Sequences, FiniteSets

CONSTANTS Process,
          Boot,         \* the process that runs ata_init
          Drive,        \* the drives of the channel, 0 and 1
          Kinds,        \* what each drive may be: "ata", "atapi" or "none"
          Offset,       \* block numbers asked for
          MaxBlocks,    \* bound: blocks of one transfer
          Fails,        \* drives report errors and answer too late
          Unprotected

ASSUME DriveAssumption ==
    /\ Boot \in Process /\ 0 \in Drive
    /\ Offset \subseteq Nat /\ MaxBlocks \in Nat \ {0}

VARIABLES ata_interrupt_active,
          queue,        \* the processes asleep until an interrupt
          ata_mutex,    \* who holds it
          unit,         \* ata_init: the drive it probes
          found,        \* what it has found
          kind, selected, status, job, medium,  \* the channel and its drives
          pc, call, buffer, result              \* per process

driver == <<ata_interrupt_active, queue, ata_mutex, unit, found>>
channel == <<kind, selected, status, job, medium>>
vars == <<driver, channel, pc, call, buffer, result>>

NoOne == {}
NoJob == [op |-> "none", block |-> 0, left |-> 0, ready |-> FALSE]
NoCall == [op |-> "none", id |-> 0, offset |-> 0, nblocks |-> 0]

\* The blocks of a medium that a transfer can reach.
Reached == {o + k : o \in Offset, k \in 0 .. MaxBlocks - 1}

Identifies(op) == op \in {"identify", "identify packet"}

\* The bits of the status register that are set when a drive has nothing to do.
\* An ATAPI drive does not raise RDY, and no drive raises nothing.
Idle(d) == IF kind[d] = "ata" THEN {"RDY"} ELSE {}

\* What ata_wait waits for at each place it is called from: of mask, the bits state.
Mask(at, op) ==
    CASE at = "ready" /\ op \in {"read", "write", "identify"} -> {"BSY", "RDY"}
      [] at = "packet" -> {"BSY", "DRQ"}
      [] at = "data" -> {"DRQ"}
      [] OTHER -> {"BSY"}

Wanted(at, op) == Mask(at, op) \ {"BSY"}

Waits == {"calm", "ready", "packet", "data", "done"}

Seen(p) ==
    /\ pc[p] \in Waits
    /\ status[selected] \cap Mask(pc[p], call[p].op) = Wanted(pc[p], call[p].op)

Init ==
    /\ ata_interrupt_active = FALSE /\ queue = {} /\ ata_mutex = NoOne
    /\ unit = 0 /\ found = [d \in Drive |-> "none"]
    /\ kind \in Kinds
    /\ selected = 0
    /\ status = [d \in Drive |-> Idle(d)]
    /\ job = [d \in Drive |-> NoJob]
    /\ medium = [d \in Drive |-> [b \in Reached |-> "old"]]
    /\ pc = [p \in Process |-> "idle"]
    /\ call = [p \in Process |-> NoCall]
    /\ buffer = [p \in Process |-> <<>>]
    /\ result = [p \in Process |-> "none"]
-----------------------------------------------------------------------------
Goes(p, place) == pc' = [pc EXCEPT ![p] = place]

Begins(p, c, place) ==
    /\ call' = [call EXCEPT ![p] = c]
    /\ buffer' = [buffer EXCEPT ![p] = <<>>]
    /\ result' = [result EXCEPT ![p] = "none"]
    /\ Goes(p, place)

\* ata_reset: the drives of the channel forget what they were doing.
Reset ==
    /\ selected' = 0
    /\ status' = [d \in Drive |-> Idle(d)]
    /\ job' = [d \in Drive |-> NoJob]
    /\ UNCHANGED <<kind, medium>>

\* ata_probe: a status of all ones is a channel without drives.
ProbeEmpty ==
    /\ unit \in Drive /\ pc[Boot] = "idle"
    /\ \A d \in Drive : kind[d] = "none"
    /\ unit' = unit + 1
    /\ UNCHANGED <<ata_interrupt_active, queue, ata_mutex, found, channel, pc, call,
                   buffer, result>>

Probe ==
    /\ unit \in Drive /\ pc[Boot] = "idle"
    /\ \E d \in Drive : kind[d] # "none"
    /\ Reset
    /\ Begins(Boot, [op |-> "identify", id |-> unit, offset |-> 0, nblocks |-> 1], "calm")
    /\ UNCHANGED driver

\* ata_identify returns: the one for disks, then the one for other drives.
Identified(p) ==
    /\ pc[p] = "over" /\ Identifies(call[p].op)
    /\ IF call[p].op = "identify" /\ result[p] = "failed"
       THEN /\ Begins(p, [call[p] EXCEPT !.op = "identify packet"], "calm")
            /\ UNCHANGED <<unit, found>>
       ELSE /\ unit' = unit + 1
            /\ Begins(p, NoCall, "idle")
            /\ found' = [found EXCEPT ![unit] =
                 CASE result[p] = "failed" -> "none"
                   [] call[p].op = "identify" -> "ata"
                   [] OTHER -> "atapi"]
    /\ UNCHANGED <<ata_interrupt_active, queue, ata_mutex, channel>>

\* ata_read, ata_write and atapi_read, called for a drive of their kind.
Lock(p, c) ==
    /\ unit \notin Drive /\ pc[p] = "idle"
    /\ ata_mutex = NoOne
    /\ ata_mutex' = {p}
    /\ Begins(p, c, "calm")
    /\ UNCHANGED <<ata_interrupt_active, queue, unit, found, channel>>

\* The transfer returns; its variables are gone.
Unlock(p) ==
    /\ pc[p] = "over" /\ ~Identifies(call[p].op)
    /\ ata_mutex' = NoOne
    /\ Begins(p, NoCall, "idle")
    /\ UNCHANGED <<ata_interrupt_active, queue, unit, found, channel>>

\* ata_begin and atapi_begin: select the drive,
Select(p) ==
    /\ pc[p] = "calm" /\ Seen(p)
    /\ selected' = call[p].id
    /\ Goes(p, "ready")
    /\ UNCHANGED <<driver, kind, status, job, medium, call, buffer, result>>

\* and give the command. The drive takes those it knows.
Knows(d, op) ==
    kind[d] = (IF op \in {"packet", "identify packet"} THEN "atapi" ELSE "ata")

AfterCommand(op) ==
    CASE op = "read" -> "test" [] op = "packet" -> "packet" [] OTHER -> "data"

Command(p) ==
    LET c == call[p] IN
    /\ pc[p] = "ready" /\ Seen(p)
    /\ IF Knows(selected, c.op)
       THEN /\ job' = [job EXCEPT ![selected] =
                   [op |-> c.op, block |-> c.offset, left |-> c.nblocks, ready |-> FALSE]]
            /\ status' = [status EXCEPT ![selected] = {"BSY"}]
       ELSE /\ status' = [status EXCEPT ![selected] =
                   IF kind[selected] = "none" THEN {} ELSE Idle(selected) \cup {"ERR"}]
            /\ UNCHANGED job
    /\ Goes(p, AfterCommand(c.op))
    /\ UNCHANGED <<driver, kind, selected, medium, call, buffer, result>>

\* atapi_begin: the packet.
SendPacket(p) ==
    /\ pc[p] = "packet" /\ Seen(p)
    /\ job' = [job EXCEPT ![selected].ready = TRUE]
    /\ status' = [status EXCEPT ![selected] = {"BSY"}]
    /\ Goes(p, "test")
    /\ UNCHANGED <<driver, kind, selected, medium, call, buffer, result>>

AfterTest(op) == IF op = "write" THEN "done" ELSE "data"

\* The test of ata_interrupt_active, and process_wait.
Sleep(p) ==
    /\ pc[p] = "test"
    /\ IF ata_interrupt_active
       THEN queue' = queue \cup {p} /\ Goes(p, "asleep")
       ELSE Goes(p, AfterTest(call[p].op)) /\ UNCHANGED queue
    /\ UNCHANGED <<ata_interrupt_active, ata_mutex, unit, found, channel, call, buffer,
                   result>>

AfterData(op) ==
    CASE op = "read" -> "done" [] op = "write" -> "test" [] OTHER -> "over"

\* Mutant: the last block is left out.
IsLastButOne(p) == Len(buffer[p]) + 2 >= call[p].nblocks

IsLast(p) == Len(buffer[p]) + 1 = call[p].nblocks

\* The loop over the blocks: one block through the data register. The result is
\* good when nothing is left to wait for.
Data(p) ==
    LET c == call[p]
        j == job[selected]
        place == IF IsLast(p) THEN AfterData(c.op) ELSE "data"
        rest == [j EXCEPT !.block = @ + 1, !.left = @ - 1, !.ready = TRUE]
    IN /\ pc[p] = "data" /\ Seen(p)
       /\ buffer' = [buffer EXCEPT ![p] = Append(@, <<selected, j.block>>)]
       /\ medium' = IF j.op = "write" THEN [medium EXCEPT ![selected][j.block] = p]
                    ELSE medium
       /\ job' = [job EXCEPT ![selected] = IF Identifies(j.op) THEN NoJob ELSE rest]
       /\ status' = [status EXCEPT ![selected] =
            IF Identifies(j.op) THEN Idle(selected) ELSE {"BSY"}]
       /\ Goes(p, place)
       /\ result' = IF place = "over" THEN [result EXCEPT ![p] = "good"] ELSE result
       /\ UNCHANGED <<driver, kind, selected, call>>

\* The last wait of ata_read and ata_write.
Done(p) ==
    /\ pc[p] = "done" /\ Seen(p)
    /\ Goes(p, "over")
    /\ result' = [result EXCEPT ![p] = "good"]
    /\ UNCHANGED <<driver, channel, call, buffer>>

\* ata_wait gives up: an error, or more than ATA_TIMEOUT seconds, which is sure
\* if the drive has nothing to do. The packet is sent all the same, to a drive
\* that has forgotten its command.
GivesUp(p) ==
    /\ pc[p] \in Waits /\ ~Seen(p)
    /\ \/ "ERR" \in status[selected]
       \/ job[selected] = NoJob
       \/ Fails
    /\ pc[p] = "packet" => Unprotected
    /\ UNCHANGED <<driver, call, buffer>>

\* Mutant: the channel is not reset.
WaitFailsOnly(p) ==
    /\ GivesUp(p)
    /\ UNCHANGED channel
    /\ IF pc[p] = "packet"
       THEN Goes(p, "test") /\ UNCHANGED result
       ELSE Goes(p, "over") /\ result' = [result EXCEPT ![p] = "failed"]

WaitFails(p) ==
    /\ GivesUp(p)
    /\ Reset
    /\ IF pc[p] = "packet"
       THEN Goes(p, "test") /\ UNCHANGED result
       ELSE Goes(p, "over") /\ result' = [result EXCEPT ![p] = "failed"]
-----------------------------------------------------------------------------
\* ata_interrupt
\* Mutant: it wakes no one.
InterruptOnly ==
    /\ ata_interrupt_active' = TRUE
    /\ UNCHANGED <<queue, pc>>

Interrupt ==
    /\ ata_interrupt_active' = TRUE
    /\ queue' = {}
    /\ pc' = [p \in Process |-> IF p \in queue THEN AfterTest(call[p].op) ELSE pc[p]]

\* The interrupt a process is going to sleep for does not come before it sleeps.
NotEarly(d) ==
    Unprotected \/ \A p \in Process : call[p].id = d => pc[p] # "test"

\* A drive asks for a block or a packet. Of a command's first block the driver is
\* told when it is to be read, not when it is to be written.
Asks(d) ==
    /\ job[d] # NoJob /\ job[d].left > 0 /\ "BSY" \in status[d]
    /\ status' = [status EXCEPT ![d] = Idle(d) \cup {"DRQ"}]
    /\ IF job[d].op \in {"write", "packet"} /\ ~job[d].ready
       THEN UNCHANGED <<ata_interrupt_active, queue, pc>>
       ELSE NotEarly(d) /\ Interrupt
    /\ UNCHANGED <<ata_mutex, unit, found, kind, selected, job, medium, call, buffer,
                   result>>

\* It has done the command,
Finishes(d) ==
    /\ job[d] # NoJob /\ job[d].left = 0
    /\ NotEarly(d) /\ Interrupt
    /\ status' = [status EXCEPT ![d] = Idle(d)]
    /\ job' = [job EXCEPT ![d] = NoJob]
    /\ UNCHANGED <<ata_mutex, unit, found, kind, selected, medium, call, buffer, result>>

\* or it reports an error. The blocks of a write it had not finished are not kept.
Breaks(d) ==
    /\ Fails /\ job[d] # NoJob /\ "BSY" \in status[d]
    /\ job[d].op = "write" /\ job[d].left = 0 => Unprotected
    /\ job[d].op = "packet" /\ ~job[d].ready => Unprotected
    /\ NotEarly(d) /\ Interrupt
    /\ status' = [status EXCEPT ![d] = Idle(d) \cup {"ERR"}]
    /\ job' = [job EXCEPT ![d] = NoJob]
    /\ medium' = IF job[d].op = "write"
                 THEN [medium EXCEPT ![d] = [b \in DOMAIN @ |-> "lost"]] ELSE medium
    /\ UNCHANGED <<ata_mutex, unit, found, kind, selected, call, buffer, result>>

\* What a drive of each kind is asked for.
Op(k) == CASE k = "ata" -> {"read", "write"} [] k = "atapi" -> {"packet"} [] OTHER -> {}

Call ==
    UNION {[op : Op(kind[d]), id : {d}, offset : Offset, nblocks : 1 .. MaxBlocks]
           : d \in Drive}

Step(p) ==
    \/ Identified(p) \/ Unlock(p) \/ Select(p) \/ Command(p) \/ SendPacket(p)
    \/ Sleep(p) \/ Data(p) \/ Done(p) \/ WaitFails(p)

DriveStep(d) == Asks(d) \/ Finishes(d) \/ Breaks(d)

Next ==
    \/ ProbeEmpty \/ Probe
    \/ \E p \in Process : Step(p) \/ \E c \in Call : Lock(p, c)
    \/ \E d \in Drive : DriveStep(d)

Spec == Init /\ [][Next]_vars

\* A process that can run does, and a drive with a command answers.
FairSpec ==
    /\ Spec
    /\ WF_vars(ProbeEmpty) /\ WF_vars(Probe)
    /\ \A p \in Process : WF_vars(Step(p))
    /\ \A d \in Drive : WF_vars(DriveStep(d))
-----------------------------------------------------------------------------
Place == Waits \cup {"idle", "test", "asleep", "over"}

\* A transfer that returns success has moved the blocks it was asked for, of its
\* drive and in their order: none of another transfer, none twice. What a write
\* reported as done is on the medium.
RightBlocks ==
    \A p \in Process : pc[p] = "over" /\ result[p] = "good" =>
        LET c == call[p] IN
        /\ buffer[p] = [k \in 1 .. c.nblocks |-> <<c.id, c.offset + k - 1>>]
        /\ c.op = "write" =>
             \A k \in 1 .. c.nblocks : medium[c.id][c.offset + k - 1] = p

\* A transfer that returns failure has left its drive without a command: no block
\* and no interrupt of it meets the next transfer.
FailureIsFinal ==
    \A p \in Process : pc[p] = "over" /\ result[p] = "failed" => job[call[p].id] = NoJob

\* A transfer ends: whoever has the mutex gives it back.
TransferEnds ==
    \A p \in Process : (ata_mutex = {p}) ~> (ata_mutex # {p})
=============================================================================
