------------------------------ MODULE MCDevices -----------------------------
(***************************************************************************)
(* The devices, each part in states of its own: two processes use drives   *)
(* of the kinds a PC may have on a channel, a disk and a CD, a CD alone,   *)
(* nothing (Drive); bytes are read and written with transfers of one step  *)
(* each (Disk); the machine boots (Boot); a process sleeps (Clock); a      *)
(* program shows the time (Rtc).                                           *)
(***************************************************************************)
EXTENDS Drive, Disk, Boot, Clock, Rtc

CONSTANTS p1, p2,
          Parts     \* those that run: "drive", "disk", "boot", "sleep", "show"

Channels == {[d \in {0, 1} |-> IF d = 0 THEN "ata" ELSE "atapi"],
             [d \in {0, 1} |-> IF d = 0 THEN "atapi" ELSE "none"],
             [d \in {0, 1} |-> "none"]}

VARIABLE part     \* the one that runs

timeVars == <<bootVars, clockVars, rtcVars>>
mcVars == <<part, vars, diskVars, timeVars>>

\* What each part is when another one runs.
NoDrives == Init /\ kind = [d \in {0, 1} |-> "none"]
NoBytes == DiskInit /\ disk = [q \in DiskPlace |-> q % 2]
Booted == BootFrom(Len(KernelMain) + 1)
NotAsleep == ClockInit /\ seconds = 0
NotShown == now = 0 /\ RtcFrom(<<"idle", "">>)

MCInit ==
    /\ part \in Parts
    /\ IF part = "drive" THEN Init ELSE NoDrives
    /\ IF part = "disk" THEN DiskInit ELSE NoBytes
    /\ IF part = "boot" THEN BootInit ELSE Booted
    /\ IF part = "sleep" THEN ClockInit ELSE NotAsleep
    /\ IF part = "show" THEN RtcInit ELSE NotShown

Drives(action) == part = "drive" /\ action /\ UNCHANGED <<part, diskVars, timeVars>>
Boots(action) ==
    part = "boot" /\ action /\ UNCHANGED <<part, vars, diskVars, clockVars, rtcVars>>
Sleeps(action) ==
    part = "sleep" /\ action /\ UNCHANGED <<part, vars, diskVars, bootVars, rtcVars>>
Shows(action) ==
    part = "show" /\ action /\ UNCHANGED <<part, vars, diskVars, bootVars, clockVars>>

DriveRuns == Drives(Next)
DiskRuns == part = "disk" /\ DiskNext /\ UNCHANGED <<part, vars, timeVars>>
BootRuns == Boots(BootNext)
ClockRuns == Sleeps(ClockNext)
RtcRuns == Shows(RtcNext)

\* The fairness of each part; Disk's properties are about calls that return.
MCSpec ==
    /\ MCInit
    /\ [][DriveRuns \/ DiskRuns \/ BootRuns \/ ClockRuns \/ RtcRuns]_mcVars
    /\ WF_mcVars(Drives(ProbeEmpty))
    /\ WF_mcVars(Drives(Probe))
    /\ \A p \in Process : WF_mcVars(Drives(Step(p)))
    /\ \A d \in Drive : WF_mcVars(Drives(DriveStep(d)))
    /\ WF_mcVars(Boots(BootMain))
    /\ WF_mcVars(Boots(Raise(Clock)))
    /\ \A i \in Devices : WF_mcVars(Boots(HandleInterrupt(i)))
    /\ WF_mcVars(Sleeps(ClockInterrupt))
    /\ WF_mcVars(Sleeps(LoadSeconds \/ LoadClicks \/ Return))
    /\ WF_mcVars(Shows(RtcStep))
=============================================================================
