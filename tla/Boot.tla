-------------------------------- MODULE Boot --------------------------------
(***************************************************************************)
(* kernel_main from its first call to the shell: the map of memory is      *)
(* built, the interrupt controllers are programmed, each device's handler  *)
(* is registered and its line enabled, the mouse is asked to report.       *)
(*                                                                         *)
(* interrupt_init enables interrupts before any device is set up, so from  *)
(* then on handlers run between any two steps.  The waits of ps2.c and of  *)
(* the probes end by the clock when a device stays silent.  There is one   *)
(* process: nothing is preempted and every handler is acknowledged at once *)
(* (Kernel has the rest).  Lines are numbered from 0; the code adds 32.    *)
(***************************************************************************)
EXTENDS Naturals, FiniteSets, Sequences

CONSTANTS PagesTotal,    \* pages_total
          ByteBits,      \* bits in a byte: 8, fewer in an instance
          CELL_BITS,     \* bits in a cell of freemap: 32
          PAGE_SIZE,     \* bytes in a page: 4096
          ProcessPages,  \* pages process_create takes
          HeapEvents,    \* events that fit in a page of the heap
          MaxTaken,      \* bound: blocks of the heap taken before the shell is there
          SECOND         \* clicks in the PS2_TIMEOUT

ASSUME BootAssumption ==
    /\ {PagesTotal, ByteBits, CELL_BITS, PAGE_SIZE, HeapEvents, SECOND}
         \subseteq Nat \ {0}
    /\ {ProcessPages, MaxTaken} \subseteq Nat
    /\ CELL_BITS % ByteBits = 0

VARIABLES at,          \* the step of kernel_main that comes next
          freemap,     \* the pages whose bit is set
          given,       \* the pages handed out, by use
          room,        \* events that fit into what the heap has
          handler,     \* interrupt_handler_table: the lines with a handler of their own
          mask,        \* the lines masked in the controllers
          request,     \* the lines on which an interrupt is pending
          service,     \* those being served, the cascade line among them
          enabled,     \* the processor's interrupt flag
          full,        \* is there a byte in the PS/2 data port?
          mouse_cycle, \* bytes of the packet that mouse_interrupt has
          waited,      \* clicks since the wait in progress began
          spurious     \* lines that reached unknown_hardware

memory   == <<freemap, given, room>>
pic      == <<handler, mask, request, service, enabled, spurious>>
ps2      == <<full, mouse_cycle>>
bootVars == <<at, memory, pic, ps2, waited>>

Line == 0 .. 15
Clock == 0
Keyboard == 1
Cascade == 2
Rtc == 8
Mouse == 12
Devices == {Clock, Keyboard, Rtc, Mouse}
Use == {"map", "process", "heap", "buffer", "beyond"}

\* Mutant: the line is enabled before its handler is there.
SetUpEnabled(i) == <<<<"enable", i>>, <<"register", i>>>>

\* kernel_main, with the calls of each xxx_init that other parts can notice.
SetUp(i) == <<<<"register", i>>, <<"enable", i>>>>
SetUpPort(i) == <<<<"register", i>>, <<"scan">>, <<"enable", i>>>>

\* Mutant: the mouse's line is open before its buffer is allocated.
MouseInitOpenFirst ==
    SetUpPort(Mouse)
      \o <<<<"page", "buffer">>, <<"page", "beyond">>,
           <<"wait">>, <<"wait">>, <<"wait">>, <<"scan">>, <<"wait">>, <<"scan">>>>

MouseInit ==
    <<<<"page", "buffer">>, <<"page", "beyond">>,
      <<"wait">>, <<"wait">>, <<"wait">>, <<"scan">>, <<"wait">>, <<"scan">>>>
      \o SetUpPort(Mouse)
AtaInit == SetUp(14) \o SetUp(15) \o <<<<"wait">>>>

\* Mutant: the mouse is set up before the clock ticks.
KernelMainMouseFirst ==
    <<<<"memory">>, <<"pic">>>> \o MouseInit \o SetUp(Rtc) \o SetUp(Clock)
      \o SetUpPort(Keyboard) \o <<<<"process">>>> \o AtaInit

KernelMain ==
    <<<<"memory">>, <<"pic">>>> \o SetUp(Rtc) \o SetUp(Clock) \o SetUpPort(Keyboard)
      \o <<<<"process">>>> \o MouseInit \o AtaInit

Ready == at = Len(KernelMain) + 1
Now(name) == ~Ready /\ KernelMain[at][1] = name
-----------------------------------------------------------------------------
\* memory_raw.c.  The free map has a bit for every page, in whole bytes, and is
\* searched in whole cells: the bits of the last cell past the last byte are
\* what memory held before.
Bytes == 1 + PagesTotal \div ByteBits
Cells == 1 + PagesTotal \div CELL_BITS
MapPages == 1 + Bytes \div PAGE_SIZE
CellOf(page) == page \div CELL_BITS
Unset == {page \in 0 .. Cells * CELL_BITS - 1 : page >= Bytes * ByteBits}

\* memory_alloc_page: the lowest page that is free; n of them, one after another.
Before(page, other) == page < other

First(n, free) ==
    {page \in free : Cardinality({other \in free : Before(other, page)}) < n}

Take(use, n) ==
    LET taken == First(n, freemap) IN
      /\ Cardinality(taken) = n
      /\ freemap' = freemap \ taken
      /\ given' = [given EXCEPT ![use] = @ \cup taken]

\* memory_detect_map runs while freemap is still 0 and what it clears is set
\* again by memset: reserved ranges leave no trace in the map.
MemoryInit ==
    /\ Now("memory")
    /\ \E garbage \in SUBSET Unset :
         LET all == (0 .. Bytes * ByteBits - 1) \cup garbage
             map == First(MapPages, all) IN
           /\ freemap' = {page \in all \ map : CellOf(page) \notin {0, 5}}
           /\ given' = [given EXCEPT !["map"] = map]
    /\ at' = at + 1
    /\ UNCHANGED <<room, pic, ps2, waited>>

\* process_init: the first process, and its permissions in the heap's first page.
ProcessInit ==
    /\ Now("process")
    /\ LET process == First(ProcessPages, freemap)
           heap == First(1, freemap \ process) IN
         /\ freemap' = freemap \ (process \cup heap)
         /\ given' = [given EXCEPT !["process"] = process, !["heap"] = @ \cup heap]
    /\ room' = HeapEvents - 1
    /\ at' = at + 1
    /\ UNCHANGED <<pic, ps2, waited>>

\* mouse_init allocates the two pages of mouse_draw_buffer one at a time.
MouseBuffer ==
    /\ Now("page")
    /\ Take(KernelMain[at][2], 1)
    /\ at' = at + 1
    /\ UNCHANGED <<room, pic, ps2, waited>>
-----------------------------------------------------------------------------
\* interrupt_init: everything masked and acknowledged, every line unknown.
InterruptInit ==
    /\ Now("pic")
    /\ mask' = Line
    /\ service' = {}
    /\ handler' = {}
    /\ enabled' = TRUE
    /\ at' = at + 1
    /\ UNCHANGED <<memory, request, ps2, waited, spurious>>

Register ==
    /\ Now("register")
    /\ handler' = handler \cup {KernelMain[at][2]}
    /\ at' = at + 1
    /\ UNCHANGED <<memory, mask, request, service, enabled, ps2, waited, spurious>>

\* pic_enable: a line of the second controller enables the cascade with it.
Unmasked(i) == IF i < 8 THEN {i} ELSE {i, Cascade}

Enable ==
    /\ Now("enable")
    /\ mask' = mask \ Unmasked(KernelMain[at][2])
    /\ at' = at + 1
    /\ UNCHANGED <<memory, handler, request, service, enabled, ps2, waited, spurious>>

\* keyboard_scan and mouse_scan: the data port is read, whatever is in it.
Scan ==
    /\ Now("scan")
    /\ full' = FALSE
    /\ at' = at + 1
    /\ UNCHANGED <<memory, pic, mouse_cycle, waited>>

\* The loops of ps2.c: until the port is ready or PS2_TIMEOUT has passed.  Both
\* ways kernel_main goes on.
WaitEnds ==
    /\ Now("wait")
    /\ full \/ waited = SECOND
    /\ waited' = 0
    /\ at' = at + 1
    /\ UNCHANGED <<memory, pic, ps2>>

\* A device asks for attention; the PS/2 devices do with a byte in the port.
Taken == Cardinality(given["heap"]) * HeapEvents - room

Raise(i) ==
    /\ i = Mouse => Taken < MaxTaken
    /\ request' = request \cup {i}
    /\ IF i \in {Keyboard, Mouse} THEN ~full /\ full' = TRUE ELSE UNCHANGED full
    /\ UNCHANGED <<at, memory, handler, mask, service, enabled, mouse_cycle, waited, spurious>>

\* pic_acknowledge.
Acknowledged(i) == IF i < 8 THEN {i} ELSE {i, Cascade}

\* What waits behind what is being served.
Blocked(i) ==
    \/ i < 8 /\ \E j \in service : j <= i
    \/ i >= 8 /\ \E j \in service : j <= Cascade

Deliverable(i) ==
    /\ enabled
    /\ i \in request \ mask
    /\ i >= 8 => Cascade \notin mask
    /\ ~Blocked(i)

\* send_event_mouse_move allocates an event; there is no active window yet, so
\* nobody has it and nobody frees it.
SendEventMouseMove ==
    IF room = 0
    THEN Take("heap", 1) /\ room' = HeapEvents - 1
    ELSE room' = room - 1 /\ UNCHANGED <<freemap, given>>

\* mouse_interrupt: the third byte completes a packet, the pointer may have moved.
MouseInterrupt ==
    /\ mouse_cycle' = (mouse_cycle + 1) % 3
    /\ UNCHANGED memory \/ (mouse_cycle = 2 /\ SendEventMouseMove)

\* interrupt_handler, with the parts of the handlers that matter here: what the
\* keyboard's does with a character allocates nothing without a window.
HandleInterrupt(i) ==
    /\ Deliverable(i)
    /\ request' = request \ {i}
    /\ service' = (service \cup Unmasked(i)) \ Acknowledged(i)
    /\ spurious' = IF i \in handler THEN spurious ELSE spurious \cup {i}
    /\ IF i = Mouse /\ i \in handler
       THEN MouseInterrupt
       ELSE UNCHANGED <<memory, mouse_cycle>>
    /\ full' = IF i \in {Keyboard, Mouse} \cap handler THEN FALSE ELSE full
    /\ waited' = IF i = Clock /\ i \in handler /\ Now("wait") /\ waited < SECOND
                 THEN waited + 1 ELSE waited
    /\ UNCHANGED <<at, handler, mask, enabled>>

\* kernel_main is about to take its step number n.
BootFrom(n) ==
    /\ at = n
    /\ freemap = {}
    /\ given = [use \in Use |-> {}]
    /\ room = 0
    /\ handler = {}
    /\ mask = {}
    /\ request = {}
    /\ service = {}
    /\ enabled = FALSE
    /\ full = FALSE
    /\ mouse_cycle = 0
    /\ waited = 0
    /\ spurious = {}

BootInit == BootFrom(1)

BootMain ==
    \/ MemoryInit \/ InterruptInit \/ Register \/ Enable \/ Scan
    \/ ProcessInit \/ MouseBuffer \/ WaitEnds

BootNext == BootMain \/ \E i \in Devices : Raise(i) \/ HandleInterrupt(i)

\* The processor runs, the clock ticks and the controllers deliver.
BootFairness ==
    /\ WF_bootVars(BootMain)
    /\ WF_bootVars(Raise(Clock))
    /\ \A i \in Devices : WF_bootVars(HandleInterrupt(i))

BootSpec == BootInit /\ [][BootNext]_bootVars /\ BootFairness
-----------------------------------------------------------------------------
\* main.c: "Now we initialize each subsystem in the proper order".  Interrupts
\* are enabled long before the devices are set up, and still none is ever
\* delivered to unknown_hardware: a line is opened only behind its handler.
HandlersReady == spurious = {}

\* mouse.c: "Since this is in startup, we can call two in a row and know that it
\* will be contiguous".  So the two pages are, unless the first is the last below
\* the blocked cell 5 or of the map, and no one else ever has them: the one
\* handler that allocates, the mouse's own, finds its line open only later, and
\* the events it then leaves behind are in other pages.
MouseBufferWhole ==
    LET ours == {"buffer", "beyond"} IN
      /\ \A p \in given["buffer"], q \in given["beyond"] :
            q = p + 1 \/ CellOf(p + 1) = 5 \/ p + 1 >= Bytes * ByteBits
      /\ \A use \in Use \ ours : given[use] \cap UNION {given[u] : u \in ours} = {}

\* The machine comes up whatever the mouse and the drives answer: the waits end
\* by the clock, whose handler must be there, open and acknowledged by then.
BootEnds == <>Ready
=============================================================================
