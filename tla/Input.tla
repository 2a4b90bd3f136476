------------------------------- MODULE Input --------------------------------
(***************************************************************************)
(* From the keys to the shell and to the programs with a window:           *)
(* keyboard.c with the table of keymap.us.c, window_manager.c and the      *)
(* parts of window.c and syscall_handler_window.c that touch the queues.   *)
(*                                                                         *)
(* A character is a number, in the order typed, and whether it ends a      *)
(* line; which glyph it is matters to keyboard_map only. The shell reads   *)
(* lines with interrupts enabled, so a key may fall between its test of    *)
(* the buffer and its wait (Unprotected).                                  *)
(***************************************************************************)
EXTENDS Integers, Sequences, FiniteSets

CONSTANTS Program,               \* the programs that may open a window
          None,                  \* no active window
          KEYBOARD_BUFFER_SIZE,
          Codes,                 \* the keys there are, rows of the keymap
          MaxTyped,              \* bound: characters and events
          Unprotected            \* may a key fall between the test and the wait?

ASSUME InputAssumption ==
    /\ KEYBOARD_BUFFER_SIZE \in Nat \ {0}
    /\ None \notin Program
    /\ MaxTyped \in Nat
    /\ Unprotected \in BOOLEAN

VARIABLES mode,          \* shift_mode, alt_mode, ctrl_mode, shiftlock_mode
          held,          \* the special keys that are down
          typed,         \* characters and events so far
          buffer, buffer_read, buffer_write,
          overtaken,     \* the last character stored into a full buffer
          reader,        \* where the shell is in keyboard_read
          got,           \* the character keyboard_read has returned last
          str_buffer,    \* the line so far
          active_window, \* the program whose window it is, or None
          has_window,    \* has the program a window?
          event_queue,   \* its queue, newest first
          seen           \* the last event sys_get_event gave it

modes == <<mode, held>>
ring == <<buffer, buffer_read, buffer_write, overtaken>>
line == <<reader, got, str_buffer>>
windows == <<active_window, has_window, event_queue, seen>>
vars == <<modes, typed, ring, line, windows>>

Size == KEYBOARD_BUFFER_SIZE
Invalid == "KEY_INVALID"

\* A row for each kind of key in the table.
Row(n, s, c, sp) == [normal |-> n, shifted |-> s, ctrled |-> c, special |-> sp]

keymap == [
    a      |-> Row("a", "A", "SOH", "none"),
    one    |-> Row("1", "!", "1", "none"),
    enter  |-> Row("CR", "CR", "CR", "none"),
    delete |-> Row("DEL", "DEL", "DEL", "none"),
    dead   |-> Row(Invalid, Invalid, Invalid, "none"),
    lshift |-> Row(Invalid, Invalid, Invalid, "shift"),
    rshift |-> Row(Invalid, Invalid, Invalid, "shift"),
    ctrl   |-> Row(Invalid, Invalid, Invalid, "ctrl"),
    alt    |-> Row(Invalid, Invalid, Invalid, "alt"),
    lock   |-> Row(Invalid, Invalid, Invalid, "shiftlock")]

Special == {code \in Codes : keymap[code].special # "none"}
IsLetter(c) == c = "a"

\* What keyboard_map does to the modes. shiftlock turns when it is let go.
ModeAfter(m, code, down) ==
    CASE keymap[code].special \in {"shift", "alt", "ctrl"} ->
            [m EXCEPT ![keymap[code].special] = down]
      [] keymap[code].special = "shiftlock" /\ ~down ->
            [m EXCEPT !["shiftlock"] = ~@]
      [] OTHER -> m

Reboots(m, code, down) ==
    down /\ m["ctrl"] /\ m["alt"] /\ keymap[code].normal = "DEL"

\* What it returns: shiftlock turns letters over, with or without shift, and
\* goes before ctrl.
Mapped(m, code, down) ==
    LET row == keymap[code] IN
    CASE row.special # "none" \/ ~down -> Invalid
      [] m["shiftlock"] ->
            IF m["shift"] # IsLetter(row.normal) THEN row.shifted ELSE row.normal
      [] m["shift"] -> row.shifted
      [] m["ctrl"] -> row.ctrled
      [] OTHER -> row.normal

NoModes == [k \in {"shift", "alt", "ctrl", "shiftlock"} |-> FALSE]

Key(n, ends) == [n |-> n, ends |-> ends]

Init ==
    /\ mode = NoModes
    /\ held = {}
    /\ typed = 0
    /\ buffer = [i \in 0 .. Size - 1 |-> Key(0, FALSE)]
    /\ buffer_read = 0
    /\ buffer_write = 0
    /\ overtaken = 0
    /\ reader = "test"
    /\ got = 0
    /\ str_buffer = <<>>
    /\ active_window = None
    /\ has_window = [p \in Program |-> FALSE]
    /\ event_queue = [p \in Program |-> <<>>]
    /\ seen = [p \in Program |-> 0]
-----------------------------------------------------------------------------
\* send_event: list_push_head on the active window's queue.
\* Mutant: pushed at the end that sys_get_event takes from.
SendEventLast(n) ==
    event_queue' = [event_queue EXCEPT ![active_window] = Append(@, n)]

SendEvent(n) ==
    event_queue' = [event_queue EXCEPT ![active_window] = <<n>> \o @]

\* keyboard_interrupt's test for a full buffer: the other side of the equation
\* is reduced.
\* Mutant: one place earlier.
IsFullEarly(write, read) == (write + 2) % Size = read

IsFull(write, read) == write + 1 = read % Size

\* process_wakeup(&queue).
\* Mutant: no one is woken.
NoWakeup == UNCHANGED reader

Wakeup == reader' = IF reader = "waiting" THEN "test" ELSE reader

\* How many characters the reader has not taken.
Unread == (buffer_write + Size - buffer_read) % Size

Buffer(k) ==
    IF IsFull(buffer_write, buffer_read)
    THEN UNCHANGED <<ring, line>>
    ELSE /\ buffer' = [buffer EXCEPT ![buffer_write] = k]
         /\ buffer_write' = (buffer_write + 1) % Size
         /\ overtaken' = IF Unread = Size - 1 THEN k.n ELSE overtaken
         /\ Wakeup
         /\ UNCHANGED <<buffer_read, got, str_buffer>>

Deliver(n, ends) ==
    IF active_window # None
    THEN SendEvent(n) /\ UNCHANGED <<ring, line>>
    ELSE Buffer(Key(n, ends)) /\ UNCHANGED event_queue

\* A key goes down, or repeats, or comes up; one that makes no character.
KeyboardSilent(code, down) ==
    /\ Mapped(mode, code, down) = Invalid
    /\ ~Reboots(mode, code, down)
    /\ mode' = ModeAfter(mode, code, down)
    /\ held' = IF code \notin Special THEN held
               ELSE IF down THEN held \cup {code} ELSE held \ {code}
    /\ UNCHANGED <<typed, ring, line, windows>>

KeyboardInterrupt(code, down) ==
    /\ Mapped(mode, code, down) # Invalid
    /\ ~Reboots(mode, code, down)
    /\ typed < MaxTyped
    /\ typed' = typed + 1
    /\ Deliver(typed + 1, keymap[code].normal = "CR")
    /\ UNCHANGED <<modes, active_window, has_window, seen>>

\* Everything but the keys that are down begins again.
Reboot(code) ==
    /\ Reboots(mode, code, TRUE)
    /\ held' = held
    /\ mode' = NoModes
    /\ typed' = 0
    /\ buffer' = [i \in 0 .. Size - 1 |-> Key(0, FALSE)]
    /\ buffer_read' = 0 /\ buffer_write' = 0 /\ overtaken' = 0
    /\ reader' = "test" /\ got' = 0 /\ str_buffer' = <<>>
    /\ active_window' = None
    /\ has_window' = [p \in Program |-> FALSE]
    /\ event_queue' = [p \in Program |-> <<>>]
    /\ seen' = [p \in Program |-> 0]

\* mouse_interrupt's send_event_mouse_move; without a window it changes nothing
\* here.
SendEventMouseMove ==
    /\ active_window # None
    /\ typed < MaxTyped
    /\ typed' = typed + 1
    /\ SendEvent(typed + 1)
    /\ UNCHANGED <<modes, ring, line, active_window, has_window, seen>>
-----------------------------------------------------------------------------
\* keyboard_read finds the buffer empty.
FindEmpty ==
    /\ reader = "test"
    /\ buffer_read = buffer_write
    /\ reader' = IF Unprotected THEN "found empty" ELSE "waiting"
    /\ UNCHANGED <<modes, typed, ring, got, str_buffer, windows>>

ProcessWait ==
    /\ reader = "found empty"
    /\ reader' = "waiting"
    /\ UNCHANGED <<modes, typed, ring, got, str_buffer, windows>>

\* Mutant: the index does not go back from the last place to the first.
AfterReadStays == IF buffer_read = Size - 1 THEN buffer_read ELSE buffer_read + 1

\* buffer_read after a character is taken.
AfterRead == (buffer_read + 1) % Size

\* Or takes a character, and keyboard_read_str's loop goes on with it or ends:
\* the character after a line that fills str_buffer is not stored.
Stored(k) == ~k.ends /\ Len(str_buffer) < Size - 1

KeyboardRead ==
    /\ reader = "test"
    /\ buffer_read # buffer_write
    /\ LET k == buffer[buffer_read] IN
         IF Stored(k)
         THEN str_buffer' = Append(str_buffer, k.n) /\ UNCHANGED reader
         ELSE reader' = "line" /\ UNCHANGED str_buffer
    /\ got' = buffer[buffer_read].n
    /\ buffer_read' = AfterRead
    /\ UNCHANGED <<modes, typed, buffer, buffer_write, overtaken, windows>>

\* The shell is done with the line and asks for the next.
ReadStr ==
    /\ reader = "line"
    /\ reader' = "test"
    /\ got' = 0
    /\ str_buffer' = <<>>
    /\ UNCHANGED <<modes, typed, ring, windows>>
-----------------------------------------------------------------------------
\* sys_window_create: a process has one window at most; it becomes active.
WindowCreate(p) ==
    /\ ~has_window[p]
    /\ has_window' = [has_window EXCEPT ![p] = TRUE]
    /\ event_queue' = [event_queue EXCEPT ![p] = <<>>]
    /\ active_window' = p
    /\ UNCHANGED <<modes, typed, ring, line, seen>>

\* sys_get_event: list_pop_tail.
GetEvent(p) ==
    /\ has_window[p]
    /\ event_queue[p] # <<>>
    /\ LET q == event_queue[p] IN
         /\ seen' = [seen EXCEPT ![p] = q[Len(q)]]
         /\ event_queue' = [event_queue EXCEPT ![p] = SubSeq(q, 1, Len(q) - 1)]
    /\ UNCHANGED <<modes, typed, ring, line, active_window, has_window>>

Interrupt ==
    \/ \E code \in Codes, down \in BOOLEAN :
          KeyboardSilent(code, down) \/ KeyboardInterrupt(code, down)
    \/ SendEventMouseMove

Shell == FindEmpty \/ ProcessWait \/ KeyboardRead \/ ReadStr

Next ==
    \/ Interrupt
    \/ \E code \in Codes : Reboot(code)
    \/ Shell
    \/ \E p \in Program : WindowCreate(p) \/ GetEvent(p)

Spec == Init /\ [][Next]_vars

\* The shell's steps are taken in the end: preemption gives every ready process
\* its turn (Kernel).
FairSpec == Spec /\ WF_vars(Shell)
-----------------------------------------------------------------------------
\* The characters the reader has not taken, oldest first.
Waiting == [i \in 1 .. Unread |-> buffer[(buffer_read + i - 1) % Size].n]

Increasing(s) == \A i, j \in DOMAIN s : i < j => s[i] < s[j]

\* The shell gets each character once and in the order typed, whatever was lost
\* in between and however often the ring went round: what is in the line, and
\* then what is still in the buffer, was typed in that order.
KeysInOrder == Increasing(str_buffer \o Waiting)

\* A character is lost only when the buffer holds all it can: until then a key
\* adds one to what the reader will get and takes nothing away.
LostOnlyWhenFull ==
    [][typed' > typed /\ active_window = None /\ Unread < Size - 1
          => Waiting' = Append(Waiting, typed')]_vars

\* A program gets its events once and in the order they happened.
EventsInOrder ==
    \A p \in Program :
        LET q == event_queue[p] IN
        /\ \A i, j \in DOMAIN q : i < j => q[i] > q[j]
        /\ \A i \in DOMAIN q : q[i] > seen[p] \/ seen[p] = 0

\* A key in the buffer is returned by keyboard_read in the end, unless the machine
\* restarts or a key is stored into the full buffer, which then looks empty:
\* keyboard_interrupt misses that it is full when buffer_read is 0.
KeyIsRead ==
    \A n \in 1 .. MaxTyped :
        (\E i \in DOMAIN Waiting : Waiting[i] = n)
            ~> (got = n \/ overtaken >= n \/ typed < n)
=============================================================================
