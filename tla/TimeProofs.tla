----------------------------- MODULE TimeProofs -----------------------------
(***************************************************************************)
(* What the parts that have to do with time promise, for every value of    *)
(* their constants: the machine starts without an interrupt that no one    *)
(* handles (Boot), a sleep takes the time that was asked for (Clock), the  *)
(* time a program is given was shown by the clock during its call (Rtc),   *)
(* and the mouse's two pages are neighbours (Boot again).                  *)
(***************************************************************************)
EXTENDS Boot, Clock, Rtc, Integers, SequenceTheorems, FiniteSetTheorems, TLAPS
-----------------------------------------------------------------------------
(* Boot: in the list kernel_main is, every line is opened behind its       *)
(* handler and behind interrupt_init (KernelMainOrdered), so whatever the  *)
(* interrupts do between its steps, an open line has its handler.          *)

\* A line is open only behind its handler, from the moment the processor takes
\* interrupts; what has been registered since then is in the table.
OpenBehindHandler == enabled => Devices \ mask \subseteq handler

InTheTable ==
    \A k \in 3 .. at - 1 : KernelMain[k][1] = "register" => KernelMain[k][2] \in handler

BootInv ==
    /\ at \in 1 .. Len(KernelMain) + 1
    /\ enabled => at > 2
    /\ OpenBehindHandler
    /\ InTheTable
    /\ HandlersReady
-----------------------------------------------------------------------------
(* The order of kernel_main. *)

BootStep ==
    ({"register", "enable"} \X Line) \cup {<<"page", "buffer">>, <<"page", "beyond">>}
      \cup {<<name>> : name \in {"memory", "pic", "process", "wait", "scan"}}

\* A concatenation, element by element.
LEMMA Appended ==
    ASSUME NEW s \in Seq(BootStep), NEW u \in Seq(BootStep)
    PROVE  /\ s \o u \in Seq(BootStep)
           /\ Len(s \o u) = Len(s) + Len(u)
           /\ \A k \in 1 .. Len(s) : (s \o u)[k] = s[k]
           /\ \A k \in 1 .. Len(u) : (s \o u)[Len(s) + k] = u[k]
<1>1. /\ s \o u \in Seq(BootStep) /\ Len(s \o u) = Len(s) + Len(u)
      /\ \A k \in 1 .. Len(s) + Len(u) :
             (s \o u)[k] = IF k <= Len(s) THEN s[k] ELSE u[k - Len(s)]
  BY ConcatProperties
<1>2. Len(s) \in Nat /\ Len(u) \in Nat
  BY LenProperties
<1> QED
  BY <1>1, <1>2

\* No line is opened before its handler is in the table, and none before the
\* controllers are programmed.
OpensBehind(s) ==
    \A n \in 1 .. Len(s) : s[n][1] = "enable" =>
        \E k \in 3 .. n - 1 : s[k] = <<"register", s[n][2]>>

ProgramsOnce(s) == \A n \in 1 .. Len(s) : s[n][1] = "pic" => n = 2
-----------------------------------------------------------------------------

\* Adding the set-up of a device keeps the order.
LEMMA StaysOrdered ==
    ASSUME NEW s \in Seq(BootStep), NEW u \in Seq(BootStep), Len(s) >= 2,
           OpensBehind(s), ProgramsOnce(s),
           \A n \in 1 .. Len(u) :
              /\ u[n][1] = "enable" => \E k \in 1 .. n - 1 : u[k] = <<"register", u[n][2]>>
              /\ u[n][1] # "pic"
    PROVE  /\ s \o u \in Seq(BootStep) /\ Len(s \o u) >= 2
           /\ OpensBehind(s \o u) /\ ProgramsOnce(s \o u)
<1> DEFINE w == s \o u
<1>1. /\ w \in Seq(BootStep)
      /\ Len(w) = Len(s) + Len(u)
      /\ \A k \in 1 .. Len(s) : w[k] = s[k]
      /\ \A k \in 1 .. Len(u) : w[Len(s) + k] = u[k]
  BY Appended
<1>2. Len(s) \in Nat /\ Len(u) \in Nat
  BY LenProperties
<1> HIDE DEF w
<1>3. ASSUME NEW n \in 1 .. Len(w), n > Len(s)
      PROVE  n - Len(s) \in 1 .. Len(u) /\ w[n] = u[n - Len(s)]
  <2>1. PICK j \in Int : j = n - Len(s)
    BY <1>2
  <2>2. j \in 1 .. Len(u) /\ n = Len(s) + j
    BY <1>1, <1>2, <1>3, <2>1
  <2> QED
    BY <1>1, <2>1, <2>2
<1>4. OpensBehind(w)
  <2> SUFFICES ASSUME NEW n \in 1 .. Len(w), w[n][1] = "enable"
               PROVE  \E k \in 3 .. n - 1 : w[k] = <<"register", w[n][2]>>
    BY DEF OpensBehind
  <2>1. CASE n <= Len(s)
    <3>1. n \in 1 .. Len(s) /\ w[n] = s[n]
      BY <1>1, <1>2, <2>1
    <3>2. PICK k \in 3 .. n - 1 : s[k] = <<"register", s[n][2]>>
      BY <3>1 DEF OpensBehind
    <3>3. w[k] = s[k]
      BY <1>1, <1>2, <2>1
    <3> QED
      BY <3>1, <3>2, <3>3
  <2>2. CASE n > Len(s)
    <3>1. PICK k \in 1 .. (n - Len(s)) - 1 : u[k] = <<"register", u[n - Len(s)][2]>>
      BY <1>3, <2>2
    <3>2. Len(s) + k \in 3 .. n - 1 /\ w[Len(s) + k] = u[k]
      BY <1>1, <1>2, <1>3, <2>2
    <3> QED
      BY <1>3, <2>2, <3>1, <3>2
  <2> QED
    BY <1>1, <1>2, <2>1, <2>2
<1>5. ProgramsOnce(w)
  <2> SUFFICES ASSUME NEW n \in 1 .. Len(w), w[n][1] = "pic" PROVE n = 2
    BY DEF ProgramsOnce
  <2>1. CASE n <= Len(s)
    <3>1. n \in 1 .. Len(s)
      BY <1>2, <2>1
    <3>2. w[n] = s[n]
      BY <1>1, <3>1
    <3> QED
      BY <3>1, <3>2 DEF ProgramsOnce
  <2>2. CASE n > Len(s)
    <3>1. n - Len(s) \in 1 .. Len(u) /\ w[n] = u[n - Len(s)]
      BY <1>3, <2>2
    <3>2. u[n - Len(s)][1] # "pic"
      BY <3>1
    <3> QED
      BY <3>1, <3>2
  <2>3. n <= Len(s) \/ n > Len(s)
    BY <1>1, <1>2
  <2> QED
    BY <2>1, <2>2, <2>3
<1> QED
  BY <1>1, <1>2, <1>4, <1>5 DEF w

\* kernel_main opens each line behind its handler and runs each step once.
LEMMA KernelMainOrdered ==
    KernelMain \in Seq(BootStep) /\ OpensBehind(KernelMain) /\ ProgramsOnce(KernelMain)
<1> DEFINE Added(u) ==
        /\ u \in Seq(BootStep)
        /\ \A n \in 1 .. Len(u) :
              /\ u[n][1] = "enable" => \E k \in 1 .. n - 1 : u[k] = <<"register", u[n][2]>>
              /\ u[n][1] # "pic"
        Ordered(s) == s \in Seq(BootStep) /\ Len(s) >= 2 /\ OpensBehind(s) /\ ProgramsOnce(s)
<1>1. ASSUME NEW s, NEW u, Ordered(s), Added(u) PROVE Ordered(s \o u)
  BY <1>1, StaysOrdered
<1>2. ASSUME NEW i \in Line PROVE Added(SetUp(i)) /\ Added(SetUpPort(i))
  BY DEF SetUp, SetUpPort, BootStep
<1>3. Rtc \in Line /\ Clock \in Line /\ Keyboard \in Line /\ Mouse \in Line
      /\ 14 \in Line /\ 15 \in Line
  BY DEF Rtc, Clock, Keyboard, Mouse, Line
<1>4. ASSUME NEW s, NEW u, Added(s), Added(u) PROVE Added(s \o u)
  <2>1. /\ s \o u \in Seq(BootStep)
        /\ Len(s \o u) = Len(s) + Len(u)
        /\ \A k \in 1 .. Len(s) : (s \o u)[k] = s[k]
        /\ \A k \in 1 .. Len(u) : (s \o u)[Len(s) + k] = u[k]
    BY <1>4, Appended
  <2>2. Len(s) \in Nat /\ Len(u) \in Nat
    BY <1>4, LenProperties
  <2> DEFINE w == s \o u
  <2> SUFFICES ASSUME NEW n \in 1 .. Len(w)
               PROVE  /\ w[n][1] = "enable" => \E k \in 1 .. n - 1 : w[k] = <<"register", w[n][2]>>
                      /\ w[n][1] # "pic"
    BY <2>1
  <2> HIDE DEF w
  <2>3. CASE n <= Len(s)
    <3>1. n \in 1 .. Len(s) /\ w[n] = s[n] /\ \A k \in 1 .. n - 1 : w[k] = s[k]
      BY <2>1, <2>2, <2>3 DEF w
    <3> QED
      BY <1>4, <3>1
  <2>4. CASE n > Len(s)
    <3>1. PICK j \in 1 .. Len(u) : n = Len(s) + j
      <4>1. n - Len(s) \in 1 .. Len(u) /\ n = Len(s) + (n - Len(s))
        BY <2>1, <2>2, <2>4 DEF w
      <4> QED
        BY <4>1
    <3>2. w[n] = u[j]
      BY <2>1, <3>1 DEF w
    <3>3. \A k \in 1 .. j - 1 : Len(s) + k \in 1 .. n - 1 /\ w[Len(s) + k] = u[k]
      BY <2>1, <2>2, <3>1 DEF w
    <3>4. u[j][1] # "pic"
          /\ (u[j][1] = "enable" => \E k \in 1 .. j - 1 : u[k] = <<"register", u[j][2]>>)
      BY <1>4
    <3>5. ASSUME w[n][1] = "enable"
          PROVE  \E k \in 1 .. n - 1 : w[k] = <<"register", w[n][2]>>
      <4>1. PICK k \in 1 .. j - 1 : u[k] = <<"register", u[j][2]>>
        BY <3>2, <3>4, <3>5
      <4>2. Len(s) + k \in 1 .. n - 1 /\ w[Len(s) + k] = <<"register", w[n][2]>>
        BY <3>2, <3>3, <4>1
      <4> QED
        BY <4>2
    <3> QED
      BY <3>2, <3>4, <3>5
  <2>5. n <= Len(s) \/ n > Len(s)
    BY <2>1, <2>2 DEF w
  <2> QED
    BY <2>3, <2>4, <2>5
<1>5. Added(<<<<"process">>>>) /\ Added(<<<<"wait">>>>)
  BY DEF BootStep
<1>6. Ordered(<<<<"memory">>, <<"pic">>>>)
  BY DEF BootStep, OpensBehind, ProgramsOnce
<1>7. Added(<<<<"page", "buffer">>, <<"page", "beyond">>, <<"wait">>, <<"wait">>, <<"wait">>,
              <<"scan">>, <<"wait">>, <<"scan">>>>)
  BY DEF BootStep
<1> HIDE DEF Added, Ordered
<1>8. Added(MouseInit)
  BY <1>2, <1>3, <1>4, <1>7 DEF MouseInit
<1>9. Added(AtaInit)
  BY <1>2, <1>3, <1>4, <1>5 DEF AtaInit
<1>10. Ordered(KernelMain)
  BY <1>1, <1>2, <1>3, <1>5, <1>6, <1>8, <1>9, Zenon DEF KernelMain
<1> QED
  BY <1>10 DEF Ordered
-----------------------------------------------------------------------------
\* At power-on nothing is registered and no line is open.
LEMMA BootInitInv == BootInit => BootInv
<1>1. Len(KernelMain) \in Nat
  BY KernelMainOrdered, LenProperties
<1> QED
  BY <1>1 DEF BootInit, BootFrom, BootInv, OpenBehindHandler, InTheTable, HandlersReady

\* A step of kernel_main that leaves the controllers alone registers nothing.
LEMMA QuietInv ==
    ASSUME BootInv, ~Ready, KernelMain[at][1] # "register", at' = at + 1, UNCHANGED pic
    PROVE  BootInv'
<1>1. Len(KernelMain) \in Nat /\ at \in 1 .. Len(KernelMain)
  BY KernelMainOrdered, LenProperties DEF BootInv, Ready
<1>2. InTheTable'
  BY <1>1 DEF BootInv, InTheTable, pic
<1> QED
  BY <1>1, <1>2 DEF BootInv, OpenBehindHandler, HandlersReady, pic

\* Every step keeps the invariant.
LEMMA BootNextInv == BootInv /\ [BootNext]_bootVars => BootInv'
<1> SUFFICES ASSUME BootInv, [BootNext]_bootVars PROVE BootInv'
  OBVIOUS
<1>1. Len(KernelMain) \in Nat /\ at \in 1 .. Len(KernelMain) + 1
  BY KernelMainOrdered, LenProperties DEF BootInv
<1>2. CASE MemoryInit \/ ProcessInit \/ MouseBuffer \/ WaitEnds \/ Scan
  BY <1>2, QuietInv DEF MemoryInit, ProcessInit, MouseBuffer, WaitEnds, Scan, Now
<1>3. CASE InterruptInit
  <2>1. at = 2
    BY <1>1, <1>3, KernelMainOrdered DEF ProgramsOnce, InterruptInit, Now, Ready
  <2>2. mask' = Line /\ at' = 3 /\ spurious' = spurious
    BY <1>3, <2>1 DEF InterruptInit
  <2>3. Devices \subseteq Line
    BY DEF Devices, Line, Clock, Keyboard, Rtc, Mouse
  <2>4. at' \in 1 .. Len(KernelMain) + 1
    BY <1>1, <1>3, <2>1, <2>2 DEF InterruptInit, Now, Ready
  <2> QED
    BY <2>2, <2>3, <2>4 DEF BootInv, OpenBehindHandler, InTheTable, HandlersReady
<1>4. CASE Register
  <2>1. at \in 1 .. Len(KernelMain) /\ at' = at + 1 /\ handler' = handler \cup {KernelMain[at][2]}
        /\ UNCHANGED <<mask, enabled, spurious>>
    BY <1>1, <1>4 DEF Register, Now, Ready
  <2> QED
    BY <1>1, <2>1 DEF BootInv, OpenBehindHandler, InTheTable, HandlersReady
<1>5. CASE Enable
  <2>1. at \in 1 .. Len(KernelMain) /\ KernelMain[at][1] = "enable" /\ at' = at + 1
        /\ mask' = mask \ Unmasked(KernelMain[at][2]) /\ UNCHANGED <<handler, enabled, spurious>>
    BY <1>1, <1>5 DEF Enable, Now, Ready
  <2>2. PICK k \in 3 .. at - 1 : KernelMain[k] = <<"register", KernelMain[at][2]>>
    BY <2>1, KernelMainOrdered DEF OpensBehind
  <2>3. KernelMain[at][2] \in handler
    BY <2>2 DEF BootInv, InTheTable
  <2>4. Devices \cap Unmasked(KernelMain[at][2]) \subseteq handler
    BY <2>3 DEF Unmasked, Devices, Cascade, Clock, Keyboard, Rtc, Mouse
  <2>5. OpenBehindHandler'
    BY <2>1, <2>4 DEF BootInv, OpenBehindHandler
  <2>6. InTheTable'
    BY <1>1, <2>1 DEF BootInv, InTheTable
  <2> QED
    BY <1>1, <2>1, <2>5, <2>6 DEF BootInv, HandlersReady
<1>6. ASSUME NEW i \in Devices, Raise(i) PROVE BootInv'
  BY <1>6 DEF Raise, BootInv, OpenBehindHandler, InTheTable, HandlersReady
<1>7. ASSUME NEW i \in Devices, HandleInterrupt(i) PROVE BootInv'
  <2>1. enabled /\ i \notin mask
    BY <1>7 DEF HandleInterrupt, Deliverable
  <2>2. i \in handler
    BY <2>1 DEF BootInv, OpenBehindHandler
  <2>3. UNCHANGED <<at, handler, mask, enabled, spurious>>
    BY <1>7, <2>2 DEF HandleInterrupt
  <2> QED
    BY <2>3 DEF BootInv, OpenBehindHandler, InTheTable, HandlersReady
<1>8. CASE UNCHANGED bootVars
  BY <1>8 DEF bootVars, pic, BootInv, OpenBehindHandler, InTheTable, HandlersReady
<1> QED
  BY <1>2, <1>3, <1>4, <1>5, <1>6, <1>7, <1>8 DEF BootNext, BootMain

\* BootInv is invariant.
THEOREM BootInvariant == BootSpec => []BootInv
<1>1. BootInit => BootInv
  BY BootInitInv
<1>2. BootInv /\ [BootNext]_bootVars => BootInv'
  BY BootNextInv
<1> QED
  BY <1>1, <1>2, PTL DEF BootSpec

\* main.c's order of the subsystems, however the interrupts fall between its steps
\* and however much memory there is: none is delivered before its handler is there.
THEOREM BootHandlersReady == BootSpec => []HandlersReady
<1>1. BootInv => HandlersReady
  BY DEF BootInv
<1> QED
  BY <1>1, BootInvariant, PTL
-----------------------------------------------------------------------------
(* What the proofs about clocks need of \div and %. *)

\* Quotient and residue,
LEMMA DivMod ==
    ASSUME NEW n \in Nat, NEW b \in Nat \ {0}
    PROVE  /\ n = (n \div b) * b + (n % b)
           /\ n % b \in 0 .. b - 1
           /\ n \div b \in Nat
BY SMTT(20)

\* which determine each other,
LEMMA DivModUnique ==
    ASSUME NEW b \in Nat \ {0}, NEW q \in Int, NEW p \in Int,
           NEW r \in 0 .. b - 1, NEW s \in 0 .. b - 1,
           q * b + r = p * b + s
    PROVE  q = p /\ r = s
<1>1. b * (q - p) = s - r
  BY SMTT(20)
<1>2. CASE q - p >= 1
  <2>1. b * (q - p) >= b
    BY <1>2, SMTT(20)
  <2> QED
    BY <1>1, <2>1
<1>3. CASE q - p <= -1
  <2>1. b * (q - p) <= -b
    BY <1>3, SMTT(20)
  <2> QED
    BY <1>1, <2>1
<1> QED
  BY <1>1, <1>2, <1>3

\* of a number given by them.
LEMMA ModOf ==
    ASSUME NEW b \in Nat \ {0}, NEW q \in Nat, NEW r \in 0 .. b - 1
    PROVE  (q * b + r) % b = r /\ (q * b + r) \div b = q
<1>1. q * b + r \in Nat
  BY SMTT(20)
<1> QED
  BY <1>1, DivMod, DivModUnique

\* A quotient is below what bounds it.
LEMMA DivBelow ==
    ASSUME NEW b \in Nat \ {0}, NEW m \in Nat, NEW n \in 0 .. b * m - 1
    PROVE  n \div b \in 0 .. m - 1
<1>1. n \in Nat /\ b * m \in Nat
  BY SMTT(20)
<1>2. n \div b \in Nat /\ n % b \in 0 .. b - 1 /\ n = (n \div b) * b + (n % b)
  BY <1>1, DivMod
<1>3. CASE n \div b >= m
  <2>1. (n \div b) * b >= m * b
    BY <1>2, <1>3, SMTT(20)
  <2> QED
    BY <1>1, <1>2, <2>1, SMTT(20)
<1> QED
  BY <1>2, <1>3

\* Counting on turns a remainder over to the next.
LEMMA ModNext ==
    ASSUME NEW b \in Nat \ {0}, b # 1, NEW n \in Nat
    PROVE  (n + 1) % b # n % b
<1> DEFINE q == n \div b
           r == n % b
<1>1. q \in Nat /\ r \in 0 .. b - 1 /\ n = q * b + r
  BY DivMod
<1> HIDE DEF q, r
<1>2. CASE r + 1 < b
  <2>1. r + 1 \in 0 .. b - 1
    BY <1>1, <1>2
  <2>2. (q * b + (r + 1)) % b = r + 1
    BY <1>1, <2>1, ModOf, Zenon
  <2>3. q * b + (r + 1) = n + 1
    BY <1>1, SMTT(20)
  <2>4. (n + 1) % b = r + 1
    BY <2>2, <2>3
  <2> QED
    BY <1>1, <2>4 DEF r
<1>3. CASE r + 1 = b
  <2> q + 1 \in Nat /\ 0 \in 0 .. b - 1
    BY <1>1
  <2>1. ((q + 1) * b + 0) % b = 0
    BY ModOf, Zenon
  <2>2. (q + 1) * b + 0 = n + 1
    BY <1>1, <1>3, SMTT(20)
  <2>3. (n + 1) % b = 0
    BY <2>1, <2>2
  <2> QED
    BY <1>1, <1>3, <2>3 DEF r
<1> QED
  BY <1>1, <1>2, <1>3

\* Below its divisor a number is its own remainder, and below twice that the
\* divisor goes in once.
LEMMA ModSmall ==
    ASSUME NEW b \in Nat \ {0}, NEW n \in 0 .. 2 * b - 1
    PROVE  /\ n < b => n % b = n
           /\ n >= b => n % b = n - b
<1>1. n \in Nat
  BY SMTT(20)
<1>2. n = (n \div b) * b + (n % b) /\ n % b \in 0 .. b - 1 /\ n \div b \in Nat
  BY <1>1, DivMod
<1>3. CASE n < b
  <2>1. 0 * b + n = n /\ n \in 0 .. b - 1
    BY <1>1, <1>3
  <2> QED
    BY <1>2, <1>3, <2>1, DivModUnique
<1>4. CASE n >= b
  <2>1. 1 * b + (n - b) = n /\ n - b \in 0 .. b - 1
    BY <1>1, <1>4
  <2> QED
    BY <1>1, <1>2, <1>4, <2>1, DivModUnique
<1> QED
  BY <1>1, <1>3, <1>4

\* Counting on from a remainder.
LEMMA CarryMod ==
    ASSUME NEW b \in Nat \ {0}, NEW s \in Nat, NEW n \in Nat
    PROVE  (((s + n) % b) + 1) % b = (s + (n + 1)) % b
<1> DEFINE x == s + n
           q == x \div b
           r == x % b
<1>1. x \in Nat
  OBVIOUS
<1>2. q \in Nat /\ r \in 0 .. b - 1 /\ x = q * b + r
  BY <1>1, DivMod, Zenon
<1> HIDE DEF q, r
<1>3. CASE r + 1 < b
  <2>1. r + 1 \in 0 .. b - 1
    BY <1>2, <1>3
  <2>2. (q * b + (r + 1)) % b = r + 1
    BY <1>2, <2>1, ModOf, Zenon
  <2>3. q * b + (r + 1) = s + (n + 1)
    BY <1>2, SMTT(20)
  <2>4. r + 1 \in 0 .. 2 * b - 1
    BY <2>1
  <2>5. (r + 1) % b = r + 1
    BY <1>3, <2>4, ModSmall
  <2> QED
    BY <2>2, <2>3, <2>5 DEF r
<1>4. CASE r + 1 = b
  <2> q + 1 \in Nat /\ 0 \in 0 .. b - 1
    BY <1>2
  <2>1. ((q + 1) * b + 0) % b = 0
    BY ModOf, Zenon
  <2>2. (q + 1) * b + 0 = s + (n + 1)
    BY <1>2, <1>4, SMTT(20)
  <2>3. b % b = 0
    BY ModSmall
  <2> QED
    BY <1>4, <2>1, <2>2, <2>3 DEF r
<1> QED
  BY <1>2, <1>3, <1>4
-----------------------------------------------------------------------------
(* Clock: while the process sleeps the clicks since the call are those the *)
(* two counters have gone on from start, modulo the word (Elapsed), so     *)
(* that clock_diff gives exactly them back whatever turned over meanwhile. *)
(* It holds if clock_read is not torn and the longest sleep, with its      *)
(* delay, fits a word (Roomy).                                             *)

Roomy == MaxMillis + (1 + MaxDelay) * ClickMillis < Word

Asleep == sleeper \in {"waiting", "woken", "loaded"}

\* From start the counters went on by whole seconds and some clicks.
Elapsed ==
    Asleep =>
        \E s \in 0 .. Word - 1, c \in 0 .. CLICKS_PER_SECOND - 1, whole \in Nat :
            /\ start = [seconds |-> s, millis |-> c * ClickMillis]
            /\ c + passed = whole * CLICKS_PER_SECOND + clicks
            /\ seconds = (s + whole) % Word

LoadedTrue == sleeper = "loaded" => loaded = seconds

\* At the last test too little had passed; it was taken when the process was woken
\* at the latest, and there was none before the first wait.
TestedBefore ==
    /\ sleeper = "waiting" => passed = 0 \/ passed * ClickMillis < millis
    /\ sleeper \in {"woken", "loaded"} =>
         /\ passed >= late + 1
         /\ passed = late + 1 \/ (passed - (late + 1)) * ClickMillis < millis

\* What the last test says of the clicks, when the process returns.
TestsAsAsked ==
    sleeper = "returned" =>
        /\ passed * ClickMillis >= millis
        /\ \/ passed <= 1 + MaxDelay
           \/ passed * ClickMillis < millis + (1 + MaxDelay) * ClickMillis

ClockInv ==
    /\ ClockTypeOK
    /\ Elapsed
    /\ LoadedTrue
    /\ TestedBefore
    /\ TestsAsAsked
-----------------------------------------------------------------------------
(* Words and units. *)

\* The units of time.
LEMMA Units ==
    /\ CLICKS_PER_SECOND \in Nat \ {0} /\ ClickMillis \in Nat \ {0}
    /\ Millis \in Nat \ {0} /\ Millis = ClickMillis * CLICKS_PER_SECOND
    /\ Word \in Nat \ {0} /\ MaxMillis \in Nat /\ MaxDelay \in Nat
<1>1. Millis = (Millis \div CLICKS_PER_SECOND) * CLICKS_PER_SECOND + (Millis % CLICKS_PER_SECOND)
      /\ Millis \div CLICKS_PER_SECOND \in Nat
  BY ClockAssumption, DivMod, Zenon
<1>2. Millis % CLICKS_PER_SECOND = 0
  BY ClockAssumption
<1>3. ClickMillis \in Nat /\ Millis = ClickMillis * CLICKS_PER_SECOND
  BY <1>1, <1>2, ClockAssumption DEF ClickMillis
<1>4. ClickMillis # 0
  BY <1>3, ClockAssumption
<1> QED
  BY <1>3, <1>4, ClockAssumption

\* The division in MillisOf loses nothing.
LEMMA MillisExact ==
    ASSUME NEW c \in Nat
    PROVE  MillisOf(c) = c * ClickMillis
<1> DEFINE k == c * ClickMillis
<1>1. k \in Nat /\ Millis * c = k * CLICKS_PER_SECOND + 0
  BY Units, SMTT(20)
<1> HIDE DEF k
<1>2. 0 \in 0 .. CLICKS_PER_SECOND - 1
  BY Units
<1>3. (k * CLICKS_PER_SECOND + 0) \div CLICKS_PER_SECOND = k
  BY <1>1, <1>2, Units, ModOf, Zenon
<1>4. MillisOf(c) = k
  BY <1>1, <1>3 DEF MillisOf
<1> QED
  BY <1>4 DEF k

\* A number below two words, cut to one.
LEMMA WordMod ==
    ASSUME NEW n \in 0 .. 2 * Word - 1
    PROVE  n % Word \in Nat /\ n % Word = IF n < Word THEN n ELSE n - Word
<1>1. Word \in Nat \ {0} /\ n \in Nat
  BY Units
<1>2. (n < Word => n % Word = n) /\ (n >= Word => n % Word = n - Word)
  BY <1>1, ModSmall, Zenon
<1> QED
  BY <1>1, <1>2

\* Subtraction in a word undoes the addition that may have wrapped;
LEMMA MinusIs ==
    ASSUME NEW s \in 0 .. Word - 1, NEW e \in 0 .. Word - 1
    PROVE  Minus((s + e) % Word, s) = e
<1> DEFINE n == s + e
           x == n % Word
<1>1. x = IF s + e < Word THEN s + e ELSE s + e - Word
  <2>1. n \in 0 .. 2 * Word - 1
    BY Units
  <2> HIDE DEF n
  <2>2. x = IF n < Word THEN n ELSE n - Word
    BY <2>1, WordMod
  <2> HIDE DEF x
  <2> QED
    BY <2>2, Units DEF n
<1> HIDE DEF x
<1>2. x + Word - s \in 0 .. 2 * Word - 1
  BY <1>1, Units
<1>3. (x + Word - s) % Word = e
  <2> DEFINE y == x + Word - s
  <2>1. y = IF s + e < Word THEN e + Word ELSE e
    BY <1>1, Units
  <2>2. y \in 0 .. 2 * Word - 1
    BY <1>2
  <2> HIDE DEF y
  <2>3. y % Word = e
    BY <2>1, <2>2, WordMod, Units
  <2> QED
    BY <2>3 DEF y
<1> QED
  BY <1>3 DEF Minus, x, n

\* clock_diff's borrow takes one from it.
LEMMA MinusOne ==
    ASSUME NEW s \in 0 .. Word - 1, NEW e \in 1 .. Word - 1
    PROVE  Minus((s + e) % Word, 1) = (s + (e - 1)) % Word
<1> DEFINE n == s + e
           x == n % Word
           z == s + (e - 1)
<1>1. x = IF s + e < Word THEN s + e ELSE s + e - Word
  <2>1. n \in 0 .. 2 * Word - 1
    BY Units
  <2> HIDE DEF n
  <2>2. x = IF n < Word THEN n ELSE n - Word
    BY <2>1, WordMod
  <2> HIDE DEF x
  <2> QED
    BY <2>2, Units DEF n
<1>2. z \in 0 .. 2 * Word - 1 /\ z = s + e - 1
  BY Units
<1> HIDE DEF x, z
<1>3. z % Word = IF z < Word THEN z ELSE z - Word
  BY <1>2, WordMod
<1>4. (x + Word - 1) % Word = z % Word
  <2> DEFINE y == x + Word - 1
  <2>1. y \in 0 .. 2 * Word - 1 /\ (y < Word <=> x = 0) /\ y = x + Word - 1
    BY <1>1, Units
  <2> HIDE DEF y
  <2>2. y % Word = IF y < Word THEN y ELSE y - Word
    BY <2>1, WordMod
  <2>3. y % Word = z % Word
    BY <1>1, <1>2, <1>3, <2>1, <2>2, Units
  <2> QED
    BY <2>3 DEF y
<1> QED
  BY <1>4 DEF Minus, x, n, z

\* n clicks lie between two readings of the clock.
Apart(from, to, n) ==
    \E s \in 0 .. Word - 1, c \in 0 .. CLICKS_PER_SECOND - 1,
       d \in 0 .. CLICKS_PER_SECOND - 1, whole \in Nat :
          /\ from = [seconds |-> s, millis |-> c * ClickMillis]
          /\ to = [seconds |-> (s + whole) % Word, millis |-> d * ClickMillis]
          /\ c + n = whole * CLICKS_PER_SECOND + d

\* What clock_wait computes is the time that has passed, if that fits a word.
LEMMA DiffExact ==
    ASSUME NEW from, NEW to, NEW n \in Nat, n * ClickMillis < Word, Apart(from, to, n)
    PROVE  TotalMillis(ClockDiff(from, to)) = n * ClickMillis
<1> PICK s \in 0 .. Word - 1, c \in 0 .. CLICKS_PER_SECOND - 1,
         d \in 0 .. CLICKS_PER_SECOND - 1, whole \in Nat :
            /\ from = [seconds |-> s, millis |-> c * ClickMillis]
            /\ to = [seconds |-> (s + whole) % Word, millis |-> d * ClickMillis]
            /\ c + n = whole * CLICKS_PER_SECOND + d
  BY DEF Apart
<1>1. CLICKS_PER_SECOND \in Nat \ {0} /\ ClickMillis \in Nat \ {0} /\ Word \in Nat \ {0}
      /\ Millis = ClickMillis * CLICKS_PER_SECOND
  BY Units
<1>2. n <= n * ClickMillis
  BY <1>1, SMTT(20)
<1>3. n < Word
  <2>1. n * ClickMillis \in Nat
    BY <1>1, SMTT(20)
  <2> QED
    BY <1>1, <1>2, <2>1
<1>4. d * ClickMillis < c * ClickMillis <=> d < c
  BY <1>1, SMTT(20)
<1>5. n * ClickMillis \in 0 .. Word - 1
  BY <1>1, SMTT(20)
<1>6. (n * ClickMillis) % Word = n * ClickMillis
  <2> DEFINE k == n * ClickMillis
  <2>1. k \in 0 .. 2 * Word - 1 /\ k < Word
    BY <1>1, <1>5
  <2> HIDE DEF k
  <2>2. k % Word = k
    BY <1>1, <2>1, ModSmall
  <2> QED
    BY <2>2 DEF k
<1>7. CASE d < c
  <2>1. whole >= 1
    <3>1. CASE whole = 0
      BY <1>1, <1>7, <3>1
    <3> QED
      BY <3>1
  <2>2. whole - 1 <= (whole - 1) * CLICKS_PER_SECOND
    BY <1>1, <2>1, SMTT(20)
  <2>3. n = (whole - 1) * CLICKS_PER_SECOND + (CLICKS_PER_SECOND + d - c)
    BY <1>1, SMTT(20)
  <2>4. whole \in 1 .. Word - 1
    <3> DEFINE k == (whole - 1) * CLICKS_PER_SECOND
    <3>1. k \in Int
      BY <1>1
    <3>2. whole - 1 <= k /\ n = k + (CLICKS_PER_SECOND + d - c)
      BY <2>2, <2>3
    <3> HIDE DEF k
    <3> QED
      BY <1>1, <1>3, <2>1, <3>1, <3>2
  <2>5. Minus(Minus((s + whole) % Word, 1), s) = whole - 1
    <3>1. whole - 1 \in 0 .. Word - 1
      BY <1>1, <2>4
    <3>2. Minus((s + whole) % Word, 1) = (s + (whole - 1)) % Word
      BY <2>4, MinusOne, Zenon
    <3>3. Minus((s + (whole - 1)) % Word, s) = whole - 1
      BY <3>1, MinusIs, Zenon
    <3> QED
      BY <3>2, <3>3, Zenon
  <2>6. ClockDiff(from, to) =
          [seconds |-> whole - 1, millis |-> d * ClickMillis + Millis - c * ClickMillis]
    <3>1. to.millis < from.millis
      BY <1>4, <1>7
    <3> QED
      BY <2>5, <3>1 DEF ClockDiff
  <2>7. (d * ClickMillis + Millis - c * ClickMillis) + (whole - 1) * Millis = n * ClickMillis
    <3>1. n * ClickMillis
            = (whole - 1) * CLICKS_PER_SECOND * ClickMillis
                + (CLICKS_PER_SECOND + d - c) * ClickMillis
      BY <1>1, <2>3, SMTT(20)
    <3> QED
      BY <1>1, <3>1, SMTT(20)
  <2> QED
    BY <1>6, <2>6, <2>7 DEF TotalMillis
<1>8. CASE ~(d < c)
  <2>1. whole <= whole * CLICKS_PER_SECOND
    BY <1>1, SMTT(20)
  <2>2. whole \in 0 .. Word - 1
    <3> DEFINE k == whole * CLICKS_PER_SECOND
    <3>1. k \in Int /\ whole <= k /\ c + n = k + d
      BY <1>1, <2>1
    <3> HIDE DEF k
    <3> QED
      BY <1>1, <1>3, <1>8, <3>1
  <2>3. Minus((s + whole) % Word, s) = whole
    BY <2>2, MinusIs, Zenon
  <2>4. ClockDiff(from, to) =
          [seconds |-> whole, millis |-> d * ClickMillis - c * ClickMillis]
    <3>1. ~(to.millis < from.millis)
      BY <1>4, <1>8
    <3> QED
      BY <2>3, <3>1 DEF ClockDiff
  <2>5. (d * ClickMillis - c * ClickMillis) + whole * Millis = n * ClickMillis
    <3>1. n * ClickMillis = whole * CLICKS_PER_SECOND * ClickMillis + (d - c) * ClickMillis
      BY <1>1, SMTT(20)
    <3> QED
      BY <1>1, <3>1, SMTT(20)
  <2> QED
    BY <1>6, <2>4, <2>5 DEF TotalMillis
<1> QED
  BY <1>7, <1>8
-----------------------------------------------------------------------------
\* Nobody sleeps yet.
LEMMA ClockInitInv == ClockInit => ClockInv
<1> SUFFICES ASSUME ClockInit PROVE ClockInv
  OBVIOUS
<1>1. MillisOf(0) = 0
  BY Units, MillisExact
<1>2. ClockTypeOK
  BY <1>1, Units DEF ClockInit, ClockTypeOK, Time, PassedBound, Within
<1> QED
  BY <1>2 DEF ClockInv, Elapsed, LoadedTrue, TestedBefore, TestsAsAsked, Asleep, ClockInit

\* clock_wait reads the clock.
LEMMA SleepInv ==
    ASSUME ClockInv, NEW m \in 0 .. MaxMillis, SysSleep(m)
    PROVE  ClockInv'
<1>1. clicks \in 0 .. CLICKS_PER_SECOND - 1 /\ seconds \in 0 .. Word - 1
  BY DEF ClockInv, ClockTypeOK
<1>2. start' = [seconds |-> seconds, millis |-> clicks * ClickMillis]
  <2>1. MillisOf(clicks) = clicks * ClickMillis
    BY <1>1, MillisExact
  <2> QED
    BY <2>1 DEF SysSleep, Time
<1>3. clicks * ClickMillis \in 0 .. Millis - 1
  <2>1. clicks * ClickMillis \in Nat /\ (CLICKS_PER_SECOND - clicks) * ClickMillis >= 1
    BY <1>1, Units, SMTT(20)
  <2> QED
    BY <1>1, <2>1, Units, SMTT(20)
<1>4. ClockTypeOK'
  BY <1>1, <1>2, <1>3, Units DEF ClockInv, ClockTypeOK, SysSleep, PassedBound
<1>5. Elapsed'
  <2>1. (seconds + 0) % Word = seconds
    BY <1>1, Units, ModSmall
  <2>2. clicks + 0 = 0 * CLICKS_PER_SECOND + clicks
    BY <1>1, Units
  <2> SUFFICES \E whole \in Nat : /\ clicks + 0 = whole * CLICKS_PER_SECOND + clicks
                                  /\ seconds = (seconds + whole) % Word
    BY <1>1, <1>2 DEF Elapsed, SysSleep
  <2> QED
    BY <2>1, <2>2
<1> QED
  BY <1>4, <1>5 DEF ClockInv, LoadedTrue, TestedBefore, TestsAsAsked, SysSleep

\* A process that sleeps has not been let sleep so long that passed stops.
LEMMA Bounded ==
    ASSUME ClockInv, Asleep
    PROVE  passed + 1 <= PassedBound
<1>1. passed \in Nat /\ late \in 0 .. MaxDelay /\ millis \in 0 .. MaxMillis
  BY DEF ClockInv, ClockTypeOK
<1>2. CASE sleeper = "waiting"
  <2>1. passed <= passed * ClickMillis
    BY <1>1, Units, SMTT(20)
  <2>2. passed * ClickMillis \in Nat
    BY <1>1, Units, SMTT(20)
  <2> QED
    BY <1>1, <1>2, <2>1, <2>2, Units DEF ClockInv, TestedBefore, PassedBound
<1>3. CASE sleeper # "waiting"
  <2> DEFINE tested == passed - (late + 1)
  <2>1. tested \in Nat /\ (passed = late + 1 \/ tested * ClickMillis < millis)
    BY <1>1, <1>3 DEF ClockInv, TestedBefore, Asleep
  <2>2. passed = tested + late + 1
    BY <1>1
  <2> HIDE DEF tested
  <2>3. tested <= tested * ClickMillis /\ tested * ClickMillis \in Nat
    BY <2>1, Units, SMTT(20)
  <2> QED
    BY <1>1, <2>1, <2>2, <2>3, Units DEF PassedBound
<1> QED
  BY <1>2, <1>3

\* A tick counts a click and, at the last one, a second.
LEMMA TickInv == ~Torn /\ ClockInv /\ ClockInterrupt => ClockInv'
<1> SUFFICES ASSUME ~Torn, ClockInv, ClockInterrupt PROVE ClockInv'
  OBVIOUS
<1> USE Units
<1>1. clicks \in 0 .. CLICKS_PER_SECOND - 1 /\ seconds \in 0 .. Word - 1
      /\ passed \in 0 .. PassedBound /\ late \in 0 .. MaxDelay
      /\ PassedBound \in Nat
  BY DEF ClockInv, ClockTypeOK, PassedBound
<1>2. clicks' \in 0 .. CLICKS_PER_SECOND - 1 /\ seconds' \in 0 .. Word - 1
  <2>1. (seconds + 1) % Word \in 0 .. Word - 1
    BY <1>1, DivMod
  <2> QED
    BY <1>1, <2>1 DEF ClockInterrupt, Count
<1>3. ClockTypeOK'
  <2>1. passed' \in 0 .. PassedBound
    BY <1>1 DEF ClockInterrupt
  <2>2. late' \in 0 .. MaxDelay
    BY <1>1 DEF ClockInterrupt
  <2> QED
    BY <1>2, <2>1, <2>2 DEF ClockInv, ClockTypeOK, ClockInterrupt, real, Within
<1>4. Asleep => passed' = passed + 1
  BY <1>1, Bounded DEF ClockInterrupt, Asleep
<1>5. Elapsed'
  <2> SUFFICES ASSUME Asleep' PROVE Elapsed'
    BY DEF Elapsed
  <2>1. Asleep
    BY DEF Asleep, ClockInterrupt
  <2>2. PICK s \in 0 .. Word - 1, c \in 0 .. CLICKS_PER_SECOND - 1, whole \in Nat :
          /\ start = [seconds |-> s, millis |-> c * ClickMillis]
          /\ c + passed = whole * CLICKS_PER_SECOND + clicks
          /\ seconds = (s + whole) % Word
    BY <2>1 DEF ClockInv, Elapsed
  <2>3. start' = start
    BY DEF ClockInterrupt
  <2>4. CASE clicks + 1 >= CLICKS_PER_SECOND
    <3>1. clicks' = 0 /\ seconds' = (seconds + 1) % Word
      BY <2>4 DEF ClockInterrupt, Count
    <3>2. c + passed' = (whole + 1) * CLICKS_PER_SECOND + clicks'
      BY <1>1, <1>4, <2>1, <2>2, <2>4, <3>1, SMTT(20)
    <3>3. (((s + whole) % Word) + 1) % Word = (s + (whole + 1)) % Word
      <4>1. s \in Nat
        BY <1>1
      <4> QED
        BY <4>1, CarryMod, Zenon
    <3>4. seconds' = (s + (whole + 1)) % Word
      BY <2>2, <3>1, <3>3, Zenon
    <3>5. whole + 1 \in Nat
      OBVIOUS
    <3> QED
      BY <2>2, <2>3, <3>2, <3>4, <3>5, Zenon DEF Elapsed
  <2>5. CASE ~(clicks + 1 >= CLICKS_PER_SECOND)
    <3>1. clicks' = clicks + 1 /\ seconds' = seconds
      BY <2>5 DEF ClockInterrupt, Count
    <3>2. c + passed' = whole * CLICKS_PER_SECOND + clicks'
      BY <1>1, <1>4, <2>1, <2>2, <3>1
    <3> QED
      BY <2>2, <2>3, <3>1, <3>2 DEF Elapsed
  <2> QED
    BY <2>4, <2>5
<1>6. TestedBefore'
  <2>1. CASE sleeper = "waiting"
    <3>1. passed' = passed + 1 /\ late' = 0 /\ sleeper' = "woken" /\ millis' = millis
      BY <1>4, <2>1 DEF Asleep, ClockInterrupt
    <3>2. passed' - (late' + 1) = passed
      BY <1>1, <3>1
    <3> QED
      BY <1>1, <2>1, <3>1, <3>2 DEF ClockInv, TestedBefore
  <2>2. CASE sleeper \in {"woken", "loaded"}
    <3>1. passed' = passed + 1 /\ late' = late + 1 /\ sleeper' = sleeper /\ millis' = millis
      BY <1>4, <2>2 DEF Asleep, ClockInterrupt
    <3>2. passed' - (late' + 1) = passed - (late + 1)
      BY <1>1, <3>1
    <3> QED
      BY <1>1, <2>2, <3>1, <3>2 DEF ClockInv, TestedBefore
  <2>3. CASE ~Asleep
    BY <2>3 DEF TestedBefore, ClockInterrupt, Asleep
  <2> QED
    BY <2>1, <2>2, <2>3 DEF Asleep
<1>7. TestsAsAsked'
  BY <1>1 DEF ClockInv, TestsAsAsked, ClockInterrupt
<1>8. LoadedTrue'
  BY DEF ClockInv, LoadedTrue, ClockInterrupt
<1> QED
  BY <1>3, <1>5, <1>6, <1>7, <1>8 DEF ClockInv

\* clock_read loads the seconds.
LEMMA LoadInv == ClockInv /\ LoadSeconds => ClockInv'
<1> SUFFICES ASSUME ClockInv, LoadSeconds PROVE ClockInv'
  OBVIOUS
<1>1. ClockTypeOK' /\ LoadedTrue'
  BY DEF ClockInv, ClockTypeOK, LoadedTrue, LoadSeconds, real, Within
<1>2. Elapsed'
  BY DEF ClockInv, Elapsed, Asleep, LoadSeconds
<1> QED
  BY <1>1, <1>2 DEF ClockInv, TestedBefore, TestsAsAsked, LoadSeconds

\* The time that has passed when the loop tests fits a word.
LEMMA PassedFits ==
    ASSUME Roomy, ClockInv, sleeper = "loaded"
    PROVE  /\ passed * ClickMillis \in Nat
           /\ passed * ClickMillis < Word
           /\ passed <= 1 + MaxDelay \/ passed * ClickMillis < millis + (1 + MaxDelay) * ClickMillis
<1> USE Units
<1>1. passed \in Nat /\ late \in 0 .. MaxDelay /\ millis \in 0 .. MaxMillis
  BY DEF ClockInv, ClockTypeOK
<1>2. passed * ClickMillis \in Nat /\ (late + 1) * ClickMillis \in Nat
      /\ (1 + MaxDelay) * ClickMillis \in Nat
      /\ (late + 1) * ClickMillis <= (1 + MaxDelay) * ClickMillis
  BY <1>1, SMTT(20)
<1>3. CASE passed = late + 1
  BY <1>1, <1>2, <1>3 DEF Roomy
<1>4. CASE (passed - (late + 1)) * ClickMillis < millis
  <2>1. passed * ClickMillis = (passed - (late + 1)) * ClickMillis + (late + 1) * ClickMillis
    BY <1>1, SMTT(20)
  <2>2. (passed - (late + 1)) * ClickMillis \in Int
    BY <1>1
  <2> QED
    BY <1>1, <1>2, <1>4, <2>1, <2>2 DEF Roomy
<1> QED
  BY <1>3, <1>4 DEF ClockInv, TestedBefore

\* clock_wait compares the time that has passed.
LEMMA TestInv == Roomy /\ ClockInv /\ LoadClicks => ClockInv'
<1> SUFFICES ASSUME Roomy, ClockInv, LoadClicks PROVE ClockInv'
  OBVIOUS
<1> USE Units
<1>1. sleeper = "loaded" /\ passed \in Nat /\ millis \in 0 .. MaxMillis
      /\ clicks \in 0 .. CLICKS_PER_SECOND - 1
  BY DEF ClockInv, ClockTypeOK, LoadClicks
<1>2. /\ passed * ClickMillis \in Nat
      /\ passed * ClickMillis < Word
      /\ passed <= 1 + MaxDelay \/ passed * ClickMillis < millis + (1 + MaxDelay) * ClickMillis
  BY <1>1, PassedFits
<1>3. TotalMillis(ClockDiff(start, Time(loaded, clicks))) = passed * ClickMillis
  <2>1. PICK s \in 0 .. Word - 1, c \in 0 .. CLICKS_PER_SECOND - 1, whole \in Nat :
          /\ start = [seconds |-> s, millis |-> c * ClickMillis]
          /\ c + passed = whole * CLICKS_PER_SECOND + clicks
          /\ seconds = (s + whole) % Word
    BY <1>1 DEF ClockInv, Elapsed, Asleep
  <2>2. MillisOf(clicks) = clicks * ClickMillis
    BY <1>1, MillisExact
  <2>3. Time(loaded, clicks) = [seconds |-> (s + whole) % Word, millis |-> clicks * ClickMillis]
    BY <1>1, <2>1, <2>2 DEF ClockInv, LoadedTrue, Time
  <2>4. Apart(start, Time(loaded, clicks), passed)
    BY <1>1, <2>1, <2>3 DEF Apart
  <2> QED
    BY <1>1, <1>2, <2>4, DiffExact
<1>4. /\ UNCHANGED <<clicks, seconds, millis, passed, begun>> /\ late' = 0 /\ loaded' = 0
      /\ ended' \in Within
  BY DEF LoadClicks, ClockInv, ClockTypeOK
<1>5. CASE passed * ClickMillis < millis
  <2>1. sleeper' = "waiting" /\ start' = start
    BY <1>3, <1>5 DEF LoadClicks, MustWaitMore
  <2>2. ClockTypeOK'
    BY <1>4, <2>1 DEF ClockInv, ClockTypeOK, Within
  <2>3. Elapsed'
    BY <1>1, <1>4, <2>1 DEF ClockInv, Elapsed, Asleep
  <2> QED
    BY <1>4, <1>5, <2>1, <2>2, <2>3
    DEF ClockInv, LoadedTrue, TestedBefore, TestsAsAsked
<1>6. CASE ~(passed * ClickMillis < millis)
  <2>1. sleeper' = "returned" /\ start' = Time(0, 0)
    BY <1>3, <1>6 DEF LoadClicks, MustWaitMore
  <2>2. Time(0, 0) = [seconds |-> 0, millis |-> 0]
    BY MillisExact DEF Time
  <2>3. ClockTypeOK'
    BY <1>4, <2>1, <2>2 DEF ClockInv, ClockTypeOK, Within
  <2>4. TestsAsAsked'
    BY <1>1, <1>2, <1>4, <1>6 DEF TestsAsAsked
  <2> QED
    BY <2>1, <2>3, <2>4 DEF ClockInv, Elapsed, Asleep, LoadedTrue, TestedBefore
<1> QED
  BY <1>5, <1>6

\* Every step keeps the invariant.
LEMMA ClockNextInv == ~Torn /\ Roomy /\ ClockInv /\ [ClockNext]_clockVars => ClockInv'
<1> SUFFICES ASSUME ~Torn, Roomy, ClockInv, [ClockNext]_clockVars PROVE ClockInv'
  OBVIOUS
<1>1. ASSUME NEW m \in 0 .. MaxMillis, SysSleep(m) PROVE ClockInv'
  BY <1>1, SleepInv
<1>2. CASE LoadSeconds
  BY <1>2, LoadInv
<1>3. CASE LoadClicks
  BY <1>3, TestInv
<1>4. CASE Return
  <2>1. ClockTypeOK'
    BY <1>4, Units DEF Return, ClockInv, ClockTypeOK, PassedBound, Within
  <2> QED
    BY <1>4, <2>1 DEF Return, ClockInv, Elapsed, Asleep, LoadedTrue, TestedBefore, TestsAsAsked
<1>5. CASE ClockInterrupt
  BY <1>5, TickInv
<1>6. CASE UNCHANGED clockVars
  <2>1. ClockTypeOK' /\ TestsAsAsked'
    BY <1>6 DEF clockVars, real, ClockInv, ClockTypeOK, TestsAsAsked
  <2>2. Elapsed'
    BY <1>6 DEF clockVars, ClockInv, Elapsed, Asleep
  <2> QED
    BY <1>6, <2>1, <2>2 DEF clockVars, ClockInv, LoadedTrue, TestedBefore
<1> QED
  BY <1>1, <1>2, <1>3, <1>4, <1>5, <1>6 DEF ClockNext

\* ClockInv is invariant.
THEOREM ClockInvariant ==
    ASSUME ~Torn, Roomy PROVE ClockSpec => []ClockInv
<1>1. ClockInit => ClockInv
  BY ClockInitInv
<1>2. ~Torn /\ Roomy /\ ClockInv /\ [ClockNext]_clockVars => ClockInv'
  BY ClockNextInv
<1> QED
  BY <1>1, <1>2, PTL DEF ClockSpec

\* sys_clock.h's sleep, for every rate, word and delay, whichever counters turn
\* over: it is short by less than a click and ends at the first test that succeeds.
THEOREM ClockSleepsNearlyAsAsked ==
    ASSUME ~Torn, Roomy PROVE ClockSpec => []SleepsNearlyAsAsked
<1>1. ASSUME ClockInv, sleeper = "returned"
      PROVE  /\ Slept + ClickMillis > millis
             /\ Slept < millis + (2 + MaxDelay) * ClickMillis
  <2> PICK k, p : k = ClickMillis /\ p = passed * k
    OBVIOUS
  <2>1. /\ k \in Nat \ {0} /\ passed \in Nat /\ millis \in Nat /\ MaxDelay \in Nat
        /\ begun \in 0 .. k - 1 /\ ended \in 0 .. k - 1
    BY <1>1, Units DEF ClockInv, ClockTypeOK, Within
  <2>2. p \in Nat /\ (1 + MaxDelay) * k \in Nat /\ (2 + MaxDelay) * k = (1 + MaxDelay) * k + k
    BY <2>1, SMTT(20)
  <2>3. passed <= 1 + MaxDelay => p <= (1 + MaxDelay) * k
    BY <2>1, SMTT(20)
  <2>4. p >= millis /\ p <= millis + (1 + MaxDelay) * k
    BY <1>1, <2>1, <2>2, <2>3 DEF ClockInv, TestsAsAsked
  <2>5. Slept = p + ended - begun
    BY DEF Slept
  <2> QED
    BY <2>1, <2>2, <2>4, <2>5
<1>2. ClockInv => SleepsNearlyAsAsked
  BY <1>1 DEF SleepsNearlyAsAsked
<1> QED
  BY <1>2, ClockInvariant, PTL

\* The variables keep their types; passed is never stopped while it matters.
THEOREM ClockTypes ==
    ASSUME ~Torn, Roomy PROVE ClockSpec => []ClockTypeOK
<1>1. ClockInv => ClockTypeOK
  BY DEF ClockInv
<1> QED
  BY <1>1, ClockInvariant, PTL
-----------------------------------------------------------------------------
(* Rtc: the second is read first and compared last.  The clock moves at    *)
(* most once during a fetch, so it shows one of two times whose seconds    *)
(* differ; if the second read first is still shown at the end, all         *)
(* registers were read at the time shown then (Agree).                     *)

Shows == 0 .. Day - 1
PortAt(s, f) == Bcd(TimeAt(s)[f])

\* What the hardware has shown since the fetch began, oldest first forgotten.
SinceTrue ==
    reading[1] \in Caller =>
        /\ now \in since
        /\ ~moved => since = {now}
        /\ moved => \E s \in Shows : now = (s + 1) % Day /\ since = {s, now}

\* The registers read so far: the second was read at some time of the fetch,
\* and if that is the time shown now, so were the others.
Agree ==
    reading[1] \in Caller /\ reading[2] # "second" =>
        \E s \in since :
            /\ t["second"] = PortAt(s, "second")
            /\ s = now =>
                 /\ reading[2] \in {"hour", "check"} => t["minute"] = PortAt(now, "minute")
                 /\ reading[2] = "check" => t["hour"] = PortAt(now, "hour")

Given == reading[1] \in {"draw", "shown"} => \E s \in since : out = TimeAt(s)

Drawn == reading[1] = "shown" => shown = [f \in Field |-> Digits(out[f])]

RtcInv ==
    /\ RtcTypeOK
    /\ reading[1] \notin Caller => ~moved
    /\ SinceTrue
    /\ Agree
    /\ Given
    /\ Drawn
-----------------------------------------------------------------------------
(* Arithmetic of the fields. *)

\* The conversion rtc_bcd_to_binary undoes the clock's.
LEMMA BcdFacts ==
    ASSUME NEW n \in 0 .. Base * Base - 1
    PROVE  Bcd(n) \in 0 .. 16 * Base /\ RtcBcdToBinary(Bcd(n)) = n
<1>1. Base \in Nat \ {0} /\ Base <= 16
  BY RtcAssumption
<1>2. n \in Nat
  BY <1>1
<1>3. n \div Base \in 0 .. Base - 1
  BY <1>1, DivBelow
<1>4. n % Base \in 0 .. Base - 1 /\ n = (n \div Base) * Base + (n % Base)
  BY <1>1, <1>2, DivMod
<1>5. Bcd(n) = (n \div Base) * 16 + (n % Base)
  BY <1>1, <1>3, <1>4 DEF Bcd
<1>6. Bcd(n) % 16 = n % Base /\ Bcd(n) \div 16 = n \div Base
  <2>1. \A p \in Nat, q \in 0 .. 15 : (p * 16 + q) % 16 = q /\ (p * 16 + q) \div 16 = p
    BY SMTT(20)
  <2>2. n \div Base \in Nat /\ n % Base \in 0 .. 15
    BY <1>1, <1>3, <1>4
  <2> QED
    BY <1>5, <2>1, <2>2, Zenon
<1> QED
  BY <1>1, <1>3, <1>4, <1>5, <1>6 DEF RtcBcdToBinary

\* draw_char's two digits are those of the number.
LEMMA DigitsFacts ==
    ASSUME NEW n \in 0 .. Base * Base - 1
    PROVE  /\ Digits(n) \in (0 .. Base - 1) \X (0 .. Base - 1)
           /\ Digits(n)[1] * Base + Digits(n)[2] = n
<1>1. Base \in Nat \ {0}
  BY RtcAssumption
<1>2. n \in Nat
  BY <1>1
<1>3. n \div Base \in 0 .. Base - 1 /\ n % Base \in 0 .. Base - 1
  BY <1>1, <1>2, DivBelow, DivMod
<1>4. n = (n \div Base) * Base + (n % Base)
  BY <1>1, <1>2, DivMod
<1>5. n <= Base - 1 => n % Base = n
  <2> SUFFICES ASSUME n <= Base - 1 PROVE n % Base = n
    OBVIOUS
  <2>1. n = 0 * Base + n
    BY <1>1, <1>2
  <2> QED
    BY <1>1, <1>2, <1>3, <1>4, <2>1, DivModUnique
<1> QED
  BY <1>1, <1>2, <1>3, <1>4, <1>5 DEF Digits

\* The lengths of minute, hour and day.
LEMMA FieldsPositive ==
    /\ Base \in Nat \ {0}
    /\ Seconds \in Nat \ {0} /\ Minutes \in Nat \ {0} /\ Hours \in Nat \ {0}
    /\ Seconds > 2
    /\ Seconds <= Base * Base /\ Minutes <= Base * Base /\ Hours <= Base * Base
    /\ Base * Base \in Nat
    /\ Seconds * Minutes \in Nat \ {0}
    /\ Day \in Nat \ {0}
    /\ Day = Seconds * (Minutes * Hours)
    /\ Day = (Seconds * Minutes) * Hours
    /\ Minutes * Hours \in Nat \ {0}
<1>1. /\ Base \in Nat \ {0} /\ Base * Base \in Nat
      /\ Seconds \in 1 .. Base * Base /\ Minutes \in 1 .. Base * Base /\ Hours \in 1 .. Base * Base
      /\ Seconds > 2
  BY RtcAssumption, SMTT(20)
<1>2. \A x, y \in Nat \ {0} : x * y \in Nat \ {0}
  BY SMTT(20)
<1>3. \A x, y, z \in Nat : (x * y) * z = x * (y * z)
  BY SMTT(20)
<1> QED
  BY <1>1, <1>2, <1>3 DEF Day

\* The fields fit two digits.
LEMMA TimeFacts ==
    ASSUME NEW s \in Shows
    PROVE  TimeAt(s) \in [Field -> 0 .. Base * Base - 1]
<1>1. s \in Nat
  BY FieldsPositive DEF Shows
<1>2. s % Seconds \in 0 .. Base * Base - 1
  BY <1>1, FieldsPositive, DivMod
<1>3. s \div Seconds \in Nat
  BY <1>1, FieldsPositive, DivMod
<1>4. (s \div Seconds) % Minutes \in 0 .. Base * Base - 1
  <2>1. (s \div Seconds) % Minutes \in 0 .. Minutes - 1
    BY <1>3, FieldsPositive, DivMod, Zenon
  <2> QED
    BY <2>1, FieldsPositive
<1>5. s \div (Seconds * Minutes) \in 0 .. Base * Base - 1
  <2>1. s \div (Seconds * Minutes) \in 0 .. Hours - 1
    BY <1>1, FieldsPositive, DivBelow DEF Shows
  <2> QED
    BY <2>1, FieldsPositive
<1> QED
  BY <1>2, <1>4, <1>5 DEF TimeAt, Field

\* The day's length is a number of minutes: its turn is a turn of the second.
LEMMA ModDay ==
    ASSUME NEW n \in 0 .. Day
    PROVE  (n % Day) % Seconds = n % Seconds
<1>1. CASE n < Day
  <2>1. (0 * Day + n) % Day = n
    <3>1. n \in 0 .. Day - 1
      BY <1>1, FieldsPositive
    <3> QED
      BY <3>1, ModOf, FieldsPositive
  <2>2. 0 * Day + n = n
    BY FieldsPositive
  <2> QED
    BY <2>1, <2>2
<1>2. CASE n = Day
  <2>1. (1 * Day + 0) % Day = 0
    BY ModOf, FieldsPositive
  <2>2. 1 * Day + 0 = Day
    BY FieldsPositive
  <2> DEFINE k == Minutes * Hours
  <2>3. k \in Nat /\ Day = Seconds * k
    BY FieldsPositive
  <2> HIDE DEF k
  <2> Seconds \in Nat \ {0} /\ 0 \in 0 .. Seconds - 1
    BY FieldsPositive
  <2>4. (k * Seconds + 0) % Seconds = 0
    BY <2>3, ModOf, Zenon
  <2>5. k * Seconds + 0 = Day
    BY <2>3, FieldsPositive, SMTT(20)
  <2>6. (0 * Seconds + 0) % Seconds = 0
    BY ModOf, FieldsPositive
  <2>7. 0 * Seconds + 0 = 0
    BY FieldsPositive
  <2>8. Day % Day = 0 /\ Day % Seconds = 0 /\ 0 % Seconds = 0
    BY <2>1, <2>2, <2>4, <2>5, <2>6, <2>7
  <2> QED
    BY <1>2, <2>8
<1> QED
  BY <1>1, <1>2, FieldsPositive

\* The clock goes from one time to another whose second differs.
LEMMA SecondMoves ==
    ASSUME NEW s \in Shows
    PROVE  /\ (s + 1) % Day \in Shows
           /\ TimeAt((s + 1) % Day)["second"] # TimeAt(s)["second"]
<1>1. s \in Nat /\ s + 1 \in 0 .. Day
  BY FieldsPositive DEF Shows
<1>2. (s + 1) % Day \in Shows
  BY <1>1, FieldsPositive, DivMod DEF Shows
<1>3. (s + 1) % Seconds # s % Seconds
  <2> Seconds \in Nat \ {0} /\ Seconds # 1
    BY FieldsPositive
  <2> QED
    BY <1>1, ModNext, Zenon
<1>4. ((s + 1) % Day) % Seconds = (s + 1) % Seconds
  BY <1>1, ModDay
<1> QED
  BY <1>2, <1>3, <1>4 DEF TimeAt

\* What the ports show is the time in BCD, which rtc_fetch_time converts back.
LEMMA PortFacts ==
    ASSUME NEW s \in Shows, NEW f \in Field
    PROVE  /\ TimeAt(s)[f] \in 0 .. Base * Base - 1
           /\ PortAt(s, f) \in 0 .. 16 * Base
           /\ RtcBcdToBinary(PortAt(s, f)) = TimeAt(s)[f]
BY TimeFacts, BcdFacts DEF PortAt
-----------------------------------------------------------------------------
ReadingType == (Caller \X (Field \cup {"check"})) \cup ({"idle", "read C", "draw", "shown"} \X {""})

\* The places of a fetch.
LEMMA ReadingFacts ==
    /\ \A c \in Caller, f \in Field \cup {"check"} :
          <<c, f>> \in ReadingType /\ <<c, f>>[1] = c /\ <<c, f>>[2] = f
    /\ \A w \in {"idle", "read C", "draw", "shown"} :
          <<w, "">> \in ReadingType /\ <<w, "">>[1] = w /\ <<w, "">>[2] = ""
BY DEF ReadingType

\* Nothing is read yet.
LEMMA RtcInitInv == RtcInit => RtcInv
<1> SUFFICES ASSUME RtcInit PROVE RtcInv
  OBVIOUS
<1>1. now \in Shows /\ since = {now} /\ reading = <<"init", "second">> /\ moved = FALSE
  BY DEF RtcInit, RtcFrom, Shows
<1>2. 0 \in 0 .. Base * Base - 1 /\ 0 \in 0 .. 16 * Base /\ 0 \in 0 .. Base - 1
  BY FieldsPositive
<1>3. RtcTypeOK
  <2>1. reading \in ReadingType
    BY <1>1, ReadingFacts DEF Caller, Field
  <2>2. NoTime \in [Field -> 0 .. 16 * Base] /\ NoTime \in [Field -> 0 .. Base * Base - 1]
    BY <1>2 DEF NoTime
  <2>3. [f \in Field |-> <<0, 0>>] \in [Field -> (0 .. Base - 1) \X (0 .. Base - 1)]
    BY <1>2
  <2> QED
    BY <1>1, <2>1, <2>2, <2>3 DEF RtcInit, RtcFrom, RtcTypeOK, ReadingType, Shows
<1> QED
  BY <1>1, <1>3 DEF RtcInv, SinceTrue, Agree, Given, Drawn, Caller

\* The clock moves on by a second.
LEMMA RtcUpdateInv == RtcInv /\ Update => RtcInv'
<1> SUFFICES ASSUME RtcInv, Update PROVE RtcInv'
  OBVIOUS
<1>1. now \in Shows /\ now' = (now + 1) % Day /\ now' \in Shows
      /\ TimeAt(now')["second"] # TimeAt(now)["second"]
  BY SecondMoves DEF RtcInv, RtcTypeOK, Shows, Update
<1>2. now' # now
  BY <1>1
<1>3. RtcTypeOK'
  <2>1. moved' \in BOOLEAN /\ pending' \in BOOLEAN
    BY DEF Update
  <2>2. since' \subseteq Shows
    BY <1>1 DEF RtcInv, RtcTypeOK, Shows, Update
  <2>3. UNCHANGED <<reading, t, cached, out, shown>>
    BY DEF Update
  <2> QED
    BY <1>1, <2>1, <2>2, <2>3 DEF RtcInv, RtcTypeOK, Shows
<1>4. reading[1] \in Caller => since = {now} /\ since' = {now, now'} /\ moved'
  BY DEF RtcInv, SinceTrue, Update
<1>5. SinceTrue'
  BY <1>1, <1>4 DEF SinceTrue, Update
<1>6. Agree'
  <2> SUFFICES ASSUME reading[1] \in Caller, reading[2] # "second" PROVE Agree'
    BY DEF Agree, Update
  <2>1. t["second"] = PortAt(now, "second")
    BY <1>4 DEF RtcInv, Agree
  <2> QED
    BY <1>2, <1>4, <2>1 DEF Agree, Update
<1> QED
  BY <1>3, <1>5, <1>6 DEF RtcInv, Given, Drawn, Update, Caller

\* A port is read.
LEMMA ReadPortInv == RtcInv /\ ReadPort => RtcInv'
<1> SUFFICES ASSUME RtcInv, ReadPort PROVE RtcInv'
  OBVIOUS
<1>1. reading[1] \in Caller /\ reading[2] \in Field /\ now \in since
      /\ reading' = <<reading[1], Following[reading[2]]>>
  BY DEF RtcInv, RtcTypeOK, SinceTrue, ReadPort, Field, Caller
<1>2. t' = [t EXCEPT ![reading[2]] = PortAt(now, reading[2])]
  BY DEF ReadPort, PortOf, PortAt
<1>3. Following[reading[2]] \in Field \cup {"check"}
  BY <1>1 DEF Following, Field
<1>6. reading' \in ReadingType /\ reading'[1] = reading[1] /\ reading'[2] = Following[reading[2]]
  <2> DEFINE next == Following[reading[2]]
             who == reading[1]
  <2>1. who \in Caller /\ next \in Field \cup {"check"} /\ reading' = <<who, next>>
    BY <1>1, <1>3
  <2> HIDE DEF next, who
  <2>2. reading' \in ReadingType /\ reading'[1] = who /\ reading'[2] = next
    BY <2>1, ReadingFacts
  <2> QED
    BY <2>2 DEF next, who
<1>7. now' = now /\ pending' = pending /\ since' = since /\ moved' = moved
      /\ cached' = cached /\ out' = out /\ shown' = shown
  BY DEF ReadPort
<1>4. RtcTypeOK'
  <2>1. now \in Shows
    BY DEF RtcInv, RtcTypeOK, Shows
  <2>2. PortAt(now, reading[2]) \in 0 .. 16 * Base
    BY <1>1, <2>1, PortFacts
  <2>3. t' \in [Field -> 0 .. 16 * Base]
    BY <1>1, <1>2, <2>2 DEF RtcInv, RtcTypeOK
  <2> QED
    BY <1>6, <1>7, <2>3 DEF RtcInv, RtcTypeOK, ReadingType
<1>5. Agree'
  <2> t \in [Field -> 0 .. 16 * Base]
    BY DEF RtcInv, RtcTypeOK
  <2>1. CASE reading[2] = "second"
    <3>1. reading'[2] = "minute"
      BY <1>6, <2>1 DEF Following
    <3>2. t'["second"] = PortAt(now, "second")
      BY <1>2, <2>1 DEF Field
    <3> QED
      BY <1>1, <1>7, <3>1, <3>2 DEF Agree, PortAt
  <2>2. CASE reading[2] = "minute"
    <3>1. reading'[2] = "hour"
      BY <1>6, <2>2 DEF Following
    <3>2. t'["second"] = t["second"] /\ t'["minute"] = PortAt(now, "minute")
      BY <1>2, <2>2 DEF Field
    <3> QED
      BY <1>1, <1>7, <2>2, <3>1, <3>2 DEF RtcInv, Agree, PortAt
  <2>3. CASE reading[2] = "hour"
    <3>1. reading'[2] = "check"
      BY <1>6, <2>3 DEF Following
    <3>2. t'["second"] = t["second"] /\ t'["minute"] = t["minute"]
          /\ t'["hour"] = PortAt(now, "hour")
      BY <1>2, <2>3 DEF Field
    <3> QED
      BY <1>1, <1>7, <2>3, <3>1, <3>2 DEF RtcInv, Agree, PortAt
  <2> QED
    BY <1>1, <2>1, <2>2, <2>3 DEF Field
<1> QED
  BY <1>1, <1>4, <1>5, <1>6, <1>7 DEF RtcInv, SinceTrue, Given, Drawn, Caller

\* What the loop is left with is the time shown now.
LEMMA LeftWithNow ==
    ASSUME RtcInv, reading[2] = "check", SameSecond
    PROVE  [f \in Field |-> RtcBcdToBinary(t[f])] = TimeAt(now)
<1>1. reading[1] \in Caller /\ now \in Shows /\ since \subseteq Shows
  BY DEF RtcInv, RtcTypeOK, Caller, Shows
<1>2. PICK s \in since :
        /\ t["second"] = PortAt(s, "second")
        /\ s = now => t["minute"] = PortAt(now, "minute") /\ t["hour"] = PortAt(now, "hour")
  BY <1>1 DEF RtcInv, Agree
<1>3. PortAt(s, "second") = PortAt(now, "second")
  BY <1>2 DEF SameSecond, PortOf, PortAt
<1>4. TimeAt(s)["second"] = TimeAt(now)["second"]
  <2>1. RtcBcdToBinary(PortAt(s, "second")) = TimeAt(s)["second"]
    BY <1>1, PortFacts DEF Field
  <2>2. RtcBcdToBinary(PortAt(now, "second")) = TimeAt(now)["second"]
    BY <1>1, PortFacts DEF Field
  <2> QED
    BY <1>3, <2>1, <2>2
<1>5. s = now
  <2>1. CASE ~moved
    BY <1>1, <2>1 DEF RtcInv, SinceTrue
  <2>2. CASE moved
    <3>1. PICK b \in Shows : now = (b + 1) % Day /\ since = {b, now}
      BY <1>1, <2>2 DEF RtcInv, SinceTrue
    <3>2. TimeAt(now)["second"] # TimeAt(b)["second"]
      BY <3>1, SecondMoves
    <3> QED
      BY <1>4, <3>1, <3>2
  <2> QED
    BY <2>1, <2>2
<1>6. \A f \in Field : t[f] = PortAt(now, f)
  BY <1>2, <1>5 DEF Field
<1>7. \A f \in Field : RtcBcdToBinary(t[f]) = TimeAt(now)[f]
  BY <1>1, <1>6, PortFacts
<1>8. TimeAt(now) = [f \in Field |-> TimeAt(now)[f]]
  BY <1>1, TimeFacts
<1> QED
  BY <1>7, <1>8

\* The second is the one read first, or the fetch begins again.
LEMMA RtcFetchedInv == RtcInv /\ Fetched => RtcInv'
<1> SUFFICES ASSUME RtcInv, Fetched PROVE RtcInv'
  OBVIOUS
<1>1. reading[1] \in Caller /\ now \in Shows /\ now \in since
  BY DEF RtcInv, RtcTypeOK, SinceTrue, Fetched, Caller, Shows
<1>2. cached' = TimeAt(now)
  BY LeftWithNow DEF Fetched
<1>3. TimeAt(now) \in [Field -> 0 .. Base * Base - 1]
  BY <1>1, TimeFacts
<1>4. NoTime \in [Field -> 0 .. 16 * Base]
  BY FieldsPositive DEF NoTime
<1>5. CASE reading[1] = "program"
  <2>1. reading' = <<"draw", "">> /\ out' = TimeAt(now) /\ since' = since /\ moved' = FALSE
        /\ t' = NoTime /\ now' = now /\ pending' = pending /\ shown' = shown
    BY <1>2, <1>5 DEF Fetched
  <2>3. reading' \in ReadingType /\ reading'[1] = "draw"
    BY <2>1, ReadingFacts
  <2>2. RtcTypeOK'
    BY <1>2, <1>3, <1>4, <2>1, <2>3 DEF RtcInv, RtcTypeOK, ReadingType
  <2> QED
    BY <1>1, <2>1, <2>2, <2>3 DEF RtcInv, SinceTrue, Agree, Given, Drawn, Caller
<1>6. CASE reading[1] # "program"
  <2>1. reading' \in {<<"read C", "">>, <<"idle", "">>} /\ out' = out /\ since' = {} /\ moved' = FALSE
        /\ t' = NoTime /\ now' = now /\ pending' = pending /\ shown' = shown
    BY <1>6 DEF Fetched
  <2>3. reading' \in ReadingType /\ reading'[1] \in {"read C", "idle"}
    BY <2>1, ReadingFacts
  <2>2. RtcTypeOK'
    BY <1>2, <1>3, <1>4, <2>1, <2>3 DEF RtcInv, RtcTypeOK, ReadingType
  <2> QED
    BY <1>1, <2>1, <2>2, <2>3 DEF RtcInv, SinceTrue, Agree, Given, Drawn, Caller
<1> QED
  BY <1>5, <1>6

\* The time fetched is shown.
LEMMA RtcDrawInv == RtcInv /\ Draw => RtcInv'
<1> SUFFICES ASSUME RtcInv, Draw PROVE RtcInv'
  OBVIOUS
<1>1. \A f \in Field : Digits(out[f]) \in (0 .. Base - 1) \X (0 .. Base - 1)
  BY DigitsFacts DEF RtcInv, RtcTypeOK
<1>2. RtcTypeOK'
  BY <1>1 DEF RtcInv, RtcTypeOK, Draw
<1> QED
  BY <1>2 DEF RtcInv, SinceTrue, Agree, Given, Drawn, Draw, Caller

\* Every step keeps the invariant.
LEMMA RtcNextInv == RtcInv /\ [RtcNext]_rtcVars => RtcInv'
<1> SUFFICES ASSUME RtcInv, [RtcNext]_rtcVars PROVE RtcInv'
  OBVIOUS
<1>1. CASE Update
  BY <1>1, RtcUpdateInv
<1>2. CASE ReadPort
  BY <1>2, ReadPortInv
<1>3. CASE ReadAgain
  <2>1. reading[1] \in Caller /\ reading' = <<reading[1], "second">>
    BY <1>3 DEF RtcInv, RtcTypeOK, ReadAgain, Caller
  <2>2. reading' \in ReadingType /\ reading'[1] = reading[1] /\ reading'[2] = "second"
    <3> DEFINE who == reading[1]
    <3>1. who \in Caller /\ reading' = <<who, "second">>
      BY <2>1
    <3> HIDE DEF who
    <3>2. reading' \in ReadingType /\ reading'[1] = who /\ reading'[2] = "second"
      BY <3>1, ReadingFacts DEF Field
    <3> QED
      BY <3>2 DEF who
  <2>3. UNCHANGED <<now, pending, t, since, moved, cached, out, shown>>
    BY <1>3 DEF ReadAgain
  <2>4. RtcTypeOK'
    BY <2>2, <2>3 DEF RtcInv, RtcTypeOK, ReadingType
  <2> QED
    BY <2>1, <2>2, <2>3, <2>4 DEF RtcInv, SinceTrue, Agree, Given, Drawn, Caller
<1>4. CASE Fetched
  BY <1>4, RtcFetchedInv
<1>5. CASE ReadRegisterC
  BY <1>5 DEF ReadRegisterC, RtcInv, RtcTypeOK, SinceTrue, Agree, Given, Drawn, Caller
<1>6. CASE Draw
  BY <1>6, RtcDrawInv
<1>7. CASE Shown
  <2>1. 0 \in 0 .. Base * Base - 1 /\ 0 \in 0 .. Base - 1
    BY FieldsPositive
  <2>2. RtcTypeOK'
    BY <1>7, <2>1 DEF Shown, RtcInv, RtcTypeOK, NoTime
  <2> QED
    BY <1>7, <2>2 DEF Shown, RtcInv, SinceTrue, Agree, Given, Drawn, Caller
<1>8. ASSUME NEW c \in Caller, Begin(c) PROVE RtcInv'
  <2>1. RtcTypeOK'
    BY <1>8 DEF Begin, RtcInv, RtcTypeOK, Field
  <2> QED
    BY <1>8, <2>1 DEF Begin, RtcInv, SinceTrue, Agree, Given, Drawn, Caller
<1>9. CASE UNCHANGED rtcVars
  BY <1>9 DEF rtcVars, RtcInv, RtcTypeOK, SinceTrue, Agree, Given, Drawn
<1>10. CASE RtcRead
  BY <1>8, <1>10 DEF RtcRead, Caller
<1>11. CASE RtcInterrupt
  BY <1>8, <1>11 DEF RtcInterrupt, Caller
<1> QED
  BY <1>1, <1>2, <1>3, <1>4, <1>5, <1>6, <1>7, <1>9, <1>10, <1>11 DEF RtcNext, RtcStep

\* RtcInv is invariant.
THEOREM RtcInvariant == RtcSpec => []RtcInv
<1>1. RtcInit => RtcInv
  BY RtcInitInv
<1>2. RtcInv /\ [RtcNext]_rtcVars => RtcInv'
  BY RtcNextInv
<1> QED
  BY <1>1, <1>2, PTL DEF RtcSpec

\* sys_rtc.h's read_rtc, for clocks of every size: the program gets, and draws, a
\* time that the clock showed during the call, wherever the update falls.
THEOREM RtcTimeWas == RtcSpec => []TimeWas
<1>1. RtcInv => TimeWas
  <2> SUFFICES ASSUME RtcInv PROVE TimeWas
    OBVIOUS
  <2>1. \A f \in Field : Digits(out[f])[1] * Base + Digits(out[f])[2] = out[f]
    BY DigitsFacts DEF RtcInv, RtcTypeOK
  <2>2. reading[1] \in {"draw", "shown"} => \E s \in since : out = TimeAt(s)
    BY DEF RtcInv, Given
  <2>3. reading[1] = "shown" =>
          \A f \in Field : shown[f][1] * Base + shown[f][2] = out[f]
    BY <2>1 DEF RtcInv, Drawn
  <2> QED
    BY <2>2, <2>3 DEF TimeWas
<1> QED
  BY <1>1, RtcInvariant, PTL

\* The variables keep their types: what the hardware's digits are converted to is
\* again a number of two digits.
THEOREM RtcTypes == RtcSpec => []RtcTypeOK
<1>1. RtcInv => RtcTypeOK
  BY DEF RtcInv
<1> QED
  BY <1>1, RtcInvariant, PTL
-----------------------------------------------------------------------------
(* Boot's memory: pages are taken from below, so what is free has no gap   *)
(* but the blocked cells, and two pages taken in a row are neighbours.     *)

\* Where kernel_main takes the first page of mouse_draw_buffer.
BufferAt(s, b) ==
    /\ b \in 2 .. Len(s) - 1
    /\ s[b] = <<"page", "buffer">> /\ s[b + 1] = <<"page", "beyond">>
    /\ \A n \in 1 .. Len(s) : n \notin {b, b + 1} => s[n][1] # "page"
    /\ \A n \in 1 .. Len(s) : s[n] = <<"register", Mouse>> => n > b + 1

BufferStep == CHOOSE b \in Nat : BufferAt(KernelMain, b)

\* The pages that can be had at all.
Page == {p \in 0 .. Bytes * ByteBits - 1 : CellOf(p) \notin {0, 5}}

NoGaps ==
    /\ freemap \subseteq Nat
    /\ \A x \in freemap : CellOf(x) \notin {0, 5} /\ \A y \in Page : x < y => y \in freemap

\* No page is given out twice.
Separate ==
    /\ DOMAIN given = Use
    /\ \A use \in Use :
         /\ given[use] \subseteq Nat
         /\ given[use] \cap freemap = {}
         /\ \A other \in Use \ {use} : given[use] \cap given[other] = {}

\* Between its two allocations, the page behind the first one is the next.
NextIsBeyond ==
    at = BufferStep + 1 =>
        \A p \in given["buffer"] :
            /\ \A x \in freemap : p < x
            /\ p + 1 \in freemap \/ CellOf(p + 1) = 5 \/ p + 1 >= Bytes * ByteBits

\* The one handler that allocates comes behind both.
MouseLater == Mouse \in handler => at > BufferStep + 1

\* The invariant of memory: before their turn the mouse has no pages.
MemoryInv ==
    /\ at = 1 => \A use \in Use : given[use] = {}
    /\ at <= BufferStep => given["buffer"] = {}
    /\ at <= BufferStep + 1 => given["beyond"] = {}
    /\ NoGaps
    /\ Separate
    /\ NextIsBeyond
    /\ MouseBufferWhole
-----------------------------------------------------------------------------
(* The order of kernel_main: memory_init comes first, and the two pages of *)
(* the mouse one after the other.                                          *)

\* Steps that are none of these.
Others(u) ==
    /\ u \in Seq(BootStep)
    /\ \A n \in 1 .. Len(u) : u[n][1] \notin {"memory", "page"}

\* Nor the mouse's handler.
BeforeMouse(u) == Others(u) /\ \A n \in 1 .. Len(u) : u[n] # <<"register", Mouse>>

\* A list that starts with memory_init and has not come to the mouse.
Started(s) ==
    /\ s \in Seq(BootStep) /\ Len(s) >= 2
    /\ \A n \in 1 .. Len(s) :
         s[n][1] # "page" /\ s[n] # <<"register", Mouse>> /\ (s[n][1] = "memory" <=> n = 1)

\* mouse_init.
Pages(u) ==
    /\ u \in Seq(BootStep) /\ Len(u) >= 2
    /\ u[1] = <<"page", "buffer">> /\ u[2] = <<"page", "beyond">>
    /\ \A n \in 1 .. Len(u) : u[n][1] # "memory" /\ (n \notin {1, 2} => u[n][1] # "page")

\* All of it.
Whole(s) ==
    /\ s \in Seq(BootStep)
    /\ \A n \in 1 .. Len(s) : s[n][1] = "memory" <=> n = 1
    /\ \E b \in 2 .. Len(s) - 1 : BufferAt(s, b)

\* An element of a concatenation is one of the first part or one of the second.
LEMMA InPart ==
    ASSUME NEW s \in Seq(BootStep), NEW u \in Seq(BootStep), NEW n \in 1 .. Len(s \o u)
    PROVE  \/ n \in 1 .. Len(s) /\ (s \o u)[n] = s[n]
           \/ \E j \in 1 .. Len(u) : n = Len(s) + j /\ (s \o u)[n] = u[j]
<1>1. /\ Len(s \o u) = Len(s) + Len(u)
      /\ \A k \in 1 .. Len(s) : (s \o u)[k] = s[k]
      /\ \A k \in 1 .. Len(u) : (s \o u)[Len(s) + k] = u[k]
  BY Appended
<1>2. Len(s) \in Nat /\ Len(u) \in Nat
  BY LenProperties
<1>3. CASE n <= Len(s)
  <2>1. n \in 1 .. Len(s)
    BY <1>1, <1>2, <1>3
  <2> QED
    BY ONLY <1>1, <2>1
<1>4. CASE n > Len(s)
  <2> PICK j : j = n - Len(s)
    OBVIOUS
  <2>1. j \in 1 .. Len(u) /\ n = Len(s) + j
    BY <1>1, <1>2, <1>4
  <2> QED
    BY ONLY <1>1, <2>1
<1>5. n <= Len(s) \/ n > Len(s)
  BY <1>1, <1>2
<1> QED
  BY <1>3, <1>4, <1>5

\* Lists put together keep what they are.
LEMMA OthersBehind ==
    ASSUME NEW s, Others(s), NEW u, Others(u)
    PROVE  Others(s \o u)
<1>1. s \in Seq(BootStep) /\ u \in Seq(BootStep)
  BY DEF Others
<1>2. s \o u \in Seq(BootStep)
  BY <1>1, Appended
<1>3. ASSUME NEW n \in 1 .. Len(s \o u)
      PROVE  (s \o u)[n][1] \notin {"memory", "page"}
  BY <1>1, <1>3, InPart DEF Others
<1> QED
  BY <1>2, <1>3 DEF Others

\* Still before the mouse.
LEMMA OthersBehindStart ==
    ASSUME NEW s, Started(s), NEW u, BeforeMouse(u)
    PROVE  Started(s \o u)
<1>1. s \in Seq(BootStep) /\ u \in Seq(BootStep) /\ Len(s) >= 2
  BY DEF BeforeMouse, Others, Started
<1>2. /\ s \o u \in Seq(BootStep) /\ Len(s \o u) = Len(s) + Len(u)
      /\ Len(s) \in Nat /\ Len(u) \in Nat
  BY <1>1, Appended, LenProperties
<1>3. ASSUME NEW n \in 1 .. Len(s \o u)
      PROVE  /\ (s \o u)[n][1] # "page" /\ (s \o u)[n] # <<"register", Mouse>>
             /\ (s \o u)[n][1] = "memory" <=> n = 1
  <2>1. CASE n \in 1 .. Len(s) /\ (s \o u)[n] = s[n]
    BY <2>1 DEF Started
  <2>2. CASE \E j \in 1 .. Len(u) : n = Len(s) + j /\ (s \o u)[n] = u[j]
    <3>1. PICK j \in 1 .. Len(u) : n = Len(s) + j /\ (s \o u)[n] = u[j]
      BY <2>2
    <3>2. n # 1
      BY <1>1, <1>2, <3>1
    <3>3. u[j][1] \notin {"memory", "page"} /\ u[j] # <<"register", Mouse>>
      BY DEF BeforeMouse, Others
    <3> QED
      BY <3>1, <3>2, <3>3
  <2> QED
    BY <1>1, <2>1, <2>2, InPart
<1> QED
  BY <1>1, <1>2, <1>3 DEF Started

\* mouse_init goes on.
LEMMA OthersBehindPages ==
    ASSUME NEW s, Pages(s), NEW u, Others(u)
    PROVE  Pages(s \o u)
<1>1. s \in Seq(BootStep) /\ u \in Seq(BootStep) /\ Len(s) >= 2
  BY DEF Others, Pages
<1>2. /\ s \o u \in Seq(BootStep) /\ Len(s \o u) = Len(s) + Len(u)
      /\ Len(s) \in Nat /\ Len(u) \in Nat
      /\ \A k \in 1 .. Len(s) : (s \o u)[k] = s[k]
  BY <1>1, Appended, LenProperties
<1>3. ASSUME NEW n \in 1 .. Len(s \o u)
      PROVE  /\ (s \o u)[n][1] # "memory"
             /\ n \notin {1, 2} => (s \o u)[n][1] # "page"
  <2>1. CASE n \in 1 .. Len(s) /\ (s \o u)[n] = s[n]
    BY <2>1 DEF Pages
  <2>2. CASE \E j \in 1 .. Len(u) : n = Len(s) + j /\ (s \o u)[n] = u[j]
    BY <2>2 DEF Others
  <2> QED
    BY <1>1, <2>1, <2>2, InPart
<1>4. 1 \in 1 .. Len(s) /\ 2 \in 1 .. Len(s)
  BY <1>1, <1>2
<1> QED
  BY <1>1, <1>2, <1>3, <1>4 DEF Pages

\* The mouse comes behind the start.
LEMMA PagesBehindStart ==
    ASSUME NEW s, Started(s), NEW u, Pages(u)
    PROVE  Whole(s \o u)
<1> PICK w, b : w = s \o u /\ b = Len(s) + 1
  OBVIOUS
<1>1. s \in Seq(BootStep) /\ u \in Seq(BootStep) /\ Len(s) >= 2 /\ Len(u) >= 2
  BY DEF Pages, Started
<1>2. /\ w \in Seq(BootStep) /\ Len(w) = Len(s) + Len(u)
      /\ Len(s) \in Nat /\ Len(u) \in Nat
      /\ \A k \in 1 .. Len(u) : w[Len(s) + k] = u[k]
  BY <1>1, Appended, LenProperties
<1>3. ASSUME NEW n \in 1 .. Len(w)
      PROVE  /\ w[n][1] = "memory" <=> n = 1
             /\ n \notin {b, b + 1} => w[n][1] # "page"
             /\ w[n] = <<"register", Mouse>> => n > b + 1
  <2>1. CASE n \in 1 .. Len(s) /\ w[n] = s[n]
    BY <2>1 DEF Started
  <2>2. CASE \E j \in 1 .. Len(u) : n = Len(s) + j /\ w[n] = u[j]
    <3>1. PICK j \in 1 .. Len(u) : n = Len(s) + j /\ w[n] = u[j]
      BY <2>2
    <3>2. n # 1 /\ (n \notin {b, b + 1} => j \notin {1, 2})
      BY <1>1, <1>2, <3>1
    <3>3. u[j][1] # "memory" /\ (j \notin {1, 2} => u[j][1] # "page")
      BY DEF Pages
    <3>4. ASSUME u[j] = <<"register", Mouse>> PROVE n > b + 1
      <4>1. j # 1 /\ j # 2
        BY <3>4 DEF Pages
      <4> QED
        BY <1>2, <3>1, <4>1
    <3> QED
      BY ONLY <3>1, <3>2, <3>3, <3>4
  <2> QED
    BY <1>1, <2>1, <2>2, InPart, SMTT(40)
<1>4. b \in 2 .. Len(w) - 1 /\ b + 1 = Len(s) + 2
  BY <1>1, <1>2
<1>5. w[b] = u[1] /\ w[b + 1] = u[2]
  <2>1. 1 \in 1 .. Len(u) /\ 2 \in 1 .. Len(u)
    BY <1>1, <1>2
  <2> QED
    BY <1>2, <1>4, <2>1
<1>6. BufferAt(w, b)
  BY <1>3, <1>4, <1>5 DEF BufferAt, Pages
<1> QED
  BY <1>2, <1>3, <1>4, <1>6 DEF Whole

\* What comes behind the mouse takes no page of it.
LEMMA OthersBehindWhole ==
    ASSUME NEW s, Whole(s), NEW u, Others(u)
    PROVE  Whole(s \o u)
<1> PICK w : w = s \o u
  OBVIOUS
<1>1. PICK b \in 2 .. Len(s) - 1 : BufferAt(s, b)
  BY DEF Whole
<1>2. s \in Seq(BootStep) /\ u \in Seq(BootStep)
  BY DEF Whole, Others
<1>3. /\ w \in Seq(BootStep) /\ Len(w) = Len(s) + Len(u)
      /\ Len(s) \in Nat /\ Len(u) \in Nat
      /\ \A k \in 1 .. Len(s) : w[k] = s[k]
  BY <1>2, Appended, LenProperties
<1>4. ASSUME NEW n \in 1 .. Len(w)
      PROVE  /\ w[n][1] = "memory" <=> n = 1
             /\ n \notin {b, b + 1} => w[n][1] # "page"
             /\ w[n] = <<"register", Mouse>> => n > b + 1
  <2>1. CASE n \in 1 .. Len(s) /\ w[n] = s[n]
    BY <1>1, <2>1 DEF Whole, BufferAt
  <2>2. CASE \E j \in 1 .. Len(u) : n = Len(s) + j /\ w[n] = u[j]
    <3>1. PICK j \in 1 .. Len(u) : n = Len(s) + j /\ w[n] = u[j]
      BY <2>2
    <3>2. n # 1 /\ n > b + 1
      BY <1>1, <1>3, <3>1
    <3>3. u[j][1] \notin {"memory", "page"}
      BY DEF Others
    <3> QED
      BY ONLY <3>1, <3>2, <3>3
  <2> QED
    BY <1>2, <2>1, <2>2, InPart
<1>5. b \in 2 .. Len(w) - 1 /\ b \in 1 .. Len(s) /\ b + 1 \in 1 .. Len(s)
  BY <1>1, <1>3
<1>6. BufferAt(w, b)
  BY <1>1, <1>3, <1>4, <1>5 DEF BufferAt
<1> QED
  BY <1>3, <1>4, <1>5, <1>6 DEF Whole

\* kernel_main is such a list.
LEMMA KernelMainWhole == Whole(KernelMain)
<1>1. ASSUME NEW i \in Line
      PROVE  /\ Others(SetUp(i)) /\ Others(SetUpPort(i))
             /\ i # Mouse => BeforeMouse(SetUp(i)) /\ BeforeMouse(SetUpPort(i))
  BY DEF SetUp, SetUpPort, BootStep, Others, BeforeMouse
<1>2. Rtc \in Line /\ Clock \in Line /\ Keyboard \in Line /\ Mouse \in Line
      /\ 14 \in Line /\ 15 \in Line
      /\ Rtc # Mouse /\ Clock # Mouse /\ Keyboard # Mouse
  BY DEF Rtc, Clock, Keyboard, Mouse, Line
<1>3. BeforeMouse(<<<<"process">>>>) /\ Others(<<<<"wait">>>>)
  BY DEF BootStep, Others, BeforeMouse
<1>4. Started(<<<<"memory">>, <<"pic">>>>)
  BY DEF BootStep, Started
<1>5. Pages(<<<<"page", "buffer">>, <<"page", "beyond">>, <<"wait">>, <<"wait">>, <<"wait">>,
              <<"scan">>, <<"wait">>, <<"scan">>>>)
  BY DEF BootStep, Pages
<1>6. Pages(MouseInit)
  BY ONLY <1>1, <1>2, <1>5, OthersBehindPages, Zenon DEF MouseInit
<1>7. Others(AtaInit)
  BY ONLY <1>1, <1>2, <1>3, OthersBehind, Zenon DEF AtaInit
<1> QED
  BY ONLY <1>1, <1>2, <1>3, <1>4, <1>6, <1>7, OthersBehindStart, PagesBehindStart,
          OthersBehindWhole, Zenon DEF KernelMain

\* What the steps of the mouse are, and which.
LEMMA BufferStepIs ==
    /\ Len(KernelMain) \in Nat
    /\ BufferStep \in 2 .. Len(KernelMain) - 1
    /\ KernelMain[BufferStep] = <<"page", "buffer">>
    /\ KernelMain[BufferStep + 1] = <<"page", "beyond">>
    /\ \A n \in 1 .. Len(KernelMain) :
          /\ n \notin {BufferStep, BufferStep + 1} => KernelMain[n][1] # "page"
          /\ KernelMain[n][1] = "memory" <=> n = 1
          /\ KernelMain[n] = <<"register", Mouse>> => n > BufferStep + 1
<1>1. Len(KernelMain) \in Nat
  BY KernelMainWhole, LenProperties DEF Whole
<1>2. PICK b \in 2 .. Len(KernelMain) - 1 : BufferAt(KernelMain, b)
  BY KernelMainWhole DEF Whole
<1>3. b \in Nat
  BY <1>1
<1>4. BufferAt(KernelMain, BufferStep)
  BY ONLY <1>2, <1>3, Zenon DEF BufferStep
<1> QED
  BY <1>1, <1>4, KernelMainWhole DEF BufferAt, Whole
-----------------------------------------------------------------------------
(* memory_alloc_page. *)

\* What is taken comes from what is free, and nothing lower stays free.
LEMMA FirstFacts ==
    ASSUME NEW free \in SUBSET Nat, NEW n \in Nat
    PROVE  /\ First(n, free) \subseteq free
           /\ \A x \in First(n, free), y \in free : y < x => y \in First(n, free)
<1> DEFINE Lower(x) == {y \in free : y < x}
<1>1. First(n, free) = {x \in free : Cardinality(Lower(x)) < n}
  BY DEF First, Before
<1>2. ASSUME NEW x \in free PROVE IsFiniteSet(Lower(x)) /\ Cardinality(Lower(x)) \in Nat
  <2>1. IsFiniteSet(0 .. x - 1)
    BY FS_Interval
  <2>2. Lower(x) \subseteq 0 .. x - 1
    <3> SUFFICES ASSUME NEW y \in Lower(x) PROVE y \in 0 .. x - 1
      OBVIOUS
    <3>1. x \in Nat /\ y \in Nat /\ y < x
      OBVIOUS
    <3> QED
      BY ONLY <3>1
  <2> QED
    BY <2>1, <2>2, FS_Subset, FS_CardinalityType
<1>3. ASSUME NEW x \in free, NEW y \in free, y < x
      PROVE  Cardinality(Lower(y)) <= Cardinality(Lower(x))
  <2>1. ASSUME NEW z \in Lower(y) PROVE z \in Lower(x)
    <3>1. x \in Nat /\ y \in Nat /\ z \in Nat /\ z < y /\ y < x
      BY <1>3
    <3>2. z < x
      BY ONLY <3>1
    <3> QED
      BY <3>2
  <2> QED
    BY <1>2, <2>1, FS_Subset
<1> HIDE DEF Lower
<1>4. ASSUME NEW x \in First(n, free), NEW y \in free, y < x
      PROVE  y \in First(n, free)
  <2>1. x \in free /\ Cardinality(Lower(x)) < n
    BY <1>1
  <2>2. Cardinality(Lower(x)) \in Nat /\ Cardinality(Lower(y)) \in Nat
        /\ Cardinality(Lower(y)) <= Cardinality(Lower(x))
    BY <1>2, <1>3, <1>4, <2>1
  <2>3. Cardinality(Lower(y)) < n
    BY <2>1, <2>2
  <2> QED
    BY <1>1, <2>3
<1> QED
  BY <1>1, <1>4

\* One page is the lowest.
LEMMA FirstIsLowest ==
    ASSUME NEW free \in SUBSET Nat, NEW x \in First(1, free), NEW y \in free
    PROVE  x \in free /\ x <= y
<1> PICK lower : lower = {z \in free : z < x}
  OBVIOUS
<1>1. x \in free /\ Cardinality(lower) < 1
  BY DEF First, Before
<1>2. IsFiniteSet(lower)
  <2>1. IsFiniteSet(0 .. x - 1)
    BY <1>1, FS_Interval
  <2>2. ASSUME NEW z \in lower PROVE z \in 0 .. x - 1
    <3>1. x \in Nat /\ z \in Nat /\ z < x
      BY <1>1
    <3> QED
      BY ONLY <3>1
  <2> QED
    BY <2>1, <2>2, FS_Subset
<1>3. lower = {}
  <2>1. Cardinality(lower) \in Nat
    BY <1>2, FS_CardinalityType
  <2> QED
    BY <1>1, <1>2, <2>1, FS_EmptySet
<1> QED
  BY <1>1, <1>3

\* Taking pages from below leaves no gap.
LEMMA TakenLeavesNoGaps ==
    ASSUME NoGaps, NEW n \in Nat, freemap' = freemap \ First(n, freemap)
    PROVE  NoGaps'
<1>1. /\ freemap \subseteq Nat
      /\ \A x \in First(n, freemap), y \in freemap : y < x => y \in First(n, freemap)
  BY FirstFacts DEF NoGaps
<1> QED
  BY <1>1 DEF NoGaps, Page, CellOf, Bytes

\* The sizes of the map.
LEMMA SizesAre ==
    /\ ByteBits \in Nat \ {0} /\ CELL_BITS \in Nat \ {0} /\ PAGE_SIZE \in Nat \ {0}
    /\ ProcessPages \in Nat
    /\ Bytes \in Nat \ {0} /\ Cells \in Nat /\ MapPages \in Nat
    /\ Bytes * ByteBits \in Nat /\ Cells * CELL_BITS \in Nat
<1>1. /\ PagesTotal \in Nat \ {0} /\ ByteBits \in Nat \ {0} /\ CELL_BITS \in Nat \ {0}
      /\ PAGE_SIZE \in Nat \ {0} /\ ProcessPages \in Nat
  BY BootAssumption
<1>2. PagesTotal \div ByteBits \in Nat /\ PagesTotal \div CELL_BITS \in Nat
  BY <1>1, DivMod
<1>3. Bytes \in Nat \ {0} /\ Cells \in Nat
  BY <1>2 DEF Bytes, Cells
<1>4. Bytes \div PAGE_SIZE \in Nat
  BY <1>1, <1>3, DivMod
<1>5. MapPages \in Nat
  BY <1>4 DEF MapPages
<1>6. \A a, b \in Nat : a * b \in Nat
  BY SMTT(20)
<1> QED
  BY <1>1, <1>3, <1>5, <1>6

\* The next page is in the same cell or the next.
LEMMA NextCell ==
    ASSUME NEW p \in Nat, CellOf(p) # 0
    PROVE  CellOf(p + 1) # 0
<1> PICK b, q, r : b = CELL_BITS /\ q = p \div b /\ r = p % b
  OBVIOUS
<1>1. b \in Nat \ {0}
  BY SizesAre
<1>2. q \in Nat /\ r \in 0 .. b - 1 /\ p = q * b + r /\ q # 0
  BY <1>1, DivMod DEF CellOf
<1>3. p >= b
  <2>1. q * b >= b
    BY <1>1, <1>2, SMTT(20)
  <2>2. q * b \in Nat
    BY <1>1, <1>2, SMTT(20)
  <2> QED
    BY <1>1, <1>2, <2>1, <2>2
<1> PICK d, m : d = (p + 1) \div b /\ m = (p + 1) % b
  OBVIOUS
<1>4. d \in Nat /\ m \in 0 .. b - 1 /\ p + 1 = d * b + m
  <2>1. p + 1 \in Nat
    OBVIOUS
  <2> QED
    BY <1>1, <2>1, DivMod
<1>5. d # 0
  <2> SUFFICES ASSUME d = 0 PROVE FALSE
    OBVIOUS
  <2>1. d * b = 0
    BY <1>1, SMTT(20)
  <2> QED
    BY <1>1, <1>3, <1>4, <2>1
<1> QED
  BY <1>5 DEF CellOf
-----------------------------------------------------------------------------
\* A step of which the mouse's pages notice nothing.
LEMMA NotTheMouses ==
    ASSUME BootInv, BootInv', MemoryInv, NoGaps', Separate',
           at' # 1, at' # BufferStep + 1, at' >= at,
           given'["buffer"] = given["buffer"], given'["beyond"] = given["beyond"]
    PROVE  MemoryInv'
<1>1. /\ BufferStep \in Nat /\ at \in Nat /\ at' \in Nat
  BY BufferStepIs DEF BootInv
<1>2. /\ at' <= BufferStep => given'["buffer"] = {}
      /\ at' <= BufferStep + 1 => given'["beyond"] = {}
  BY <1>1 DEF MemoryInv
<1>3. MouseBufferWhole'
  BY DEF MouseBufferWhole, MemoryInv, Separate, Use, CellOf, Bytes
<1>4. NextIsBeyond'
  BY DEF NextIsBeyond, BufferStep
<1> QED
  BY <1>2, <1>3, <1>4 DEF MemoryInv, BufferStep

\* A step that takes no page and does not pass the mouse's.
LEMMA MemoryKept ==
    ASSUME BootInv, BootInv', MemoryInv, UNCHANGED <<freemap, given>>,
           UNCHANGED at \/ (at' = at + 1 /\ at \notin {1, BufferStep, BufferStep + 1})
    PROVE  MemoryInv'
<1>1. /\ BufferStep \in Nat /\ at \in Nat /\ at' \in Nat /\ at >= 1
  BY BufferStepIs DEF BootInv
<1>2. NoGaps' /\ Separate' /\ MouseBufferWhole'
  BY DEF MemoryInv, NoGaps, Separate, MouseBufferWhole, Page, CellOf, Bytes
<1>3. CASE UNCHANGED at
  BY <1>2, <1>3 DEF MemoryInv, NextIsBeyond, CellOf, Bytes, BufferStep
<1>4. CASE at' = at + 1 /\ at \notin {1, BufferStep, BufferStep + 1}
  <2>1. at' # 1 /\ at' # BufferStep + 1 /\ at' >= at
    BY <1>1, <1>4
  <2> QED
    BY <1>2, <2>1, NotTheMouses
<1> QED
  BY <1>3, <1>4

\* Pages taken for different uses stay apart.
LEMMA StaySeparate ==
    ASSUME Separate, NEW T, DOMAIN given' = Use, freemap' \subseteq freemap,
           freemap \subseteq Nat,
           \A use \in Use :
              /\ T[use] \subseteq freemap /\ T[use] \cap freemap' = {}
              /\ given'[use] \subseteq given[use] \cup T[use]
              /\ \A other \in Use \ {use} : T[use] \cap T[other] = {}
    PROVE  Separate'
<1> SUFFICES ASSUME NEW use \in Use
             PROVE  /\ given'[use] \subseteq Nat
                    /\ given'[use] \cap freemap' = {}
                    /\ \A other \in Use \ {use} : given'[use] \cap given'[other] = {}
  BY DEF Separate, Use
<1>1. given'[use] \subseteq Nat /\ given'[use] \cap freemap' = {}
  BY DEF Separate
<1>2. ASSUME NEW other \in Use \ {use} PROVE given'[use] \cap given'[other] = {}
  <2>1. given[use] \cap given[other] = {} /\ T[use] \cap T[other] = {}
    BY DEF Separate
  <2>2. given[use] \cap T[other] = {} /\ given[other] \cap T[use] = {}
    BY DEF Separate
  <2> QED
    BY <2>1, <2>2
<1> QED
  BY <1>1, <1>2

\* Take, for one use.
LEMMA TakeKeeps ==
    ASSUME MemoryInv, NEW use \in Use, Take(use, 1)
    PROVE  /\ NoGaps' /\ Separate'
           /\ \A other \in Use \ {use} : given'[other] = given[other]
<1> PICK taken, T :
      /\ taken = First(1, freemap)
      /\ T = [u \in Use |-> IF u = use THEN taken ELSE {}]
  OBVIOUS
<1>1. /\ freemap' = freemap \ taken
      /\ given' = [given EXCEPT ![use] = @ \cup taken]
  BY DEF Take
<1>2. freemap \subseteq Nat /\ taken \subseteq freemap
  BY FirstFacts DEF MemoryInv, NoGaps
<1>3. NoGaps'
  BY <1>1, TakenLeavesNoGaps DEF MemoryInv
<1>4. DOMAIN given = Use /\ Separate
  BY DEF MemoryInv, Separate
<1>5. \A u \in Use : given'[u] = IF u = use THEN given[u] \cup taken ELSE given[u]
  BY <1>1, <1>4
<1>6. \A u \in Use :
        /\ T[u] \subseteq freemap /\ T[u] \cap freemap' = {}
        /\ given'[u] \subseteq given[u] \cup T[u]
        /\ \A other \in Use \ {u} : T[u] \cap T[other] = {}
  BY <1>1, <1>2, <1>5
<1>7. DOMAIN given' = Use /\ freemap' \subseteq freemap
  BY <1>1, <1>4
<1>8. Separate'
  BY <1>2, <1>4, <1>6, <1>7, StaySeparate
<1> QED
  BY <1>3, <1>5, <1>8

\* memory_init: the map takes the lowest pages, and two cells are blocked.
LEMMA MemoryInitKeeps ==
    ASSUME BootInv, BootInv', MemoryInv, MemoryInit
    PROVE  MemoryInv'
<1>1. at = 1 /\ at' = at + 1
  BY BufferStepIs DEF MemoryInit, Now, Ready, BootInv
<1>2. PICK all, map :
        /\ \E garbage \in SUBSET Unset : all = (0 .. Bytes * ByteBits - 1) \cup garbage
        /\ map = First(MapPages, all)
        /\ freemap' = {page \in all \ map : CellOf(page) \notin {0, 5}}
        /\ given' = [given EXCEPT !["map"] = map]
  BY DEF MemoryInit
<1>3. all \subseteq Nat /\ MapPages \in Nat
  BY <1>2, SizesAre DEF Unset
<1>4. /\ map \subseteq all
      /\ \A x \in map, y \in all : y < x => y \in map
  BY <1>2, <1>3, FirstFacts
<1>5. freemap' \subseteq Nat /\ map \cap freemap' = {}
  BY <1>2, <1>3
<1>6. NoGaps'
  <2> SUFFICES ASSUME NEW x \in freemap', NEW y \in Page, x < y
               PROVE  y \in freemap'
    BY <1>2, <1>5 DEF NoGaps, Page, CellOf, Bytes
  <2>1. x \in all /\ x \notin map /\ CellOf(x) \notin {0, 5}
    BY <1>2
  <2>2. y \in all /\ CellOf(y) \notin {0, 5}
    BY <1>2 DEF Page
  <2>3. y \notin map
    BY <1>4, <2>1
  <2> QED
    BY <1>2, <2>1, <2>2, <2>3
<1>7. DOMAIN given = Use /\ \A use \in Use : given[use] = {}
  BY <1>1 DEF MemoryInv, Separate
<1>8. \A use \in Use : given'[use] = IF use = "map" THEN map ELSE {}
  BY <1>2, <1>7
<1>9. Separate'
  <2>1. DOMAIN given' = Use
    BY <1>2, <1>7
  <2>2. ASSUME NEW use \in Use
        PROVE  /\ given'[use] \subseteq Nat
               /\ given'[use] \cap freemap' = {}
               /\ \A other \in Use \ {use} : given'[use] \cap given'[other] = {}
    <3>1. map \subseteq Nat
      BY <1>3, <1>4
    <3> QED
      BY <1>5, <1>8, <3>1
  <2> QED
    BY <2>1, <2>2 DEF Separate, Use
<1>10. given'["buffer"] = given["buffer"] /\ given'["beyond"] = given["beyond"]
  BY <1>7, <1>8 DEF Use
<1>11. at' # 1 /\ at' # BufferStep + 1 /\ at' >= at
  BY <1>1, BufferStepIs
<1> QED
  BY <1>6, <1>9, <1>10, <1>11, NotTheMouses

\* process_init, and the first page of the heap.
LEMMA ProcessInitKeeps ==
    ASSUME BootInv, BootInv', MemoryInv, ProcessInit
    PROVE  MemoryInv'
<1> PICK process, heap, T :
      /\ process = First(ProcessPages, freemap)
      /\ heap = First(1, freemap \ process)
      /\ T = [u \in Use |-> IF u = "process" THEN process ELSE IF u = "heap" THEN heap ELSE {}]
  OBVIOUS
<1>1. /\ freemap' = freemap \ (process \cup heap)
      /\ given' = [given EXCEPT !["process"] = process, !["heap"] = @ \cup heap]
      /\ at' = at + 1
  BY DEF ProcessInit
<1>2. NoGaps /\ freemap \subseteq Nat /\ Separate /\ DOMAIN given = Use
  BY DEF MemoryInv, NoGaps, Separate
<1>3. /\ process \subseteq freemap
      /\ \A x \in process, y \in freemap : y < x => y \in process
  BY <1>2, SizesAre, FirstFacts
<1>4. /\ heap \subseteq freemap \ process
      /\ \A x \in heap, y \in freemap \ process : y < x => y \in heap
  <2>1. freemap \ process \in SUBSET Nat
    BY <1>2
  <2> QED
    BY <2>1, FirstFacts
<1>5. NoGaps'
  <2> SUFFICES ASSUME NEW x \in freemap', NEW y \in Page, x < y
               PROVE  CellOf(x) \notin {0, 5} /\ y \in freemap'
    BY <1>1, <1>2 DEF NoGaps, Page, CellOf, Bytes
  <2>1. x \in freemap /\ x \notin process /\ x \notin heap
    BY <1>1
  <2>2. CellOf(x) \notin {0, 5} /\ y \in freemap
    BY <1>2, <2>1 DEF NoGaps
  <2>3. y \notin process
    BY <1>3, <2>1, <2>2
  <2>4. y \notin heap
    BY <1>4, <2>1
  <2> QED
    BY <1>1, <2>2, <2>3, <2>4
<1>6. \A u \in Use : given'[u] = IF u = "process" THEN process
                                 ELSE IF u = "heap" THEN given[u] \cup heap ELSE given[u]
  BY <1>1, <1>2
<1>7. DOMAIN given' = Use /\ freemap' \subseteq freemap
  BY <1>1, <1>2
<1>8. \A u \in Use :
        /\ T[u] \subseteq freemap /\ T[u] \cap freemap' = {}
        /\ given'[u] \subseteq given[u] \cup T[u]
        /\ \A other \in Use \ {u} : T[u] \cap T[other] = {}
  <2> SUFFICES ASSUME NEW u \in Use
               PROVE  /\ T[u] \subseteq freemap /\ T[u] \cap freemap' = {}
                      /\ given'[u] \subseteq given[u] \cup T[u]
                      /\ \A other \in Use \ {u} : T[u] \cap T[other] = {}
    OBVIOUS
  <2>1. CASE u = "process"
    BY <1>1, <1>3, <1>4, <1>6, <2>1
  <2>2. CASE u = "heap"
    BY <1>1, <1>3, <1>4, <1>6, <2>2
  <2>3. CASE u \notin {"process", "heap"}
    BY <1>6, <2>3
  <2> QED
    BY <2>1, <2>2, <2>3
<1>9. Separate'
  BY ONLY <1>2, <1>7, <1>8, StaySeparate, SMTT(60)
<1>10. given'["buffer"] = given["buffer"] /\ given'["beyond"] = given["beyond"]
  BY <1>6 DEF Use
<1>11. at' # 1 /\ at' # BufferStep + 1 /\ at' >= at
  <2>1. at \in 1 .. Len(KernelMain) /\ KernelMain[at][1] = "process"
    BY BufferStepIs DEF ProcessInit, Now, Ready, BootInv
  <2>2. at # BufferStep
    BY <2>1, BufferStepIs
  <2> QED
    BY <1>1, <2>1, <2>2, BufferStepIs
<1> QED
  BY <1>5, <1>9, <1>10, <1>11, NotTheMouses

\* mouse_init's two allocations.
LEMMA MouseBufferKeeps ==
    ASSUME BootInv, BootInv', MemoryInv, MouseBuffer
    PROVE  MemoryInv'
<1>1. /\ at \in 1 .. Len(KernelMain) /\ KernelMain[at][1] = "page" /\ at' = at + 1
      /\ Take(KernelMain[at][2], 1)
  BY BufferStepIs DEF MouseBuffer, Now, Ready, BootInv
<1>2. /\ BufferStep \in Nat /\ BufferStep >= 2 /\ at \in Nat
      /\ at = BufferStep \/ at = BufferStep + 1
  BY <1>1, BufferStepIs
<1> PICK taken : taken = First(1, freemap)
  OBVIOUS
<1>3. freemap \subseteq Nat /\ DOMAIN given = Use /\ NoGaps
  BY DEF MemoryInv, NoGaps, Separate
<1>4. \A x \in taken : x \in freemap /\ \A y \in freemap : x <= y
  <2>1. freemap \in SUBSET Nat
    BY <1>3
  <2> SUFFICES ASSUME NEW x \in taken PROVE x \in freemap /\ \A y \in freemap : x <= y
    OBVIOUS
  <2>2. taken \subseteq freemap
    BY ONLY <2>1, taken = First(1, freemap), FirstFacts
  <2>3. ASSUME NEW y \in freemap PROVE x <= y
    <3>1. x \in First(1, freemap)
      OBVIOUS
    <3> QED
      BY ONLY <2>1, <3>1, y \in freemap, FirstIsLowest
  <2> QED
    BY ONLY <2>2, <2>3, x \in taken
<1>5. CASE at = BufferStep
  <2>1. Take("buffer", 1)
    BY <1>1, <1>5, BufferStepIs
  <2>2. NoGaps' /\ Separate' /\ \A other \in Use \ {"buffer"} : given'[other] = given[other]
    BY <2>1, TakeKeeps DEF Use
  <2>3. given["buffer"] = {} /\ given["beyond"] = {}
    BY <1>2, <1>5 DEF MemoryInv
  <2>4. /\ freemap' = freemap \ taken
        /\ given'["buffer"] = taken /\ given'["beyond"] = {}
    <3>1. given' = [given EXCEPT !["buffer"] = @ \cup taken]
      BY <2>1 DEF Take
    <3>2. freemap' = freemap \ taken
      BY <2>1 DEF Take
    <3> QED
      BY <1>3, <2>3, <3>1, <3>2 DEF Use
  <2>5. ASSUME NEW p \in taken
        PROVE  /\ \A x \in freemap' : p < x
               /\ p + 1 \in freemap' \/ CellOf(p + 1) = 5 \/ p + 1 >= Bytes * ByteBits
    <3>1. p \in Nat /\ p \in freemap /\ \A y \in freemap : p <= y
      BY <1>3, <1>4
    <3>2. ASSUME NEW x \in freemap' PROVE p < x
      <4>1. x \in freemap /\ x # p /\ x \in Nat
        BY <1>3, <2>4
      <4>2. p <= x
        BY <3>1, <4>1
      <4> QED
        BY ONLY <3>1, <4>1, <4>2
    <3>3. ASSUME CellOf(p + 1) # 5, ~(p + 1 >= Bytes * ByteBits)
          PROVE  p + 1 \in freemap'
      <4>1. CellOf(p) # 0
        BY <1>3, <3>1 DEF NoGaps
      <4>2. CellOf(p + 1) # 0
        BY <3>1, <4>1, NextCell
      <4>3. p + 1 \in 0 .. Bytes * ByteBits - 1
        BY <3>1, <3>3, SizesAre
      <4>4. p + 1 \in Page
        BY <3>3, <4>2, <4>3 DEF Page
      <4>5. p + 1 \in freemap
        BY <1>3, <3>1, <4>4 DEF NoGaps
      <4>6. p + 1 \notin taken
        <5>1. ASSUME p + 1 \in taken PROVE FALSE
          <6>1. p + 1 <= p
            BY <1>4, <3>1, <5>1
          <6> QED
            BY <3>1, <6>1
        <5> QED
          BY <5>1
      <4> QED
        BY <2>4, <4>5, <4>6
    <3> QED
      BY <3>2, <3>3
  <2>6. NextIsBeyond'
    BY <2>4, <2>5 DEF NextIsBeyond, CellOf, Bytes
  <2>7. MouseBufferWhole'
    BY <2>2, <2>4 DEF MouseBufferWhole, Separate, Use
  <2>8. /\ at' # 1 /\ ~(at' <= BufferStep)
    BY <1>1, <1>2, <1>5
  <2> QED
    BY <2>2, <2>4, <2>6, <2>7, <2>8 DEF MemoryInv, BufferStep
<1>6. CASE at = BufferStep + 1
  <2>1. Take("beyond", 1)
    BY <1>1, <1>6, BufferStepIs
  <2>2. NoGaps' /\ Separate' /\ \A other \in Use \ {"beyond"} : given'[other] = given[other]
    BY <2>1, TakeKeeps DEF Use
  <2>3. given["beyond"] = {}
    BY <1>2, <1>6 DEF MemoryInv
  <2>4. given'["buffer"] = given["buffer"] /\ given'["beyond"] = taken
    <3>1. given' = [given EXCEPT !["beyond"] = @ \cup taken]
      BY <2>1 DEF Take
    <3> QED
      BY <1>3, <2>3, <3>1 DEF Use
  <2>5. ASSUME NEW p \in given'["buffer"], NEW q \in given'["beyond"]
        PROVE  q = p + 1 \/ CellOf(p + 1) = 5 \/ p + 1 >= Bytes * ByteBits
    <3>1. /\ \A x \in freemap : p < x
          /\ p + 1 \in freemap \/ CellOf(p + 1) = 5 \/ p + 1 >= Bytes * ByteBits
      BY <1>6, <2>4 DEF MemoryInv, NextIsBeyond
    <3>2. q \in freemap /\ \A y \in freemap : q <= y
      BY <1>4, <2>4
    <3>3. p \in Nat /\ q \in Nat
      BY <1>3, <2>4, <3>2 DEF MemoryInv, Separate, Use
    <3>4. CASE p + 1 \in freemap
      <4>1. p < q /\ q <= p + 1
        BY <3>1, <3>2, <3>4
      <4> QED
        BY ONLY <3>3, <4>1
    <3> QED
      BY <3>1, <3>4
  <2>6. MouseBufferWhole'
    BY <2>2, <2>5 DEF MouseBufferWhole, Separate, Use, CellOf, Bytes
  <2>7. at' # 1 /\ ~(at' <= BufferStep) /\ ~(at' <= BufferStep + 1) /\ at' # BufferStep + 1
    BY <1>1, <1>2, <1>6
  <2> QED
    BY <2>2, <2>6, <2>7 DEF MemoryInv, NextIsBeyond, BufferStep
<1> QED
  BY <1>2, <1>5, <1>6

\* The handler of the mouse is registered behind its pages.
LEMMA MouseLaterNext ==
    ASSUME BootInv, MouseLater, [BootNext]_bootVars
    PROVE  MouseLater'
<1>1. BufferStep \in Nat /\ at \in Nat
  BY BufferStepIs DEF BootInv
<1>2. CASE UNCHANGED <<at, handler>> \/ (at' = at + 1 /\ UNCHANGED handler)
  BY <1>1, <1>2 DEF MouseLater, BufferStep
<1>3. CASE InterruptInit
  BY <1>3 DEF InterruptInit, MouseLater
<1>4. CASE Register
  <2>1. /\ at \in 1 .. Len(KernelMain) /\ KernelMain[at][1] = "register" /\ at' = at + 1
        /\ handler' = handler \cup {KernelMain[at][2]}
    BY <1>4, BufferStepIs DEF Register, Now, Ready, BootInv
  <2>2. KernelMain[at] \in BootStep
    BY <2>1, KernelMainOrdered
  <2>3. KernelMain[at][2] = Mouse => KernelMain[at] = <<"register", Mouse>>
    BY <2>1, <2>2 DEF BootStep
  <2>4. KernelMain[at][2] = Mouse => at > BufferStep + 1
    BY <2>1, <2>3, BufferStepIs
  <2> QED
    BY <1>1, <2>1, <2>4 DEF MouseLater, BufferStep
<1>5. CASE MemoryInit \/ ProcessInit \/ MouseBuffer \/ Enable \/ Scan \/ WaitEnds
  BY <1>2, <1>5 DEF MemoryInit, ProcessInit, MouseBuffer, Enable, Scan, WaitEnds, pic
<1>6. ASSUME NEW i \in Devices, Raise(i) \/ HandleInterrupt(i) PROVE MouseLater'
  BY <1>2, <1>6 DEF Raise, HandleInterrupt
<1>7. CASE UNCHANGED bootVars
  BY <1>2, <1>7 DEF bootVars, pic
<1> QED
  BY <1>3, <1>4, <1>5, <1>6, <1>7 DEF BootNext, BootMain

\* An interrupt: the mouse takes memory, but not before it has its own pages.
LEMMA InterruptKeeps ==
    ASSUME BootInv, BootInv', MemoryInv, MouseLater, NEW i \in Devices, HandleInterrupt(i)
    PROVE  MemoryInv'
<1>1. UNCHANGED at /\ enabled
  BY DEF HandleInterrupt, Deliverable
<1>2. CASE UNCHANGED <<freemap, given>>
  BY <1>1, <1>2, MemoryKept
<1>3. CASE Mouse \in handler /\ SendEventMouseMove /\ room = 0
  <2>1. Take("heap", 1)
    BY <1>3 DEF SendEventMouseMove
  <2>2. NoGaps' /\ Separate' /\ \A other \in Use \ {"heap"} : given'[other] = given[other]
    BY <2>1, TakeKeeps DEF Use
  <2>3. given'["buffer"] = given["buffer"] /\ given'["beyond"] = given["beyond"]
    BY <2>2 DEF Use
  <2>4. at > 2 /\ at \in Nat
    BY <1>1, BufferStepIs DEF BootInv
  <2>5. at # BufferStep + 1
    BY <1>3, <2>4, BufferStepIs DEF MouseLater
  <2>6. at' # 1 /\ at' # BufferStep + 1 /\ at' >= at
    BY <1>1, <2>4, <2>5
  <2> QED
    BY <2>2, <2>3, <2>6, NotTheMouses
<1> QED
  BY <1>2, <1>3 DEF HandleInterrupt, MouseInterrupt, SendEventMouseMove, memory

\* Every step keeps the invariant.
LEMMA MemoryNextInv ==
    ASSUME BootInv, BootInv', MemoryInv, MouseLater, [BootNext]_bootVars
    PROVE  MemoryInv'
<1>1. CASE MemoryInit
  BY <1>1, MemoryInitKeeps
<1>2. CASE ProcessInit
  BY <1>2, ProcessInitKeeps
<1>3. CASE MouseBuffer
  BY <1>3, MouseBufferKeeps
<1>4. CASE InterruptInit \/ Register \/ Enable \/ Scan \/ WaitEnds
  <2>1. /\ UNCHANGED <<freemap, given>> /\ at' = at + 1
        /\ at \in 1 .. Len(KernelMain) /\ KernelMain[at][1] \notin {"page", "memory"}
    BY <1>4, BufferStepIs
       DEF InterruptInit, Register, Enable, Scan, WaitEnds, Now, Ready, memory, BootInv
  <2>2. at \notin {1, BufferStep, BufferStep + 1}
    BY <2>1, BufferStepIs
  <2> QED
    BY <2>1, <2>2, MemoryKept
<1>5. ASSUME NEW i \in Devices, Raise(i) PROVE MemoryInv'
  BY <1>5, MemoryKept DEF Raise, memory
<1>6. ASSUME NEW i \in Devices, HandleInterrupt(i) PROVE MemoryInv'
  BY <1>6, InterruptKeeps
<1>7. CASE UNCHANGED bootVars
  BY <1>7, MemoryKept DEF bootVars, memory
<1> QED
  BY <1>1, <1>2, <1>3, <1>4, <1>5, <1>6, <1>7 DEF BootNext, BootMain

\* At power-on nothing is free and nothing given.
LEMMA MemoryInitially == BootInit => MemoryInv
<1> SUFFICES ASSUME BootInit PROVE MemoryInv
  OBVIOUS
<1>1. freemap = {} /\ given = [use \in Use |-> {}] /\ at = 1
  BY DEF BootInit, BootFrom
<1>2. \A use \in Use : given[use] = {}
  BY <1>1
<1>3. at # BufferStep + 1
  BY <1>1, BufferStepIs
<1> QED
  BY <1>1, <1>2, <1>3
     DEF MemoryInv, NoGaps, Separate, NextIsBeyond, MouseBufferWhole, Use

\* MemoryInv is invariant.
THEOREM BootMemory == BootSpec => []MemoryInv
<1>1. BootInit => MemoryInv /\ MouseLater
  BY MemoryInitially DEF MouseLater, BootInit, BootFrom
<1>2. BootInv /\ BootInv' /\ MemoryInv /\ MouseLater /\ [BootNext]_bootVars
         => MemoryInv' /\ MouseLater'
  BY MemoryNextInv, MouseLaterNext
<1>3. BootSpec => []BootInv
  BY BootInvariant
<1> QED
  BY <1>1, <1>2, <1>3, PTL DEF BootSpec

\* mouse_init's two pages are neighbours and no one else has them, however much memory
\* there is, whatever the bits behind the map were, and however the mouse moves:
\* unless the first is the last one before the blocked cell or of the map.
THEOREM BootMouseBufferWhole == BootSpec => []MouseBufferWhole
<1>1. MemoryInv => MouseBufferWhole
  BY DEF MemoryInv
<1> QED
  BY <1>1, BootMemory, PTL
=============================================================================
