-------------------------- MODULE RoundRobinProofs --------------------------
(***************************************************************************)
(* What the rest of the kernel takes as simple: the queues of the abstract *)
(* scheduler, and the strings and numbers of string.c.                     *)
(*                                                                         *)
(* RoundRobin: OnePlace for every set of processes and every set of event  *)
(* queues.  Text: TextRight for every set of characters, length of the     *)
(* line, base and width of the numbers, in its three parts.                *)
(***************************************************************************)
EXTENDS RoundRobin, Text, SequenceTheorems, FiniteSetTheorems, TLAPS

Inv == TypeOK /\ OnePlace
-----------------------------------------------------------------------------
(***************************************************************************)
(* What the three queue operations do to membership.                       *)
(***************************************************************************)

\* A process goes to the end of a queue it is not in.
LEMMA AppendFacts ==
    ASSUME NEW s \in Seq(Proc), NEW x \in Proc
    PROVE  /\ Append(s, x) \in Seq(Proc)
           /\ \A p : In(Append(s, x), p) <=> In(s, p) \/ p = x
           /\ Once(s) /\ ~In(s, x) => Once(Append(s, x))
<1>1. /\ Append(s, x) \in Seq(Proc)
      /\ Len(Append(s, x)) = Len(s) + 1
      /\ Len(s) \in Nat
  OBVIOUS
<1>2. \A i \in 1 .. Len(s) : Append(s, x)[i] = s[i]
  OBVIOUS
<1>3. Append(s, x)[Len(s) + 1] = x
  OBVIOUS
<1>4. \A i : i \in 1 .. Len(s) + 1 <=> i \in 1 .. Len(s) \/ i = Len(s) + 1
  BY <1>1
<1>5. \A p : In(Append(s, x), p) <=> In(s, p) \/ p = x
  BY <1>1, <1>2, <1>3, <1>4 DEF In
<1>6. Once(s) /\ ~In(s, x) => Once(Append(s, x))
  BY <1>1, <1>2, <1>3, <1>4 DEF In, Once
<1> QED
  BY <1>1, <1>5, <1>6

\* The first of a queue leaves it.
LEMMA TailFacts ==
    ASSUME NEW s \in Seq(Proc), s # <<>>
    PROVE  /\ Tail(s) \in Seq(Proc)
           /\ Head(s) \in Proc
           /\ In(s, Head(s))
           /\ \A p : In(Tail(s), p) => In(s, p)
           /\ Once(s) => Once(Tail(s)) /\ ~In(Tail(s), Head(s))
<1>1. /\ Tail(s) \in Seq(Proc)
      /\ Head(s) \in Proc
      /\ Head(s) = s[1]
      /\ Len(s) \in Nat \ {0}
      /\ Len(Tail(s)) = Len(s) - 1
  OBVIOUS
<1>2. \A i \in 1 .. Len(Tail(s)) : Tail(s)[i] = s[i + 1]
  OBVIOUS
<1>3. \A i \in 1 .. Len(Tail(s)) : i + 1 \in 1 .. Len(s) /\ i + 1 # 1
  BY <1>1
<1>4. 1 \in 1 .. Len(s)
  BY <1>1
<1>5. \A i, j \in 1 .. Len(Tail(s)) : i + 1 = j + 1 => i = j
  BY <1>1
<1>6. In(s, Head(s))
  BY <1>1, <1>4 DEF In
<1>7. \A p : In(Tail(s), p) => In(s, p)
  BY <1>2, <1>3 DEF In
<1>8. Once(s) => ~In(Tail(s), Head(s))
  BY <1>1, <1>2, <1>3, <1>4 DEF In, Once
<1>9. Once(s) => Once(Tail(s))
  BY <1>2, <1>3, <1>5 DEF Once
<1> QED
  BY <1>1, <1>6, <1>7, <1>8, <1>9

\* Nobody is in an empty queue.
LEMMA EmptyFacts == Once(<<>>) /\ \A p : ~In(<<>>, p)
BY DEF Once, In

\* Giving the processor to the first of r.
LEMMA GiveFacts ==
    ASSUME NEW r \in Seq(Proc), Once(r), Give(r)
    PROVE  /\ cpu' \in Proc \union {None}
           /\ ready' \in Seq(Proc)
           /\ Once(ready')
           /\ cpu' # None => In(r, cpu')
           /\ \A p : In(ready', p) => In(r, p)
           /\ ~In(ready', cpu')
<1>1. CASE r = <<>>
  <2>1. cpu' = None /\ ready' = <<>>
    BY <1>1 DEF Give
  <2>2. Once(ready') /\ \A p : ~In(ready', p)
    BY <2>1, EmptyFacts
  <2>3. ready' \in Seq(Proc)
    BY <1>1, <2>1
  <2> QED
    BY <2>1, <2>2, <2>3
<1>2. CASE r # <<>>
  <2>1. cpu' = Head(r) /\ ready' = Tail(r)
    BY <1>2 DEF Give
  <2> QED
    BY <1>2, <2>1, TailFacts
<1> QED
  BY <1>1, <1>2
-----------------------------------------------------------------------------
(***************************************************************************)
(* OnePlace, split by the places it keeps apart.                           *)
(***************************************************************************)

Waits(p) == \E q \in Queue : In(waiting[q], p)

QueuesOnce == Once(ready) /\ \A q \in Queue : Once(waiting[q])

CpuAlone == cpu \in Proc => ~In(ready, cpu) /\ ~Waits(cpu) /\ cpu \notin fresh

ReadyAlone == \A p \in Proc : In(ready, p) => ~Waits(p) /\ p \notin fresh

WaitingAlone ==
    \A p \in Proc :
      /\ \A q, r \in Queue : In(waiting[q], p) /\ In(waiting[r], p) => q = r
      /\ Waits(p) => p \notin fresh

Parts == TypeOK /\ QueuesOnce /\ CpuAlone /\ ReadyAlone /\ WaitingAlone

\* The parts say what OnePlace says.
LEMMA PartsArePlaces == Parts <=> Inv
BY DEF Parts, Inv, OnePlace, TypeOK, QueuesOnce, CpuAlone, ReadyAlone,
       WaitingAlone, Waits

\* At the start one process runs and no queue holds any.
LEMMA InitParts ==
    ASSUME None \notin Proc, First \in Proc PROVE Init => Parts
<1> SUFFICES ASSUME Init PROVE Parts
  OBVIOUS
<1>1. ready = <<>> /\ \A q \in Queue : waiting[q] = <<>>
  BY DEF Init
<1>2. \A p : ~In(ready, p) /\ ~Waits(p)
  BY <1>1, EmptyFacts DEF Waits
<1>3. QueuesOnce
  BY <1>1, EmptyFacts DEF QueuesOnce
<1>4. TypeOK
  <2>1. <<>> \in Seq(Proc)
    OBVIOUS
  <2> QED
    BY <2>1 DEF Init, TypeOK
<1>5. cpu \notin fresh
  BY DEF Init
<1> QED
  BY <1>2, <1>3, <1>4, <1>5
  DEF Parts, CpuAlone, ReadyAlone, WaitingAlone, Waits

\* Every action keeps the places apart.
LEMMA NextParts ==
    ASSUME None \notin Proc PROVE Parts /\ [Next]_rrVars => Parts'
<1> SUFFICES ASSUME Parts, [Next]_rrVars PROVE Parts'
  OBVIOUS
<1>0. /\ ready \in Seq(Proc)
      /\ \A q \in Queue : waiting[q] \in Seq(Proc)
  BY DEF Parts, TypeOK
<1>1. ASSUME Rotate PROVE Parts'
  <2>1. cpu \in Proc /\ ~In(ready, cpu)
    BY <1>1 DEF Rotate, Parts, TypeOK, CpuAlone
  <2>2. /\ Append(ready, cpu) \in Seq(Proc)
        /\ Once(Append(ready, cpu))
        /\ \A p : In(Append(ready, cpu), p) <=> In(ready, p) \/ p = cpu
    BY <1>0, <2>1, AppendFacts DEF Parts, QueuesOnce
  <2>3. Give(Append(ready, cpu)) /\ waiting' = waiting /\ fresh' = fresh
    BY <1>1 DEF Rotate
  <2>4. /\ cpu' \in Proc \union {None}
        /\ ready' \in Seq(Proc) /\ Once(ready')
        /\ cpu' # None => In(ready, cpu') \/ cpu' = cpu
        /\ \A p : In(ready', p) => In(ready, p) \/ p = cpu
        /\ ~In(ready', cpu')
    BY <2>2, <2>3, GiveFacts
  <2> QED
    BY <2>1, <2>3, <2>4
    DEF Parts, TypeOK, QueuesOnce, CpuAlone, ReadyAlone, WaitingAlone, Waits
<1>2. ASSUME NEW q \in Queue, Wait(q) PROVE Parts'
  <2>1. cpu \in Proc /\ ~In(ready, cpu) /\ ~Waits(cpu) /\ cpu \notin fresh
    BY <1>2 DEF Wait, Parts, TypeOK, CpuAlone
  <2>2. /\ Append(waiting[q], cpu) \in Seq(Proc)
        /\ Once(Append(waiting[q], cpu))
        /\ \A p : In(Append(waiting[q], cpu), p) <=>
                     In(waiting[q], p) \/ p = cpu
    BY <1>0, <2>1, AppendFacts DEF Parts, QueuesOnce, Waits
  <2>3. /\ waiting' \in [Queue -> Seq(Proc)]
        /\ waiting'[q] = Append(waiting[q], cpu)
        /\ \A r \in Queue \ {q} : waiting'[r] = waiting[r]
        /\ fresh' = fresh
    BY <1>2, <2>2 DEF Wait, Parts, TypeOK
  <2>4. /\ cpu' \in Proc \union {None}
        /\ ready' \in Seq(Proc) /\ Once(ready')
        /\ cpu' # None => In(ready, cpu')
        /\ \A p : In(ready', p) => In(ready, p)
        /\ ~In(ready', cpu')
    BY <1>0, <1>2, GiveFacts DEF Wait, Parts, QueuesOnce
  <2>5. /\ \A r \in Queue : Once(waiting'[r])
        /\ \A r \in Queue, p \in Proc :
             In(waiting'[r], p) <=> In(waiting[r], p) \/ (r = q /\ p = cpu)
    BY <2>2, <2>3 DEF Parts, QueuesOnce
  <2>6. \A p \in Proc : Waits(p)' <=> Waits(p) \/ p = cpu
    BY <2>5 DEF Waits
  <2>7. (TypeOK /\ QueuesOnce)'
    BY <2>3, <2>4, <2>5 DEF Parts, TypeOK, QueuesOnce
  <2>8. (CpuAlone /\ ReadyAlone)'
    BY <2>1, <2>3, <2>4, <2>6 DEF Parts, CpuAlone, ReadyAlone
  <2>9. WaitingAlone'
    BY <2>1, <2>3, <2>5, <2>6 DEF Parts, WaitingAlone, Waits
  <2> QED
    BY <2>7, <2>8, <2>9 DEF Parts
<1>3. ASSUME Exit PROVE Parts'
  <2>1. /\ cpu' \in Proc \union {None}
        /\ ready' \in Seq(Proc) /\ Once(ready')
        /\ cpu' # None => In(ready, cpu')
        /\ \A p : In(ready', p) => In(ready, p)
        /\ ~In(ready', cpu')
    BY <1>0, <1>3, GiveFacts DEF Exit, Parts, QueuesOnce
  <2> QED
    BY <1>3, <2>1
    DEF Exit, Parts, TypeOK, QueuesOnce, CpuAlone, ReadyAlone, WaitingAlone,
        Waits
<1>4. ASSUME NEW p \in Proc, Start(p) PROVE Parts'
  <2>1. p # cpu /\ ~In(ready, p) /\ ~Waits(p)
    BY <1>4
    DEF Start, Parts, TypeOK, CpuAlone, ReadyAlone, WaitingAlone
  <2>2. /\ ready' \in Seq(Proc) /\ Once(ready')
        /\ \A n : In(ready', n) <=> In(ready, n) \/ n = p
    BY <1>0, <1>4, <2>1, AppendFacts DEF Start, Parts, QueuesOnce
  <2> QED
    BY <1>4, <2>1, <2>2
    DEF Start, Parts, TypeOK, QueuesOnce, CpuAlone, ReadyAlone, WaitingAlone,
        Waits
<1>5. ASSUME NEW q \in Queue, Wake(q) PROVE Parts'
  <2> DEFINE n == Head(waiting[q])
             r == Append(ready, n)
  <2>1. /\ Tail(waiting[q]) \in Seq(Proc)
        /\ n \in Proc
        /\ In(waiting[q], n)
        /\ \A p : In(Tail(waiting[q]), p) => In(waiting[q], p)
        /\ Once(Tail(waiting[q])) /\ ~In(Tail(waiting[q]), n)
    BY <1>0, <1>5, TailFacts DEF Wake, Parts, QueuesOnce
  <2>2. n # cpu /\ ~In(ready, n) /\ n \notin fresh /\ Waits(n)
    BY <2>1
    DEF Parts, TypeOK, CpuAlone, ReadyAlone, WaitingAlone, Waits
  <2> HIDE DEF n
  <2>3. /\ r \in Seq(Proc) /\ Once(r)
        /\ \A p : In(r, p) <=> In(ready, p) \/ p = n
    BY <1>0, <2>1, <2>2, AppendFacts DEF Parts, QueuesOnce
  <2>4. /\ waiting' \in [Queue -> Seq(Proc)]
        /\ waiting'[q] = Tail(waiting[q])
        /\ \A l \in Queue \ {q} : waiting'[l] = waiting[l]
        /\ fresh' = fresh
    BY <1>5, <2>1 DEF Wake, Parts, TypeOK
  <2>5. /\ \A l \in Queue : Once(waiting'[l])
        /\ \A l \in Queue, p \in Proc :
             In(waiting'[l], p) => In(waiting[l], p)
        /\ \A l \in Queue : ~In(waiting'[l], n)
    BY <2>1, <2>4 DEF Parts, QueuesOnce, WaitingAlone
  <2>6. \A p \in Proc : Waits(p)' => Waits(p) /\ p # n
    BY <2>5 DEF Waits
  <2>7. /\ cpu' \in Proc \union {None}
        /\ ready' \in Seq(Proc) /\ Once(ready')
        /\ \A p : In(ready', p) => In(ready, p) \/ p = n
        /\ ~In(ready', cpu') \/ cpu' = None
        /\ cpu' = cpu \/ cpu' = None \/ In(ready, cpu') \/ cpu' = n
    <3>1. CASE ready' = r /\ cpu' = cpu
      BY <2>2, <2>3, <3>1 DEF Parts, TypeOK, CpuAlone
    <3>2. CASE cpu = None /\ Give(r)
      BY <2>3, <3>2, GiveFacts
    <3> QED
      BY <1>5, <3>1, <3>2 DEF Wake, n
  <2> HIDE DEF r
  <2>8. (TypeOK /\ QueuesOnce)'
    BY <2>4, <2>5, <2>7 DEF Parts, TypeOK, QueuesOnce
  <2>9. (CpuAlone /\ ReadyAlone)'
    BY <2>1, <2>2, <2>4, <2>6, <2>7 DEF Parts, CpuAlone, ReadyAlone
  <2>10. WaitingAlone'
    BY <2>4, <2>5, <2>6 DEF Parts, WaitingAlone
  <2> QED
    BY <2>8, <2>9, <2>10 DEF Parts
<1>6. ASSUME Pick PROVE Parts'
  <2>1. /\ cpu' \in Proc \union {None}
        /\ ready' \in Seq(Proc) /\ Once(ready')
        /\ cpu' # None => In(ready, cpu')
        /\ \A p : In(ready', p) => In(ready, p)
        /\ ~In(ready', cpu')
    BY <1>0, <1>6, GiveFacts DEF Pick, Parts, QueuesOnce
  <2> QED
    BY <1>6, <2>1
    DEF Pick, Parts, TypeOK, QueuesOnce, CpuAlone, ReadyAlone, WaitingAlone,
        Waits
<1>7. CASE UNCHANGED rrVars
  BY <1>7
  DEF rrVars, Parts, TypeOK, QueuesOnce, CpuAlone, ReadyAlone, WaitingAlone,
      Waits
<1> QED
  BY <1>1, <1>2, <1>3, <1>4, <1>5, <1>6, <1>7 DEF Next

\* Whatever processes yield, wait, wake, start and exit, each is in one place.
THEOREM RoundRobinOnePlace ==
    ASSUME None \notin Proc, First \in Proc PROVE Spec => []OnePlace
<1>1. Init => Parts
  BY InitParts
<1>2. Parts /\ [Next]_rrVars => Parts'
  BY NextParts
<1>3. Parts => OnePlace
  BY PartsArePlaces DEF Inv
<1> QED
  BY <1>1, <1>2, <1>3, PTL DEF Spec
-----------------------------------------------------------------------------
(***************************************************************************)
(* Strings.                                                                *)
(***************************************************************************)
\* Induction, for a set: one that holds 0 and the successors of its members
\* holds every natural number.
LEMMA NumbersIn ==
  ASSUME NEW S, 0 \in S, \A n \in Nat : n \in S => n + 1 \in S
  PROVE  Nat \subseteq S
<1> SUFFICES ASSUME NEW m \in Nat, m \notin S PROVE FALSE
  OBVIOUS
<1> DEFINE T == (0 .. m) \cap S
           f == [n \in T |-> n + 1]
<1>1. IsFiniteSet(T)
  <2>1. IsFiniteSet(0 .. m)
    BY FS_Interval
  <2> QED
    BY <2>1, FS_Subset
<1>2. f \in Injection(T, T)
  BY DEF Injection, IsInjective
<1>3. f \in Surjection(T, T)
  BY <1>1, <1>2, FS_Injection
<1>4. 0 \in T
  OBVIOUS
<1>5. PICK n \in T : f[n] = 0
  BY <1>3, <1>4 DEF Surjection
<1> QED
  BY <1>5

\* A set of numbers has a least one.
LEMMA MinIs ==
  ASSUME NEW S \in SUBSET Nat, S # {}
  PROVE  Min(S) \in S /\ \A y \in S : Min(S) <= y
<1> DEFINE N == {m \in Nat : \A j \in 0 .. m : j \notin S}
<1>1. ASSUME ~\E x \in S : \A y \in S : x <= y
      PROVE  FALSE
  <2>1. 0 \in N
    BY <1>1
  <2>2. ASSUME NEW m \in Nat, m \in N PROVE m + 1 \in N
    <3>1. m + 1 \notin S
      <4> SUFFICES ASSUME m + 1 \in S PROVE \A y \in S : m + 1 <= y
        BY <1>1
      <4>1. ASSUME NEW y \in S, y <= m PROVE FALSE
        BY <2>2, <4>1
      <4> QED
        BY <4>1
    <3> QED
      BY <2>2, <3>1
  <2> HIDE DEF N
  <2>3. Nat \subseteq N
    BY <2>1, <2>2, NumbersIn
  <2>4. \A m \in Nat : m \notin S
    BY <2>3 DEF N
  <2> QED
    BY <2>4
<1> QED
  BY <1>1 DEF Min

\* A string has characters other than 0, and a 0 behind them.
LEMMA StringFacts ==
  ASSUME NEW s \in String
  PROVE  /\ s \in Seq(Char) /\ Len(s) \in Nat
         /\ \A i \in 1 .. Len(s) : s[i] \in Nat \ {0} /\ s[i] \in Char
<1>1. PICK n \in 0 .. MaxLength : s \in [1 .. n -> Char]
  BY DEF String
<1>2. n \in Nat
  BY TextAssumption
<1>3. s \in Seq(Char)
  BY <1>1, <1>2, SeqDef
<1>4. Len(s) \in Nat /\ \A i \in 1 .. Len(s) : s[i] \in Char
  BY <1>3, ElementOfSeq, LenProperties
<1>5. Char \in SUBSET (Nat \ {0})
  BY TextAssumption
<1> QED
  BY <1>3, <1>4, <1>5

\* A sequence of characters.
Chars == Seq(Nat \ {0})

\* The lines and arguments are strings of characters other than 0.
LEMMA StringChars == String \subseteq Chars
<1> SUFFICES ASSUME NEW s \in String PROVE s \in Chars
  OBVIOUS
<1>1. s \in Seq(Char) /\ Char \subseteq Nat \ {0}
  BY StringFacts, TextAssumption
<1>2. s \in Seq(Nat \ {0})
  BY ONLY <1>1, SeqMonotonic
<1> QED
  BY <1>2 DEF Chars

\* Reading a string in memory: its characters, then a 0; what lies behind is only read
\* once a 0 has been seen.
LEMMA AtFacts ==
  ASSUME NEW s \in Chars
  PROVE  /\ Len(s) \in Nat
         /\ \A i \in Nat \ {0} : At(s, i) \in Nat /\ (At(s, i) = 0 <=> i > Len(s))
         /\ \A i \in 1 .. Len(s) : At(s, i) = s[i]
BY DEF Chars, At

\* Two strings that agree in front of place i, and go on up to there.
Agree(a, b, i) == \A j \in 1 .. i - 1 : At(a, j) = At(b, j) /\ At(a, j) # 0

\* What is in front of what is decided at the first place where they differ.
LEMMA PrecedesAt ==
  ASSUME NEW a \in Chars, NEW b \in Chars, NEW i \in Nat \ {0}, Agree(a, b, i),
         At(a, i) # At(b, i)
  PROVE  Precedes(a, b) <=> At(a, i) < At(b, i)
<1>1. /\ Len(a) \in Nat /\ Len(b) \in Nat /\ At(a, i) \in Nat /\ At(b, i) \in Nat
      /\ At(a, i) = 0 <=> i > Len(a)
      /\ At(b, i) = 0 <=> i > Len(b)
  BY AtFacts
<1>2. \A j \in 1 .. i - 1 : j <= Len(a) /\ j <= Len(b) /\ a[j] = b[j]
  <2> SUFFICES ASSUME NEW j \in 1 .. i - 1 PROVE j <= Len(a) /\ j <= Len(b) /\ a[j] = b[j]
    OBVIOUS
  <2>1. j \in Nat \ {0} /\ At(a, j) = At(b, j) /\ At(a, j) # 0
    BY DEF Agree
  <2>2. j <= Len(a) /\ j <= Len(b)
    BY <1>1, <2>1, AtFacts
  <2> QED
    BY <1>1, <2>1, <2>2, AtFacts
<1>3. i - 1 <= Len(a) /\ i - 1 <= Len(b)
  <2>1. CASE i = 1
    BY <1>1, <2>1
  <2>2. CASE i # 1
    BY <1>2, <2>2
  <2> QED
    BY <2>1, <2>2
<1>4. /\ i <= Len(a) => At(a, i) = a[i]
      /\ i <= Len(b) => At(b, i) = b[i]
  BY <1>1, AtFacts
<1>5. ASSUME At(a, i) < At(b, i) PROVE Precedes(a, b)
  <2> PICK k : k = i - 1
    OBVIOUS
  <2>1. k \in 0 .. Len(a) /\ k < Len(b) /\ k + 1 = i
    BY <1>1, <1>3, <1>5
  <2>2. \A j \in 1 .. k : a[j] = b[j]
    BY <1>2
  <2>3. k = Len(a) \/ a[k + 1] < b[k + 1]
    BY <1>1, <1>4, <1>5, <2>1
  <2> QED
    BY <2>1, <2>2, <2>3 DEF Precedes
<1>6. ASSUME Precedes(a, b) PROVE At(a, i) < At(b, i)
  <2>1. PICK k \in 0 .. Len(a) :
          /\ k < Len(b) /\ \A j \in 1 .. k : a[j] = b[j]
          /\ k = Len(a) \/ a[k + 1] < b[k + 1]
    BY <1>6 DEF Precedes
  <2>2. ~(k >= i)
    <3> SUFFICES ASSUME k >= i PROVE FALSE
      OBVIOUS
    <3>1. i \in 1 .. k /\ i <= Len(a) /\ i <= Len(b)
      BY <1>1, <2>1
    <3> QED
      BY <1>4, <2>1, <3>1
  <2>3. ~(k < i - 1)
    <3> SUFFICES ASSUME k < i - 1 PROVE FALSE
      OBVIOUS
    <3>1. k + 1 \in 1 .. i - 1
      BY <1>1
    <3>2. k + 1 <= Len(a) /\ a[k + 1] = b[k + 1] /\ k + 1 \in 1 .. Len(a)
      BY <1>2, <3>1
    <3>3. At(a, k + 1) = a[k + 1] /\ At(a, k + 1) \in Nat
      BY <3>1, <3>2, AtFacts
    <3> QED
      BY <1>1, <2>1, <3>2, <3>3
  <2>4. k + 1 = i
    BY <1>1, <2>2, <2>3
  <2>5. At(b, i) = b[i] /\ At(b, i) # 0
    BY <1>1, <1>4, <2>1, <2>4
  <2>6. CASE k = Len(a)
    BY <1>1, <2>4, <2>5, <2>6
  <2>7. CASE k # Len(a)
    <3>1. a[i] < b[i] /\ i <= Len(a)
      BY <1>1, <2>1, <2>4, <2>7
    <3> QED
      BY <1>4, <2>5, <3>1
  <2> QED
    BY <2>6, <2>7
<1> QED
  BY <1>5, <1>6

\* So the order is the sign of the difference there.
LEMMA OrderingAt ==
  ASSUME NEW a \in Chars, NEW b \in Chars, NEW i \in Nat \ {0}, Agree(a, b, i),
         Differs(a, b, i)
  PROVE  Ordering(a, b) = Sign(At(a, i) - At(b, i))
<1>1. /\ Len(a) \in Nat /\ Len(b) \in Nat /\ At(a, i) \in Nat /\ At(b, i) \in Nat
      /\ At(a, i) = 0 <=> i > Len(a)
      /\ At(b, i) = 0 <=> i > Len(b)
  BY AtFacts
<1>2. CASE At(a, i) # At(b, i)
  <2>1. a # b
    BY <1>2
  <2>2. Precedes(a, b) <=> At(a, i) < At(b, i)
    BY <1>2, PrecedesAt
  <2> QED
    BY <1>1, <1>2, <2>1, <2>2 DEF Ordering, Sign
<1>3. CASE At(a, i) = At(b, i)
  <2>1. At(a, i) = 0 /\ At(b, i) = 0
    BY <1>3 DEF Differs
  <2>2. \A j \in 1 .. i - 1 : j <= Len(a) /\ j <= Len(b) /\ a[j] = b[j]
    <3> SUFFICES ASSUME NEW j \in 1 .. i - 1 PROVE j <= Len(a) /\ j <= Len(b) /\ a[j] = b[j]
      OBVIOUS
    <3>1. j \in Nat \ {0} /\ At(a, j) = At(b, j) /\ At(a, j) # 0
      BY DEF Agree
    <3>2. j <= Len(a) /\ j <= Len(b)
      BY <1>1, <3>1, AtFacts
    <3> QED
      BY <1>1, <3>1, <3>2, AtFacts
  <2>3. i - 1 <= Len(a) /\ i - 1 <= Len(b)
    <3>1. CASE i = 1
      BY <1>1, <3>1
    <3>2. CASE i # 1
      BY <2>2, <3>2
    <3> QED
      BY <3>1, <3>2
  <2>4. Len(a) = i - 1 /\ Len(b) = i - 1
    BY <1>1, <2>1, <2>3
  <2>5. a = b
    <3>1. \A j \in 1 .. Len(a) : a[j] = b[j]
      BY <2>2, <2>4
    <3> QED
      BY <2>4, <3>1 DEF Chars
  <2> QED
    BY <1>1, <2>1, <2>5 DEF Ordering, Sign
<1> QED
  BY <1>2, <1>3

\* The first characters of a string.
LEMMA PrefixFacts ==
  ASSUME NEW s \in Chars, NEW n \in Nat
  PROVE  /\ Prefix(s, n) \in Chars
         /\ \A i \in 1 .. n : At(Prefix(s, n), i) = At(s, i)
         /\ At(Prefix(s, n), n + 1) = 0
<1> PICK m : m = IF n < Len(s) THEN n ELSE Len(s)
  OBVIOUS
<1>1. Len(s) \in Nat /\ m \in 0 .. Len(s) /\ m <= n
  BY DEF Chars
<1>2. Prefix(s, n) = SubSeq(s, 1, m)
  BY DEF Prefix
<1>3. /\ SubSeq(s, 1, m) \in Chars /\ Len(SubSeq(s, 1, m)) = m
      /\ \A i \in 1 .. m : SubSeq(s, 1, m)[i] = s[i]
  BY <1>1 DEF Chars
<1>4. At(SubSeq(s, 1, m), n + 1) = 0
  BY <1>1, <1>3 DEF At
<1>5. \A i \in 1 .. n : At(SubSeq(s, 1, m), i) = At(s, i)
  BY <1>1, <1>3 DEF At
<1> QED
  BY <1>2, <1>3, <1>4, <1>5

\* strncmp orders the first characters.
LEMMA StrNCmpOrders ==
  ASSUME NEW a \in Chars, NEW b \in Chars, NEW n \in Nat
  PROVE  StrNCmp(a, b, n) = Ordering(Prefix(a, n), Prefix(b, n))
<1> PICK p, q, stops : /\ p = Prefix(a, n) /\ q = Prefix(b, n)
                       /\ stops = {i \in 1 .. n : Differs(a, b, i)}
  OBVIOUS
<1>1. /\ p \in Chars /\ q \in Chars
      /\ \A i \in 1 .. n : At(p, i) = At(a, i) /\ At(q, i) = At(b, i)
      /\ At(p, n + 1) = 0 /\ At(q, n + 1) = 0
  BY PrefixFacts
<1>2. StrNCmp(a, b, n) = IF stops = {} THEN 0 ELSE Sign(At(a, Min(stops)) - At(b, Min(stops)))
  BY DEF StrNCmp
<1>3. CASE stops = {}
  <2>1. Agree(p, q, n + 1)
    BY <1>1, <1>3 DEF Agree, Differs
  <2>2. Differs(p, q, n + 1)
    BY <1>1 DEF Differs
  <2>3. Ordering(p, q) = Sign(At(p, n + 1) - At(q, n + 1))
    BY <1>1, <2>1, <2>2, OrderingAt
  <2> QED
    BY <1>1, <1>2, <1>3, <2>3 DEF Sign
<1>4. CASE stops # {}
  <2> PICK i : i = Min(stops)
    OBVIOUS
  <2>1. stops \in SUBSET Nat
    OBVIOUS
  <2>2. i \in stops /\ \A j \in stops : i <= j
    BY <1>4, <2>1, MinIs
  <2>3. i \in 1 .. n /\ Differs(a, b, i)
    BY <2>2
  <2>4. Agree(p, q, i)
    <3> SUFFICES ASSUME NEW j \in 1 .. i - 1 PROVE At(p, j) = At(q, j) /\ At(p, j) # 0
      BY DEF Agree
    <3>1. j \in 1 .. n /\ j \notin stops
      BY <2>2, <2>3
    <3>2. ~Differs(a, b, j)
      BY <3>1
    <3> QED
      BY <1>1, <3>1, <3>2 DEF Differs
  <2>5. Differs(p, q, i)
    BY <1>1, <2>3 DEF Differs
  <2>6. Ordering(p, q) = Sign(At(p, i) - At(q, i))
    BY <1>1, <2>3, <2>4, <2>5, OrderingAt
  <2> QED
    BY <1>1, <1>2, <1>4, <2>3, <2>6
<1> QED
  BY <1>3, <1>4

\* strcmp orders all of them.
LEMMA StrCmpOrders ==
  ASSUME NEW a \in Chars, NEW b \in Chars
  PROVE  StrCmp(a, b) = Ordering(a, b)
<1> PICK n, stops : n = Len(a) + 1 /\ stops = {i \in 1 .. n : Differs(a, b, i)}
  OBVIOUS
<1>1. n \in Nat \ {0} /\ Len(a) \in Nat
  BY AtFacts
<1>2. Differs(a, b, n)
  BY <1>1, AtFacts DEF Differs
<1>3. stops # {} /\ stops \in SUBSET Nat
  BY <1>1, <1>2
<1> PICK i : i = Min(stops)
  OBVIOUS
<1>4. i \in stops /\ \A j \in stops : i <= j
  BY <1>3, MinIs
<1>5. i \in 1 .. n /\ Differs(a, b, i) /\ i \in Nat \ {0}
  BY <1>1, <1>4
<1>6. Agree(a, b, i)
  <2> SUFFICES ASSUME NEW j \in 1 .. i - 1 PROVE At(a, j) = At(b, j) /\ At(a, j) # 0
    BY DEF Agree
  <2>1. j \in 1 .. n /\ j \notin stops
    BY <1>1, <1>4, <1>5
  <2>2. ~Differs(a, b, j)
    BY <2>1
  <2> QED
    BY <2>2 DEF Differs
<1>7. Ordering(a, b) = Sign(At(a, i) - At(b, i))
  BY <1>5, <1>6, OrderingAt
<1> QED
  BY <1>3, <1>7 DEF StrCmp, StrNCmp

-----------------------------------------------------------------------------
(***************************************************************************)
(* strtok.                                                                 *)
(***************************************************************************)
\* What of the line has been cut: all words that begin in front of oldword.
Cut(words, p) ==
    /\ Len(words) = Cardinality(WordsBefore(p))
    /\ \A w \in WordsBefore(p) :
         words[Cardinality(WordsBefore(w[1])) + 1] = SubSeq(line, w[1], w[2])

\* Behind oldword the memory still has the line, and a word begins there if one does.
TokInv ==
    /\ line \in String /\ delim \in SUBSET Char
    /\ found \in Seq(Seq(Char)) /\ done \in BOOLEAN
    /\ buffer \in Seq(Nat) /\ Len(buffer) = Len(line)
    /\ oldword \in 0 .. Len(line) + 1
    /\ oldword = 0 => buffer = line /\ found = <<>> /\ ~done
    /\ oldword # 0 =>
         /\ call = NoCall
         /\ \A i \in oldword .. Len(line) : buffer[i] = line[i]
         /\ oldword = 1 \/ oldword = Len(line) + 1 \/ line[oldword - 1] \in delim
         /\ Cut(found, oldword)
    /\ done => oldword = Len(line) + 1

\* The words are as many as there are beginnings.
LEMMA WordsFinite ==
  ASSUME line \in String
  PROVE  /\ IsFiniteSet(Words) /\ Words \in SUBSET ((1 .. Len(line)) \X (1 .. Len(line)))
         /\ \A b : IsFiniteSet(WordsBefore(b)) /\ Cardinality(WordsBefore(b)) \in Nat
<1>1. Len(line) \in Nat
  BY StringFacts
<1>2. IsFiniteSet((1 .. Len(line)) \X (1 .. Len(line)))
  <2> PICK S : S = 1 .. Len(line)
    OBVIOUS
  <2>1. IsFiniteSet(S)
    BY <1>1, FS_Interval
  <2>2. IsFiniteSet(S \X S)
    BY ONLY <2>1, FS_Product
  <2> QED
    BY <2>2
<1>3. Words \in SUBSET ((1 .. Len(line)) \X (1 .. Len(line)))
  BY DEF Words
<1>4. IsFiniteSet(Words)
  BY <1>2, <1>3, FS_Subset
<1>5. \A b : WordsBefore(b) \subseteq Words
  BY DEF WordsBefore
<1>6. \A b : IsFiniteSet(WordsBefore(b))
  BY <1>4, <1>5, FS_Subset
<1> QED
  BY <1>3, <1>4, <1>6, FS_CardinalityType

\* Where a call stops, in memory that has the line from p on.
LEMMA StopsAt ==
  ASSUME line \in String, NEW ds \in SUBSET Char, NEW s, Len(s) = Len(line),
         NEW p \in 1 .. Len(line) + 1, \A i \in p .. Len(line) : s[i] = line[i]
  PROVE  /\ Skip(s, p, ds) \in p .. Len(line) + 1
         /\ \A i \in p .. Skip(s, p, ds) - 1 : line[i] \in ds
         /\ Skip(s, p, ds) <= Len(line) => line[Skip(s, p, ds)] \notin ds
         /\ Until(s, p, ds) \in p .. Len(line) + 1
         /\ \A i \in p .. Until(s, p, ds) - 1 : line[i] \notin ds
         /\ Until(s, p, ds) <= Len(line) => line[Until(s, p, ds)] \in ds
         /\ \A i \in p .. Len(line) + 1 : At(s, i) = 0 <=> i = Len(line) + 1
<1> PICK n, X, Y : /\ n = Len(line)
                   /\ X = {j \in p .. Len(s) + 1 : At(s, j) \notin ds}
                   /\ Y = {j \in p .. Len(s) + 1 : At(s, j) \in ds \cup {0}}
  OBVIOUS
<1>1. /\ n \in Nat /\ Len(s) = n /\ 0 \notin ds /\ p \in Nat
      /\ \A i \in 1 .. n : line[i] \in Nat \ {0}
  BY StringFacts, TextAssumption
<1>2. /\ \A i \in p .. n : At(s, i) = line[i]
      /\ At(s, n + 1) = 0
  BY <1>1 DEF At
<1>3. n + 1 \in X /\ n + 1 \in Y /\ X \in SUBSET Nat /\ Y \in SUBSET Nat
  BY <1>1, <1>2
<1> PICK x, y : x = Min(X) /\ y = Min(Y)
  OBVIOUS
<1>4. /\ x \in X /\ \A j \in X : x <= j
      /\ y \in Y /\ \A j \in Y : y <= j
  BY <1>3, MinIs
<1>5. Skip(s, p, ds) = x /\ Until(s, p, ds) = y
  BY DEF Skip, Until
<1>6. \A i \in p .. x - 1 : line[i] \in ds
  <2> SUFFICES ASSUME NEW i \in p .. x - 1 PROVE line[i] \in ds
    OBVIOUS
  <2>1. i \in p .. n /\ i \notin X
    BY <1>1, <1>3, <1>4
  <2> QED
    BY <1>1, <1>2, <2>1
<1>7. \A i \in p .. y - 1 : line[i] \notin ds
  <2> SUFFICES ASSUME NEW i \in p .. y - 1 PROVE line[i] \notin ds
    OBVIOUS
  <2>1. i \in p .. n /\ i \notin Y
    BY <1>1, <1>3, <1>4
  <2> QED
    BY <1>1, <1>2, <2>1
<1>8. x \in p .. n + 1 /\ y \in p .. n + 1
  BY <1>1, <1>4
<1>9. (x <= n => line[x] \notin ds) /\ (y <= n => line[y] \in ds)
  <2>1. x <= n => At(s, x) = line[x]
    BY <1>1, <1>2, <1>8
  <2>2. y <= n => At(s, y) = line[y] /\ line[y] # 0
    BY <1>1, <1>2, <1>8
  <2> QED
    BY <1>4, <2>1, <2>2
<1>10. \A i \in p .. n + 1 : At(s, i) = 0 <=> i = n + 1
  BY <1>1, <1>2
<1> QED
  BY <1>5, <1>6, <1>7, <1>8, <1>9, <1>10

\* The word that a call finds is the next one of the line, and there are no others
\* before the place where it goes on.
LEMMA NextWord ==
  ASSUME line \in String, delim \in SUBSET Char,
         NEW p \in 1 .. Len(line), p = 1 \/ line[p - 1] \in delim,
         NEW b \in p .. Len(line), \A i \in p .. b - 1 : line[i] \in delim,
         line[b] \notin delim,
         NEW e \in b .. Len(line) + 1, \A i \in b .. e - 1 : line[i] \notin delim,
         e <= Len(line) => line[e] \in delim,
         NEW q \in {e, e + 1}, e = Len(line) + 1 => q = e, e <= Len(line) => q = e + 1
  PROVE  /\ e > b /\ <<b, e - 1>> \in Words
         /\ WordsBefore(b) = WordsBefore(p)
         /\ WordsBefore(q) = WordsBefore(p) \cup {<<b, e - 1>>}
         /\ <<b, e - 1>> \notin WordsBefore(p)
<1>1. Len(line) \in Nat
  BY StringFacts
<1> PICK n, w : n = Len(line) /\ w = <<b, e - 1>>
  OBVIOUS
<1>2. e > b
  BY <1>1
<1>3. w \in Words
  <2>1. b \in 1 .. n /\ e - 1 \in 1 .. n /\ b <= e - 1
    BY <1>1, <1>2
  <2>2. b = 1 \/ line[b - 1] \in delim
    <3>1. CASE b = p
      BY <3>1
    <3>2. CASE b # p
      <4>1. b - 1 \in p .. b - 1
        BY <1>1, <3>2
      <4> QED
        BY <4>1
    <3> QED
      BY <3>1, <3>2
  <2>3. e - 1 = n \/ line[(e - 1) + 1] \in delim
    BY <1>1
  <2>4. IsWord(b, e - 1)
    BY <2>2, <2>3 DEF IsWord
  <2> QED
    BY <2>1, <2>4 DEF Words
<1>4. ASSUME NEW v \in Words, v[1] >= p, v[1] < q PROVE v = w
  <2>1. /\ v[1] \in 1 .. n /\ v[2] \in 1 .. n /\ v[1] <= v[2] /\ IsWord(v[1], v[2])
        /\ v = <<v[1], v[2]>>
    BY DEF Words
  <2> PICK x, y : x = v[1] /\ y = v[2]
    OBVIOUS
  <2>2. line[x] \notin delim /\ \A i \in x .. y : line[i] \notin delim
    BY <2>1 DEF IsWord
  <2>3. ~(x < b)
    BY <1>1, <1>4, <2>1, <2>2
  <2>4. x = b
    <3> SUFFICES ASSUME x > b PROVE FALSE
      BY <1>1, <2>1, <2>3
    <3>1. x = 1 \/ line[x - 1] \in delim
      BY <2>1 DEF IsWord
    <3>2. line[x - 1] \in delim /\ x <= e
      BY <1>1, <1>4, <2>1, <3>1
    <3>3. x = e
      <4>1. ~(x - 1 \in b .. e - 1)
        BY <3>2
      <4> QED
        BY <1>1, <2>1, <3>2, <4>1
    <3> QED
      BY <1>1, <2>1, <2>2, <3>3
  <2>5. y = e - 1
    <3>1. ~(y >= e)
      <4> SUFFICES ASSUME y >= e PROVE FALSE
        OBVIOUS
      <4>1. e \in x .. y /\ e <= n
        BY <1>1, <1>2, <2>1, <2>4
      <4> QED
        BY <2>2, <4>1
    <3>2. ~(y < e - 1)
      <4> SUFFICES ASSUME y < e - 1 PROVE FALSE
        OBVIOUS
      <4>1. line[y + 1] \in delim
        <5>1. y # n
          BY <1>1
        <5> QED
          BY <2>1, <5>1 DEF IsWord
      <4>2. y + 1 \in b .. e - 1
        BY <1>1, <2>1, <2>4
      <4> QED
        BY <4>1, <4>2
    <3> QED
      BY <1>1, <2>1, <3>1, <3>2
  <2> QED
    BY <2>1, <2>4, <2>5
<1>5. w[1] = b /\ p <= b /\ b < q
  BY <1>1, <1>2
<1>6. \A v \in Words : v[1] \in Nat
  BY DEF Words
<1>7. WordsBefore(b) = WordsBefore(p)
  <2>1. \A v \in Words : v[1] < b <=> v[1] < p
    BY <1>1, <1>4, <1>5, <1>6
  <2> QED
    BY <2>1 DEF WordsBefore
<1>8. WordsBefore(q) = WordsBefore(p) \cup {w}
  <2>1. \A v \in Words : v[1] < q <=> v[1] < p \/ v = w
    BY <1>1, <1>4, <1>5, <1>6
  <2> QED
    BY <1>3, <2>1 DEF WordsBefore
<1>9. w \notin WordsBefore(p)
  BY <1>1, <1>5 DEF WordsBefore
<1> QED
  BY <1>2, <1>3, <1>7, <1>8, <1>9

\* Two pieces of memory that agree in their places are the same string.
LEMMA SubSeqSame ==
  ASSUME NEW S, NEW s, NEW t, NEW b \in Int, NEW e \in Int,
         \A i \in b .. e : s[i] = t[i] /\ t[i] \in S
  PROVE  SubSeq(s, b, e) = SubSeq(t, b, e)
OBVIOUS

\* As long as line and delimiters stay, the words of the line do.
LEMMA WordsSame ==
  ASSUME UNCHANGED <<line, delim>>
  PROVE  /\ Words' = Words
         /\ \A b : WordsBefore(b)' = WordsBefore(b)
         /\ \A words, p : Cut(words, p)' <=> Cut(words, p)
<1>1. Words' = Words
  BY DEF Words, IsWord
<1>2. \A b : WordsBefore(b)' = WordsBefore(b)
  BY <1>1 DEF WordsBefore
<1> QED
  BY <1>1, <1>2 DEF Cut

\* One more word is cut, behind the others.
LEMMA OneMore ==
  ASSUME line \in String, NEW p \in Nat, NEW q, NEW b, NEW e, NEW words \in Seq(Seq(Char)),
         Cut(words, p), <<b, e>> \notin WordsBefore(p),
         WordsBefore(b) = WordsBefore(p), WordsBefore(q) = WordsBefore(p) \cup {<<b, e>>},
         SubSeq(line, b, e) \in Seq(Char)
  PROVE  Cut(Append(words, SubSeq(line, b, e)), q)
<1> PICK w, x, more, W : /\ w = <<b, e>> /\ x = SubSeq(line, b, e)
                         /\ more = Append(words, x) /\ W = WordsBefore(p)
  OBVIOUS
<1>1. IsFiniteSet(W) /\ Cardinality(W) \in Nat
  BY WordsFinite
<1>2. Cardinality(WordsBefore(q)) = Cardinality(W) + 1
  <2>1. w \notin W /\ WordsBefore(q) = W \cup {w}
    OBVIOUS
  <2>2. Cardinality(W \cup {w}) = Cardinality(W) + 1
    BY ONLY <1>1, <2>1, FS_AddElement
  <2> QED
    BY <2>1, <2>2
<1>3. Len(words) = Cardinality(W)
  BY DEF Cut
<1>4. /\ Len(more) = Len(words) + 1
      /\ \A i \in 1 .. Len(words) : more[i] = words[i]
      /\ more[Len(words) + 1] = x
  BY AppendProperties
<1>5. ASSUME NEW v \in W
      PROVE  more[Cardinality(WordsBefore(v[1])) + 1] = SubSeq(line, v[1], v[2])
  <2> PICK V : V = WordsBefore(v[1])
    OBVIOUS
  <2>1. IsFiniteSet(V) /\ Cardinality(V) \in Nat
    BY WordsFinite
  <2>2. v \notin V /\ V \cup {v} \subseteq W
    <3>1. W \in SUBSET Words /\ \A u \in Words : u[1] \in Nat
      BY DEF WordsBefore, Words
    <3>2. v \in Words /\ v[1] < p
      BY DEF WordsBefore
    <3> QED
      BY <3>1, <3>2 DEF WordsBefore
  <2>3. Cardinality(V \cup {v}) = Cardinality(V) + 1
    BY ONLY <2>1, <2>2, FS_AddElement
  <2>4. Cardinality(V \cup {v}) <= Cardinality(W)
    BY ONLY <1>1, <2>2, FS_Subset
  <2>5. Cardinality(V) + 1 \in 1 .. Len(words)
    BY <1>1, <1>3, <2>1, <2>3, <2>4
  <2>6. words[Cardinality(V) + 1] = SubSeq(line, v[1], v[2])
    BY DEF Cut
  <2> QED
    BY <1>4, <2>5, <2>6
<1>6. more[Cardinality(WordsBefore(w[1])) + 1] = SubSeq(line, w[1], w[2])
  BY <1>3, <1>4
<1>7. \A v \in WordsBefore(q) :
        more[Cardinality(WordsBefore(v[1])) + 1] = SubSeq(line, v[1], v[2])
  BY <1>5, <1>6
<1>8. Len(more) = Cardinality(WordsBefore(q))
  BY <1>2, <1>3, <1>4
<1> QED
  BY <1>7, <1>8 DEF Cut

\* A call of strtok, from a place where a word may begin.
LEMMA StrTokKeeps ==
  ASSUME line \in String, delim \in SUBSET Char, found \in Seq(Seq(Char)), ~done,
         call = NoCall, buffer \in Seq(Nat), Len(buffer) = Len(line),
         NEW p \in 1 .. Len(line) + 1,
         p = 1 \/ p = Len(line) + 1 \/ line[p - 1] \in delim,
         \A i \in p .. Len(line) : buffer[i] = line[i], Cut(found, p),
         done \in BOOLEAN, StrTok(buffer, p), UNCHANGED <<line, delim, call>>
  PROVE  TokInv'
<1> PICK n, b : n = Len(line) /\ b = Skip(buffer, p, delim)
  OBVIOUS
<1>1. n \in Nat /\ \A i \in 1 .. n : line[i] \in Char
  BY StringFacts
<1>0. n = Len(line) /\ Len(buffer) = n /\ p \in 1 .. n + 1
  OBVIOUS
<1>2. /\ b \in p .. n + 1
      /\ \A i \in p .. b - 1 : line[i] \in delim
      /\ b <= n => line[b] \notin delim
      /\ \A i \in p .. n + 1 : At(buffer, i) = 0 <=> i = n + 1
  BY StopsAt
<1>3. CASE At(buffer, b) = 0
  <2>1. oldword' = n + 1 /\ done' = TRUE /\ UNCHANGED <<buffer, found>>
    BY <1>1, <1>2, <1>3 DEF StrTok
  <2>2. \A i \in p .. n : line[i] \in delim
    <3>1. b = n + 1
      BY <1>2, <1>3
    <3>2. b - 1 = n
      BY ONLY <1>1, <3>1
    <3> QED
      BY <1>2, <3>2
  <2>3. WordsBefore(n + 1) = WordsBefore(p)
    <3> SUFFICES ASSUME NEW w \in Words PROVE w[1] < n + 1 <=> w[1] < p
      BY DEF WordsBefore
    <3>1. w[1] \in 1 .. n /\ w[2] \in 1 .. n /\ w[1] <= w[2] /\ line[w[1]] \notin delim
      <4>1. w[1] \in 1 .. n /\ w[2] \in 1 .. n /\ w[1] <= w[2] /\ IsWord(w[1], w[2])
        BY DEF Words
      <4> QED
        BY <4>1 DEF IsWord
    <3> QED
      BY <1>1, <2>2, <3>1
  <2>4. Cut(found, n + 1)
    BY <2>3 DEF Cut
  <2>5. Cut(found, n + 1)'
    BY <2>1, <2>4, WordsSame
  <2>6. /\ n + 1 \in 0 .. n + 1 /\ n + 1 # 0
        /\ \A i \in n + 1 .. n : buffer[i] = line[i]
    BY <1>1
  <2> QED
    BY <2>1, <2>5, <2>6 DEF TokInv
<1>4. CASE At(buffer, b) # 0
  <2> PICK e : e = Until(buffer, b, delim)
    OBVIOUS
  <2>1. b \in p .. n /\ p \in 1 .. n /\ line[b] \notin delim
    <3>1. b \in p .. n + 1 /\ (b <= n => line[b] \notin delim)
      BY ONLY <1>2
    <3>2. b # n + 1
      BY ONLY <1>2, <1>4, <3>1
    <3>3. b \in p .. n /\ p \in 1 .. n
      BY ONLY <1>0, <1>1, <3>1, <3>2
    <3> QED
      BY ONLY <3>1, <3>3
  <2>2. b \in 1 .. n + 1 /\ \A i \in b .. n : buffer[i] = line[i]
    BY <1>1, <2>1
  <2>3. /\ e \in b .. n + 1
        /\ \A i \in b .. e - 1 : line[i] \notin delim
        /\ e <= n => line[e] \in delim
        /\ \A i \in b .. n + 1 : At(buffer, i) = 0 <=> i = n + 1
    BY <2>2, StopsAt
  <2> PICK q : q = IF e = n + 1 THEN e ELSE e + 1
    OBVIOUS
  <2>0. q = IF e = n + 1 THEN e ELSE e + 1
    OBVIOUS
  <2>4. /\ e > b /\ <<b, e - 1>> \notin WordsBefore(p)
        /\ WordsBefore(b) = WordsBefore(p)
        /\ WordsBefore(q) = WordsBefore(p) \cup {<<b, e - 1>>}
    <3>1. p = 1 \/ line[p - 1] \in delim
      BY <1>1, <2>1
    <3>2. q \in {e, e + 1} /\ (e = n + 1 => q = e) /\ (e <= n => q = e + 1)
      BY <1>1, <2>1, <2>3
    <3>3. p \in 1 .. Len(line) /\ b \in p .. Len(line) /\ e \in b .. Len(line) + 1
      BY ONLY <1>0, <2>1, <2>3
    <3>4. line \in String /\ delim \in SUBSET Char
      OBVIOUS
    <3> QED
      BY ONLY <1>0, <1>2, <2>1, <2>3, <3>1, <3>2, <3>3, <3>4, NextWord
  <2>5. SubSeq(buffer, b, e - 1) = SubSeq(line, b, e - 1)
    <3>0. \A i \in b .. e - 1 : i \in b .. n /\ i \in 1 .. n
      BY ONLY <1>1, <2>1, <2>3
    <3>1. \A i \in b .. e - 1 : buffer[i] = line[i] /\ line[i] \in Char
      BY ONLY <1>1, <2>2, <3>0
    <3>2. b \in Int /\ e - 1 \in Int
      BY ONLY <1>1, <2>1, <2>3
    <3> QED
      BY ONLY <3>1, <3>2, SubSeqSame
  <2>6. SubSeq(line, b, e - 1) \in Seq(Char)
    <3>0. \A i \in b .. e - 1 : i \in 1 .. n
      BY ONLY <1>1, <2>1, <2>3
    <3>1. \A i \in b .. e - 1 : line[i] \in Char
      BY ONLY <1>1, <3>0
    <3>2. b \in Int /\ e - 1 \in Int
      BY ONLY <1>1, <2>1, <2>3
    <3> QED
      BY <3>1, <3>2, SubSeqProperties
  <2>7. /\ found' = Append(found, SubSeq(line, b, e - 1)) /\ done' = done
        /\ e = n + 1 => oldword' = e /\ UNCHANGED buffer
        /\ e # n + 1 => oldword' = e + 1 /\ buffer' = [buffer EXCEPT ![e] = 0]
    BY <1>4, <2>3, <2>5 DEF StrTok, Behind
  <2>8. oldword' = q
    BY <2>7
  <2>9. Cut(found', q)
    <3>1. p \in Nat /\ line \in String /\ found \in Seq(Seq(Char)) /\ Cut(found, p)
      BY <1>0, <1>1
    <3>2. Cut(Append(found, SubSeq(line, b, e - 1)), q)
      BY ONLY <2>4, <2>6, <3>1, OneMore
    <3> QED
      BY ONLY <2>7, <3>2
  <2>10. Cut(found, oldword)'
    <3> PICK f : f = found'
      OBVIOUS
    <3>1. Cut(f, q)'
      BY <2>9, WordsSame
    <3>2. found' = f /\ oldword' = q
      BY <2>8
    <3> QED
      BY ONLY <3>1, <3>2 DEF Cut, WordsBefore
  <2>11. found' \in Seq(Seq(Char))
    BY <2>6, <2>7, AppendProperties
  <2>13. q \in 1 .. n + 1 /\ (q = n + 1 \/ line[q - 1] \in delim)
    BY ONLY <1>0, <1>1, <2>1, <2>3, <2>0
  <2>12. /\ buffer' \in Seq(Nat) /\ Len(buffer') = n
         /\ \A i \in q .. n : buffer'[i] = line[i]
    <3>1. CASE e = n + 1
      BY <1>1, <2>7, <3>1
    <3>2. CASE e # n + 1
      <4>1. e \in 1 .. Len(buffer) /\ 0 \in Nat
        BY ONLY <1>0, <1>1, <2>1, <2>3, <3>2
      <4>2. buffer \in Seq(Nat) /\ buffer' = [buffer EXCEPT ![e] = 0]
        BY <2>7, <3>2
      <4>3. /\ buffer' \in Seq(Nat) /\ Len(buffer') = n
            /\ \A i \in 1 .. n : i # e => buffer'[i] = buffer[i]
        BY ONLY <1>0, <4>1, <4>2, ExceptSeq
      <4>4. \A i \in q .. n : i \in 1 .. n /\ i # e /\ i \in b .. n
        BY ONLY <1>0, <1>1, <2>1, <2>3, <2>13, <2>0, <3>2
      <4> QED
        BY <2>2, <4>3, <4>4
    <3> QED
      BY <3>1, <3>2
  <2>14. q \in 0 .. n + 1 /\ q # 0
    BY <1>1, <2>13
  <2> QED
    BY <2>7, <2>8, <2>10, <2>11, <2>12, <2>13, <2>14 DEF TokInv
<1> QED
  BY <1>3, <1>4

\* What strtok, called until it has nothing more (string.c:72-102), has given is the words
\* of the line in their order, each a longest run without a delimiter, none missing or twice.
THEOREM WordsSplitAlways == TextSpec => []WordsSplit
<1>1. TextInit => TokInv
  <2> SUFFICES ASSUME TextInit PROVE TokInv
    OBVIOUS
  <2>1. line \in String /\ delim \in SUBSET Char
    BY TextAssumption DEF TextInit
  <2>2. line \in Seq(Char) /\ Char \subseteq Nat
    BY <2>1, StringFacts, TextAssumption
  <2>3. line \in Seq(Nat) /\ Len(line) \in Nat
    BY <2>1, <2>2, StringFacts, SeqMonotonic
  <2>4. <<>> \in Seq(Seq(Char)) /\ 0 \in 0 .. Len(line) + 1
    BY <2>3, EmptySeq
  <2> QED
    BY <2>1, <2>3, <2>4 DEF TextInit, TokInv
<1>2. TokInv /\ [TextNext]_textVars => TokInv'
  <2> SUFFICES ASSUME TokInv, [TextNext]_textVars PROVE TokInv'
    OBVIOUS
  <2> PICK n : n = Len(line)
    OBVIOUS
  <2>1. /\ line \in String /\ delim \in SUBSET Char /\ n = Len(line) /\ n \in Nat
        /\ found \in Seq(Seq(Char)) /\ buffer \in Seq(Nat) /\ Len(buffer) = n
        /\ done \in BOOLEAN /\ oldword \in 0 .. n + 1
    BY StringFacts DEF TokInv
  <2>2. line \in Seq(Nat)
    <3>1. line \in Seq(Char) /\ Char \subseteq Nat
      BY <2>1, StringFacts, TextAssumption
    <3> QED
      BY ONLY <3>1, SeqMonotonic
  <2>3. CASE StrTokLine
    <3>1. /\ oldword = 0 /\ call = NoCall /\ buffer = line /\ found = <<>> /\ ~done
          /\ StrTok(buffer, 1) /\ UNCHANGED <<line, delim, call>>
      BY <2>3 DEF StrTokLine, TokInv
    <3>2. Cut(found, 1)
      <4>1. WordsBefore(1) = {}
        BY <2>1 DEF WordsBefore, Words
      <4> QED
        BY <3>1, <4>1, FS_EmptySet DEF Cut
    <3>3. 1 \in 1 .. Len(line) + 1 /\ \A i \in 1 .. Len(line) : buffer[i] = line[i]
      BY <2>1, <3>1
    <3> QED
      BY <2>1, <3>1, <3>2, <3>3, StrTokKeeps
  <2>4. CASE StrTokNull
    <3>1. /\ oldword # 0 /\ ~done /\ StrTok(buffer, oldword)
          /\ UNCHANGED <<line, delim, call>>
      BY <2>4 DEF StrTokNull
    <3> PICK p : p = oldword
      OBVIOUS
    <3>2. /\ call = NoCall /\ \A i \in p .. Len(line) : buffer[i] = line[i]
          /\ p = 1 \/ p = Len(line) + 1 \/ line[p - 1] \in delim
          /\ Cut(found, p) /\ p \in 1 .. Len(line) + 1 /\ StrTok(buffer, p)
      BY <2>1, <3>1 DEF TokInv
    <3> QED
      BY <2>1, <3>1, <3>2, StrTokKeeps
  <2>5. CASE Compare
    <3>1. /\ oldword = 0 /\ UNCHANGED <<line, buffer, oldword, delim, found, done>>
      BY <2>5 DEF Compare
    <3> QED
      BY <2>1, <3>1 DEF TokInv
  <2>6. CASE Convert
    <3>1. /\ oldword = 0 /\ UNCHANGED <<line, buffer, oldword, delim, found, done>>
      BY <2>6 DEF Convert
    <3> QED
      BY <2>1, <3>1 DEF TokInv
  <2>7. CASE TextReturn
    <3>1. /\ buffer' = line /\ oldword' = 0 /\ found' = <<>> /\ done' = FALSE
          /\ UNCHANGED <<line, delim>>
      BY <2>7 DEF TextReturn
    <3>2. <<>> \in Seq(Seq(Char)) /\ 0 \in 0 .. Len(line) + 1
      BY <2>1, EmptySeq
    <3> QED
      BY <2>1, <2>2, <3>1, <3>2 DEF TokInv
  <2>8. CASE UNCHANGED textVars
    <3>1. UNCHANGED <<line, buffer, oldword, delim, found, done, call>>
      BY <2>8 DEF textVars
    <3> PICK f, p : f = found /\ p = oldword
      OBVIOUS
    <3>2. found' = f /\ oldword' = p
      BY <3>1
    <3>3. Cut(f, p) => Cut(found, oldword)'
      <4>1. Cut(f, p) => Cut(f, p)'
        BY <3>1, WordsSame
      <4> QED
        BY ONLY <3>2, <4>1 DEF Cut, WordsBefore
    <3> QED
      BY <3>1, <3>3 DEF TokInv
  <2> QED
    BY <2>3, <2>4, <2>5, <2>6, <2>7, <2>8 DEF TextNext
<1>3. TokInv => WordsSplit
  <2> SUFFICES ASSUME TokInv, done PROVE WordsSplit
    BY DEF WordsSplit
  <2>1. Len(line) \in Nat /\ Cut(found, Len(line) + 1)
    BY StringFacts DEF TokInv
  <2>2. WordsBefore(Len(line) + 1) = Words
    <3>1. \A w \in Words : w[1] \in 1 .. Len(line)
      BY DEF Words
    <3> QED
      BY <2>1, <3>1 DEF WordsBefore
  <2> QED
    BY <2>1, <2>2 DEF Cut, WordsSplit
<1> QED
  BY <1>1, <1>2, <1>3, PTL DEF TextSpec

-----------------------------------------------------------------------------
(***************************************************************************)
(* Numbers.                                                                *)
(***************************************************************************)
\* N turns, F[k] being what turn k makes of the value the last one left, and what they
\* leave, from x on.
Turns(V, N, F) == F \in [1 .. N -> [V -> V]]
ByTurns(V, N, F, x, f) ==
    f \in [0 .. N -> V] /\ f[0] = x /\ \A k \in 1 .. N : f[k] = F[k][f[k - 1]]

\* A recursion over the first N numbers, whose step is a function of V into V for each
\* turn, has a function that obeys it.
LEMMA TurnsExist ==
  ASSUME NEW V, NEW N \in Nat, NEW F, Turns(V, N, F), NEW x \in V
  PROVE  \E f : ByTurns(V, N, F, x, f)
<1>0. F \in [1 .. N -> [V -> V]]
  BY DEF Turns
<1> DEFINE Upto(m, f) == f[0] = x /\ \A k \in 1 .. m : f[k] = F[k][f[k - 1]]
           S == {m \in Nat : m <= N => \E f \in [0 .. m -> V] : Upto(m, f)}
<1>1. 0 \in S
  <2>1. PICK f : f = [k \in 0 .. 0 |-> x]
    OBVIOUS
  <2>2. f \in [0 .. 0 -> V] /\ Upto(0, f)
    BY <2>1
  <2> QED
    BY <2>2
<1>2. ASSUME NEW m \in Nat, m \in S PROVE m + 1 \in S
  <2> SUFFICES ASSUME m + 1 <= N PROVE \E f \in [0 .. m + 1 -> V] : Upto(m + 1, f)
    OBVIOUS
  <2>1. PICK f \in [0 .. m -> V] : Upto(m, f)
    BY <1>2
  <2>2. F[m + 1] \in [V -> V] /\ f[m] \in V
    BY <1>0
  <2>3. F[m + 1][f[m]] \in V
    BY <2>2
  <2>4. PICK g : g = [k \in 0 .. m + 1 |-> IF k <= m THEN f[k] ELSE F[m + 1][f[m]]]
    OBVIOUS
  <2>5. g \in [0 .. m + 1 -> V]
    BY <2>3, <2>4
  <2>6. ASSUME NEW k \in 1 .. m + 1 PROVE g[k] = F[k][g[k - 1]]
    <3>1. CASE k <= m
      <4>1. g[k] = f[k] /\ g[k - 1] = f[k - 1] /\ k \in 1 .. m
        BY <2>4, <3>1
      <4> QED
        BY <2>1, <4>1
    <3>2. CASE k = m + 1
      <4>1. g[k] = F[m + 1][f[m]] /\ g[k - 1] = f[m]
        BY <2>4, <3>2
      <4> QED
        BY <3>2, <4>1
    <3> QED
      BY <3>1, <3>2
  <2>7. g[0] = x
    BY <2>1, <2>4
  <2> QED
    BY <2>5, <2>6, <2>7
<1> HIDE DEF S
<1>3. N \in S
  BY <1>1, <1>2, NumbersIn
<1> QED
  BY <1>3 DEF S, ByTurns

\* The positive numbers an int has, and one.
Half == Width \div 2

\* The sizes of the numbers of string.c.
LEMMA HalfFacts == Half \in Nat /\ Width = 2 * Half /\ Half > Base /\ Base \in Nat /\ Base > 1
BY TextAssumption DEF Half

\* Division of natural numbers, with its remainder.
LEMMA DivFacts ==
  ASSUME NEW a \in Nat, NEW b \in Nat \ {0}
  PROVE  /\ a \div b \in Nat /\ a \div b <= a
         /\ \E r \in 0 .. b - 1 : a = (a \div b) * b + r
         /\ a \div b > 0 <=> a >= b
<1> PICK q, r : q = a \div b /\ r = a % b
  OBVIOUS
<1>1. q \in Int /\ r \in 0 .. b - 1 /\ a = q * b + r
  BY SMTT(20)
<1>2. ~(q < 0)
  <2> SUFFICES ASSUME q <= -1 PROVE FALSE
    BY <1>1
  <2>1. q * b <= -b
    BY <1>1, SMTT(20)
  <2> QED
    BY <1>1, <2>1
<1>3. q <= q * b
  BY <1>1, <1>2, SMTT(20)
<1>4. q > 0 => q * b >= b
  BY <1>1, SMTT(20)
<1>5. q = 0 => a < b
  BY <1>1
<1> QED
  BY <1>1, <1>2, <1>3, <1>4, <1>5

\* The division of C is that of TLA+ where nothing is below 0.
LEMMA QuotientFacts ==
  ASSUME NEW a \in Nat, NEW b \in Nat \ {0}
  PROVE  Quotient(a, b) = a \div b
<1>1. Sign(b) = 1 /\ (a = 0 => Sign(a) = 0) /\ (a # 0 => Sign(a) = 1)
  BY DEF Sign
<1>2. a \div b \in Nat /\ (a = 0 => a \div b = 0)
  BY DivFacts
<1>3. Quotient(a, b) = Sign(a) * Sign(b) * ((Sign(a) * a) \div (Sign(b) * b))
  BY DEF Quotient
<1>4. Sign(b) * b = b
  BY <1>1
<1>5. CASE a = 0
  <2>1. Sign(a) * a = 0 /\ Sign(a) * Sign(b) = 0
    BY <1>1, <1>5
  <2>2. 0 \div b \in Int
    BY <1>2, <1>5
  <2> QED
    BY <1>2, <1>3, <1>4, <1>5, <2>1, <2>2
<1>6. CASE a # 0
  <2>1. Sign(a) * a = a /\ Sign(a) * Sign(b) = 1
    BY <1>1, <1>6
  <2> QED
    BY <1>2, <1>3, <1>4, <2>1
<1> QED
  BY <1>5, <1>6

\* The division of C makes whole numbers of whole numbers.
LEMMA QuotientInt ==
  ASSUME NEW a \in Int, NEW b \in Int \ {0}
  PROVE  Quotient(a, b) \in Int
<1> PICK x, y : x = Sign(a) * a /\ y = Sign(b) * b
  OBVIOUS
<1>1. x \in Nat /\ y \in Nat \ {0} /\ Sign(a) \in Int /\ Sign(b) \in Int
  BY DEF Sign
<1>2. x \div y \in Int
  BY <1>1, DivFacts
<1>3. Sign(a) * Sign(b) \in Int
  BY DEF Sign
<1>4. Quotient(a, b) = Sign(a) * Sign(b) * (x \div y)
  BY DEF Quotient
<1> QED
  BY <1>2, <1>3, <1>4

\* A number that fits an int32_t is kept, any other becomes one that fits.
LEMMA Int32Facts ==
  ASSUME NEW n \in Int
  PROVE  /\ Int32(n) \in -Half .. Half - 1
         /\ n \in -Half .. Half - 1 => Int32(n) = n
<1> PICK m : m = n % Width
  OBVIOUS
<1>1. Width \in Nat \ {0} /\ Half \in Nat \ {0} /\ Width = 2 * Half
  BY HalfFacts
<1>2. m \in 0 .. Width - 1
  BY <1>1
<1>3. Int32(n) = IF m >= Half THEN m - Width ELSE m
  BY DEF Int32, Half
<1>4. n \in 0 .. Width - 1 => m = n
  BY <1>1, SMTT(20)
<1>5. n \in -Width .. -1 => m = n + Width
  BY <1>1, SMTT(20)
<1> QED
  BY <1>1, <1>2, <1>3, <1>4, <1>5

-----------------------------------------------------------------------------
(***************************************************************************)
(* What the functions of Text compute by turns.                            *)
(***************************************************************************)
IsPower(p) == p = [k \in 0 .. Width |-> IF k = 0 THEN 1 ELSE Int32(p[k - 1] * Base)]

\* What the first loop of printf_putint multiplies up (string.c:154-157).
LEMMA PowerFacts ==
  /\ Power[0] = 1
  /\ \A k \in 1 .. Width : Power[k] = Int32(Power[k - 1] * Base)
  /\ \A k \in 0 .. Width : Power[k] \in -Half .. Half - 1
<1>1. Width \in Nat /\ Base \in Int /\ Half \in Nat /\ Half > 1
  BY HalfFacts
<1>2. \E p : IsPower(p)
  <2> PICK F : F = [k \in 1 .. Width |-> [v \in Int |-> Int32(v * Base)]]
    OBVIOUS
  <2>1. F \in [1 .. Width -> [Int -> Int]]
    <3>1. \A v \in Int : Int32(v * Base) \in Int
      <4> SUFFICES ASSUME NEW v \in Int PROVE Int32(v * Base) \in Int
        OBVIOUS
      <4>1. v * Base \in Int
        BY <1>1
      <4>2. Int32(v * Base) \in -Half .. Half - 1
        BY <4>1, Int32Facts
      <4> QED
        BY <1>1, <4>2
    <3> QED
      BY <3>1
  <2>2. Turns(Int, Width, F)
    BY <2>1 DEF Turns
  <2>3. PICK p : ByTurns(Int, Width, F, 1, p)
    <3> PICK V, x : V = Int /\ x = 1
      OBVIOUS
    <3>1. Width \in Nat /\ Turns(V, Width, F) /\ x \in V
      BY <1>1, <2>2
    <3>2. \E p : ByTurns(V, Width, F, x, p)
      BY ONLY <3>1, TurnsExist
    <3> QED
      BY <3>2
  <2>4. p \in [0 .. Width -> Int] /\ p[0] = 1 /\ \A k \in 1 .. Width : p[k] = F[k][p[k - 1]]
    BY <2>3 DEF ByTurns
  <2>5. \A k \in 1 .. Width : p[k] = Int32(p[k - 1] * Base)
    <3> SUFFICES ASSUME NEW k \in 1 .. Width PROVE p[k] = Int32(p[k - 1] * Base)
      OBVIOUS
    <3>1. k - 1 \in 0 .. Width
      BY <1>1
    <3>2. p[k - 1] \in Int
      BY <2>4, <3>1
    <3> QED
      BY <2>4, <3>2
  <2>6. p = [k \in 0 .. Width |-> IF k = 0 THEN 1 ELSE Int32(p[k - 1] * Base)]
    BY <1>1, <2>4, <2>5
  <2> QED
    BY <2>6 DEF IsPower
<1>3. Power = CHOOSE p : IsPower(p)
  BY Zenon DEF Power, IsPower
<1>4. IsPower(Power)
  BY <1>2, <1>3
<1>5. /\ Power[0] = 1
      /\ \A k \in 1 .. Width : Power[k] = Int32(Power[k - 1] * Base)
  BY <1>1, <1>4 DEF IsPower
<1> DEFINE S == {k \in Nat : k <= Width => Power[k] \in -Half .. Half - 1}
<1>6. 0 \in S
  BY <1>1, <1>5
<1>7. ASSUME NEW k \in Nat, k \in S PROVE k + 1 \in S
  <2> SUFFICES ASSUME k + 1 <= Width PROVE Power[k + 1] \in -Half .. Half - 1
    OBVIOUS
  <2>1. Power[k] * Base \in Int
    BY <1>1, <1>7
  <2>2. Power[k + 1] = Int32(Power[k] * Base)
    BY <1>1, <1>5
  <2> QED
    BY <2>1, <2>2, Int32Facts
<1> HIDE DEF S
<1>8. Nat \subseteq S
  BY <1>6, <1>7, NumbersIn
<1>9. \A k \in 0 .. Width : Power[k] \in -Half .. Half - 1
  BY <1>1, <1>8 DEF S
<1> QED
  BY <1>5, <1>9

\* A turn of the second loop.
After(l) ==
    IF l.f <= 0 THEN l
    ELSE [i |-> Int32(l.i - Quotient(l.i, l.f) * l.f), f |-> Quotient(l.f, Base)]

IsLeft(i, f, left) ==
    left = [k \in 0 .. Width |-> IF k = 0 THEN [i |-> i, f |-> f] ELSE After(left[k - 1])]

\* What its second loop takes off (string.c:162-168).
LEMMA LeftFacts ==
  ASSUME NEW i \in Int, NEW f \in Int
  PROVE  /\ Left(i, f)[0] = [i |-> i, f |-> f]
         /\ \A k \in 1 .. Width : Left(i, f)[k] = After(Left(i, f)[k - 1])
         /\ \A k \in 0 .. Width : Left(i, f)[k] \in [i : Int, f : Int]
<1> PICK V : V = [i : Int, f : Int]
  OBVIOUS
<1>1. Width \in Nat /\ Base \in Int \ {0} /\ Half \in Nat
  BY HalfFacts
<1>2. \A l \in V : After(l) \in V
  <2> SUFFICES ASSUME NEW l \in V PROVE After(l) \in V
    OBVIOUS
  <2>1. CASE l.f <= 0
    BY <2>1 DEF After
  <2>2. CASE ~(l.f <= 0)
    <3>1. l.i \in Int /\ l.f \in Int \ {0}
      BY <2>2
    <3>2. Quotient(l.i, l.f) \in Int /\ Quotient(l.f, Base) \in Int
      BY <1>1, <3>1, QuotientInt
    <3>3. l.i - Quotient(l.i, l.f) * l.f \in Int
      BY <3>1, <3>2
    <3>4. Int32(l.i - Quotient(l.i, l.f) * l.f) \in Int
      BY <1>1, <3>3, Int32Facts
    <3> QED
      BY <2>2, <3>2, <3>4 DEF After
  <2> QED
    BY <2>1, <2>2
<1>3. PICK left \in [0 .. Width -> V] :
        /\ left[0] = [i |-> i, f |-> f]
        /\ \A k \in 1 .. Width : left[k] = After(left[k - 1])
  <2> PICK F, x : F = [k \in 1 .. Width |-> [l \in V |-> After(l)]] /\ x = [i |-> i, f |-> f]
    OBVIOUS
  <2>1. F \in [1 .. Width -> [V -> V]] /\ x \in V
    BY <1>2
  <2>2. Turns(V, Width, F)
    BY <2>1 DEF Turns
  <2>3. PICK left : ByTurns(V, Width, F, x, left)
    BY <1>1, <2>1, <2>2, TurnsExist
  <2>4. /\ left \in [0 .. Width -> V] /\ left[0] = x
        /\ \A k \in 1 .. Width : left[k] = F[k][left[k - 1]]
    BY <2>3 DEF ByTurns
  <2>5. \A k \in 1 .. Width : left[k] = After(left[k - 1])
    <3> SUFFICES ASSUME NEW k \in 1 .. Width PROVE left[k] = After(left[k - 1])
      OBVIOUS
    <3>1. k - 1 \in 0 .. Width
      BY <1>1
    <3>2. left[k - 1] \in V
      BY <2>4, <3>1
    <3> QED
      BY <2>4, <3>2
  <2> QED
    BY <2>4, <2>5
<1>4. IsLeft(i, f, left)
  BY <1>1, <1>3 DEF IsLeft
<1>5. Left(i, f) = CHOOSE l : IsLeft(i, f, l)
  BY Zenon DEF Left, IsLeft, After
<1>6. IsLeft(i, f, Left(i, f))
  BY <1>4, <1>5
<1>7. /\ Left(i, f)[0] = [i |-> i, f |-> f]
      /\ \A k \in 1 .. Width : Left(i, f)[k] = After(Left(i, f)[k - 1])
  BY <1>1, <1>6 DEF IsLeft
<1> DEFINE S == {k \in Nat : k <= Width => Left(i, f)[k] \in V}
<1>8. 0 \in S
  BY <1>7
<1>9. ASSUME NEW k \in Nat, k \in S PROVE k + 1 \in S
  <2> SUFFICES ASSUME k + 1 <= Width PROVE Left(i, f)[k + 1] \in V
    OBVIOUS
  <2>1. Left(i, f)[k + 1] = After(Left(i, f)[k]) /\ Left(i, f)[k] \in V
    BY <1>1, <1>7, <1>9
  <2> QED
    BY <1>2, <2>1
<1> HIDE DEF S
<1>10. Nat \subseteq S
  BY <1>8, <1>9, NumbersIn
<1>11. \A k \in 0 .. Width : Left(i, f)[k] \in V
  BY <1>1, <1>10 DEF S
<1> QED
  BY <1>7, <1>11

IsShifted(u, by) == by = [k \in 0 .. Hex |-> IF k = 0 THEN u ELSE by[k - 1] \div 16]

\* What the loop of printf_puthex shifts out (string.c:132-145).
LEMMA ShiftedFacts ==
  ASSUME NEW u \in Nat
  PROVE  /\ Shifted(u)[0] = u
         /\ \A k \in 1 .. Hex : Shifted(u)[k] = Shifted(u)[k - 1] \div 16
         /\ \A k \in 0 .. Hex : Shifted(u)[k] \in Nat
<1>1. Hex \in Nat
  BY TextAssumption
<1>2. PICK by \in [0 .. Hex -> Nat] :
        by[0] = u /\ \A k \in 1 .. Hex : by[k] = by[k - 1] \div 16
  <2> PICK F : F = [k \in 1 .. Hex |-> [v \in Nat |-> v \div 16]]
    OBVIOUS
  <2>1. F \in [1 .. Hex -> [Nat -> Nat]]
    OBVIOUS
  <2>2. Turns(Nat, Hex, F)
    BY <2>1 DEF Turns
  <2>3. PICK by : ByTurns(Nat, Hex, F, u, by)
    BY <1>1, <2>2, TurnsExist
  <2>4. by \in [0 .. Hex -> Nat] /\ by[0] = u /\ \A k \in 1 .. Hex : by[k] = F[k][by[k - 1]]
    BY <2>3 DEF ByTurns
  <2>5. \A k \in 1 .. Hex : by[k] = by[k - 1] \div 16
    <3> SUFFICES ASSUME NEW k \in 1 .. Hex PROVE by[k] = by[k - 1] \div 16
      OBVIOUS
    <3>1. k - 1 \in 0 .. Hex
      BY <1>1
    <3>2. by[k - 1] \in Nat
      BY <2>4, <3>1
    <3> QED
      BY <2>4, <3>2
  <2> QED
    BY <2>4, <2>5
<1>3. IsShifted(u, by)
  BY <1>1, <1>2 DEF IsShifted
<1>4. Shifted(u) = CHOOSE b : IsShifted(u, b)
  BY Zenon DEF Shifted, IsShifted
<1>5. IsShifted(u, Shifted(u))
  BY <1>3, <1>4
<1>6. /\ Shifted(u)[0] = u
      /\ \A k \in 1 .. Hex : Shifted(u)[k] = Shifted(u)[k - 1] \div 16
  BY <1>1, <1>5 DEF IsShifted
<1> DEFINE S == {k \in Nat : k <= Hex => Shifted(u)[k] \in Nat}
<1>7. 0 \in S
  BY <1>6
<1>8. ASSUME NEW k \in Nat, k \in S PROVE k + 1 \in S
  <2> SUFFICES ASSUME k + 1 <= Hex PROVE Shifted(u)[k + 1] \in Nat
    OBVIOUS
  <2>1. Shifted(u)[k + 1] = Shifted(u)[k] \div 16 /\ Shifted(u)[k] \in Nat
    BY <1>1, <1>6, <1>8
  <2> QED
    BY <2>1
<1> HIDE DEF S
<1>9. Nat \subseteq S
  BY <1>7, <1>8, NumbersIn
<1>10. \A k \in 0 .. Hex : Shifted(u)[k] \in Nat
  BY <1>1, <1>9 DEF S
<1> QED
  BY <1>6, <1>10

\* The value of the first n digits, for every n.
IsValue(d, base, v) ==
    v = [n \in 0 .. Len(d) |-> IF n = 0 THEN 0 ELSE v[n - 1] * base + d[n]]

\* The value of digits is theirs from the left, times the base for each more.
LEMMA ValueFacts ==
  ASSUME NEW d \in Seq(Int), NEW base \in Int
  PROVE  \E v : /\ Value(d, base) = v[Len(d)] /\ v[0] = 0
                /\ \A n \in 1 .. Len(d) : v[n] = v[n - 1] * base + d[n]
<1> PICK N : N = Len(d)
  OBVIOUS
<1>1. N \in Nat /\ \A n \in 1 .. N : d[n] \in Int
  OBVIOUS
<1>2. PICK w \in [0 .. N -> Int] :
        w[0] = 0 /\ \A n \in 1 .. N : w[n] = w[n - 1] * base + d[n]
  <2> PICK F : F = [n \in 1 .. N |-> [v \in Int |-> v * base + d[n]]]
    OBVIOUS
  <2>1. F \in [1 .. N -> [Int -> Int]]
    BY <1>1
  <2>2. Turns(Int, N, F)
    BY <2>1 DEF Turns
  <2>3. PICK w : ByTurns(Int, N, F, 0, w)
    <3> PICK V, x : V = Int /\ x = 0
      OBVIOUS
    <3>1. N \in Nat /\ Turns(V, N, F) /\ x \in V
      BY <1>1, <2>2
    <3>2. \E w : ByTurns(V, N, F, x, w)
      BY ONLY <3>1, TurnsExist
    <3> QED
      BY <3>2
  <2>4. w \in [0 .. N -> Int] /\ w[0] = 0 /\ \A n \in 1 .. N : w[n] = F[n][w[n - 1]]
    BY <2>3 DEF ByTurns
  <2>5. \A n \in 1 .. N : w[n] = w[n - 1] * base + d[n]
    <3> SUFFICES ASSUME NEW n \in 1 .. N PROVE w[n] = w[n - 1] * base + d[n]
      OBVIOUS
    <3>1. n - 1 \in 0 .. N
      BY <1>1
    <3>2. w[n - 1] \in Int
      BY <2>4, <3>1
    <3> QED
      BY <2>4, <3>2
  <2> QED
    BY <2>4, <2>5
<1>3. IsValue(d, base, w)
  BY <1>1, <1>2 DEF IsValue
<1> DEFINE v == CHOOSE x : IsValue(d, base, x)
<1>4. Value(d, base) = v[Len(d)]
  BY Zenon DEF Value, IsValue
<1>5. IsValue(d, base, v)
  BY <1>3
<1> HIDE DEF v
<1>6. PICK x : x = v
  OBVIOUS
<1>7. x = [n \in 0 .. N |-> IF n = 0 THEN 0 ELSE x[n - 1] * base + d[n]]
  BY <1>5, <1>6 DEF IsValue
<1>8. x[0] = 0 /\ \A n \in 1 .. N : x[n] = x[n - 1] * base + d[n]
  BY ONLY <1>1, <1>7
<1> QED
  BY <1>4, <1>6, <1>8

-----------------------------------------------------------------------------
(***************************************************************************)
(* Hexadecimal and decimal digits.                                         *)
(***************************************************************************)
LEMMA PutHexRight ==
  ASSUME NEW u \in 0 .. Width - 1
  PROVE  PutHex(u) \in Seq(Int) /\ Value(PutHex(u), 16) = u
<1> PICK s, d : s = Shifted(u) /\ d = [j \in 1 .. Hex |-> s[Hex - j] % 16]
  OBVIOUS
<1>1. Hex \in Nat /\ Width \in Nat /\ u \in Nat /\ s[Hex] = 0
  BY TextAssumption, HexAssumption
<1>2. /\ s[0] = u
      /\ \A k \in 1 .. Hex : s[k] = s[k - 1] \div 16
      /\ \A k \in 0 .. Hex : s[k] \in Nat
  BY <1>1, ShiftedFacts
<1>3. d \in Seq(Int) /\ Len(d) = Hex
  <2>1. \A j \in 1 .. Hex : s[Hex - j] % 16 \in Int
    BY <1>1, <1>2
  <2> QED
    BY <1>1, <2>1
<1>4. PICK v : /\ Value(d, 16) = v[Hex] /\ v[0] = 0
               /\ \A n \in 1 .. Hex : v[n] = v[n - 1] * 16 + d[n]
  <2> PICK base : base = 16
    OBVIOUS
  <2>1. base \in Int
    OBVIOUS
  <2>2. \E v : /\ Value(d, base) = v[Len(d)] /\ v[0] = 0
                /\ \A n \in 1 .. Len(d) : v[n] = v[n - 1] * base + d[n]
    BY ONLY <1>3, <2>1, ValueFacts
  <2> QED
    BY <1>3, <2>2
<1> DEFINE S == {j \in Nat : j <= Hex => v[j] = s[Hex - j]}
<1>5. 0 \in S
  BY <1>1, <1>4
<1>6. ASSUME NEW j \in Nat, j \in S PROVE j + 1 \in S
  <2> SUFFICES ASSUME j + 1 <= Hex PROVE v[j + 1] = s[Hex - (j + 1)]
    OBVIOUS
  <2> PICK k : k = Hex - (j + 1)
    OBVIOUS
  <2>1. k \in 0 .. Hex /\ k + 1 = Hex - j /\ k + 1 \in 1 .. Hex /\ j + 1 \in 1 .. Hex
    BY <1>1
  <2>2. s[k + 1] = s[k] \div 16 /\ s[k] \in Nat
    BY <1>2, <2>1
  <2>3. v[j + 1] = v[j] * 16 + d[j + 1] /\ d[j + 1] = s[k] % 16
    BY <1>4, <2>1
  <2>4. v[j] = s[k + 1]
    <3>1. v[j] = s[Hex - j]
      BY <1>1, <1>6
    <3> QED
      BY ONLY <2>1, <3>1
  <2>5. v[j + 1] = (s[k] \div 16) * 16 + (s[k] % 16)
    BY <2>2, <2>3, <2>4
  <2>6. v[j + 1] = s[k]
    BY ONLY <2>2, <2>5
  <2> QED
    BY <2>6
<1> HIDE DEF S
<1>7. Hex \in S
  BY <1>1, <1>5, <1>6, NumbersIn
<1>8. v[Hex] = u
  BY <1>1, <1>2, <1>7 DEF S
<1>9. PutHex(u) = d
  BY DEF PutHex
<1> QED
  BY <1>3, <1>4, <1>8, <1>9

\* A product divided by one of its factors.
LEMMA DivOfProduct ==
  ASSUME NEW a \in Nat, NEW b \in Nat \ {0}
  PROVE  (a * b) \div b = a
<1>1. a * b \in Nat
  OBVIOUS
<1> PICK q : q = (a * b) \div b
  OBVIOUS
<1>2. PICK r \in 0 .. b - 1 : a * b = q * b + r /\ q \in Nat
  BY <1>1, DivFacts
<1>3. ~(q < a)
  <2> SUFFICES ASSUME q + 1 <= a PROVE FALSE
    BY <1>2
  <2>1. (q + 1) * b <= a * b
    BY <1>2, SMTT(20)
  <2>2. (q + 1) * b = q * b + b
    BY <1>2, SMTT(20)
  <2> QED
    BY <1>1, <1>2, <2>1, <2>2
<1>4. ~(q > a)
  <2> SUFFICES ASSUME a + 1 <= q PROVE FALSE
    BY <1>2
  <2>1. (a + 1) * b <= q * b
    BY <1>2, SMTT(20)
  <2>2. (a + 1) * b = a * b + b
    BY <1>2, SMTT(20)
  <2> QED
    BY <1>1, <1>2, <2>1, <2>2
<1> QED
  BY <1>2, <1>3, <1>4

\* n with v written and i left, a digit being worth f: before the next digit, and behind it.
Unwritten(n, v, i, f, b) == i < f * b /\ n = v * (f * b) + i
Written(n, v, i, f) == n = v * f + i

\* One digit d is taken from i: what has been written and what is left make n still.
LEMMA OneDigit ==
  ASSUME NEW n \in Nat, NEW v \in Nat, NEW i \in Nat, NEW f \in Nat \ {0},
         NEW b \in Nat \ {0}, Unwritten(n, v, i, f, b)
  PROVE  /\ i \div f \in 0 .. b - 1
         /\ i - (i \div f) * f \in 0 .. f - 1
         /\ Written(n, v * b + (i \div f), i - (i \div f) * f, f)
<1> PICK d : d = i \div f
  OBVIOUS
<1>0. i < f * b /\ n = v * (f * b) + i
  BY DEF Unwritten
<1>1. PICK r \in 0 .. f - 1 : d \in Nat /\ i = d * f + r
  BY DivFacts
<1>2. d * f \in Nat /\ i - d * f = r
  BY <1>1
<1>3. ~(d >= b)
  <2> SUFFICES ASSUME d >= b PROVE FALSE
    OBVIOUS
  <2>1. d * f >= f * b
    BY <1>1, SMTT(20)
  <2> QED
    BY <1>0, <1>1, <1>2, <2>1
<1>4. (v * b + d) * f = v * (f * b) + d * f
  <2> PICK x : x = v * b
    OBVIOUS
  <2>1. x \in Nat /\ d \in Nat /\ f \in Nat
    BY <1>1
  <2>2. (x + d) * f = x * f + d * f
    BY ONLY <2>1, SMTT(20)
  <2>3. (v * b + d) * f = (v * b) * f + d * f
    BY <2>2
  <2>4. (v * b) * f = v * (f * b)
    BY SMTT(20)
  <2> QED
    BY ONLY <2>3, <2>4
<1>5. n = (v * b + d) * f + r
  BY <1>0, <1>1, <1>2, <1>4
<1>6. Written(n, v * b + d, i - d * f, f)
  BY <1>2, <1>5 DEF Written
<1> QED
  BY <1>1, <1>2, <1>3, <1>6

\* The powers in use are those of the base: positive, each Base times the last.
LEMMA PowersGrow ==
  ASSUME NEW m \in 0 .. Width, \A j \in 1 .. m : Power[j] = Power[j - 1] * Base
  PROVE  \A j \in 0 .. m : Power[j] \in 1 .. Half - 1
<1>1. Width \in Nat /\ Base \in Nat \ {0} /\ Half \in Nat
  BY HalfFacts
<1> DEFINE S == {j \in Nat : j <= m => Power[j] \in Nat \ {0}}
<1>2. 0 \in S
  BY PowerFacts
<1>3. ASSUME NEW j \in Nat, j \in S PROVE j + 1 \in S
  <2> SUFFICES ASSUME j + 1 <= m PROVE Power[j + 1] \in Nat \ {0}
    OBVIOUS
  <2> PICK p, q : p = Power[j] /\ q = Power[j + 1]
    OBVIOUS
  <2>1. p \in Nat \ {0}
    BY <1>1, <1>3
  <2>2. q = p * Base
    BY <1>1
  <2>3. q \in Nat \ {0}
    BY ONLY <1>1, <2>1, <2>2, SMTT(20)
  <2> QED
    BY <2>3
<1> HIDE DEF S
<1>4. Nat \subseteq S
  BY <1>2, <1>3, NumbersIn
<1>5. \A j \in 0 .. m : Power[j] \in Nat \ {0}
  BY <1>1, <1>4 DEF S
<1>6. \A j \in 0 .. m : Power[j] \in -Half .. Half - 1
  BY <1>1, PowerFacts
<1> QED
  BY <1>1, <1>5, <1>6

\* The second loop, from a power of T digits: f goes down by a power a turn, i is what is
\* left under it.
Place(T, k) == IF k < T THEN Power[T - 1 - k] * Base ELSE 1

\* Given a power of the base that is more than n / Base, the second loop comes down the
\* powers, and what is left of n stays below the last one.
LEMMA LoopGoes ==
  ASSUME NEW n \in 0 .. Half - 1, NEW T \in 1 .. Width,
         \A j \in 1 .. T - 1 : Power[j] = Power[j - 1] * Base, n < Power[T - 1] * Base,
         NEW left, left = Left(n, Power[T - 1])
  PROVE  \A k \in 0 .. T :
            /\ left[k].f = IF k < T THEN Power[T - 1 - k] ELSE 0
            /\ left[k].i \in 0 .. n /\ left[k].i < Place(T, k)
<1>1. Width \in Nat /\ Base \in Nat \ {0, 1} /\ Half \in Nat /\ T \in Nat \ {0} /\ n \in Nat
  BY HalfFacts
<1>2. \A j \in 0 .. T - 1 : Power[j] \in 1 .. Half - 1
  BY <1>1, PowersGrow
<1>3. Power[T - 1] \in Int /\ n \in Int
  BY <1>1, <1>2
<1>4. /\ left[0] = [i |-> n, f |-> Power[T - 1]]
      /\ \A k \in 1 .. Width : left[k] = After(left[k - 1])
  BY <1>3, LeftFacts
<1> DEFINE Goes(k) == /\ left[k].f = IF k < T THEN Power[T - 1 - k] ELSE 0
                      /\ left[k].i \in 0 .. n /\ left[k].i < Place(T, k)
           S == {k \in Nat : k <= T => Goes(k)}
<1>5. 0 \in S
  BY <1>1, <1>4 DEF Place
<1>6. ASSUME NEW k \in Nat, k \in S PROVE k + 1 \in S
  <2> SUFFICES ASSUME k + 1 <= T PROVE Goes(k + 1)
    OBVIOUS
  <2> PICK l, m, i, f : l = left[k] /\ m = left[k + 1] /\ i = l.i /\ f = l.f
    OBVIOUS
  <2>1. f = Power[T - 1 - k] /\ i \in 0 .. n /\ i < f * Base
    <3>1. k <= T /\ k < T
      BY <1>1
    <3> QED
      BY <1>6, <3>1 DEF Place
  <2>2. f \in 1 .. Half - 1
    BY <1>1, <1>2, <2>1
  <2>3. m = [i |-> Int32(i - Quotient(i, f) * f), f |-> Quotient(f, Base)]
    <3>1. k + 1 \in 1 .. Width
      BY <1>1
    <3>2. m = After(l)
      BY <1>4, <3>1
    <3>3. ~(l.f <= 0)
      BY <1>1, <2>2
    <3> QED
      BY <3>2, <3>3 DEF After
  <2>4. /\ i \in Nat /\ f \in Nat \ {0} /\ Quotient(i, f) = i \div f
        /\ Quotient(f, Base) = f \div Base
    BY <1>1, <2>1, <2>2, QuotientFacts
  <2> PICK d : d = i \div f
    OBVIOUS
  <2>5. PICK r \in 0 .. f - 1 : d \in Nat /\ i = d * f + r
    <3>1. i \in Nat /\ f \in Nat \ {0}
      BY <2>4
    <3>2. i \div f \in Nat /\ \E r \in 0 .. f - 1 : i = (i \div f) * f + r
      BY ONLY <3>1, DivFacts
    <3> QED
      BY <3>2
  <2>6. d * f \in Nat /\ i - d * f = r /\ r <= i /\ r \in Nat
    <3>1. d \in Nat /\ f \in Nat /\ i \in Nat /\ r \in Nat /\ i = d * f + r
      BY ONLY <2>4, <2>5
    <3>2. d * f \in Nat
      BY ONLY <3>1, SMTT(20)
    <3> QED
      BY ONLY <3>1, <3>2
  <2>7. Int32(i - d * f) = r
    <3>1. r \in Int /\ r \in -Half .. Half - 1
      BY ONLY <1>1, <2>1, <2>6
    <3> QED
      BY <2>6, <3>1, Int32Facts
  <2>8. m.i = r /\ m.f = f \div Base
    BY <2>3, <2>4, <2>7
  <2>9. CASE k + 1 < T
    <3> PICK g : g = Power[T - 1 - (k + 1)]
      OBVIOUS
    <3>1. T - 1 - (k + 1) \in 0 .. T - 1 /\ T - 1 - k \in 1 .. T - 1
          /\ (T - 1 - k) - 1 = T - 1 - (k + 1)
      BY <1>1, <2>9
    <3>2. g \in 1 .. Half - 1 /\ f = g * Base
      BY <1>2, <2>1, <3>1
    <3>3. g \in Nat /\ f \div Base = g
      <4>1. g \in Nat /\ Base \in Nat \ {0}
        BY ONLY <1>1, <3>2
      <4>2. (g * Base) \div Base = g
        BY ONLY <4>1, DivOfProduct
      <4> QED
        BY ONLY <3>2, <4>1, <4>2
    <3>4. Place(T, k + 1) = f
      BY <2>9, <3>2 DEF Place
    <3>5. m.f = g /\ m.i \in 0 .. n /\ m.i < Place(T, k + 1)
      <4>1. r \in 0 .. n /\ r < f
        BY ONLY <1>1, <2>1, <2>2, <2>5, <2>6
      <4> QED
        BY ONLY <2>8, <3>3, <3>4, <4>1
    <3> QED
      BY <2>9, <3>5
  <2>10. CASE k + 1 = T
    <3>1. f = 1
      <4>1. T - 1 - k = 0
        BY <1>1, <2>10
      <4> QED
        BY <2>1, <4>1, PowerFacts
    <3>2. f \div Base = 0
      <4>1. f \div Base \in Nat /\ ~(f \div Base > 0)
        BY <1>1, <3>1, DivFacts
      <4> QED
        BY <4>1
    <3>3. Place(T, k + 1) = 1
      BY <2>10 DEF Place
    <3>4. m.f = 0 /\ m.i \in 0 .. n /\ m.i < Place(T, k + 1)
      <4>1. r \in 0 .. n /\ r < f
        BY ONLY <1>1, <2>1, <2>2, <2>5, <2>6
      <4> QED
        BY ONLY <2>8, <3>1, <3>2, <3>3, <4>1
    <3> QED
      BY <1>1, <2>10, <3>4
  <2> QED
    BY <1>1, <2>9, <2>10
<1> HIDE DEF S
<1>7. Nat \subseteq S
  BY <1>5, <1>6, NumbersIn
<1> QED
  BY <1>1, <1>7 DEF S

\* n has no more than T digits, and f is the power of the first of so many.
HasDigits(n, T, f) ==
    /\ f = Power[T - 1] /\ n < f * Base
    /\ \A j \in 1 .. T - 1 : Power[j] = Power[j - 1] * Base

\* How many turns that makes, and the digits they write.
LEMMA DigitsWrite ==
  ASSUME NEW n \in 0 .. Half - 1, NEW T \in 1 .. Width, NEW f, HasDigits(n, T, f)
  PROVE  /\ Digits(n, f) \in Seq(0 .. Base - 1) /\ Len(Digits(n, f)) = T
         /\ Value(Digits(n, f), Base) = n
         /\ Digits(n, f)[1] = n \div f
<1> PICK d : d = Digits(n, f)
  OBVIOUS
<1>f. /\ f = Power[T - 1] /\ d = Digits(n, Power[T - 1]) /\ n < Power[T - 1] * Base
      /\ \A j \in 1 .. T - 1 : Power[j] = Power[j - 1] * Base
  BY DEF HasDigits
<1> PICK left : left = Left(n, Power[T - 1])
  OBVIOUS
<1>1. Width \in Nat /\ Base \in Nat \ {0, 1} /\ Half \in Nat /\ T \in Nat \ {0} /\ n \in Nat
  BY HalfFacts
<1>2. \A k \in 0 .. T :
        /\ left[k].f = IF k < T THEN Power[T - 1 - k] ELSE 0
        /\ left[k].i \in 0 .. n /\ left[k].i < Place(T, k)
  BY <1>f, LoopGoes
<1>3. \A j \in 0 .. T - 1 : Power[j] \in 1 .. Half - 1
  BY <1>1, <1>f, PowersGrow
<1>0. /\ left[0].i = n /\ left[0].f = Power[T - 1]
      /\ \A k \in 1 .. Width : left[k] = After(left[k - 1])
  <2>1. Power[T - 1] \in Int /\ n \in Int
    BY <1>1, <1>3
  <2>2. /\ left[0] = [i |-> n, f |-> Power[T - 1]]
        /\ \A k \in 1 .. Width : left[k] = After(left[k - 1])
    BY <2>1, LeftFacts
  <2> QED
    BY <2>2
<1>4. \A k \in 0 .. T - 1 : left[k].f = Power[T - 1 - k] /\ left[k].f \in Nat \ {0}
  <2> SUFFICES ASSUME NEW k \in 0 .. T - 1
               PROVE left[k].f = Power[T - 1 - k] /\ left[k].f \in Nat \ {0}
    OBVIOUS
  <2>1. k \in 0 .. T /\ k < T /\ T - 1 - k \in 0 .. T - 1
    BY <1>1
  <2>2. left[k].f = Power[T - 1 - k]
    BY <1>2, <2>1
  <2> QED
    BY <1>1, <1>3, <2>1, <2>2
<1>5. left[T].f = 0
  BY <1>1, <1>2
<1>6. Min({k \in 0 .. Width : left[k].f <= 0}) = T
  <2> PICK K : K = {k \in 0 .. Width : left[k].f <= 0}
    OBVIOUS
  <2>1. T \in K /\ K \in SUBSET Nat
    BY <1>1, <1>5
  <2>2. \A k \in K : T <= k
    <3> SUFFICES ASSUME NEW k \in K, k < T PROVE FALSE
      BY <1>1, <2>1
    <3>1. k \in 0 .. T - 1
      BY <1>1, <2>1
    <3>2. left[k].f <= 0 /\ left[k].f \in Nat \ {0}
      BY <1>4, <3>1
    <3> QED
      BY <3>2
  <2>3. Min(K) \in K /\ Min(K) <= T
    BY <2>1, MinIs
  <2> QED
    BY <1>1, <2>1, <2>2, <2>3
<1>7. d = [k \in 1 .. T |-> Quotient(left[k - 1].i, left[k - 1].f)]
  BY <1>6, <1>f DEF Digits
<1>8. \A k \in 1 .. T : d[k] = left[k - 1].i \div left[k - 1].f
  <2> SUFFICES ASSUME NEW k \in 1 .. T PROVE d[k] = left[k - 1].i \div left[k - 1].f
    OBVIOUS
  <2>1. k - 1 \in 0 .. T - 1 /\ k - 1 \in 0 .. T
    BY <1>1
  <2>2. left[k - 1].i \in Nat /\ left[k - 1].f \in Nat \ {0}
    BY <1>1, <1>2, <1>4, <2>1
  <2>3. d[k] = Quotient(left[k - 1].i, left[k - 1].f)
    BY <1>7
  <2> QED
    BY ONLY <2>2, <2>3, QuotientFacts
<1>9. ASSUME NEW k \in 0 .. T - 1, NEW v \in Nat, n = v * Place(T, k) + left[k].i
      PROVE  /\ d[k + 1] \in 0 .. Base - 1
             /\ n = (v * Base + d[k + 1]) * Place(T, k + 1) + left[k + 1].i
  <2> PICK l, m, i, g, c : l = left[k] /\ m = left[k + 1] /\ i = l.i /\ g = l.f /\ c = d[k + 1]
    OBVIOUS
  <2>1. k + 1 \in 1 .. T /\ (k + 1) - 1 = k /\ k \in 0 .. T /\ k + 1 \in 1 .. Width /\ k < T
    BY <1>1
  <2>2. i \in 0 .. n /\ i < Place(T, k) /\ g \in Nat \ {0} /\ g = Power[T - 1 - k]
    BY <1>2, <1>4, <2>1
  <2>3. Place(T, k) = g * Base
    BY <2>1, <2>2 DEF Place
  <2>4. c = i \div g
    BY <1>8, <2>1
  <2>5. c \in 0 .. Base - 1 /\ i - c * g \in 0 .. g - 1 /\ n = (v * Base + c) * g + (i - c * g)
    <3>1. n \in Nat /\ v \in Nat /\ i \in Nat /\ g \in Nat \ {0} /\ Base \in Nat \ {0}
      BY <1>1, <2>2
    <3>2. Unwritten(n, v, i, g, Base)
      BY <1>9, <2>2, <2>3 DEF Unwritten
    <3>3. i \div g \in 0 .. Base - 1
      BY ONLY <3>1, <3>2, OneDigit, Zenon
    <3>4. i - (i \div g) * g \in 0 .. g - 1
      BY ONLY <3>1, <3>2, OneDigit, Zenon
    <3>5. Written(n, v * Base + (i \div g), i - (i \div g) * g, g)
      BY ONLY <3>1, <3>2, OneDigit, Zenon
    <3> QED
      BY ONLY <2>4, <3>3, <3>4, <3>5, Zenon DEF Written
  <2>6. m.i = i - c * g
    <3>2. m = After(l)
      BY <1>0, <2>1
    <3>3. m.i = Int32(i - Quotient(i, g) * g)
      BY <2>2, <3>2 DEF After
    <3>4. Quotient(i, g) = c
      <4>1. i \in Nat /\ g \in Nat \ {0}
        BY <1>1, <2>2
      <4> QED
        BY ONLY <2>4, <4>1, QuotientFacts
    <3>5. i - c * g \in Int /\ i - c * g \in -Half .. Half - 1
      <4> PICK r : r = i - c * g
        OBVIOUS
      <4>1. r \in 0 .. g - 1
        BY <2>5
      <4>2. T - 1 - k \in 0 .. T - 1
        BY <1>1
      <4>3. g \in 1 .. Half - 1
        BY <1>3, <2>2, <4>2
      <4>4. r \in Int /\ r \in -Half .. Half - 1
        BY ONLY <1>1, <4>1, <4>3
      <4> QED
        BY <4>4
    <3> QED
      BY <3>3, <3>4, <3>5, Int32Facts
  <2>7. Place(T, k + 1) = g
    <3>1. CASE k + 1 < T
      <4>1. /\ T - 1 - k \in 1 .. T - 1 /\ (T - 1 - k) - 1 = T - 1 - (k + 1)
        BY <1>1, <3>1
      <4>2. g = Power[T - 1 - (k + 1)] * Base
        BY <1>f, <2>2, <4>1
      <4> QED
        BY <3>1, <4>2 DEF Place
    <3>2. CASE k + 1 = T
      <4>1. T - 1 - k = 0
        BY <1>1, <3>2
      <4> QED
        BY <2>2, <3>2, <4>1, PowerFacts DEF Place
    <3> QED
      BY <2>1, <3>1, <3>2
  <2> QED
    BY <2>5, <2>6, <2>7
<1>10. d \in Seq(Int) /\ Len(d) = T
  <2>1. \A k \in 1 .. T : Quotient(left[k - 1].i, left[k - 1].f) \in Int
    <3> SUFFICES ASSUME NEW k \in 1 .. T PROVE Quotient(left[k - 1].i, left[k - 1].f) \in Int
      OBVIOUS
    <3>1. k - 1 \in 0 .. T - 1 /\ k - 1 \in 0 .. T
      BY <1>1
    <3>2. left[k - 1].i \in Int /\ left[k - 1].f \in Int \ {0}
      BY <1>1, <1>2, <1>4, <3>1
    <3> QED
      BY ONLY <3>2, QuotientInt
  <2> QED
    BY <1>1, <1>7, <2>1
<1>11. PICK v : /\ Value(d, Base) = v[T] /\ v[0] = 0
                /\ \A k \in 1 .. T : v[k] = v[k - 1] * Base + d[k]
  <2>1. Base \in Int
    BY <1>1
  <2>2. \E v : /\ Value(d, Base) = v[Len(d)] /\ v[0] = 0
                /\ \A k \in 1 .. Len(d) : v[k] = v[k - 1] * Base + d[k]
    BY ONLY <1>10, <2>1, ValueFacts
  <2> QED
    BY ONLY <1>10, <2>2
<1> DEFINE S == {k \in Nat : k <= T => v[k] \in Nat /\ n = v[k] * Place(T, k) + left[k].i}
<1>12. 0 \in S
  <2>2. Place(T, 0) \in Nat
    <3>1. 0 < T /\ T - 1 - 0 = T - 1
      BY <1>1
    <3>2. Power[T - 1] \in Nat
      BY <1>1, <1>3
    <3> QED
      BY <1>1, <3>1, <3>2 DEF Place
  <2> QED
    BY <1>0, <1>1, <1>11, <2>2
<1>13. ASSUME NEW k \in Nat, k \in S PROVE k + 1 \in S
  <2> SUFFICES ASSUME k + 1 <= T
               PROVE v[k + 1] \in Nat /\ n = v[k + 1] * Place(T, k + 1) + left[k + 1].i
    OBVIOUS
  <2>1. k \in 0 .. T - 1 /\ k + 1 \in 1 .. T /\ (k + 1) - 1 = k /\ k <= T
    BY <1>1
  <2> PICK x : x = v[k]
    OBVIOUS
  <2>2. x \in Nat /\ n = x * Place(T, k) + left[k].i
    BY <1>13, <2>1
  <2>3. /\ d[k + 1] \in 0 .. Base - 1
        /\ n = (x * Base + d[k + 1]) * Place(T, k + 1) + left[k + 1].i
    BY <1>9, <2>1, <2>2
  <2>4. v[k + 1] = x * Base + d[k + 1]
    BY <1>11, <2>1
  <2>5. x * Base \in Nat /\ d[k + 1] \in Nat
    BY <1>1, <2>2, <2>3
  <2> QED
    BY ONLY <2>3, <2>4, <2>5
<1> HIDE DEF S
<1>14. \A k \in 0 .. T : v[k] \in Nat /\ n = v[k] * Place(T, k) + left[k].i
  <2>1. Nat \subseteq S
    BY <1>12, <1>13, NumbersIn
  <2> QED
    BY <1>1, <2>1 DEF S
<1>15. v[T] = n
  <2>1. Place(T, T) = 1 /\ T \in 0 .. T
    BY <1>1 DEF Place
  <2>2. left[T].i = 0
    BY <1>1, <1>2, <2>1
  <2> QED
    BY <1>1, <1>14, <2>1, <2>2
<1>16. \A k \in 1 .. T : d[k] \in 0 .. Base - 1
  <2> SUFFICES ASSUME NEW k \in 1 .. T PROVE d[k] \in 0 .. Base - 1
    OBVIOUS
  <2>1. k - 1 \in 0 .. T - 1 /\ (k - 1) + 1 = k /\ k - 1 \in 0 .. T
    BY <1>1
  <2>2. v[k - 1] \in Nat /\ n = v[k - 1] * Place(T, k - 1) + left[k - 1].i
    BY <1>14, <2>1
  <2>3. d[(k - 1) + 1] \in 0 .. Base - 1
    BY <1>9, <2>1, <2>2
  <2> QED
    BY <2>1, <2>3
<1>17. d \in Seq(0 .. Base - 1)
  <2> PICK B : B = 0 .. Base - 1
    OBVIOUS
  <2>1. d \in [1 .. T -> B]
    BY <1>7, <1>16
  <2>2. d \in Seq(B)
    BY <1>1, <2>1, SeqDef
  <2> QED
    BY <2>2
<1>18. d[1] = n \div Power[T - 1]
  <2>1. 1 \in 1 .. T /\ 1 - 1 = 0
    BY <1>1
  <2> QED
    BY <1>0, <1>8, <2>1
<1> QED
  BY <1>f, <1>10, <1>11, <1>15, <1>17, <1>18

-----------------------------------------------------------------------------
(***************************************************************************)
(* The numbers printf prints.                                              *)
(***************************************************************************)
\* The division of C keeps the sign when it divides by the base.
LEMMA QuotientSign ==
  ASSUME NEW a \in Int, NEW b \in Int \ {0}
  PROVE  /\ Quotient(a, b) \in Int
         /\ a >= 0 /\ b < 0 => Quotient(a, b) <= 0
         /\ a < 0 /\ b > 0 => Quotient(a, b) <= 0
<1> PICK x, y, q, s : /\ x = Sign(a) * a /\ y = Sign(b) * b /\ q = x \div y
                      /\ s = Sign(a) * Sign(b)
  OBVIOUS
<1>1. x \in Nat /\ y \in Nat \ {0}
  BY DEF Sign
<1>2. q \in Nat
  BY <1>1, DivFacts
<1>3. Quotient(a, b) = s * q
  BY DEF Quotient
<1>4. Quotient(a, b) \in Int
  BY QuotientInt
<1>5. /\ a >= 0 /\ b < 0 => s \in {0, -1}
      /\ a < 0 /\ b > 0 => s \in {0, -1}
  BY DEF Sign
<1>6. s \in {0, -1} => Quotient(a, b) <= 0
  BY ONLY <1>2, <1>3
<1> QED
  BY ONLY <1>4, <1>5, <1>6

\* The first loop ends at the first power that is not below i.
LEMMA PowerAboveIs ==
  ASSUME NEW i \in -Half .. Half - 1
  PROVE  \E k \in 0 .. Width :
            /\ PowerAbove(i) = Power[k] /\ ~AbovePower(i, Power[k])
            /\ \A j \in 0 .. k - 1 : AbovePower(i, Power[j])
<1> PICK K : K = {k \in 0 .. Width : ~AbovePower(i, Power[k])}
  OBVIOUS
<1>1. Width \in Nat /\ Half \in Nat /\ i \in Int
  BY HalfFacts
<1>2. \A k \in 0 .. Width : Power[k] \in Int
  BY <1>1, PowerFacts
<1>3. K # {}
  <2>1. CASE i >= 0
    <3>1. PICK k \in 0 .. Width : Power[k] <= 0
      BY PowerAssumption
    <3>2. Power[k] # 0 => Quotient(i, Power[k]) <= 0 /\ Quotient(i, Power[k]) \in Int
      <4> SUFFICES ASSUME Power[k] # 0
                   PROVE Quotient(i, Power[k]) <= 0 /\ Quotient(i, Power[k]) \in Int
        OBVIOUS
      <4> PICK p : p = Power[k]
        OBVIOUS
      <4>1. i \in Int /\ p \in Int \ {0} /\ i >= 0 /\ p < 0
        BY <1>1, <1>2, <2>1, <3>1
      <4>2. Quotient(i, p) <= 0 /\ Quotient(i, p) \in Int
        BY ONLY <4>1, QuotientSign
      <4> QED
        BY <4>2
    <3> QED
      BY <3>2 DEF AbovePower
  <2>2. CASE i < 0
    <3>1. Power[0] = 1 /\ 0 \in 0 .. Width
      BY <1>1, PowerFacts
    <3>2. Quotient(i, Power[0]) <= 0 /\ Quotient(i, Power[0]) \in Int
      <4> PICK one : one = Power[0]
        OBVIOUS
      <4>1. one \in Int \ {0} /\ (i < 0 /\ one > 0)
        BY <2>2, <3>1
      <4>2. Quotient(i, one) <= 0 /\ Quotient(i, one) \in Int
        BY ONLY <1>1, <4>1, QuotientSign, QuotientInt
      <4> QED
        BY <4>2
    <3> QED
      BY <3>1, <3>2 DEF AbovePower
  <2> QED
    BY <1>1, <2>1, <2>2
<1>4. K \in SUBSET Nat
  BY <1>1
<1> PICK k : k = Min(K)
  OBVIOUS
<1>5. k \in K /\ \A j \in K : k <= j
  BY <1>3, <1>4, MinIs
<1>6. PowerAbove(i) = Power[k]
  BY DEF PowerAbove
<1>7. \A j \in 0 .. k - 1 : AbovePower(i, Power[j])
  BY <1>1, <1>5
<1> QED
  BY <1>5, <1>6, <1>7

\* The second loop ends, whatever it is given: f becomes smaller every turn.
LEMMA DigitsType ==
  ASSUME NEW i \in Int, NEW f \in Int, f <= Width
  PROVE  Digits(i, f) \in Seq(Int)
<1> PICK left, K : left = Left(i, f) /\ K = {k \in 0 .. Width : left[k].f <= 0}
  OBVIOUS
<1>1. Width \in Nat /\ Base \in Nat \ {0, 1}
  BY HalfFacts
<1>2. /\ left[0] = [i |-> i, f |-> f]
      /\ \A k \in 1 .. Width : left[k] = After(left[k - 1])
      /\ \A k \in 0 .. Width : left[k] \in [i : Int, f : Int]
  BY LeftFacts
<1> DEFINE S == {k \in Nat : k <= Width => left[k].f <= 0 \/ left[k].f <= Width - k}
<1>3. 0 \in S
  BY <1>1, <1>2
<1>4. ASSUME NEW k \in Nat, k \in S PROVE k + 1 \in S
  <2> SUFFICES ASSUME k + 1 <= Width
               PROVE left[k + 1].f <= 0 \/ left[k + 1].f <= Width - (k + 1)
    OBVIOUS
  <2> PICK l, m, g : l = left[k] /\ m = left[k + 1] /\ g = l.f
    OBVIOUS
  <2>1. k \in 0 .. Width /\ k + 1 \in 1 .. Width /\ (k + 1) - 1 = k
    BY <1>1
  <2>2. m = After(l) /\ g \in Int
    BY <1>2, <2>1
  <2>3. g <= 0 \/ g <= Width - k
    BY <1>4, <2>1
  <2>4. CASE g <= 0
    <3>1. m = l
      BY <2>2, <2>4 DEF After
    <3> QED
      BY <2>4, <3>1
  <2>5. CASE ~(g <= 0)
    <3>1. m.f = Quotient(g, Base)
      BY <2>2, <2>5 DEF After
    <3>2. g \in Nat \ {0} /\ Base \in Nat \ {0}
      BY <1>1, <2>2, <2>5
    <3>3. Quotient(g, Base) = g \div Base
      BY <3>2, QuotientFacts
    <3> PICK q : q = g \div Base
      OBVIOUS
    <3>4. PICK r \in 0 .. Base - 1 : q \in Nat /\ g = q * Base + r
      <4>1. /\ g \div Base \in Nat
            /\ \E r \in 0 .. Base - 1 : g = (g \div Base) * Base + r
        BY ONLY <3>2, DivFacts
      <4> QED
        BY <4>1
    <3>5. q * Base >= q + q /\ q * Base \in Nat
      BY ONLY <1>1, <3>4, SMTT(20)
    <3>6. q <= g - 1
      BY ONLY <1>1, <3>2, <3>4, <3>5
    <3>7. q <= Width - (k + 1)
      BY ONLY <1>1, <2>1, <2>3, <2>5, <3>2, <3>4, <3>6
    <3> QED
      BY <3>1, <3>3, <3>7
  <2> QED
    BY <2>4, <2>5
<1> HIDE DEF S
<1>5. Width \in S
  BY <1>1, <1>3, <1>4, NumbersIn
<1>6. left[Width].f <= 0
  <2>1. left[Width].f <= 0 \/ left[Width].f <= Width - Width
    BY <1>5 DEF S
  <2> QED
    BY <1>1, <2>1
<1>7. Width \in K /\ K \in SUBSET Nat
  BY <1>1, <1>6
<1> PICK t : t = Min(K)
  OBVIOUS
<1>8. t \in K /\ \A k \in K : t <= k
  BY <1>7, MinIs
<1>9. \A k \in 1 .. t : Quotient(left[k - 1].i, left[k - 1].f) \in Int
  <2> SUFFICES ASSUME NEW k \in 1 .. t PROVE Quotient(left[k - 1].i, left[k - 1].f) \in Int
    OBVIOUS
  <2>1. k - 1 \in 0 .. Width /\ k - 1 \notin K
    <3>1. t \in 0 .. Width /\ k \in 1 .. t
      BY <1>8
    <3>2. k - 1 \in 0 .. Width /\ k - 1 < t
      BY ONLY <1>1, <3>1
    <3> QED
      BY <1>1, <1>8, <3>1, <3>2
  <2>2. left[k - 1] \in [i : Int, f : Int] /\ ~(left[k - 1].f <= 0)
    BY <1>2, <2>1
  <2>3. left[k - 1].i \in Int /\ left[k - 1].f \in Int \ {0}
    BY <2>2
  <2> QED
    BY <2>3, QuotientInt
<1>10. Digits(i, f) = [k \in 1 .. t |-> Quotient(left[k - 1].i, left[k - 1].f)]
  BY DEF Digits
<1>11. t \in Nat
  BY <1>1, <1>8
<1>12. Digits(i, f) \in [1 .. t -> Int]
  BY ONLY <1>9, <1>10
<1> QED
  BY ONLY <1>11, <1>12

\* printf_putint writes characters only, whatever it is given.
LEMMA PutIntType ==
  ASSUME NEW i \in -Half .. Half - 1
  PROVE  PutInt(i) \in Seq(Int)
<1>1. Width \in Nat \ {0} /\ Half \in Nat /\ i \in Int /\ Base \in Nat \ {0} /\ Half <= Width
  BY HalfFacts
<1> PICK n, p, f, g : /\ n = IF i < 0 THEN Int32(-i) ELSE i
                      /\ p = PowerAbove(n) /\ f = Quotient(p, Base)
                      /\ g = IF f = 0 THEN 1 ELSE f
  OBVIOUS
<1>2. n \in -Half .. Half - 1
  <2>1. -i \in Int
    BY <1>1
  <2>2. Int32(-i) \in -Half .. Half - 1
    BY <2>1, Int32Facts
  <2> QED
    BY <2>2
<1>3. p \in -Half .. Half - 1
  <2>1. \E k \in 0 .. Width : PowerAbove(n) = Power[k]
    BY <1>2, PowerAboveIs
  <2> QED
    BY <2>1, PowerFacts
<1>4. f \in Int /\ f <= Width
  <2>1. CASE p >= 0
    <3>1. p \in Nat
      BY <1>1, <1>3, <2>1
    <3>2. f = p \div Base
      BY <1>1, <3>1, QuotientFacts
    <3>3. p \div Base \in Nat /\ p \div Base <= p
      BY <1>1, <3>1, DivFacts
    <3> QED
      BY <1>1, <1>3, <3>2, <3>3
  <2>2. CASE p < 0
    <3>1. p \in Int /\ Base \in Int \ {0} /\ p < 0 /\ Base > 0
      BY <1>1, <1>3, <2>2
    <3>2. Quotient(p, Base) \in Int /\ Quotient(p, Base) <= 0
      BY <3>1, QuotientInt, QuotientSign
    <3> QED
      BY <1>1, <3>2
  <2> QED
    BY <1>1, <1>3, <2>1, <2>2
<1>5. g \in Int /\ g <= Width
  BY <1>1, <1>4
<1>6. Digits(n, g) \in Seq(Int)
  <2>1. n \in Int
    BY <1>1, <1>2
  <2> QED
    BY ONLY <1>5, <2>1, DigitsType
<1>7. PutInt(i) = (IF i < 0 THEN <<Hyphen>> ELSE <<>>) \o Digits(n, g)
  BY DEF PutInt
<1>8. (IF i < 0 THEN <<Hyphen>> ELSE <<>>) \in Seq(Int)
  BY DEF Hyphen
<1> QED
  BY <1>6, <1>7, <1>8, ConcatProperties

\* A number whose power is there to be found is written in its digits.
LEMMA PutIntRight ==
  ASSUME NEW i \in -Half .. Half - 1, NEW n, n = IF i < 0 THEN -i ELSE i, Fits(n)
  PROVE  \E d \in Seq(0 .. Base - 1) :
            /\ PutInt(i) = IF i < 0 THEN <<Hyphen>> \o d ELSE d
            /\ Len(d) \in Nat \ {0} /\ Value(d, Base) = n
            /\ d[1] = 0 => Len(d) = 1
<1>1. /\ Width \in Nat \ {0} /\ Half \in Nat /\ Base \in Nat \ {0, 1} /\ i \in Int /\ n \in Nat
      /\ Base < Half
  BY HalfFacts
<1>2. PICK m \in 0 .. Width :
        n < Power[m] /\ \A j \in 1 .. m : Power[j] = Power[j - 1] * Base
  BY DEF Fits
<1>3. \A j \in 0 .. m : Power[j] \in 1 .. Half - 1
  BY <1>2, PowersGrow
<1>4. n \in 0 .. Half - 1
  <2>1. Power[m] \in 1 .. Half - 1
    BY <1>1, <1>3
  <2> QED
    BY <1>1, <1>2, <2>1
<1>5. (IF i < 0 THEN Int32(-i) ELSE i) = n
  <2>1. CASE i < 0
    <3>1. -i \in Int /\ -i \in -Half .. Half - 1 /\ n = -i
      BY <1>1, <1>4, <2>1
    <3> QED
      BY <2>1, <3>1, Int32Facts
  <2>2. CASE ~(i < 0)
    BY <2>2
  <2> QED
    BY <2>1, <2>2
<1>6. PICK t \in 0 .. Width :
        /\ PowerAbove(n) = Power[t] /\ ~AbovePower(n, Power[t])
        /\ \A j \in 0 .. t - 1 : AbovePower(n, Power[j])
  <2>1. n \in -Half .. Half - 1
    BY <1>1, <1>4
  <2> QED
    BY <2>1, PowerAboveIs
<1>7. \A j \in 0 .. m : AbovePower(n, Power[j]) <=> n >= Power[j]
  <2> SUFFICES ASSUME NEW j \in 0 .. m PROVE AbovePower(n, Power[j]) <=> n >= Power[j]
    OBVIOUS
  <2> PICK p : p = Power[j]
    OBVIOUS
  <2>1. p \in Nat \ {0}
    BY <1>1, <1>3
  <2>2. Quotient(n, p) = n \div p /\ (n \div p > 0 <=> n >= p)
    BY ONLY <1>1, <2>1, QuotientFacts, DivFacts
  <2> QED
    BY <2>1, <2>2 DEF AbovePower
<1>8. t <= m
  <2> SUFFICES ASSUME t > m PROVE FALSE
    BY <1>1
  <2>1. m \in 0 .. t - 1 /\ m \in 0 .. m
    BY <1>1
  <2>2. n >= Power[m]
    BY <1>6, <1>7, <2>1
  <2>3. Power[m] \in 1 .. Half - 1
    BY <1>3, <2>1
  <2> QED
    BY <1>1, <1>2, <2>2, <2>3
<1> PICK T, f : T = (IF t = 0 THEN 1 ELSE t) /\ f = Power[T - 1]
  OBVIOUS
<1>9. T \in 1 .. Width /\ T - 1 \in 0 .. m /\ t \in 0 .. m
  BY <1>1, <1>8
<1>10. f \in 1 .. Half - 1 /\ n < Power[t]
  <2>1. Power[t] \in 1 .. Half - 1
    BY <1>3, <1>9
  <2> QED
    BY <1>1, <1>3, <1>6, <1>7, <1>9, <2>1
<1>11. /\ Quotient(Power[t], Base) = IF t = 0 THEN 0 ELSE f
       /\ n < f * Base
  <2>1. CASE t = 0
    <3>1. Power[t] = 1 /\ f = 1
      BY <2>1, PowerFacts
    <3>2. Quotient(1, Base) = 1 \div Base
      BY <1>1, QuotientFacts
    <3>3. 1 \div Base \in Nat /\ ~(1 \div Base > 0)
      BY <1>1, DivFacts
    <3>4. n < 1 * Base
      BY <1>1, <1>10, <3>1
    <3> QED
      BY <2>1, <3>1, <3>2, <3>3, <3>4
  <2>2. CASE t # 0
    <3>1. t \in 1 .. m /\ T - 1 = t - 1
      BY <1>1, <1>9, <2>2
    <3>2. Power[t] = f * Base
      BY <1>2, <3>1
    <3>3. f \in Nat /\ f * Base \in Nat /\ Base \in Nat \ {0}
      BY <1>1, <1>10
    <3>4. Quotient(f * Base, Base) = (f * Base) \div Base
      BY <3>3, QuotientFacts
    <3>5. (f * Base) \div Base = f
      BY <3>3, DivOfProduct
    <3> QED
      BY <1>10, <2>2, <3>2, <3>4, <3>5
  <2> QED
    BY <2>1, <2>2
<1> PICK d : d = Digits(n, f)
  OBVIOUS
<1>12. /\ d \in Seq(0 .. Base - 1) /\ Len(d) = T
       /\ Value(d, Base) = n
       /\ d[1] = n \div f
  <2>1. \A j \in 1 .. T - 1 : Power[j] = Power[j - 1] * Base
    <3>1. \A j \in 1 .. T - 1 : j \in 1 .. m
      BY <1>1, <1>9
    <3> QED
      BY <1>2, <3>1
  <2>2. HasDigits(n, T, f)
    BY <1>11, <2>1 DEF HasDigits
  <2>3. n \in 0 .. Half - 1 /\ T \in 1 .. Width
    BY <1>4, <1>9
  <2>4. /\ Digits(n, f) \in Seq(0 .. Base - 1) /\ Len(Digits(n, f)) = T
        /\ Value(Digits(n, f), Base) = n
        /\ Digits(n, f)[1] = n \div f
    BY ONLY <2>2, <2>3, DigitsWrite
  <2> QED
    BY <2>4
<1>13. d[1] = 0 => Len(d) = 1
  <2> SUFFICES ASSUME T # 1 PROVE d[1] # 0
    BY <1>12
  <2>1. t \in 1 .. m /\ T - 1 = t - 1 /\ t - 1 \in 0 .. t - 1 /\ t - 1 \in 0 .. m
    BY <1>1, <1>9
  <2>2. n >= f
    BY <1>6, <1>7, <2>1
  <2>3. f \in Nat \ {0}
    BY <1>1, <1>10
  <2>4. n \div f > 0
    BY <1>1, <2>2, <2>3, DivFacts
  <2> QED
    BY <1>12, <2>4
<1>14. PutInt(i) = (IF i < 0 THEN <<Hyphen>> ELSE <<>>) \o d
  <2>1. (IF Quotient(PowerAbove(n), Base) = 0 THEN 1 ELSE Quotient(PowerAbove(n), Base)) = f
    <3>1. CASE t = 0
      <4>1. f = 1
        BY <3>1, PowerFacts
      <4> QED
        BY <1>6, <1>11, <3>1, <4>1
    <3>2. CASE t # 0
      BY <1>1, <1>6, <1>10, <1>11, <3>2
    <3> QED
      BY <3>1, <3>2
  <2> QED
    BY <1>5, <2>1 DEF PutInt
<1>15. <<>> \o d = d
  BY <1>12
<1>16. PutInt(i) = IF i < 0 THEN <<Hyphen>> \o d ELSE d
  BY <1>14, <1>15
<1>17. Len(d) \in Nat \ {0}
  BY <1>1, <1>9, <1>12
<1> QED
  BY <1>12, <1>13, <1>16, <1>17

\* The pieces put together, up to each.
IsFlat(s, f) == f = [i \in 1 .. Len(s) |-> IF i = 1 THEN s[i] ELSE f[i - 1] \o s[i]]

\* printf, of a number with a character behind it and a % at the end.
LEMMA PrintfWrites ==
  ASSUME NEW conversion \in {"d", "x"}, NEW n, NEW x \in Seq(Int), x = Piece(<<conversion, n>>)
  PROVE  Printf(<<<<conversion, n>>, <<"char", Mark>>, <<"end">>>>) = x \o <<Mark>>
<1> PICK format : format = <<<<conversion, n>>, <<"char", Mark>>, <<"end">>>>
  OBVIOUS
<1>1. /\ Len(format) = 3 /\ format[1] = <<conversion, n>> /\ format[2] = <<"char", Mark>>
      /\ format[3] = <<"end">>
  OBVIOUS
<1> PICK ends, shown : /\ ends = {i \in 1 .. Len(format) : format[i][1] = "end"}
                       /\ shown = IF ends = {} THEN format ELSE SubSeq(format, 1, Min(ends) - 1)
  OBVIOUS
<1>x. x = Piece(<<conversion, n>>)
  OBVIOUS
<1>2. ends = {3}
  <2>1. format[1][1] # "end" /\ format[2][1] # "end" /\ format[3][1] = "end"
    BY <1>1
  <2> QED
    BY <1>1, <2>1
<1>3. Min(ends) = 3
  <2>1. ends \in SUBSET Nat /\ ends # {}
    BY <1>2
  <2>2. Min(ends) \in ends
    BY <2>1, MinIs
  <2> QED
    BY <1>2, <2>2
<1>4. shown = SubSeq(format, 1, 2)
  <2>1. Min(ends) - 1 = 2
    BY <1>3
  <2> QED
    BY <1>2, <2>1
<1>5. Len(shown) = 2 /\ shown[1] = format[1] /\ shown[2] = format[2]
  <2> PICK S, a, b : S = {format[1], format[2]} /\ a = 1 /\ b = 2
    OBVIOUS
  <2>1. a \in Int /\ b \in Int /\ \A i \in a .. b : format[i] \in S
    OBVIOUS
  <2>2. /\ Len(SubSeq(format, a, b)) = IF a <= b THEN b - a + 1 ELSE 0
        /\ \A i \in 1 .. b - a + 1 : SubSeq(format, a, b)[i] = format[a + i - 1]
    BY ONLY <2>1, SubSeqProperties
  <2>3. a = 1 /\ b = 2 /\ b - a + 1 = 2 /\ a + 1 - 1 = 1 /\ a + 2 - 1 = 2
    OBVIOUS
  <2>4. 1 \in 1 .. b - a + 1 /\ 2 \in 1 .. b - a + 1
    BY <2>3
  <2>5. SubSeq(format, a, b)[1] = format[1] /\ SubSeq(format, a, b)[2] = format[2]
    BY <2>2, <2>3, <2>4
  <2>6. Len(SubSeq(format, a, b)) = 2
    BY <2>2, <2>3
  <2> QED
    BY <1>4, <2>3, <2>5, <2>6
<1>6. Piece(<<"char", Mark>>) = <<Mark>>
  BY DEF Piece
<1> PICK s : s = [i \in 1 .. Len(shown) |-> Piece(shown[i])]
  OBVIOUS
<1>7. Len(s) = 2 /\ s[1] = x /\ s[2] = <<Mark>>
  <2>1. s = [i \in 1 .. 2 |-> Piece(shown[i])]
    BY <1>5
  <2>2. s[1] = Piece(shown[1]) /\ s[2] = Piece(shown[2])
    BY ONLY <2>1
  <2>3. Len(s) = 2
    BY ONLY <2>1
  <2> QED
    BY ONLY <1>1, <1>5, <1>6, <1>x, <2>2, <2>3
<1> DEFINE flat == CHOOSE f : IsFlat(s, f)
<1>8. FlattenSeq(s) = flat[Len(s)]
  <2>1. FlattenSeq(s) = IF Len(s) = 0 THEN s ELSE flat[Len(s)]
    BY Zenon DEF FlattenSeq, IsFlat
  <2>2. Len(s) # 0
    BY ONLY <1>7
  <2> QED
    BY ONLY <2>1, <2>2, Zenon
<1>9. IsFlat(s, flat)
  <2> PICK g : g = [i \in 1 .. 2 |-> IF i = 1 THEN x ELSE x \o <<Mark>>]
    OBVIOUS
  <2>1. \A i \in 1 .. 2 : g[i] = IF i = 1 THEN s[i] ELSE g[i - 1] \o s[i]
    <3> SUFFICES ASSUME NEW i \in 1 .. 2 PROVE g[i] = IF i = 1 THEN s[i] ELSE g[i - 1] \o s[i]
      OBVIOUS
    <3>1. CASE i = 1
      BY <1>7, <3>1
    <3>2. CASE i = 2
      <4>1. i - 1 = 1 /\ i # 1
        BY <3>2
      <4>2. g[1] = x /\ g[2] = x \o <<Mark>>
        OBVIOUS
      <4>3. g[i] = g[i - 1] \o s[i]
        BY ONLY <1>7, <3>2, <4>1, <4>2
      <4> QED
        BY ONLY <4>1, <4>3, Zenon
    <3>3. i = 1 \/ i = 2
      OBVIOUS
    <3> QED
      BY ONLY <3>1, <3>2, <3>3, Zenon
  <2>2. 1 .. Len(s) = 1 .. 2
    BY <1>7
  <2>3. g = [i \in 1 .. 2 |-> IF i = 1 THEN s[i] ELSE g[i - 1] \o s[i]]
    BY ONLY <2>1, g = [i \in 1 .. 2 |-> IF i = 1 THEN x ELSE x \o <<Mark>>]
  <2>4. IsFlat(s, g)
    BY <2>2, <2>3 DEF IsFlat
  <2> QED
    BY <2>4
<1> HIDE DEF flat
<1>10. flat[1] = x /\ flat[2] = x \o <<Mark>>
  <2> PICK f : f = flat
    OBVIOUS
  <2>1. f = [i \in 1 .. 2 |-> IF i = 1 THEN s[i] ELSE f[i - 1] \o s[i]]
    BY <1>7, <1>9 DEF IsFlat
  <2>2. \A i \in 1 .. 2 : f[i] = IF i = 1 THEN s[i] ELSE f[i - 1] \o s[i]
    BY ONLY <2>1
  <2>3. f[1] = s[1]
    BY ONLY <2>2
  <2>4. f[2] = f[1] \o s[2]
    <3> PICK k : k = 2
      OBVIOUS
    <3>1. k \in 1 .. 2 /\ k # 1 /\ k - 1 = 1 /\ k = 2
      OBVIOUS
    <3>2. f[k] = f[k - 1] \o s[k]
      BY ONLY <2>2, <3>1
    <3> QED
      BY ONLY <3>1, <3>2
  <2> QED
    BY <1>7, <2>3, <2>4
<1>11. Printf(format) = FlattenSeq(s)
  BY DEF Printf
<1> QED
  BY <1>7, <1>8, <1>10, <1>11

\* c is a call of printf, as Convert makes it.
Printed(c) ==
    \E i \in -Half .. Half - 1 :
        /\ c.name \in {"d", "x"}
        /\ c.i = IF c.name = "x" THEN i % Width ELSE i
        /\ c.out = Printf(<<<<c.name, c.i>>, <<"char", Mark>>, <<"end">>>>)

\* It has written the number and the character behind it.
LEMMA ConvertPrints ==
  ASSUME NEW c, Printed(c)
  PROVE  PrintedRight(c)
<1> PICK i \in -Half .. Half - 1 :
        /\ c.name \in {"d", "x"}
        /\ c.i = IF c.name = "x" THEN i % Width ELSE i
        /\ c.out = Printf(<<<<c.name, c.i>>, <<"char", Mark>>, <<"end">>>>)
  BY DEF Printed
<1> PICK name, n, out : name = c.name /\ n = c.i /\ out = c.out
  OBVIOUS
<1>1. /\ name \in {"d", "x"} /\ (name = "x" => n = i % Width) /\ (name = "d" => n = i)
      /\ out = Printf(<<<<name, n>>, <<"char", Mark>>, <<"end">>>>)
  OBVIOUS
<1>2. Width \in Nat \ {0} /\ Half \in Nat /\ i \in Int
  BY HalfFacts
<1>3. name = "x" => n \in 0 .. Width - 1
  BY <1>1, <1>2
<1>4. Hyphen = -1 /\ Mark = -2
  BY DEF Hyphen, Mark
<1>5. PICK x \in Seq(Int) : /\ name = "x" => x = PutHex(n)
                            /\ name = "d" => x = PutInt(n)
                            /\ out = x \o <<Mark>>
  <2>1. CASE name = "x"
    <3>1. PutHex(n) \in Seq(Int)
      BY <1>3, <2>1, PutHexRight
    <3>2. Piece(<<name, n>>) = PutHex(n)
      BY <2>1 DEF Piece
    <3>3. out = PutHex(n) \o <<Mark>>
      BY <1>1, <3>1, <3>2, PrintfWrites
    <3> QED
      BY <2>1, <3>1, <3>3
  <2>2. CASE name = "d"
    <3>1. PutInt(n) \in Seq(Int)
      BY <1>1, <2>2, PutIntType
    <3>2. Piece(<<name, n>>) = PutInt(n)
      BY <2>2 DEF Piece
    <3>3. out = PutInt(n) \o <<Mark>>
      BY <1>1, <3>1, <3>2, PrintfWrites
    <3> QED
      BY <2>2, <3>1, <3>3
  <2> QED
    BY <1>1, <2>1, <2>2
<1>6. Last(out) = Mark /\ Front(out) = x
  <2>1. <<Mark>> \in Seq(Int) /\ Len(<<Mark>>) = 1 /\ <<Mark>>[1] = Mark
    BY <1>4
  <2>2. /\ out \in Seq(Int) /\ Len(out) = Len(x) + 1 /\ Len(x) \in Nat
        /\ \A k \in 1 .. Len(x) : out[k] = x[k]
        /\ out[Len(x) + 1] = Mark
    <3>1. Len(x) \in Nat
      OBVIOUS
    <3>2. /\ x \o <<Mark>> \in Seq(Int) /\ Len(x \o <<Mark>>) = Len(x) + 1
          /\ \A k \in 1 .. Len(x) + 1 :
                (x \o <<Mark>>)[k] = IF k <= Len(x) THEN x[k] ELSE <<Mark>>[k - Len(x)]
      BY <2>1, ConcatProperties
    <3> PICK k : k = Len(x) + 1
      OBVIOUS
    <3>3. k \in 1 .. Len(x) + 1 /\ ~(k <= Len(x)) /\ k - Len(x) = 1
      BY <3>1
    <3>4. (x \o <<Mark>>)[k] = Mark
      BY <2>1, <3>2, <3>3
    <3>5. \A j \in 1 .. Len(x) : (x \o <<Mark>>)[j] = x[j]
      BY <3>1, <3>2
    <3> QED
      BY <1>5, <3>1, <3>2, <3>4, <3>5
  <2>3. Last(out) = Mark
    BY <2>2 DEF Last
  <2>4. Front(out) = SubSeq(out, 1, Len(x))
    <3>1. Len(out) - 1 = Len(x)
      BY <2>2
    <3> QED
      BY <3>1 DEF Front
  <2>5. SubSeq(out, 1, Len(x)) = x
    <3> PICK m, s : m = Len(x) /\ s = SubSeq(out, 1, m)
      OBVIOUS
    <3>1. m \in Nat /\ 1 \in Int /\ m \in Int /\ x \in [1 .. m -> Int]
      BY <2>2, LenProperties
    <3>2. \A k \in 1 .. m : out[k] = x[k] /\ out[k] \in Int
      BY <2>2, <3>1
    <3>3. s \in Seq(Int) /\ Len(s) = m /\ \A k \in 1 .. m : s[k] = out[k]
      BY <2>2, <3>1, <3>2
    <3>4. s \in [1 .. m -> Int]
      BY <3>3, LenProperties
    <3>5. s = x
      BY ONLY <3>1, <3>2, <3>3, <3>4
    <3> QED
      BY <3>5
  <2> QED
    BY <2>3, <2>4, <2>5
<1>7. name = "x" => Value(x, 16) = n
  BY <1>3, <1>5, PutHexRight
<1> PICK digits, a : /\ digits = IF x[1] = Hyphen THEN Tail(x) ELSE x
                     /\ a = IF n < 0 THEN -n ELSE n
  OBVIOUS
<1>8. ASSUME name = "d", Fits(a)
      PROVE  /\ n < 0 <=> x[1] = Hyphen
             /\ \A k \in DOMAIN digits : digits[k] \in 0 .. Base - 1
             /\ Value(digits, Base) = a
             /\ digits[1] = 0 => Len(digits) = 1
  <2>1. n \in -Half .. Half - 1 /\ n \in Int
    BY <1>1, <1>2, <1>8
  <2>2. PICK d \in Seq(0 .. Base - 1) :
          /\ x = IF n < 0 THEN <<Hyphen>> \o d ELSE d
          /\ Len(d) \in Nat \ {0} /\ Value(d, Base) = a
          /\ d[1] = 0 => Len(d) = 1
    <3>1. a = (IF n < 0 THEN -n ELSE n) /\ Fits(a) /\ x = PutInt(n)
      BY <1>5, <1>8
    <3>2. n \in -Half .. Half - 1
      BY <2>1
    <3>3. \E d \in Seq(0 .. Base - 1) :
            /\ PutInt(n) = IF n < 0 THEN <<Hyphen>> \o d ELSE d
            /\ Len(d) \in Nat \ {0} /\ Value(d, Base) = a
            /\ d[1] = 0 => Len(d) = 1
      BY ONLY <3>1, <3>2, PutIntRight
    <3> QED
      BY <3>1, <3>3
  <2>3. \A k \in DOMAIN d : d[k] \in 0 .. Base - 1
    <3> PICK B : B = 0 .. Base - 1
      OBVIOUS
    <3>1. d \in Seq(B)
      OBVIOUS
    <3>2. \A k \in DOMAIN d : d[k] \in B
      BY ONLY <3>1, ElementOfSeq, LenProperties
    <3> QED
      BY <3>2
  <2>4. (n < 0 <=> x[1] = Hyphen) /\ digits = d
    <3>1. CASE n < 0
      <4>1. x = <<Hyphen>> \o d
        BY <2>2, <3>1
      <4>2. x[1] = Hyphen /\ Tail(x) = d
        <5>1. d \in Seq(Int)
          <6>1. 0 .. Base - 1 \subseteq Int
            OBVIOUS
          <6> QED
            BY <6>1, SeqMonotonic
        <5>2. Hyphen \in Int
          BY <1>4
        <5>3. (<<Hyphen>> \o d)[1] = Hyphen /\ Tail(<<Hyphen>> \o d) = d
          BY ONLY <5>1, <5>2
        <5> QED
          BY <4>1, <5>3
      <4> QED
        BY <3>1, <4>2
    <3>2. CASE ~(n < 0)
      <4>1. x = d
        BY <2>2, <3>2
      <4>2. d[1] \in 0 .. Base - 1
        <5>1. 1 \in DOMAIN d
          BY <2>2, LenProperties
        <5> QED
          BY <2>3, <5>1
      <4>3. x[1] # Hyphen
        BY <1>4, <4>1, <4>2
      <4> QED
        BY <3>2, <4>1, <4>3
    <3> QED
      BY <3>1, <3>2
  <2> QED
    BY <2>2, <2>3, <2>4
<1> QED
  BY <1>6, <1>7, <1>8 DEF PrintedRight

\* printf of %d or %x writes digits whose value is the number it was given, a sign for those
\* below 0 and no zero in front, and then goes on with the character behind it: all bits of
\* the number for %x, and for %d each number that a power of ten is above (string.c:132-208).
THEOREM PrintsRightAlways == TextSpec => []PrintsRight
<1>1. TextInit => PrintsRight
  BY DEF TextInit, NoCall, PrintsRight
<1>2. PrintsRight /\ [TextNext]_textVars => PrintsRight'
  <2> SUFFICES ASSUME PrintsRight, [TextNext]_textVars PROVE PrintsRight'
    OBVIOUS
  <2>1. CASE call' = call
    BY <2>1 DEF PrintsRight, PrintedRight
  <2>2. CASE TextReturn
    <3>1. call' = NoCall
      BY <2>2 DEF TextReturn
    <3> QED
      BY <3>1 DEF PrintsRight, NoCall
  <2>3. CASE Compare
    <3>1. call'.name = "compare"
      BY <2>3 DEF Compare
    <3> QED
      BY <3>1 DEF PrintsRight
  <2>4. CASE Convert
    <3>1. PICK conversion \in {"d", "x"}, i \in -Half .. Half - 1 :
            call' = [name |-> conversion, i |-> IF conversion = "x" THEN i % Width ELSE i,
                     out |-> Printf(<<<<conversion, IF conversion = "x" THEN i % Width ELSE i>>,
                                      <<"char", Mark>>, <<"end">>>>)]
      BY <2>4 DEF Convert, Half
    <3>2. Printed(call')
      BY <3>1 DEF Printed
    <3>3. PrintedRight(call')
      BY <3>2, ConvertPrints
    <3> QED
      BY <3>3 DEF PrintsRight, PrintedRight
  <2> QED
    BY <2>1, <2>2, <2>3, <2>4 DEF TextNext, StrTokLine, StrTokNull, textVars
<1> QED
  BY <1>1, <1>2, PTL DEF TextSpec

\* strcmp and strncmp (string.c:21-51) order strings as their characters do, all of them or
\* the first n.
THEOREM ComparesRightAlways == TextSpec => []ComparesRight
<1> DEFINE Inv1 == line \in String /\ ComparesRight
<1>1. TextInit => Inv1
  BY DEF TextInit, NoCall, ComparesRight
<1>2. Inv1 /\ [TextNext]_textVars => Inv1'
  <2> SUFFICES ASSUME Inv1, [TextNext]_textVars PROVE Inv1'
    OBVIOUS
  <2>1. line' = line
    BY DEF TextNext, StrTokLine, StrTokNull, Compare, Convert, TextReturn, textVars
  <2>2. CASE call' = call
    BY <2>1, <2>2 DEF ComparesRight
  <2>3. CASE TextReturn
    <3>1. call' = NoCall
      BY <2>3 DEF TextReturn
    <3> QED
      BY <2>1, <3>1 DEF ComparesRight, NoCall
  <2>4. CASE Convert
    <3>1. call'.name \in {"d", "x"}
      BY <2>4 DEF Convert
    <3> QED
      BY <2>1, <3>1 DEF ComparesRight
  <2>5. CASE Compare
    <3>1. PICK b \in String, n \in 0 .. MaxLength + 1 :
            call' = [name |-> "compare", b |-> b, n |-> n,
                     strcmp |-> StrCmp(line, b), strncmp |-> StrNCmp(line, b, n)]
      BY <2>5 DEF Compare
    <3>2. line \in Chars /\ b \in Chars /\ n \in Nat
      BY StringChars, TextAssumption
    <3>3. StrCmp(line, b) = Ordering(line, b)
      BY <3>2, StrCmpOrders
    <3>4. StrNCmp(line, b, n) = Ordering(Prefix(line, n), Prefix(b, n))
      BY <3>2, StrNCmpOrders
    <3>5. /\ call'.b = b /\ call'.n = n
          /\ call'.strcmp = Ordering(line, b)
          /\ call'.strncmp = Ordering(Prefix(line, n), Prefix(b, n))
      BY <3>1, <3>3, <3>4
    <3>6. ComparesRight'
      BY <2>1, <3>5 DEF ComparesRight
    <3> QED
      BY <2>1, <3>6
  <2> QED
    BY <2>2, <2>3, <2>4, <2>5 DEF TextNext, StrTokLine, StrTokNull, textVars
<1> QED
  BY <1>1, <1>2, PTL DEF TextSpec

\* Strings are compared, split into words and printed as they should be.
THEOREM TextRightAlways == TextSpec => []TextRight
BY ComparesRightAlways, WordsSplitAlways, PrintsRightAlways, PTL DEF TextRight
=============================================================================
