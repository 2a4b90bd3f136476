-------------------------------- MODULE Text --------------------------------
(***************************************************************************)
(* What string.c computes: comparison, the words strtok cuts a line into   *)
(* one call at a time, and the characters printf writes for its arguments. *)
(* A string is a sequence of characters other than 0, as the loops see it; *)
(* int32_t is Width values wide and a decimal digit is one of Base, both   *)
(* less in an instance.                                                    *)
(***************************************************************************)
EXTENDS Integers, Sequences, FiniteSets, SequencesExt

CONSTANTS Char,      \* characters, positive numbers
          MaxLength, \* bound on the strings
          Delims,    \* sets of delimiters strtok is called with
          Base,      \* 10
          Width,     \* 2^32
          Hex        \* digits printf_puthex writes: 8

ASSUME TextAssumption ==
    /\ Char \subseteq Nat \ {0}
    /\ MaxLength \in Nat
    /\ Delims \subseteq SUBSET Char
    /\ Base \in Nat \ {0, 1}
    /\ Width \in Nat /\ Width % 2 = 0 /\ Width > 2 * Base
    /\ Hex \in Nat

VARIABLES line,     \* the string first given to strtok
          buffer,   \* the same memory, in which strtok has put zeros
          oldword,  \* strtok's static pointer, 0 before the first call
          delim,
          found,    \* what it has returned
          done,     \* has it returned 0?
          call      \* one call of another function, with its result

textVars == <<line, buffer, oldword, delim, found, done, call>>

String == UNION {[1 .. n -> Char] : n \in 0 .. MaxLength}
NoCall == [name |-> "none"]

\* The character at place i of s, its final 0 included.
At(s, i) == IF i > Len(s) THEN 0 ELSE s[i]
Sign(n) == IF n < 0 THEN -1 ELSE IF n > 0 THEN 1 ELSE 0

\* The loops of strcmp and strncmp go on while this is false.
Differs(a, b, i) == At(a, i) # At(b, i) \/ At(a, i) = 0

StrNCmp(a, b, length) ==
    LET stops == {i \in 1 .. length : Differs(a, b, i)} IN
      IF stops = {} THEN 0
      ELSE LET i == Min(stops) IN Sign(At(a, i) - At(b, i))

StrCmp(a, b) == StrNCmp(a, b, Len(a) + 1)

-----------------------------------------------------------------------------
\* The first place from i on where strtok stops: at the end, or at a character
\* that is (or is not) a delimiter.
Skip(s, i, chars) == Min({j \in i .. Len(s) + 1 : At(s, j) \notin chars})
Until(s, i, chars) == Min({j \in i .. Len(s) + 1 : At(s, j) \in chars \cup {0}})

\* Mutant: the word after a delimiter is looked for at the delimiter's place.
AtDelimiter(last) == last
\* Where the next call goes on: behind the 0 that has replaced the delimiter.
Behind(last) == last + 1

StrTok(s, from) ==
    LET word == Skip(s, from, delim) IN
      IF At(s, word) = 0
      THEN oldword' = word /\ done' = TRUE /\ UNCHANGED <<buffer, found>>
      ELSE LET last == Until(s, word, delim) IN
             /\ found' = Append(found, SubSeq(s, word, last - 1))
             /\ UNCHANGED done
             /\ IF At(s, last) = 0
                THEN oldword' = last /\ UNCHANGED buffer
                ELSE oldword' = Behind(last) /\ buffer' = [s EXCEPT ![last] = 0]

\* The first call, with the line, and those with 0.
StrTokLine ==
    /\ oldword = 0 /\ call = NoCall
    /\ StrTok(line, 1)
    /\ UNCHANGED <<line, delim, call>>

StrTokNull ==
    /\ oldword # 0 /\ ~done
    /\ StrTok(buffer, oldword)
    /\ UNCHANGED <<line, delim, call>>
-----------------------------------------------------------------------------
\* int32_t: arithmetic wraps and division is towards 0.
Int32(n) == LET m == n % Width IN IF m >= Width \div 2 THEN m - Width ELSE m
Quotient(a, b) == Sign(a) * Sign(b) * ((Sign(a) * a) \div (Sign(b) * b))

\* Characters written that are not digits; a digit is its value.
Hyphen == -1
Mark == -2

\* While this holds printf_putint makes f larger.
AbovePower(i, f) == f # 0 /\ Quotient(i, f) > 0

\* printf_putint, the first loop: f after k turns. The product wraps, so that f need not
\* get above i: then f is below 0 and nothing is printed, or 0 and the division traps.
Power[k \in 0 .. Width] ==
    IF k = 0 THEN 1 ELSE Int32(Power[k - 1] * Base)

\* Ten is even, so that the loop ends, and in far fewer turns than there are numbers.
ASSUME PowerAssumption == \E k \in 0 .. Width : Power[k] <= 0

PowerAbove(i) == Power[Min({k \in 0 .. Width : ~AbovePower(i, Power[k])})]

\* The second loop: what is left of i, and f, after k turns.
Left(i, f) ==
    LET left[k \in 0 .. Width] ==
            IF k = 0 THEN [i |-> i, f |-> f]
            ELSE LET l == left[k - 1] IN
                 IF l.f <= 0 THEN l
                 ELSE [i |-> Int32(l.i - Quotient(l.i, l.f) * l.f),
                       f |-> Quotient(l.f, Base)]
    IN left

Digits(i, f) ==
    LET left == Left(i, f)
        turns == Min({k \in 0 .. Width : left[k].f <= 0}) IN
      [k \in 1 .. turns |-> Quotient(left[k - 1].i, left[k - 1].f)]

PutInt(i) ==
    LET n == IF i < 0 THEN Int32(-i) ELSE i
        f == Quotient(PowerAbove(n), Base) IN
      (IF i < 0 THEN <<Hyphen>> ELSE <<>>) \o Digits(n, IF f = 0 THEN 1 ELSE f)

\* printf_puthex: u without its k lowest digits, and all the digits, the highest first.
Shifted(u) ==
    LET by[k \in 0 .. Hex] == IF k = 0 THEN u ELSE by[k - 1] \div 16 IN by

PutHex(u) == [j \in 1 .. Hex |-> Shifted(u)[Hex - j] % 16]

\* Eight digits hold 32 bits.
ASSUME HexAssumption == \A u \in 0 .. Width - 1 : Shifted(u)[Hex] = 0

\* printf: what each piece of the format writes; a % at its end stops it.
Piece(p) ==
    CASE p[1] = "char" -> <<p[2]>>
      [] p[1] = "d" -> PutInt(p[2])
      [] p[1] = "x" -> PutHex(p[2])
      [] p[1] = "s" -> p[2]
      [] p[1] = "other" -> <<p[2]>>

Printf(format) ==
    LET ends == {i \in 1 .. Len(format) : format[i][1] = "end"}
        shown == IF ends = {} THEN format ELSE SubSeq(format, 1, Min(ends) - 1) IN
      FlattenSeq([i \in 1 .. Len(shown) |-> Piece(shown[i])])
-----------------------------------------------------------------------------
TextInit ==
    /\ line \in String
    /\ buffer = line
    /\ oldword = 0
    /\ delim \in Delims
    /\ found = <<>>
    /\ done = FALSE
    /\ call = NoCall

Compare ==
    /\ oldword = 0 /\ call = NoCall
    /\ \E b \in String, n \in 0 .. MaxLength + 1 :
         call' = [name |-> "compare", b |-> b, n |-> n,
                  strcmp |-> StrCmp(line, b), strncmp |-> StrNCmp(line, b, n)]
    /\ UNCHANGED <<line, buffer, oldword, delim, found, done>>

\* One number printed, with text around it and a % at the end of the format.
Convert ==
    /\ oldword = 0 /\ call = NoCall /\ line = <<>>
    /\ \E conversion \in {"d", "x"}, i \in -(Width \div 2) .. Width \div 2 - 1 :
         LET n == IF conversion = "x" THEN i % Width ELSE i IN
           call' = [name |-> conversion, i |-> n,
                    out |-> Printf(<<<<conversion, n>>, <<"char", Mark>>, <<"end">>>>)]
    /\ UNCHANGED <<line, buffer, oldword, delim, found, done>>

\* The caller is done with the result.
TextReturn ==
    /\ done \/ call # NoCall
    /\ buffer' = line
    /\ oldword' = 0
    /\ found' = <<>>
    /\ done' = FALSE
    /\ call' = NoCall
    /\ UNCHANGED <<line, delim>>

TextNext == StrTokLine \/ StrTokNull \/ Compare \/ Convert \/ TextReturn

TextSpec == TextInit /\ [][TextNext]_textVars
-----------------------------------------------------------------------------
Precedes(a, b) ==
    \E i \in 0 .. Len(a) :
        /\ i < Len(b) /\ \A j \in 1 .. i : a[j] = b[j]
        /\ i = Len(a) \/ a[i + 1] < b[i + 1]

Ordering(a, b) == IF a = b THEN 0 ELSE IF Precedes(a, b) THEN -1 ELSE 1

Prefix(s, n) == SubSeq(s, 1, IF n < Len(s) THEN n ELSE Len(s))

\* strcmp is the order of the dictionary, strncmp that of the first n characters:
\* negative, zero or positive as the one string is before, equal or behind.
ComparesRight ==
    call.name = "compare" =>
        /\ call.strcmp = Ordering(line, call.b)
        /\ call.strncmp = Ordering(Prefix(line, call.n), Prefix(call.b, call.n))

IsWord(b, e) ==
    /\ \A i \in b .. e : line[i] \notin delim
    /\ b = 1 \/ line[b - 1] \in delim
    /\ e = Len(line) \/ line[e + 1] \in delim

\* The words of the line, as places: the longest runs without a delimiter.
Words == {w \in (1 .. Len(line)) \X (1 .. Len(line)) : w[1] <= w[2] /\ IsWord(w[1], w[2])}
WordsBefore(b) == {w \in Words : w[1] < b}

\* Called until it returns 0, strtok has returned the words of the line and
\* nothing else, in their order.
WordsSplit ==
    done =>
        /\ Len(found) = Cardinality(Words)
        /\ \A w \in Words :
             found[Cardinality(WordsBefore(w[1])) + 1] = SubSeq(line, w[1], w[2])

Value(digits, base) ==
    LET v[n \in 0 .. Len(digits)] == IF n = 0 THEN 0 ELSE v[n - 1] * base + digits[n]
    IN v[Len(digits)]

\* Some power of the base is above n, and f gets there without wrapping.
Fits(n) ==
    \E k \in 0 .. Width :
        n < Power[k] /\ \A j \in 1 .. k : Power[j] = Power[j - 1] * Base

PrintedRight(c) ==
    LET shown == Front(c.out)
        digits == IF shown[1] = Hyphen THEN Tail(shown) ELSE shown
        n == IF c.i < 0 THEN -c.i ELSE c.i IN
      /\ Last(c.out) = Mark
      /\ c.name = "x" => Value(shown, 16) = c.i
      /\ c.name = "d" /\ Fits(n) =>
           /\ c.i < 0 <=> shown[1] = Hyphen
           /\ \A k \in DOMAIN digits : digits[k] \in 0 .. Base - 1
           /\ Value(digits, Base) = n
           /\ digits[1] = 0 => Len(digits) = 1

\* %d writes the number, up to the largest power of the base that fits an int (a
\* thousand million); beyond it the search for the power wraps. %x writes any.
PrintsRight == call.name \in {"d", "x"} => PrintedRight(call)

\* string.c computes what its names promise, over all short strings and numbers.
TextRight == ComparesRight /\ WordsSplit /\ PrintsRight
=============================================================================
