------------------------------ MODULE Backoff ------------------------------
(***************************************************************************)
(* The retry delay of the outbox worker, func backoff, in the arithmetic   *)
(* it runs in: a time.Duration is a signed 64-bit count of nanoseconds,    *)
(* and a shift drops the bits that leave the word.  A word is the set of   *)
(* positions of its one bits.                                              *)
(***************************************************************************)
EXTENDS Integers

WordBits == 64
SignBit == WordBits - 1

\* The bits of n < 2^31, moved up by `offset` places.
BitsAt(n, offset) ==
    {b \in offset..(offset + 30) : (n \div 2^(b - offset)) % 2 = 1}

Second == BitsAt(1000000000, 0)                   \* 10^9
Minute == BitsAt(55, 30) \cup BitsAt(944199680, 0)  \* 6 * 10^10

\* x << k
ShiftLeft(x, k) == {b \in 0..SignBit : b - k \in x}

Negative(x) == SignBit \in x

\* x > y for words that are not negative: the highest bit that differs is in x.
Above(x, y) ==
    \E b \in x \ y : \A c \in (x \cup y) \ (x \cap y) : c <= b

\* backoff: one second, doubled with every attempt, cut at a minute.
backoff(attempt) ==
    IF attempt <= 1 THEN Second
    ELSE LET d == ShiftLeft(Second, attempt - 1)
         IN  IF ~Negative(d) /\ Above(d, Minute) THEN Minute ELSE d

\* The delay in whole seconds; time.Now().Add of a delay that is zero or
\* negative is a moment that has passed already.
backoffSeconds(attempt) ==
    LET d == backoff(attempt)
    IN  IF d = Minute THEN 60
        ELSE IF \E k \in 0..5 : d = ShiftLeft(Second, k)
             THEN 2^(CHOOSE k \in 0..5 : d = ShiftLeft(Second, k))
        ELSE 0
===========================================================================
