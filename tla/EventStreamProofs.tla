------------------------- MODULE EventStreamProofs -------------------------
(***************************************************************************)
(* What a customer sees of an invoice is its history, for any number of    *)
(* invoices, writers, events, re-renders and lost answers, and any page    *)
(* limit, when the inserting transactions are serialized: the hook and the *)
(* SSE connection show the committed events in order, each once, with none *)
(* left out.                                                               *)
(***************************************************************************)
EXTENDS EventStream, FiniteSetTheorems, WellFoundedInduction, TLAPS

---------------------------------------------------------------------------
(* ORDER BY id *)

\* A nonempty set of natural numbers has a least member.
LEMMA Least ==
  ASSUME NEW T \in SUBSET Nat, T # {}
  PROVE  \E n \in T : \A k \in T : n <= k
<1> DEFINE R == OpToRel(<, Nat)
<1>1. IsWellFoundedOn(R, Nat)
  BY NatLessThanWellFounded
<1>2. \A x \in Nat, y \in Nat : y < x => <<y, x>> \in R
  BY DEF OpToRel
<1> HIDE DEF R
<1>3. PICK x \in T : \A y \in T : ~(<<y, x>> \in R)
  BY <1>1, WFMin
<1>4. ASSUME NEW k \in T PROVE x <= k
  <2>1. ~(k < x)
    BY <1>2, <1>3, Zenon
  <2> QED BY <2>1
<1> QED BY <1>4

\* A rank is a number below the size of the set, and grows with the id.
LEMMA RankBound ==
  ASSUME NEW S \in SUBSET Nat, IsFiniteSet(S), NEW x \in S
  PROVE  Rank(x, S) \in 0..(Cardinality(S) - 1)
<1> DEFINE L == {y \in S : y < x}
<1>1. L \subseteq S /\ L # S
  OBVIOUS
<1> HIDE DEF L
<1>2. IsFiniteSet(L) /\ Cardinality(L) <= Cardinality(S) /\ Cardinality(L) # Cardinality(S)
  BY <1>1, FS_Subset
<1>3. Cardinality(L) \in Nat /\ Cardinality(S) \in Nat
  BY <1>2, FS_CardinalityType
<1>4. Rank(x, S) = Cardinality(L)
  BY DEF Rank, L
<1> QED BY <1>2, <1>3, <1>4

LEMMA RankGrows ==
  ASSUME NEW S \in SUBSET Nat, IsFiniteSet(S), NEW x \in S, NEW z \in S, x < z
  PROVE  Rank(x, S) < Rank(z, S)
<1> DEFINE L == {y \in S : y < x}
           M == {y \in S : y < z}
<1>1. L \subseteq M /\ L # M /\ M \subseteq S
  <2>1. x \in Nat /\ z \in Nat /\ \A y \in S : y \in Nat
    OBVIOUS
  <2>2. x \in M /\ x \notin L
    BY <2>1
  <2>3. \A y \in S : y < x => y < z
    BY <2>1
  <2> QED BY <2>2, <2>3
<1> HIDE DEF L, M
<1>2. IsFiniteSet(M)
  BY <1>1, FS_Subset
<1>3. IsFiniteSet(L) /\ Cardinality(L) <= Cardinality(M) /\ Cardinality(L) # Cardinality(M)
  BY <1>1, <1>2, FS_Subset
<1>4. Cardinality(L) \in Nat /\ Cardinality(M) \in Nat
  BY <1>2, <1>3, FS_CardinalityType
<1>5. Rank(x, S) = Cardinality(L) /\ Rank(z, S) = Cardinality(M)
  BY DEF Rank, L, M
<1> QED BY <1>3, <1>4, <1>5

\* Every rank below the size of the set is taken.
LEMMA RankTaken ==
  ASSUME NEW S \in SUBSET Nat, IsFiniteSet(S), NEW k \in 0..(Cardinality(S) - 1)
  PROVE  \E x \in S : Rank(x, S) = k
<1>0. Cardinality(S) \in Nat
  BY FS_CardinalityType
<1> DEFINE Free == {j \in Nat : j < Cardinality(S) /\ ~\E x \in S : Rank(x, S) = j}
<1> SUFFICES ASSUME Free # {} PROVE FALSE
  BY <1>0
<1>1. PICK j \in Free : \A i \in Free : j <= i
  BY Least
<1>2. j \in Nat /\ j < Cardinality(S) /\ \A x \in S : Rank(x, S) # j
  OBVIOUS
<1>3. \A i \in Nat : i < j => \E x \in S : Rank(x, S) = i
  BY <1>0, <1>1, <1>2
<1> HIDE DEF Free
<1>4. CASE j = 0
  <2>1. S # {}
    BY <1>2, FS_EmptySet
  <2>2. PICK x \in S : \A y \in S : x <= y
    BY <2>1, Least
  <2>3. {y \in S : y < x} = {}
    <3>1. \A y \in S : y \in Nat /\ x \in Nat /\ x <= y
      BY <2>2
    <3>2. \A y \in S : ~(y < x)
      BY <3>1
    <3> QED BY <3>2
  <2>4. Rank(x, S) = 0
    BY <2>3, FS_EmptySet DEF Rank
  <2> QED BY <1>2, <1>4, <2>4
<1>5. CASE j # 0
  <2>1. PICK x \in S : Rank(x, S) = j - 1
    BY <1>2, <1>3, <1>5
  <2> DEFINE L == {y \in S : y < x}
             M == L \cup {x}
             U == S \ M
  <2>2. IsFiniteSet(L) /\ x \notin L
    BY FS_Subset
  <2>3. Cardinality(L) = j - 1
    BY <2>1 DEF Rank
  <2>4. IsFiniteSet(M) /\ Cardinality(M) = j
    <3> HIDE DEF L
    <3>1. IsFiniteSet(M) /\ Cardinality(M) = Cardinality(L) + 1
      BY <2>2, FS_AddElement
    <3> QED BY <1>2, <2>3, <3>1
  <2>5. U # {}
    <3> SUFFICES ASSUME U = {} PROVE FALSE
      OBVIOUS
    <3>1. S = M
      OBVIOUS
    <3> HIDE DEF M
    <3> QED BY <1>2, <2>4, <3>1
  <2>6. PICK z \in U : \A y \in U : z <= y
    <3>1. U \in SUBSET Nat
      OBVIOUS
    <3> HIDE DEF U
    <3> QED BY <2>5, <3>1, Least
  <2>7. {y \in S : y < z} = M
    <3>1. z \in Nat /\ x \in Nat /\ \A y \in S : y \in Nat
      OBVIOUS
    <3>2. \A y \in S : y \notin M => z <= y
      BY <2>6
    <3>3. x < z
      BY <3>1, <2>6
    <3>4. \A y \in S : y < z <=> y \in M
      BY <3>1, <3>2, <3>3
    <3> QED BY <3>4
  <2>8. Rank(z, S) = j
    <3> HIDE DEF M
    <3> QED BY <2>4, <2>7 DEF Rank
  <2> QED BY <1>2, <2>8
<1> QED BY <1>4, <1>5

Increasing(s) == \A k, n \in DOMAIN s : k < n => s[k] < s[n]

\* OrderById lists each id of a finite set once, in increasing order.
LEMMA OrderByIdSorts ==
  ASSUME NEW S \in SUBSET Nat, IsFiniteSet(S)
  PROVE  /\ OrderById(S) \in Seq(S)
         /\ Increasing(OrderById(S))
         /\ Range(OrderById(S)) = S
<1> DEFINE s == OrderById(S)
           D == 1..Cardinality(S)
<1>0. Cardinality(S) \in Nat
  BY FS_CardinalityType
<1>1. s = [k \in D |-> CHOOSE x \in S : Rank(x, S) = k - 1]
  BY DEF OrderById
<1>2. ASSUME NEW k \in D PROVE s[k] \in S /\ Rank(s[k], S) = k - 1
  <2>1. k - 1 \in 0..(Cardinality(S) - 1)
    BY <1>0
  <2>2. \E x \in S : Rank(x, S) = k - 1
    BY <2>1, RankTaken
  <2> HIDE DEF s
  <2> QED BY <1>1, <2>2
<1>3. DOMAIN s = D
  BY <1>1
<1> HIDE DEF s
<1>4. s \in Seq(S)
  <2>1. s \in [D -> S]
    BY <1>1, <1>2
  <2> QED BY <1>0, <2>1
<1>5. Increasing(s)
  <2> SUFFICES ASSUME NEW k \in D, NEW n \in D, k < n PROVE s[k] < s[n]
    BY <1>3 DEF Increasing
  <2>1. s[k] \in S /\ s[n] \in S /\ Rank(s[k], S) = k - 1 /\ Rank(s[n], S) = n - 1
    BY <1>2
  <2>2. s[k] \in Nat /\ s[n] \in Nat
    BY <2>1
  <2>3. CASE s[n] < s[k]
    <3>1. Rank(s[n], S) < Rank(s[k], S)
      BY <2>1, <2>3, RankGrows
    <3> QED BY <1>0, <2>1, <3>1
  <2>4. CASE s[n] = s[k]
    BY <1>0, <2>1, <2>4
  <2> QED BY <2>2, <2>3, <2>4
<1>6. ASSUME NEW x \in S PROVE \E k \in D : s[k] = x
  <2>1. Rank(x, S) \in 0..(Cardinality(S) - 1)
    BY RankBound
  <2>2. PICK k \in D : k - 1 = Rank(x, S)
    <3>1. Rank(x, S) + 1 \in D /\ (Rank(x, S) + 1) - 1 = Rank(x, S)
      BY <1>0, <2>1
    <3> QED BY <3>1
  <2>3. s[k] \in S /\ Rank(s[k], S) = Rank(x, S)
    BY <1>2, <2>2
  <2>4. ~(s[k] < x) /\ ~(x < s[k])
    <3>1. s[k] < x => Rank(s[k], S) < Rank(x, S)
      BY <2>3, RankGrows
    <3>2. x < s[k] => Rank(x, S) < Rank(s[k], S)
      BY <2>3, RankGrows
    <3> QED BY <1>0, <2>1, <2>3, <3>1, <3>2
  <2>5. s[k] \in Nat /\ x \in Nat
    BY <2>3
  <2> QED BY <2>4, <2>5
<1>7. Range(s) = S
  BY <1>2, <1>3, <1>6 DEF Range
<1> QED BY <1>4, <1>5, <1>7 DEF s

---------------------------------------------------------------------------
(* A page *)

\* The committed ids of invoice i after a cursor.
IdsAfter(i, after) == {r.id : r \in {q \in rows : q.invoice = i /\ q.id > after}}

\* A page lists, in order and without gaps, the committed events of the invoice
\* from the cursor to the page's last one.
LEMMA PageExact ==
  ASSUME rows \subseteq Row, NEW i, NEW after \in Nat
  PROVE  LET page == ListInvoiceEvents(i, after)
             last == nextCursor(page)
         IN  /\ page \in Seq(1..MaxId)
             /\ Increasing(page)
             /\ last \in 0..MaxId
             /\ page = <<>> => last = 0
             /\ page # <<>> => /\ last > after
                               /\ \E r \in rows : r.id = last
                               /\ Range(page) = Between(i, after, last)
<1> DEFINE ids == IdsAfter(i, after)
           kept == {x \in ids : Rank(x, ids) < PageLimit}
           page == ListInvoiceEvents(i, after)
           last == nextCursor(page)
<1>1. \A x \in ids : x \in 1..MaxId /\ x > after /\ \E r \in rows : r.id = x
  BY DEF IdsAfter, Row
<1>2. page = OrderById(kept)
  BY DEF ListInvoiceEvents, IdsAfter
<1>3. IsFiniteSet(ids) /\ ids \in SUBSET Nat
  <2>1. IsFiniteSet(1..MaxId)
    BY StreamAssumption, FS_Interval
  <2>2. ids \subseteq 1..MaxId /\ 1..MaxId \subseteq Nat
    BY <1>1, StreamAssumption
  <2> QED BY <2>1, <2>2, FS_Subset
<1>4. IsFiniteSet(kept) /\ kept \in SUBSET Nat /\ kept \subseteq ids
  <2>1. kept \subseteq ids
    OBVIOUS
  <2> HIDE DEF kept
  <2> QED BY <1>3, <2>1, FS_Subset
<1>5. page \in Seq(kept) /\ Increasing(page) /\ Range(page) = kept
  <2> HIDE DEF kept
  <2> QED BY <1>2, <1>4, OrderByIdSorts
<1>6. ASSUME NEW x \in kept, NEW y \in ids, y < x PROVE y \in kept
  <2>1. x \in ids /\ Rank(x, ids) < PageLimit
    OBVIOUS
  <2>2. Rank(y, ids) < Rank(x, ids)
    BY <1>3, <1>6, <2>1, RankGrows
  <2>3. /\ Rank(x, ids) \in 0..(Cardinality(ids) - 1)
        /\ Rank(y, ids) \in 0..(Cardinality(ids) - 1)
    BY <1>3, <2>1, RankBound
  <2>4. Cardinality(ids) \in Nat /\ PageLimit \in Nat
    BY <1>3, FS_CardinalityType, StreamAssumption
  <2>5. Rank(y, ids) < PageLimit
    <3> HIDE DEF ids
    <3> QED BY <2>1, <2>2, <2>3, <2>4
  <2> QED BY <2>5
<1> HIDE DEF ids, kept, page
<1>7. page \in Seq(1..MaxId)
  <2>1. kept \subseteq 1..MaxId
    BY <1>1, <1>4
  <2>2. PICK n \in Nat : page \in [1..n -> kept]
    BY <1>5
  <2> DEFINE T == 1..MaxId
  <2>3. page \in [1..n -> T]
    BY <2>1, <2>2
  <2>4. ASSUME NEW S, page \in [1..n -> S] PROVE page \in Seq(S)
    BY <2>4
  <2> HIDE DEF T
  <2>5. page \in Seq(T)
    BY <2>3, <2>4
  <2> QED BY <2>5 DEF T
<1>8. CASE page = <<>>
  <2>1. last = 0 /\ 0 \in 0..MaxId
    BY <1>8, StreamAssumption DEF nextCursor
  <2> QED BY <1>5, <1>7, <1>8, <2>1 DEF page
<1>9. CASE page # <<>>
  <2>1. last = page[Len(page)]
    BY <1>9 DEF nextCursor
  <2>2. Len(page) \in DOMAIN page /\ DOMAIN page = 1..Len(page) /\ Len(page) \in Nat
    BY <1>7, <1>9
  <2>3. last \in kept
    BY <1>5, <2>1, <2>2 DEF Range
  <2>4. last \in ids /\ last \in 1..MaxId /\ last > after /\ \E r \in rows : r.id = last
    BY <1>1, <1>4, <2>3
  <2> HIDE DEF last
  <2>5. ASSUME NEW x \in kept PROVE x <= last
    <3>1. PICK k \in DOMAIN page : page[k] = x
      BY <1>5 DEF Range
    <3>2. k = Len(page) \/ page[k] < page[Len(page)]
      BY <1>5, <2>2 DEF Increasing
    <3>3. x \in Nat /\ last \in Nat
      BY <1>4, <2>3
    <3> QED BY <2>1, <3>1, <3>2, <3>3
  <2>6. kept = {x \in ids : x <= last}
    <3>1. ASSUME NEW x \in ids, x <= last PROVE x \in kept
      <4>1. x \in Nat /\ last \in Nat
        BY <1>3, <2>4
      <4>2. x = last \/ x < last
        BY <3>1, <4>1
      <4> QED BY <1>6, <2>3, <4>2
    <3> QED BY <1>4, <2>5, <3>1
  <2>7. Between(i, after, last) = {x \in ids : x <= last}
    BY DEF Between, ids, IdsAfter
  <2>8. Range(page) = Between(i, after, last)
    BY <1>5, <2>6, <2>7
  <2> QED BY <1>5, <1>7, <1>9, <2>4, <2>8 DEF page, last
<1> QED BY <1>8, <1>9

\* Two lists of ids, one up to a cursor and one beyond it, joined.
LEMMA Join ==
  ASSUME NEW s \in Seq(Nat), NEW p \in Seq(Nat), NEW c \in Nat,
         Increasing(s), Increasing(p),
         \A x \in Range(s) : x <= c, \A y \in Range(p) : y > c
  PROVE  /\ s \o p \in Seq(Nat)
         /\ Increasing(s \o p)
         /\ Range(s \o p) = Range(s) \cup Range(p)
<1> DEFINE t == s \o p
           a == Len(s)
           b == Len(p)
<1>1. /\ t \in Seq(Nat) /\ Len(t) = a + b /\ a \in Nat /\ b \in Nat
      /\ DOMAIN s = 1..a /\ DOMAIN p = 1..b /\ DOMAIN t = 1..(a + b)
  OBVIOUS
<1>2. \A k \in 1..(a + b) : t[k] = IF k <= a THEN s[k] ELSE p[k - a]
  OBVIOUS
<1> HIDE DEF t, a, b
<1>3. /\ \A k \in 1..a : s[k] \in Range(s) /\ s[k] \in Nat
      /\ \A k \in 1..b : p[k] \in Range(p) /\ p[k] \in Nat
  <2>1. \A k \in DOMAIN s : s[k] \in Range(s)
    BY DEF Range
  <2>2. \A k \in DOMAIN p : p[k] \in Range(p)
    BY DEF Range
  <2>3. (\A k \in DOMAIN s : s[k] \in Nat) /\ (\A k \in DOMAIN p : p[k] \in Nat)
    OBVIOUS
  <2> QED BY <1>1, <2>1, <2>2, <2>3
<1>4. Increasing(t)
  <2> SUFFICES ASSUME NEW k \in 1..(a + b), NEW n \in 1..(a + b), k < n PROVE t[k] < t[n]
    BY <1>1 DEF Increasing
  <2>1. CASE n <= a
    <3>1. k \in 1..a /\ n \in 1..a /\ t[k] = s[k] /\ t[n] = s[n]
      BY <1>1, <1>2, <2>1
    <3> QED BY <1>1, <3>1 DEF Increasing
  <2>2. CASE k <= a /\ ~(n <= a)
    <3>1. k \in 1..a /\ n - a \in 1..b /\ t[k] = s[k] /\ t[n] = p[n - a]
      BY <1>1, <1>2, <2>2
    <3>2. s[k] <= c /\ p[n - a] > c /\ s[k] \in Nat /\ p[n - a] \in Nat
      BY <1>3, <3>1
    <3> QED BY <3>1, <3>2
  <2>3. CASE ~(k <= a)
    <3>1. k - a \in 1..b /\ n - a \in 1..b /\ k - a < n - a /\ ~(n <= a)
      BY <1>1, <2>3
    <3>2. t[k] = p[k - a] /\ t[n] = p[n - a]
      BY <1>2, <2>3, <3>1
    <3> QED BY <1>1, <3>1, <3>2 DEF Increasing
  <2> QED BY <1>1, <2>1, <2>2, <2>3
<1>5. Range(t) = Range(s) \cup Range(p)
  <2>1. ASSUME NEW k \in 1..(a + b) PROVE t[k] \in Range(s) \cup Range(p)
    <3>1. k <= a => k \in 1..a
      BY <1>1
    <3>2. ~(k <= a) => k - a \in 1..b
      BY <1>1
    <3> QED BY <1>2, <1>3, <3>1, <3>2
  <2>2. ASSUME NEW k \in 1..a PROVE \E n \in 1..(a + b) : t[n] = s[k]
    <3>1. k \in 1..(a + b) /\ k <= a
      BY <1>1
    <3> QED BY <1>2, <3>1
  <2>3. ASSUME NEW k \in 1..b PROVE \E n \in 1..(a + b) : t[n] = p[k]
    <3>1. k + a \in 1..(a + b) /\ ~(k + a <= a) /\ (k + a) - a = k
      BY <1>1
    <3> QED BY <1>2, <3>1
  <2>4. /\ Range(t) = {t[k] : k \in 1..(a + b)}
        /\ Range(s) = {s[k] : k \in 1..a} /\ Range(p) = {p[k] : k \in 1..b}
    BY <1>1, Zenon DEF Range
  <2>5. Range(t) \subseteq Range(s) \cup Range(p)
    BY <2>1, <2>4
  <2>6. Range(s) \subseteq Range(t)
    BY <2>2, <2>4
  <2>7. Range(p) \subseteq Range(t)
    BY <2>3, <2>4
  <2> QED BY <2>5, <2>6, <2>7
<1> QED BY <1>1, <1>4, <1>5 DEF t

---------------------------------------------------------------------------
(* The inductive invariant *)

ViewRow == [invoice : Invoices, cursor : 0..MaxId, events : Seq(1..MaxId), from : 0..MaxId]
FlightRow == [pc : {"idle", "asked", "answered"}, invoice : Invoices, cursor : 0..MaxId,
              stopped : BOOLEAN, page : Seq(1..MaxId), next : 0..MaxId]
StreamRow == [pc : {"closed", "wait", "send"}, invoice : Invoices, from : 0..MaxId,
              afterID : 0..MaxId, page : Seq(1..MaxId), sent : Seq(1..MaxId)]

\* Between, over any table R.
In(R, i, from, upto) == {r.id : r \in {q \in R : q.invoice = i /\ q.id > from /\ q.id <= upto}}

\* No event at or below c can still become visible.
Fixed(n, T, c) == c < n /\ \A w \in Writers : \A t \in T[w] : c < t.id

\* What serialized transactions give: an open one holds ids beyond all that is
\* committed, and it is the only one.
Table ==
    /\ \A r \in rows : r.id < nextId
    /\ \A w \in Writers : \A t \in txs[w] : t.id < nextId /\ \A r \in rows : r.id < t.id
    /\ \A v, w \in Writers : v # w => txs[v] = {} \/ txs[w] = {}

\* The hook shows all up to a cursor that is fixed.
ViewOK ==
    /\ view.from <= view.cursor
    /\ Fixed(nextId, txs, view.cursor)
    /\ Increasing(view.events)
    /\ Range(view.events) = In(rows, view.invoice, view.from, view.cursor)

SavedOK == \A i \in Invoices : Fixed(nextId, txs, saved[i])

\* A request of the present view carries its cursor, and an answer holds all
\* events from the cursor to its next_cursor.
FlightOK ==
    /\ flight.pc # "idle" /\ ~flight.stopped =>
          flight.invoice = view.invoice /\ flight.cursor = view.cursor
    /\ flight.pc = "answered" =>
          /\ Increasing(flight.page)
          /\ flight.page = <<>> => flight.next = 0
          /\ flight.page # <<>> =>
                /\ flight.next > flight.cursor
                /\ Fixed(nextId, txs, flight.next)
                /\ Range(flight.page) = In(rows, flight.invoice, flight.cursor, flight.next)

\* A connection has written or holds all up to afterID, which is fixed or is
\* still the cursor the client asked for.
StreamOK ==
    /\ sse.from <= sse.afterID
    /\ sse.afterID = sse.from \/ Fixed(nextId, txs, sse.afterID)
    /\ Increasing(sse.sent \o sse.page)
    /\ Range(sse.sent \o sse.page) = In(rows, sse.invoice, sse.from, sse.afterID)

\* A page is in hand exactly while it is being written.
PageInHand == sse.pc = "send" <=> sse.page # <<>>

StreamInv == Table /\ ViewOK /\ SavedOK /\ FlightOK /\ StreamOK

LEMMA TypeParts ==
  TypeOK <=> /\ nextId \in 1..(MaxId + 1)
             /\ rows \subseteq Row
             /\ txs \in [Writers -> SUBSET Row]
             /\ view \in ViewRow
             /\ saved \in [Invoices -> 0..MaxId]
             /\ flight \in FlightRow
             /\ sse \in StreamRow
             /\ disturbances \in 0..MaxDisturbances
  BY DEF TypeOK, ViewRow, FlightRow, StreamRow

---------------------------------------------------------------------------
(* Type correctness *)

LEMMA StartTypes ==
  ASSUME Invoices # {}
  PROVE  Nowhere \in FlightRow /\ NoStream \in StreamRow
<1>1. (CHOOSE i \in Invoices : TRUE) \in Invoices
  OBVIOUS
<1>2. 0 \in 0..MaxId /\ <<>> \in Seq(1..MaxId)
  BY StreamAssumption
<1> QED BY <1>1, <1>2 DEF Nowhere, NoStream, FlightRow, StreamRow

LEMMA InitType == Init => TypeOK /\ PageInHand
<1> SUFFICES ASSUME Init PROVE TypeOK /\ PageInHand
  OBVIOUS
<1>1. 0 \in 0..MaxId /\ <<>> \in Seq(1..MaxId) /\ 0 \in 0..MaxDisturbances /\ 1 \in 1..(MaxId + 1)
  BY StreamAssumption
<1>2. view \in ViewRow
  BY <1>1 DEF Init, ViewRow
<1>3. Invoices # {}
  BY <1>2 DEF ViewRow
<1>4. TypeOK
  BY <1>1, <1>2, <1>3, StartTypes, TypeParts DEF Init
<1>5. PageInHand
  BY DEF Init, NoStream, PageInHand
<1> QED BY <1>4, <1>5

\* The table grows in range.
LEMMA TableType ==
  ASSUME TypeOK, NEW w \in Writers,
         Commit(w) \/ Rollback(w) \/ \E i \in Invoices : InsertEvent(w, i)
  PROVE  TypeOK'
<1>1. /\ nextId \in 1..(MaxId + 1)
      /\ rows \subseteq Row
      /\ txs \in [Writers -> SUBSET Row]
      /\ disturbances \in 0..MaxDisturbances
      /\ MaxId \in Nat /\ MaxDisturbances \in Nat
  BY TypeParts, StreamAssumption
<1>2. UNCHANGED <<view, saved, flight, sse>>
  BY DEF Commit, Rollback, InsertEvent
<1>3. CASE Commit(w)
  <2>1. nextId' = nextId /\ disturbances' = disturbances
        /\ rows' \subseteq Row /\ txs' \in [Writers -> SUBSET Row]
    BY <1>1, <1>3 DEF Commit
  <2> QED BY <1>1, <1>2, <2>1 DEF TypeOK
<1>4. CASE Rollback(w)
  <2>1. nextId' = nextId /\ disturbances' \in 0..MaxDisturbances
        /\ rows' = rows /\ txs' \in [Writers -> SUBSET Row]
    BY <1>1, <1>4 DEF Rollback, Disturb
  <2> QED BY <1>1, <1>2, <2>1 DEF TypeOK
<1>5. ASSUME NEW i \in Invoices, InsertEvent(w, i) PROVE TypeOK'
  <2>1. [id |-> nextId, invoice |-> i] \in Row /\ nextId + 1 \in 1..(MaxId + 1)
    BY <1>1, <1>5 DEF InsertEvent, Row
  <2>2. nextId' = nextId + 1 /\ disturbances' = disturbances
        /\ rows' = rows /\ txs' \in [Writers -> SUBSET Row]
    BY <1>1, <1>5, <2>1 DEF InsertEvent
  <2> QED BY <1>1, <1>2, <2>1, <2>2 DEF TypeOK
<1> QED BY <1>3, <1>4, <1>5

---------------------------------------------------------------------------
(* What the steps of the hook and of the connection write *)

LEMMA HookTickEffect ==
  ASSUME TypeOK, HookTick
  PROVE  /\ flight' \in FlightRow
         /\ flight'.pc = "asked" /\ flight'.invoice = view.invoice /\ flight'.cursor = view.cursor
         /\ UNCHANGED <<table, view, saved, sse, disturbances>>
<1>1. view.invoice \in Invoices /\ view.cursor \in 0..MaxId
  BY TypeParts DEF ViewRow
<1>2. Nowhere \in FlightRow
  BY <1>1, StartTypes
<1>3. flight' = [Nowhere EXCEPT !.pc = "asked", !.invoice = view.invoice, !.cursor = view.cursor]
  BY DEF HookTick
<1>4. /\ flight' \in FlightRow
      /\ flight'.pc = "asked" /\ flight'.invoice = view.invoice /\ flight'.cursor = view.cursor
  BY <1>1, <1>2, <1>3 DEF FlightRow
<1> QED BY <1>4 DEF HookTick

LEMMA ServeEffect ==
  ASSUME TypeOK, ServeEvents
  PROVE  /\ flight' \in FlightRow
         /\ flight'.pc = "answered"
         /\ flight'.invoice = flight.invoice /\ flight'.cursor = flight.cursor
         /\ flight'.stopped = flight.stopped
         /\ Increasing(flight'.page)
         /\ flight'.page = <<>> => flight'.next = 0
         /\ flight'.page # <<>> =>
              /\ flight'.next > flight.cursor
              /\ \E r \in rows : r.id = flight'.next
              /\ Range(flight'.page) = In(rows, flight.invoice, flight.cursor, flight'.next)
         /\ UNCHANGED <<table, view, saved, sse, disturbances>>
<1> DEFINE page == ListInvoiceEvents(flight.invoice, flight.cursor)
           next == nextCursor(page)
<1>1. flight \in FlightRow /\ rows \subseteq Row
  BY TypeParts
<1>2. flight.cursor \in Nat
  BY <1>1, StreamAssumption DEF FlightRow
<1>3. /\ page \in Seq(1..MaxId)
      /\ Increasing(page)
      /\ next \in 0..MaxId
      /\ page = <<>> => next = 0
      /\ page # <<>> => /\ next > flight.cursor
                        /\ \E r \in rows : r.id = next
                        /\ Range(page) = Between(flight.invoice, flight.cursor, next)
  BY <1>1, <1>2, PageExact
<1>4. flight' = [flight EXCEPT !.pc = "answered", !.page = page, !.next = next]
  BY DEF ServeEvents
<1> HIDE DEF page, next
<1>5. /\ flight' \in FlightRow
      /\ flight'.pc = "answered" /\ flight'.page = page /\ flight'.next = next
      /\ flight'.invoice = flight.invoice /\ flight'.cursor = flight.cursor
      /\ flight'.stopped = flight.stopped
  BY <1>1, <1>3, <1>4 DEF FlightRow
<1> QED BY <1>3, <1>5 DEF ServeEvents, Between, In

LEMMA ReceiveEffect ==
  ASSUME TypeOK, HookReceive
  PROVE  /\ flight' = Nowhere /\ Nowhere \in FlightRow
         /\ flight.pc = "answered"
         /\ view' \in ViewRow /\ saved' \in [Invoices -> 0..MaxId]
         /\ flight.stopped => view' = view /\ saved' = saved
         /\ ~flight.stopped =>
              /\ view'.invoice = view.invoice /\ view'.from = view.from
              /\ view'.events = view.events \o flight.page
              /\ view'.cursor = IF flight.next # 0 THEN flight.next ELSE view.cursor
              /\ \A i \in Invoices : saved'[i] \in {saved[i], view'.cursor}
         /\ UNCHANGED <<table, sse, disturbances>>
<1> DEFINE cursor == IF flight.next # 0 THEN flight.next ELSE view.cursor
           shown == view.events \o flight.page
<1>1. view \in ViewRow /\ flight \in FlightRow /\ saved \in [Invoices -> 0..MaxId]
  BY TypeParts
<1>2. view.invoice \in Invoices /\ cursor \in 0..MaxId
  BY <1>1 DEF ViewRow, FlightRow
<1>3. view.events \in Seq(1..MaxId) /\ flight.page \in Seq(1..MaxId)
  BY <1>1 DEF ViewRow, FlightRow
<1>4. shown \in Seq(1..MaxId)
  BY <1>3
<1>5. Nowhere \in FlightRow
  BY <1>2, StartTypes
<1>6. flight' = Nowhere /\ flight.pc = "answered" /\ UNCHANGED <<table, sse, disturbances>>
  BY DEF HookReceive
<1>7. CASE flight.stopped
  <2>1. view' = view /\ saved' = saved
    BY <1>7 DEF HookReceive
  <2> QED BY <1>1, <1>5, <1>6, <1>7, <2>1
<1>8. CASE ~flight.stopped
  <2>1. /\ view' = [view EXCEPT !.events = shown, !.cursor = cursor]
        /\ saved' = [saved EXCEPT ![view.invoice] = cursor]
    BY <1>8 DEF HookReceive
  <2> HIDE DEF shown, cursor
  <2>2. /\ view' \in ViewRow
        /\ view'.invoice = view.invoice /\ view'.from = view.from
        /\ view'.events = shown /\ view'.cursor = cursor
    BY <1>1, <1>2, <1>4, <2>1 DEF ViewRow
  <2>3. saved' \in [Invoices -> 0..MaxId] /\ \A i \in Invoices : saved'[i] \in {saved[i], cursor}
    BY <1>1, <1>2, <2>1
  <2> QED BY <1>5, <1>6, <1>8, <2>2, <2>3 DEF shown, cursor
<1> QED BY <1>7, <1>8

LEMMA StopEffect ==
  ASSUME TypeOK, HookRerun \/ \E i \in Invoices : HookSwitch(i)
  PROVE  /\ flight' \in FlightRow
         /\ flight'.pc = flight.pc /\ flight'.page = flight.page /\ flight'.next = flight.next
         /\ flight'.invoice = flight.invoice /\ flight'.cursor = flight.cursor
         /\ flight'.pc # "idle" => flight'.stopped
         /\ \/ view' = view
            \/ /\ view' \in ViewRow
               /\ view'.events = <<>> /\ view'.from = view'.cursor
               /\ view'.invoice \in Invoices /\ view'.cursor = saved[view'.invoice]
         /\ disturbances' \in 0..MaxDisturbances
         /\ UNCHANGED <<table, saved, sse>>
<1>1. flight \in FlightRow /\ saved \in [Invoices -> 0..MaxId]
      /\ disturbances \in 0..MaxDisturbances /\ MaxDisturbances \in Nat
  BY TypeParts, StreamAssumption
<1>2. Disturb /\ UNCHANGED <<table, saved, sse>>
  BY DEF HookRerun, HookSwitch
<1>3. disturbances' \in 0..MaxDisturbances
  BY <1>1, <1>2 DEF Disturb
<1>4. \/ flight' = [flight EXCEPT !.stopped = TRUE]
      \/ flight' = flight /\ flight.pc = "idle"
  BY DEF HookRerun, HookSwitch
<1>5. /\ flight' \in FlightRow
      /\ flight'.pc = flight.pc /\ flight'.page = flight.page /\ flight'.next = flight.next
      /\ flight'.invoice = flight.invoice /\ flight'.cursor = flight.cursor
      /\ flight'.pc # "idle" => flight'.stopped
  BY <1>1, <1>4 DEF FlightRow
<1>6. CASE HookRerun
  BY <1>2, <1>3, <1>5, <1>6 DEF HookRerun
<1>7. ASSUME NEW i \in Invoices, HookSwitch(i)
      PROVE  /\ view' \in ViewRow
             /\ view'.events = <<>> /\ view'.from = view'.cursor
             /\ view'.invoice \in Invoices /\ view'.cursor = saved[view'.invoice]
  <2>1. view' = [invoice |-> i, cursor |-> saved[i], events |-> <<>>, from |-> saved[i]]
    BY <1>7 DEF HookSwitch
  <2>2. saved[i] \in 0..MaxId /\ <<>> \in Seq(1..MaxId)
    BY <1>1
  <2> QED BY <2>1, <2>2 DEF ViewRow
<1> QED BY <1>2, <1>3, <1>5, <1>6, <1>7

LEMMA StreamOpenEffect ==
  ASSUME TypeOK, NEW i \in Invoices, NEW c \in 0..MaxId, StreamOpen(i, c)
  PROVE  /\ sse' \in StreamRow
         /\ sse'.pc = "wait" /\ sse'.from = c /\ sse'.afterID = c
         /\ sse'.page = <<>> /\ sse'.sent = <<>>
         /\ UNCHANGED <<table, view, saved, flight, disturbances>>
<1>1. <<>> \in Seq(1..MaxId)
  OBVIOUS
<1> QED BY <1>1 DEF StreamOpen, StreamRow

LEMMA StreamPollEffect ==
  ASSUME TypeOK, StreamPoll
  PROVE  /\ sse.pc = "wait"
         /\ sse' \in StreamRow
         /\ sse'.pc = "send" /\ sse'.from = sse.from /\ sse'.sent = sse.sent
         /\ sse'.invoice = sse.invoice
         /\ sse'.page # <<>>
         /\ Increasing(sse'.page)
         /\ sse'.afterID > sse.afterID
         /\ \E r \in rows : r.id = sse'.afterID
         /\ Range(sse'.page) = In(rows, sse.invoice, sse.afterID, sse'.afterID)
         /\ UNCHANGED <<table, view, saved, flight, disturbances>>
<1> DEFINE page == ListInvoiceEvents(sse.invoice, sse.afterID)
           next == nextCursor(page)
<1>1. sse \in StreamRow /\ rows \subseteq Row
  BY TypeParts
<1>2. sse.afterID \in Nat
  BY <1>1, StreamAssumption DEF StreamRow
<1>3. /\ page \in Seq(1..MaxId)
      /\ Increasing(page)
      /\ next \in 0..MaxId
      /\ page # <<>> => /\ next > sse.afterID
                        /\ \E r \in rows : r.id = next
                        /\ Range(page) = Between(sse.invoice, sse.afterID, next)
  BY <1>1, <1>2, PageExact
<1>4. /\ page # <<>> /\ sse.pc = "wait"
      /\ sse' = [sse EXCEPT !.pc = "send", !.page = page, !.afterID = next]
  BY DEF StreamPoll
<1> HIDE DEF page, next
<1>5. /\ sse' \in StreamRow
      /\ sse'.pc = "send" /\ sse'.page = page /\ sse'.afterID = next
      /\ sse'.from = sse.from /\ sse'.sent = sse.sent /\ sse'.invoice = sse.invoice
  BY <1>1, <1>3, <1>4 DEF StreamRow
<1> QED BY <1>3, <1>4, <1>5 DEF StreamPoll, Between, In

\* Moving the head of one list to the end of another keeps their concatenation.
LEMMA MoveOne ==
  ASSUME NEW S, NEW s \in Seq(S), NEW p \in Seq(S), p # <<>>
  PROVE  /\ Append(s, Head(p)) \in Seq(S)
         /\ Tail(p) \in Seq(S)
         /\ Append(s, Head(p)) \o Tail(p) = s \o p
         /\ Len(p) = 1 <=> Tail(p) = <<>>
<1> DEFINE a == Append(s, Head(p))
           t == Tail(p)
<1>1. Len(p) \in Nat \ {0} /\ Head(p) = p[1] /\ p[1] \in S
  OBVIOUS
<1>2. t \in Seq(S) /\ Len(t) = Len(p) - 1 /\ \A k \in 1..(Len(p) - 1) : t[k] = p[k + 1]
  BY <1>1
<1>3. a \in Seq(S) /\ Len(a) = Len(s) + 1 /\ a[Len(s) + 1] = p[1]
      /\ \A k \in 1..Len(s) : a[k] = s[k]
  BY <1>1
<1> HIDE DEF a, t
<1>4. a \o t = s \o p
  <2>0. Len(s) \in Nat /\ Len(p) \in Nat
    OBVIOUS
  <2>1. a \o t \in Seq(S) /\ Len(a \o t) = Len(s) + Len(p)
    <3>0. a \in Seq(S) /\ t \in Seq(S)
      BY <1>2, <1>3
    <3>1. a \o t \in Seq(S) /\ Len(a \o t) = Len(a) + Len(t)
      BY <3>0
    <3> QED BY <1>2, <1>3, <2>0, <3>1
  <2>2. s \o p \in Seq(S) /\ Len(s \o p) = Len(s) + Len(p)
    OBVIOUS
  <2>3. ASSUME NEW k \in 1..(Len(s) + Len(p)) PROVE (a \o t)[k] = (s \o p)[k]
    <3>1. CASE k <= Len(s)
      BY <1>1, <1>2, <1>3, <3>1
    <3>2. CASE k = Len(s) + 1
      BY <1>1, <1>2, <1>3, <3>2
    <3>3. CASE k > Len(s) + 1
      <4>1. k - (Len(s) + 1) \in 1..(Len(p) - 1) /\ (k - (Len(s) + 1)) + 1 = k - Len(s)
        BY <1>1, <3>3
      <4>2. (a \o t)[k] = t[k - (Len(s) + 1)]
        BY <1>1, <1>2, <1>3, <3>3
      <4>3. (s \o p)[k] = p[k - Len(s)]
        BY <1>1, <3>3
      <4> QED BY <1>2, <4>1, <4>2, <4>3
    <3>4. k <= Len(s) \/ k = Len(s) + 1 \/ k > Len(s) + 1
      BY <2>0
    <3> QED BY <3>1, <3>2, <3>3, <3>4, Zenon
  <2> QED BY <2>1, <2>2, <2>3
<1>5. Len(p) = 1 <=> t = <<>>
  <2>1. t = <<>> <=> Len(t) = 0
    BY <1>2
  <2> QED BY <1>1, <1>2, <2>1
<1> QED BY <1>2, <1>3, <1>4, <1>5 DEF a, t

LEMMA StreamSendEffect ==
  ASSUME TypeOK, PageInHand, StreamSend
  PROVE  /\ sse' \in StreamRow
         /\ sse'.from = sse.from /\ sse'.invoice = sse.invoice /\ sse'.afterID = sse.afterID
         /\ sse'.sent \o sse'.page = sse.sent \o sse.page
         /\ sse'.pc = "send" <=> sse'.page # <<>>
         /\ UNCHANGED <<table, view, saved, flight, disturbances>>
<1> DEFINE sent == Append(sse.sent, Head(sse.page))
           page == Tail(sse.page)
           pc == IF Len(sse.page) = 1 THEN "wait" ELSE "send"
<1>1. sse \in StreamRow
  BY TypeParts
<1>2. sse.page \in Seq(1..MaxId) /\ sse.sent \in Seq(1..MaxId) /\ sse.page # <<>>
  BY <1>1 DEF StreamRow, StreamSend, PageInHand
<1>3. sent \in Seq(1..MaxId) /\ page \in Seq(1..MaxId) /\ pc \in {"wait", "send"}
  BY <1>2, MoveOne
<1>4. sent \o page = sse.sent \o sse.page
  BY <1>2, MoveOne
<1>5. pc = "send" <=> page # <<>>
  BY <1>2, MoveOne
<1>6. sse' = [sse EXCEPT !.sent = sent, !.page = page, !.pc = pc]
  BY DEF StreamSend
<1> HIDE DEF sent, page, pc
<1>7. /\ sse' \in StreamRow
      /\ sse'.pc = pc /\ sse'.page = page /\ sse'.sent = sent
      /\ sse'.from = sse.from /\ sse'.invoice = sse.invoice /\ sse'.afterID = sse.afterID
  BY <1>1, <1>3, <1>6 DEF StreamRow
<1> QED BY <1>4, <1>5, <1>7 DEF StreamSend

LEMMA LostEffect ==
  ASSUME TypeOK, HookLost \/ StreamClose
  PROVE  /\ disturbances' \in 0..MaxDisturbances
         /\ UNCHANGED <<table, view, saved>>
         /\ \/ flight' = Nowhere /\ Nowhere \in FlightRow /\ sse' = sse
            \/ sse' = NoStream /\ NoStream \in StreamRow /\ flight' = flight
<1>1. disturbances \in 0..MaxDisturbances /\ MaxDisturbances \in Nat /\ view.invoice \in Invoices
  BY TypeParts, StreamAssumption DEF ViewRow
<1>2. disturbances' \in 0..MaxDisturbances
  BY <1>1 DEF HookLost, StreamClose, Disturb
<1> QED BY <1>1, <1>2, StartTypes DEF HookLost, StreamClose

LEMMA NextType == TypeOK /\ PageInHand /\ [Next]_vars => TypeOK' /\ PageInHand'
<1> SUFFICES ASSUME TypeOK, PageInHand, [Next]_vars PROVE TypeOK' /\ PageInHand'
  OBVIOUS
<1>1. CASE UNCHANGED vars
  BY <1>1 DEF vars, TypeOK, PageInHand
<1>2. ASSUME NEW w \in Writers,
             Commit(w) \/ Rollback(w) \/ \E i \in Invoices : InsertEvent(w, i)
      PROVE  TypeOK' /\ PageInHand'
  <2>1. sse' = sse
    BY <1>2 DEF Commit, Rollback, InsertEvent
  <2> QED BY <1>2, <2>1, TableType DEF PageInHand
<1>3. CASE HookTick \/ ServeEvents
  <2>1. flight' \in FlightRow /\ UNCHANGED <<table, view, saved, sse, disturbances>>
    BY <1>3, HookTickEffect, ServeEffect
  <2> QED BY <2>1 DEF TypeOK, FlightRow, PageInHand, table
<1>4. CASE HookReceive
  <2>1. /\ flight' \in FlightRow /\ view' \in ViewRow /\ saved' \in [Invoices -> 0..MaxId]
        /\ UNCHANGED <<table, sse, disturbances>>
    BY <1>4, ReceiveEffect
  <2> QED BY <2>1 DEF TypeOK, FlightRow, ViewRow, PageInHand, table
<1>5. CASE HookRerun \/ \E i \in Invoices : HookSwitch(i)
  <2>1. /\ flight' \in FlightRow /\ (view' = view \/ view' \in ViewRow)
        /\ disturbances' \in 0..MaxDisturbances /\ UNCHANGED <<table, saved, sse>>
    BY <1>5, StopEffect
  <2>2. view' \in ViewRow
    BY <2>1, TypeParts
  <2> QED BY <2>1, <2>2 DEF TypeOK, FlightRow, ViewRow, PageInHand, table
<1>6. CASE HookLost \/ StreamClose
  <2>1. /\ disturbances' \in 0..MaxDisturbances
        /\ UNCHANGED <<table, view, saved>>
        /\ \/ flight' \in FlightRow /\ sse' = sse
           \/ sse' = NoStream /\ sse' \in StreamRow /\ flight' = flight
    BY <1>6, LostEffect
  <2>2. flight' \in FlightRow /\ sse' \in StreamRow
    BY <2>1, TypeParts
  <2>3. PageInHand'
    BY <2>1 DEF PageInHand, NoStream
  <2> QED BY <2>1, <2>2, <2>3 DEF TypeOK, FlightRow, StreamRow, table
<1>7. ASSUME \/ \E i \in Invoices, cursor \in 0..MaxId : StreamOpen(i, cursor)
             \/ StreamPoll \/ StreamSend
      PROVE  TypeOK' /\ PageInHand'
  <2>1. /\ sse' \in StreamRow
        /\ sse'.pc = "send" <=> sse'.page # <<>>
        /\ UNCHANGED <<table, view, saved, flight, disturbances>>
    <3>1. ASSUME NEW i \in Invoices, NEW c \in 0..MaxId, StreamOpen(i, c)
          PROVE  /\ sse' \in StreamRow
                 /\ sse'.pc = "send" <=> sse'.page # <<>>
                 /\ UNCHANGED <<table, view, saved, flight, disturbances>>
      BY <3>1, StreamOpenEffect
    <3>2. CASE StreamPoll
      BY <3>2, StreamPollEffect
    <3>3. CASE StreamSend
      BY <3>3, StreamSendEffect
    <3> QED BY <1>7, <3>1, <3>2, <3>3
  <2> QED BY <2>1 DEF TypeOK, StreamRow, PageInHand, table
<1> QED BY <1>1, <1>2, <1>3, <1>4, <1>5, <1>6, <1>7 DEF Next

\* Rows, requests, pages and connections have their shape, whether transactions
\* are serialized or not: in particular a cursor is never beyond the last id.
THEOREM TypeCorrect == Spec => []TypeOK
<1>1. Spec => [](TypeOK /\ PageInHand)
  BY InitType, NextType, PTL DEF Spec
<1> QED BY <1>1, PTL

---------------------------------------------------------------------------
(* The table *)

\* With serialized transactions an id is visible only after all smaller ones:
\* what is fixed stays fixed, and so does the list of events up to it.
LEMMA TableStep ==
  ASSUME Serialized, TypeOK, Table, [Next]_vars
  PROVE  /\ Table'
         /\ \A c \in Nat : Fixed(nextId, txs, c) => Fixed(nextId', txs', c)
         /\ \A i : \A f, c \in Nat : Fixed(nextId, txs, c) \/ c <= f =>
              In(rows', i, f, c) = In(rows, i, f, c)
<1>0. /\ nextId \in Nat /\ rows \subseteq Row /\ txs \in [Writers -> SUBSET Row]
      /\ \A r \in Row : r.id \in Nat
  BY StreamAssumption DEF TypeOK, Row
<1>1. CASE UNCHANGED table
  BY <1>1 DEF table, Table
<1>2. ASSUME NEW w \in Writers, NEW i \in Invoices, InsertEvent(w, i)
      PROVE  /\ Table'
             /\ \A c \in Nat : Fixed(nextId, txs, c) => Fixed(nextId', txs', c)
             /\ rows' = rows
  <2> DEFINE new == [id |-> nextId, invoice |-> i]
  <2>1. /\ nextId' = nextId + 1 /\ rows' = rows
        /\ txs'[w] = txs[w] \cup {new}
        /\ \A v \in Writers \ {w} : txs'[v] = txs[v] /\ txs[v] = {}
    BY <1>0, <1>2 DEF InsertEvent
  <2>2. new.id = nextId
    OBVIOUS
  <2> HIDE DEF new
  <2>3. \A v \in Writers : \A t \in txs'[v] : t \in txs[v] \/ (v = w /\ t = new)
    BY <2>1
  <2>4. \A v \in Writers : \A t \in txs[v] : t.id \in Nat /\ t.id < nextId
    BY <1>0 DEF Table
  <2>5. Table'
    <3>1. \A r \in rows' : r.id < nextId'
      BY <1>0, <2>1 DEF Table
    <3>2. ASSUME NEW v \in Writers, NEW t \in txs'[v]
          PROVE  t.id < nextId' /\ \A r \in rows' : r.id < t.id
      <4>1. CASE t \in txs[v]
        BY <1>0, <2>1, <2>4, <4>1 DEF Table
      <4>2. CASE t = new
        BY <1>0, <2>1, <2>2, <4>2 DEF Table
      <4> QED BY <2>3, <4>1, <4>2
    <3>3. \A v, u \in Writers : v # u => txs'[v] = {} \/ txs'[u] = {}
      BY <2>1
    <3> QED BY <3>1, <3>2, <3>3 DEF Table
  <2>6. ASSUME NEW c \in Nat, Fixed(nextId, txs, c) PROVE Fixed(nextId', txs', c)
    <3>1. c < nextId /\ \A v \in Writers : \A t \in txs[v] : c < t.id
      BY <2>6 DEF Fixed
    <3>2. c < nextId'
      BY <1>0, <2>1, <3>1
    <3> QED BY <2>2, <2>3, <3>1, <3>2 DEF Fixed
  <2> QED BY <2>1, <2>5, <2>6
<1>3. ASSUME NEW w \in Writers, Commit(w)
      PROVE  /\ Table'
             /\ \A c \in Nat : Fixed(nextId, txs, c) => Fixed(nextId', txs', c)
             /\ \A i : \A f, c \in Nat : Fixed(nextId, txs, c) \/ c <= f =>
                  In(rows', i, f, c) = In(rows, i, f, c)
  <2>1. /\ nextId' = nextId /\ rows' = rows \cup txs[w]
        /\ txs'[w] = {} /\ txs[w] # {}
        /\ \A v \in Writers \ {w} : txs'[v] = txs[v]
    BY <1>0, <1>3 DEF Commit
  <2>2. \A v \in Writers : txs'[v] = {}
    BY <2>1 DEF Table
  <2>3. Table'
    BY <2>1, <2>2 DEF Table
  <2>4. \A c \in Nat : Fixed(nextId, txs, c) => Fixed(nextId', txs', c)
    BY <2>1, <2>2 DEF Fixed
  <2>5. ASSUME NEW i, NEW f \in Nat, NEW c \in Nat, Fixed(nextId, txs, c) \/ c <= f
        PROVE  In(rows', i, f, c) = In(rows, i, f, c)
    <3>1. \A t \in txs[w] : ~(t.id > f /\ t.id <= c)
      <4>1. \A t \in txs[w] : t.id \in Nat
        BY <1>0
      <4>2. Fixed(nextId, txs, c) => \A t \in txs[w] : c < t.id
        BY DEF Fixed
      <4> QED BY <2>5, <4>1, <4>2
    <3>2. {q \in rows' : q.invoice = i /\ q.id > f /\ q.id <= c}
            = {q \in rows : q.invoice = i /\ q.id > f /\ q.id <= c}
      BY <2>1, <3>1
    <3> QED BY <3>2 DEF In
  <2> QED BY <2>3, <2>4, <2>5
<1>4. ASSUME NEW w \in Writers, Rollback(w)
      PROVE  /\ Table'
             /\ \A c \in Nat : Fixed(nextId, txs, c) => Fixed(nextId', txs', c)
             /\ rows' = rows
  <2>1. /\ nextId' = nextId /\ rows' = rows
        /\ \A v \in Writers : txs'[v] = {} \/ txs'[v] = txs[v]
    BY <1>0, <1>4 DEF Rollback
  <2> QED BY <2>1 DEF Table, Fixed
<1>5. \/ UNCHANGED table
      \/ \E w \in Writers : \/ Commit(w) \/ Rollback(w)
                            \/ \E i \in Invoices : InsertEvent(w, i)
  BY DEF Next, vars, table, HookTick, ServeEvents, HookReceive, HookLost, HookRerun, HookSwitch,
         StreamOpen, StreamPoll, StreamSend, StreamClose
<1> QED BY <1>1, <1>2, <1>3, <1>4, <1>5 DEF table
---------------------------------------------------------------------------
(* The invariant of the readers *)

\* The events up to a cursor, and those up to a later one.
LEMMA InParts ==
  ASSUME NEW R \in SUBSET Row, NEW i, NEW f \in Nat, NEW c \in Nat, NEW n \in Nat
  PROVE  /\ \A x \in In(R, i, f, c) : x \in Nat /\ f < x /\ x <= c
         /\ In(R, i, c, c) = {}
         /\ f <= c /\ c <= n => In(R, i, f, n) = In(R, i, f, c) \cup In(R, i, c, n)
<1>1. \A r \in R : r.id \in Nat
  BY StreamAssumption DEF Row
<1>2. \A x \in In(R, i, f, c) : x \in Nat /\ f < x /\ x <= c
  BY <1>1 DEF In
<1>3. In(R, i, c, c) = {}
  BY <1>1 DEF In
<1>4. ASSUME f <= c, c <= n
      PROVE  In(R, i, f, n) = In(R, i, f, c) \cup In(R, i, c, n)
  <2>1. \A r \in R : (r.id > f /\ r.id <= n) <=> (r.id > f /\ r.id <= c) \/ (r.id > c /\ r.id <= n)
    BY <1>1, <1>4
  <2> QED BY <2>1, Zenon DEF In
<1> QED BY <1>2, <1>3, <1>4

LEMMA EmptyList == Range(<<>>) = {} /\ Increasing(<<>>)
  BY DEF Range, Increasing

\* A list that is complete up to a cursor, and the page read from that cursor.
LEMMA Extend ==
  ASSUME NEW R \in SUBSET Row, NEW i, NEW f \in Nat, NEW c \in Nat, NEW n \in Nat,
         f <= c, c <= n,
         NEW s \in Seq(1..MaxId), NEW p \in Seq(1..MaxId),
         Increasing(s), Increasing(p),
         Range(s) = In(R, i, f, c), Range(p) = In(R, i, c, n)
  PROVE  Increasing(s \o p) /\ Range(s \o p) = In(R, i, f, n)
<1>1. s \in Seq(Nat) /\ p \in Seq(Nat)
  <2>1. \A t \in Seq(1..MaxId) : t \in Seq(Nat)
    BY StreamAssumption
  <2> QED BY <2>1
<1>2. \A x \in Range(s) : x <= c
  <2>1. \A x \in In(R, i, f, c) : x <= c
    BY InParts
  <2> QED BY <2>1
<1>3. \A y \in Range(p) : y > c
  <2>1. \A y \in In(R, i, c, n) : y \in Nat /\ c < y
    BY InParts
  <2> QED BY <2>1
<1>4. Increasing(s \o p) /\ Range(s \o p) = Range(s) \cup Range(p)
  BY <1>1, <1>2, <1>3, Join
<1>5. In(R, i, f, n) = In(R, i, f, c) \cup In(R, i, c, n)
  BY InParts
<1> QED BY <1>4, <1>5

LEMMA InitStream == Init => StreamInv
<1> SUFFICES ASSUME Init PROVE StreamInv
  OBVIOUS
<1>1. /\ nextId = 1 /\ rows = {} /\ txs = [w \in Writers |-> {}]
      /\ view.from = 0 /\ view.cursor = 0 /\ view.events = <<>>
      /\ saved = [i \in Invoices |-> 0] /\ flight = Nowhere /\ sse = NoStream
  BY DEF Init
<1>2. Fixed(nextId, txs, 0)
  BY <1>1 DEF Fixed
<1>3. \A i : In(rows, i, 0, 0) = {}
  BY <1>1 DEF In
<1>4. Table
  BY <1>1 DEF Table
<1>5. ViewOK
  BY <1>1, <1>2, <1>3, EmptyList DEF ViewOK
<1>6. SavedOK
  BY <1>1, <1>2 DEF SavedOK
<1>7. FlightOK
  BY <1>1 DEF FlightOK, Nowhere
<1>8. StreamOK
  <2>1. sse.sent \o sse.page = <<>> /\ sse.from = 0 /\ sse.afterID = 0
    BY <1>1 DEF NoStream
  <2>2. Range(sse.sent \o sse.page) = In(rows, sse.invoice, sse.from, sse.afterID)
    BY <1>3, <2>1, EmptyList
  <2>3. Increasing(sse.sent \o sse.page)
    BY <2>1, EmptyList
  <2> QED BY <2>1, <2>2, <2>3 DEF StreamOK
<1> QED BY <1>4, <1>5, <1>6, <1>7, <1>8 DEF StreamInv

\* The id of a committed event is fixed.
LEMMA CommittedFixed ==
  ASSUME Table, NEW c, \E r \in rows : r.id = c
  PROVE  Fixed(nextId, txs, c)
  BY DEF Table, Fixed

\* What no step of its own changes stays true while the table grows.
LEMMA ViewKept ==
  ASSUME Serialized, TypeOK, StreamInv, [Next]_vars, view' = view
  PROVE  ViewOK'
<1>1. view.cursor \in Nat /\ view.from \in Nat
  BY TypeParts, StreamAssumption DEF ViewRow
<1>2. Fixed(nextId, txs, view.cursor)
  BY DEF StreamInv, ViewOK
<1>3. Fixed(nextId', txs', view.cursor)
  BY <1>1, <1>2, TableStep DEF StreamInv
<1>4. In(rows', view.invoice, view.from, view.cursor) = In(rows, view.invoice, view.from, view.cursor)
  BY <1>1, <1>2, TableStep DEF StreamInv
<1> QED BY <1>3, <1>4 DEF StreamInv, ViewOK

LEMMA SavedKept ==
  ASSUME Serialized, TypeOK, StreamInv, [Next]_vars, saved' = saved
  PROVE  SavedOK'
<1>1. \A i \in Invoices : saved[i] \in Nat
  BY TypeParts, StreamAssumption
<1> QED BY <1>1, TableStep DEF StreamInv, SavedOK

LEMMA FlightKept ==
  ASSUME Serialized, TypeOK, StreamInv, [Next]_vars,
         flight'.pc = flight.pc, flight'.page = flight.page, flight'.next = flight.next,
         flight'.invoice = flight.invoice, flight'.cursor = flight.cursor,
         flight'.pc # "idle" /\ ~flight'.stopped => ~flight.stopped /\ view' = view
  PROVE  FlightOK'
<1>1. flight.cursor \in Nat /\ flight.next \in Nat
  BY TypeParts, StreamAssumption DEF FlightRow
<1>2. FlightOK
  BY DEF StreamInv
<1>3. flight'.pc # "idle" /\ ~flight'.stopped =>
        flight'.invoice = view'.invoice /\ flight'.cursor = view'.cursor
  BY <1>2 DEF FlightOK
<1>4. ASSUME flight'.pc = "answered", flight'.page # <<>>
      PROVE  /\ flight'.next > flight'.cursor
             /\ Fixed(nextId', txs', flight'.next)
             /\ Range(flight'.page) = In(rows', flight'.invoice, flight'.cursor, flight'.next)
  <2>1. /\ flight.next > flight.cursor
        /\ Fixed(nextId, txs, flight.next)
        /\ Range(flight.page) = In(rows, flight.invoice, flight.cursor, flight.next)
    BY <1>2, <1>4 DEF FlightOK
  <2>2. Fixed(nextId', txs', flight.next)
    BY <1>1, <2>1, TableStep DEF StreamInv
  <2>3. In(rows', flight.invoice, flight.cursor, flight.next)
          = In(rows, flight.invoice, flight.cursor, flight.next)
    BY <1>1, <2>1, TableStep DEF StreamInv
  <2> QED BY <2>1, <2>2, <2>3
<1> QED BY <1>2, <1>3, <1>4 DEF FlightOK

LEMMA StreamKept ==
  ASSUME Serialized, TypeOK, StreamInv, [Next]_vars,
         sse'.from = sse.from, sse'.invoice = sse.invoice, sse'.afterID = sse.afterID,
         sse'.sent \o sse'.page = sse.sent \o sse.page
  PROVE  StreamOK'
<1>1. sse.from \in Nat /\ sse.afterID \in Nat
  BY TypeParts, StreamAssumption DEF StreamRow
<1>2. StreamOK
  BY DEF StreamInv
<1>3. sse.afterID = sse.from \/ Fixed(nextId, txs, sse.afterID)
  BY <1>2 DEF StreamOK
<1>4. sse.afterID = sse.from \/ Fixed(nextId', txs', sse.afterID)
  BY <1>1, <1>3, TableStep DEF StreamInv
<1>5. In(rows', sse.invoice, sse.from, sse.afterID) = In(rows, sse.invoice, sse.from, sse.afterID)
  <2>1. Fixed(nextId, txs, sse.afterID) \/ sse.afterID <= sse.from
    BY <1>1, <1>3
  <2> QED BY <1>1, <2>1, TableStep DEF StreamInv
<1> QED BY <1>2, <1>4, <1>5 DEF StreamOK

\* An answer taken in: the view is complete up to the answer's next_cursor.
LEMMA ReceiveStep ==
  ASSUME Serialized, TypeOK, StreamInv, HookReceive
  PROVE  ViewOK' /\ SavedOK' /\ FlightOK'
<1>0. [Next]_vars
  BY DEF Next
<1>1. /\ flight' = Nowhere
      /\ flight.pc = "answered"
      /\ flight.stopped => view' = view /\ saved' = saved
      /\ ~flight.stopped =>
           /\ view'.invoice = view.invoice /\ view'.from = view.from
           /\ view'.events = view.events \o flight.page
           /\ view'.cursor = IF flight.next # 0 THEN flight.next ELSE view.cursor
           /\ \A i \in Invoices : saved'[i] \in {saved[i], view'.cursor}
      /\ UNCHANGED <<table, sse, disturbances>>
  BY ReceiveEffect
<1>2. FlightOK'
  BY <1>1 DEF FlightOK, Nowhere
<1>3. CASE flight.stopped
  BY <1>0, <1>1, <1>2, <1>3, ViewKept, SavedKept
<1>4. CASE ~flight.stopped
  <2>1. /\ nextId' = nextId /\ txs' = txs /\ rows' = rows /\ rows \in SUBSET Row
        /\ flight.pc = "answered"
        /\ view'.invoice = view.invoice /\ view'.from = view.from
        /\ view'.events = view.events \o flight.page
        /\ view'.cursor = IF flight.next # 0 THEN flight.next ELSE view.cursor
        /\ \A i \in Invoices : saved'[i] \in {saved[i], view'.cursor}
    BY <1>1, <1>4, TypeParts DEF table
  <2>2. /\ view.from \in Nat /\ view.cursor \in Nat /\ flight.next \in Nat
        /\ view.events \in Seq(1..MaxId) /\ flight.page \in Seq(1..MaxId)
    BY TypeParts, StreamAssumption DEF ViewRow, FlightRow
  <2>3. /\ view.from <= view.cursor
        /\ Fixed(nextId, txs, view.cursor)
        /\ Increasing(view.events)
        /\ Range(view.events) = In(rows, view.invoice, view.from, view.cursor)
    BY DEF StreamInv, ViewOK
  <2>4. /\ flight.invoice = view.invoice /\ flight.cursor = view.cursor
        /\ Increasing(flight.page)
        /\ flight.page = <<>> => flight.next = 0
        /\ flight.page # <<>> =>
             /\ flight.next > flight.cursor
             /\ Fixed(nextId, txs, flight.next)
             /\ Range(flight.page) = In(rows, flight.invoice, flight.cursor, flight.next)
    BY <1>4, <2>1 DEF StreamInv, FlightOK
  <2>5. /\ view.from <= view'.cursor
        /\ Fixed(nextId, txs, view'.cursor)
        /\ Increasing(view'.events)
        /\ Range(view'.events) = In(rows, view.invoice, view.from, view'.cursor)
    <3>1. CASE flight.page = <<>>
      <4>1. view'.cursor = view.cursor
        BY <2>1, <2>4, <3>1
      <4>2. view'.events = view.events
        BY <2>1, <2>2, <3>1
      <4> QED BY <2>3, <4>1, <4>2
    <3>2. CASE flight.page # <<>>
      <4>1. flight.next > view.cursor /\ Fixed(nextId, txs, flight.next)
            /\ Range(flight.page) = In(rows, view.invoice, view.cursor, flight.next)
        BY <2>4, <3>2
      <4>2. view'.cursor = flight.next /\ view.cursor <= flight.next /\ view.from <= flight.next
        BY <2>1, <2>2, <2>3, <4>1
      <4>3. Increasing(view.events \o flight.page)
            /\ Range(view.events \o flight.page) = In(rows, view.invoice, view.from, flight.next)
        <5>1. /\ rows \in SUBSET Row
              /\ view.from \in Nat /\ view.cursor \in Nat /\ flight.next \in Nat
              /\ view.from <= view.cursor /\ view.cursor <= flight.next
              /\ view.events \in Seq(1..MaxId) /\ flight.page \in Seq(1..MaxId)
              /\ Increasing(view.events) /\ Increasing(flight.page)
              /\ Range(view.events) = In(rows, view.invoice, view.from, view.cursor)
              /\ Range(flight.page) = In(rows, view.invoice, view.cursor, flight.next)
          BY <2>1, <2>2, <2>3, <2>4, <4>1, <4>2
        <5> QED BY <5>1, Extend
      <4> QED BY <2>1, <4>1, <4>2, <4>3
    <3> QED BY <3>1, <3>2
  <2>6. ViewOK'
    BY <2>1, <2>5 DEF ViewOK
  <2>7. SavedOK'
    BY <2>1, <2>5 DEF StreamInv, SavedOK
  <2> QED BY <1>2, <2>6, <2>7
<1> QED BY <1>3, <1>4

\* The hook's other steps.
LEMMA HookStep ==
  ASSUME Serialized, TypeOK, StreamInv,
         \/ HookTick \/ ServeEvents \/ HookRerun
         \/ \E i \in Invoices : HookSwitch(i)
  PROVE  ViewOK' /\ SavedOK' /\ FlightOK'
<1>0. [Next]_vars
  BY DEF Next
<1>1. CASE HookTick
  <2>1. /\ flight'.pc = "asked" /\ flight'.invoice = view.invoice /\ flight'.cursor = view.cursor
        /\ view' = view /\ saved' = saved
    BY <1>1, HookTickEffect
  <2>2. FlightOK'
    BY <2>1 DEF FlightOK
  <2> QED BY <1>0, <2>1, <2>2, ViewKept, SavedKept
<1>2. CASE ServeEvents
  <2>1. /\ flight'.pc = "answered"
        /\ flight'.invoice = flight.invoice /\ flight'.cursor = flight.cursor
        /\ flight'.stopped = flight.stopped
        /\ Increasing(flight'.page)
        /\ flight'.page = <<>> => flight'.next = 0
        /\ flight'.page # <<>> =>
             /\ flight'.next > flight.cursor
             /\ \E r \in rows : r.id = flight'.next
             /\ Range(flight'.page) = In(rows, flight.invoice, flight.cursor, flight'.next)
        /\ nextId' = nextId /\ txs' = txs /\ rows' = rows /\ view' = view /\ saved' = saved
    BY <1>2, ServeEffect DEF table
  <2>2. flight'.page # <<>> => Fixed(nextId, txs, flight'.next)
    BY <2>1, CommittedFixed DEF StreamInv
  <2>3. ~flight.stopped => flight.invoice = view.invoice /\ flight.cursor = view.cursor
    BY <1>2 DEF ServeEvents, StreamInv, FlightOK
  <2>4. FlightOK'
    BY <2>1, <2>2, <2>3 DEF FlightOK
  <2> QED BY <1>0, <2>1, <2>4, ViewKept, SavedKept
<1>3. CASE HookRerun \/ \E i \in Invoices : HookSwitch(i)
  <2>1. /\ flight'.pc = flight.pc /\ flight'.page = flight.page /\ flight'.next = flight.next
        /\ flight'.invoice = flight.invoice /\ flight'.cursor = flight.cursor
        /\ flight'.pc # "idle" => flight'.stopped
        /\ \/ view' = view
           \/ /\ view' \in ViewRow
              /\ view'.events = <<>> /\ view'.from = view'.cursor
              /\ view'.invoice \in Invoices /\ view'.cursor = saved[view'.invoice]
        /\ nextId' = nextId /\ txs' = txs /\ rows' = rows /\ saved' = saved
    BY <1>3, StopEffect DEF table
  <2>2. FlightOK'
    BY <1>0, <2>1, FlightKept
  <2>3. ViewOK'
    <3>1. CASE view' = view
      BY <1>0, <3>1, ViewKept
    <3>2. CASE /\ view' \in ViewRow
               /\ view'.events = <<>> /\ view'.from = view'.cursor
               /\ view'.invoice \in Invoices /\ view'.cursor = saved[view'.invoice]
      <4>1. Fixed(nextId, txs, view'.cursor)
        BY <3>2 DEF StreamInv, SavedOK
      <4>2. view'.cursor \in Nat /\ rows \in SUBSET Row
        BY <3>2, TypeParts, StreamAssumption DEF ViewRow
      <4>3. In(rows, view'.invoice, view'.cursor, view'.cursor) = {}
        BY <4>2, InParts
      <4>4. /\ view'.from <= view'.cursor
            /\ Fixed(nextId', txs', view'.cursor)
            /\ Increasing(view'.events)
            /\ Range(view'.events) = In(rows', view'.invoice, view'.from, view'.cursor)
        BY <2>1, <3>2, <4>1, <4>2, <4>3, EmptyList
      <4> QED BY <4>4 DEF ViewOK
    <3> QED BY <2>1, <3>1, <3>2
  <2> QED BY <1>0, <2>1, <2>2, <2>3, SavedKept
<1> QED BY <1>1, <1>2, <1>3

\* The steps of the connection.
LEMMA ConnectionStep ==
  ASSUME Serialized, TypeOK, PageInHand, StreamInv,
         \/ \E i \in Invoices, cursor \in 0..MaxId : StreamOpen(i, cursor)
         \/ StreamPoll \/ StreamSend
  PROVE  StreamOK'
<1>0. [Next]_vars
  BY DEF Next
<1>1. ASSUME NEW i \in Invoices, NEW c \in 0..MaxId, StreamOpen(i, c)
      PROVE  StreamOK'
  <2>1. /\ sse'.from = c /\ sse'.afterID = c /\ sse'.page = <<>> /\ sse'.sent = <<>>
        /\ rows' = rows
    BY <1>1, StreamOpenEffect DEF table
  <2>2. c \in Nat /\ rows \in SUBSET Row
    BY TypeParts, StreamAssumption
  <2>3. In(rows, sse'.invoice, c, c) = {}
    BY <2>2, InParts
  <2>4. sse'.sent \o sse'.page = <<>>
    BY <2>1
  <2>5. Increasing(sse'.sent \o sse'.page)
    BY <2>4, EmptyList
  <2>6. Range(sse'.sent \o sse'.page) = In(rows', sse'.invoice, sse'.from, sse'.afterID)
    BY <2>1, <2>3, <2>4, EmptyList
  <2>7. sse'.from <= sse'.afterID
    BY <2>1, <2>2
  <2> QED BY <2>1, <2>5, <2>6, <2>7 DEF StreamOK
<1>2. CASE StreamPoll
  <2>1. /\ sse.pc = "wait"
        /\ sse'.from = sse.from /\ sse'.sent = sse.sent /\ sse'.invoice = sse.invoice
        /\ sse' \in StreamRow
        /\ Increasing(sse'.page)
        /\ sse'.afterID > sse.afterID
        /\ \E r \in rows : r.id = sse'.afterID
        /\ Range(sse'.page) = In(rows, sse.invoice, sse.afterID, sse'.afterID)
        /\ nextId' = nextId /\ txs' = txs /\ rows' = rows /\ rows \in SUBSET Row
    BY <1>2, StreamPollEffect, TypeParts DEF table
  <2>2. /\ sse.from \in Nat /\ sse.afterID \in Nat /\ sse'.afterID \in Nat
        /\ sse.sent \in Seq(1..MaxId) /\ sse'.page \in Seq(1..MaxId) /\ sse.page = <<>>
    <3>1. sse \in StreamRow
      BY TypeParts
    <3>2. sse.page = <<>>
      BY <2>1 DEF PageInHand
    <3> QED BY <2>1, <3>1, <3>2, StreamAssumption DEF StreamRow
  <2>3. sse.sent \o sse.page = sse.sent
    BY <2>2
  <2>4. /\ sse.from <= sse.afterID
        /\ Increasing(sse.sent)
        /\ Range(sse.sent) = In(rows, sse.invoice, sse.from, sse.afterID)
    BY <2>3 DEF StreamInv, StreamOK
  <2>5. sse.afterID <= sse'.afterID /\ sse.from <= sse'.afterID
    BY <2>1, <2>2, <2>4
  <2>6. /\ Increasing(sse.sent \o sse'.page)
        /\ Range(sse.sent \o sse'.page) = In(rows, sse.invoice, sse.from, sse'.afterID)
    BY <2>1, <2>2, <2>4, <2>5, Extend
  <2>7. Fixed(nextId, txs, sse'.afterID)
    BY <2>1, CommittedFixed DEF StreamInv
  <2> QED BY <2>1, <2>5, <2>6, <2>7 DEF StreamOK
<1>3. CASE StreamSend
  BY <1>0, <1>3, StreamSendEffect, StreamKept
<1> QED BY <1>1, <1>2, <1>3

LEMMA NextStream ==
  ASSUME Serialized, TypeOK, PageInHand, StreamInv, [Next]_vars
  PROVE  StreamInv'
<1>1. Table'
  BY TableStep DEF StreamInv
<1>2. CASE UNCHANGED <<view, saved, flight, sse>>
  <2>1. ViewOK' /\ SavedOK' /\ FlightOK' /\ StreamOK'
    BY <1>2, ViewKept, SavedKept, FlightKept, StreamKept
  <2> QED BY <1>1, <2>1 DEF StreamInv
<1>3. CASE HookReceive \/ HookTick \/ ServeEvents \/ HookRerun \/ \E i \in Invoices : HookSwitch(i)
  <2>1. sse' = sse
    BY <1>3 DEF HookReceive, HookTick, ServeEvents, HookRerun, HookSwitch
  <2>2. ViewOK' /\ SavedOK' /\ FlightOK'
    BY <1>3, ReceiveStep, HookStep
  <2> QED BY <1>1, <2>1, <2>2, StreamKept DEF StreamInv
<1>4. CASE HookLost
  <2>1. view' = view /\ saved' = saved /\ sse' = sse /\ flight' = Nowhere
    BY <1>4 DEF HookLost
  <2>2. FlightOK'
    BY <2>1 DEF FlightOK, Nowhere
  <2> QED BY <1>1, <2>1, <2>2, ViewKept, SavedKept, StreamKept DEF StreamInv
<1>5. CASE StreamClose
  <2>1. view' = view /\ saved' = saved /\ flight' = flight /\ sse' = NoStream /\ rows' = rows
    BY <1>5 DEF StreamClose, table
  <2>2. sse'.sent \o sse'.page = <<>> /\ sse'.from = 0 /\ sse'.afterID = 0
    BY <2>1 DEF NoStream
  <2>3. In(rows, sse'.invoice, 0, 0) = {}
    BY TypeParts, InParts
  <2>4. Range(sse'.sent \o sse'.page) = In(rows', sse'.invoice, sse'.from, sse'.afterID)
    BY <2>1, <2>2, <2>3, EmptyList
  <2>5. Increasing(sse'.sent \o sse'.page)
    BY <2>2, EmptyList
  <2>6. StreamOK'
    BY <2>2, <2>4, <2>5 DEF StreamOK
  <2> QED BY <1>1, <2>1, <2>6, ViewKept, SavedKept, FlightKept DEF StreamInv
<1>6. CASE \/ \E i \in Invoices, cursor \in 0..MaxId : StreamOpen(i, cursor)
           \/ StreamPoll \/ StreamSend
  <2>1. view' = view /\ saved' = saved /\ flight' = flight
    BY <1>6 DEF StreamOpen, StreamPoll, StreamSend
  <2>2. StreamOK'
    BY <1>6, ConnectionStep
  <2> QED BY <1>1, <2>1, <2>2, ViewKept, SavedKept, FlightKept DEF StreamInv
<1>7. \/ UNCHANGED <<view, saved, flight, sse>>
      \/ HookReceive \/ HookTick \/ ServeEvents \/ HookRerun \/ \E i \in Invoices : HookSwitch(i)
      \/ HookLost \/ StreamClose
      \/ \E i \in Invoices, cursor \in 0..MaxId : StreamOpen(i, cursor)
      \/ StreamPoll \/ StreamSend
  BY DEF Next, vars, InsertEvent, Commit, Rollback
<1> QED BY <1>2, <1>3, <1>4, <1>5, <1>6, <1>7

\* With serialized transactions (Serialized), every view and every connection is
\* complete up to its cursor, and no event can still appear below the cursor.
THEOREM ReadersComplete == ASSUME Serialized PROVE Spec => []StreamInv
<1>1. Init => TypeOK /\ PageInHand /\ StreamInv
  BY InitType, InitStream
<1>2. TypeOK /\ PageInHand /\ StreamInv /\ [Next]_vars => (TypeOK /\ PageInHand /\ StreamInv)'
  BY NextType, NextStream
<1> QED BY <1>1, <1>2, PTL DEF Spec

\* What the customer sees is the invoice's own history, in order, each event once
\* and none left out before the last one, for every page size, any number of
\* invoices and writers, and any lost answers, re-renders and switches.
THEOREM HistoryExactHolds == ASSUME Serialized PROVE Spec => []HistoryExact
<1>1. StreamInv => HistoryExact
  BY DEF StreamInv, ViewOK, HistoryExact, Increasing, In, Between
<1> QED BY <1>1, ReadersComplete, PTL

\* The same for a connection, event by event while a page is being written.
THEOREM StreamExactHolds == ASSUME Serialized PROVE Spec => []StreamExact
<1>1. StreamInv => StreamExact
  BY DEF StreamInv, StreamOK, StreamExact, Increasing, In, Between
<1> QED BY <1>1, ReadersComplete, PTL
=============================================================================
