------------------------------ MODULE ProofFacts ----------------------------
(***************************************************************************)
(* Facts about numbers and sequences that the proofs of several components *)
(* use: the least element of a set of numbers, induction stated with a set *)
(* in place of a predicate, what Head, Tail, Append and RemoveAt do, and   *)
(* what is picked from a sequence that grows or shrinks.                   *)
(***************************************************************************)
EXTENDS Subsequences, SequencesExt, SequenceTheorems, WellFoundedInduction, TLAPS

Below == {pair \in Nat \X Nat : pair[1] < pair[2]}

\* A set of natural numbers that is not empty has a least element.
LEMMA LeastNumber ==
  ASSUME NEW T \in SUBSET Nat, T # {} PROVE \E x \in T : \A y \in T : x <= y
  <1>1. IsWellFoundedOn(Below, Nat)
    BY NatLessThanWellFounded DEF OpToRel, Below
  <1>2. PICK x \in T : \A y \in T : ~ (<<y, x>> \in Below)
    BY <1>1, WFMin, Zenon
  <1>3. \A y \in T : ~ (y < x)
    BY <1>2 DEF Below
  <1> QED
    BY <1>3

\* Induction over the natural numbers: a set with 0 and with the successor of
\* each of its numbers has them all.
LEMMA SetInduction ==
  ASSUME NEW T, 0 \in T, \A n \in Nat : n \in T => n + 1 \in T PROVE Nat \subseteq T
  <1> SUFFICES ASSUME Nat \ T # {} PROVE FALSE
    OBVIOUS
  <1>1. PICK x \in Nat \ T : \A y \in Nat \ T : x <= y
    BY LeastNumber
  <1>2. x - 1 \in Nat /\ x - 1 \in T
    BY <1>1
  <1> QED
    BY <1>2

\* A set of places in a sequence has a last one.
LEMMA LastPlace ==
  ASSUME NEW n \in Nat, NEW t \in SUBSET (1 .. n), t # {}
  PROVE  Max(t) \in t /\ \A y \in t : y <= Max(t)
  <1>1. PICK U : U = {u \in Nat : n - u \in t}
    OBVIOUS
  <1>2. U \in SUBSET Nat /\ U # {}
    <2>1. PICK x : x \in t
      OBVIOUS
    <2>2. n - x \in Nat /\ n - (n - x) = x
      BY <2>1
    <2> QED
      BY <1>1, <2>1, <2>2
  <1>3. PICK u \in U : \A v \in U : u <= v
    BY <1>2, LeastNumber
  <1>x. PICK x : x = n - u
    OBVIOUS
  <1>4. x \in t /\ \A y \in t : x >= y
    <2>1. u \in Nat /\ x \in t
      BY <1>1, <1>3, <1>x
    <2>2. ASSUME NEW y \in t PROVE x >= y
      <3>1. y \in 1 .. n /\ n - y \in Nat /\ n - (n - y) = y
        OBVIOUS
      <3>2. n - y \in U
        BY <1>1, <3>1
      <3>3. u <= n - y
        BY <1>3, <3>2
      <3> QED
        BY <2>1, <3>1, <3>3, <1>x
    <2> QED
      BY <2>1, <2>2
  <1>5. Max(t) \in t /\ \A y \in t : Max(t) >= y
    BY <1>4 DEF Max
  <1> QED
    BY <1>5

-----------------------------------------------------------------------------
\* A sequence over a set is one over any larger set.
LEMMA SeqGrows == ASSUME NEW A, NEW B, A \subseteq B, NEW s \in Seq(A) PROVE s \in Seq(B)
  <1>1. /\ Len(s) \in Nat
        /\ s \in [1 .. Len(s) -> A]
    OBVIOUS
  <1>2. s \in [1 .. Len(s) -> B]
    BY <1>1
  <1> QED
    BY <1>1, <1>2, SeqDef

\* A sequence that is not empty, taken apart.
LEMMA FirstAndOthers ==
  ASSUME NEW A, NEW s \in Seq(A), s # <<>>
  PROVE  /\ Head(s) \in A /\ Head(s) = s[1]
         /\ Tail(s) \in Seq(A) /\ Len(Tail(s)) = Len(s) - 1
         /\ \A k \in 1 .. Len(s) - 1 : Tail(s)[k] = s[k + 1]
         /\ Len(s) \in Nat /\ Len(s) > 0
  OBVIOUS

\* A sequence with one more element.
LEMMA OneMore ==
  ASSUME NEW A, NEW s \in Seq(A), NEW e \in A
  PROVE  /\ Append(s, e) \in Seq(A) /\ Len(Append(s, e)) = Len(s) + 1
         /\ \A k \in 1 .. Len(s) : Append(s, e)[k] = s[k]
         /\ Append(s, e)[Len(s) + 1] = e
         /\ Len(s) \in Nat
  OBVIOUS

\* What is left of a sequence after one position is dropped.
LEMMA RemoveAtProperties ==
  ASSUME NEW S, NEW q \in Seq(S), NEW i \in DOMAIN q
  PROVE  /\ RemoveAt(q, i) \in Seq(S)
         /\ DOMAIN RemoveAt(q, i) = 1 .. Len(q) - 1
         /\ \A k \in 1 .. Len(q) - 1 :
              RemoveAt(q, i)[k] = IF k < i THEN q[k] ELSE q[k + 1]
<1>1. i \in 1 .. Len(q)
  OBVIOUS
<1> DEFINE l == SubSeq(q, 1, i - 1)
           r == SubSeq(q, i + 1, Len(q))
<1>2. /\ l \in Seq(S) /\ Len(l) = i - 1
      /\ \A k \in 1 .. i - 1 : l[k] = q[k]
  BY <1>1
<1>3. /\ r \in Seq(S) /\ Len(r) = Len(q) - i
      /\ \A k \in 1 .. Len(q) - i : r[k] = q[k + i]
  BY <1>1
<1>4. RemoveAt(q, i) = l \o r
  BY DEF RemoveAt
<1>n. Len(q) \in Nat
  OBVIOUS
<1> HIDE DEF l, r
<1>5. /\ l \o r \in Seq(S)
      /\ Len(l \o r) = Len(l) + Len(r)
      /\ \A k \in 1 .. Len(l) + Len(r) :
           (l \o r)[k] = IF k <= Len(l) THEN l[k] ELSE r[k - Len(l)]
  BY <1>2, <1>3, ConcatProperties
<1>6. Len(l) + Len(r) = Len(q) - 1
  BY <1>1, <1>2, <1>3, <1>n
<1>7. DOMAIN (l \o r) = 1 .. Len(q) - 1
  BY <1>5, <1>6
<1>8. ASSUME NEW k \in 1 .. Len(q) - 1
      PROVE  (l \o r)[k] = IF k < i THEN q[k] ELSE q[k + 1]
  <2>1. CASE k < i
    <3>1. (l \o r)[k] = l[k]
      BY <2>1, <1>1, <1>2, <1>5, <1>6, <1>n
    <3>2. k \in 1 .. i - 1
      BY <2>1, <1>1, <1>n
    <3> QED
      BY <2>1, <3>1, <3>2, <1>2
  <2>2. CASE ~ (k < i)
    <3>1. (l \o r)[k] = r[k - (i - 1)]
      <4>1. k \in 1 .. Len(l) + Len(r) /\ ~ (k <= Len(l)) /\ Len(l) = i - 1
        BY <2>2, <1>1, <1>2, <1>6, <1>n
      <4> QED
        BY <4>1, <1>5
    <3>2. k - (i - 1) \in 1 .. Len(q) - i /\ k - (i - 1) + i = k + 1
      BY <2>2, <1>1, <1>n
    <3> QED
      BY <2>2, <3>1, <3>2, <1>3
  <2> QED
    BY <2>1, <2>2
<1> QED
  BY <1>4, <1>5, <1>7, <1>8

\* Dropping the first place of a sequence leaves its tail.
LEMMA DropFirst ==
  ASSUME NEW S, NEW s \in Seq(S), 1 \in DOMAIN s PROVE s # <<>> /\ RemoveAt(s, 1) = Tail(s)
<1>1. s # <<>>
  OBVIOUS
<1>2. /\ RemoveAt(s, 1) \in Seq(S)
      /\ DOMAIN RemoveAt(s, 1) = 1 .. Len(s) - 1
      /\ \A k \in 1 .. Len(s) - 1 : RemoveAt(s, 1)[k] = IF k < 1 THEN s[k] ELSE s[k + 1]
  BY RemoveAtProperties
<1>3. /\ Tail(s) \in Seq(S) /\ Len(Tail(s)) = Len(s) - 1
      /\ \A k \in 1 .. Len(s) - 1 : Tail(s)[k] = s[k + 1]
  BY <1>1, FirstAndOthers
<1> DEFINE a == RemoveAt(s, 1)
           b == Tail(s)
<1>4. a \in Seq(S) /\ b \in Seq(S) /\ Len(s) \in Nat /\ DOMAIN a = 1 .. Len(s) - 1
      /\ Len(b) = Len(s) - 1 /\ \A k \in 1 .. Len(s) - 1 : a[k] = b[k]
  BY <1>2, <1>3
<1> HIDE DEF a, b
<1>5. Len(a) = Len(b)
  BY <1>4
<1>6. a = b
  BY <1>4, <1>5, SeqEqual
<1> QED
  BY <1>1, <1>6 DEF a, b

-----------------------------------------------------------------------------
\* The function by which Picked is defined, as far as last.
Picks(upTo, s, T, last) ==
  upTo = [n \in 0 .. last |->
            IF n = 0 THEN <<>>
            ELSE IF s[n] \in T THEN Append(upTo[n - 1], s[n])
            ELSE upTo[n - 1]]

\* lane[k] stands at place at[k] of s: in the order of s, all the places with an
\* element of T, and no other.
StandsAt(at, lane, s, T) ==
  /\ lane \in Seq(T)
  /\ at \in [DOMAIN lane -> DOMAIN s]
  /\ \A k \in DOMAIN lane : lane[k] = s[at[k]]
  /\ \A k, m \in DOMAIN lane : k < m => at[k] < at[m]
  /\ \A i \in DOMAIN s : s[i] \in T <=> \E k \in DOMAIN lane : at[k] = i

\* An element of T at the end of s is the last one picked.
LEMMA PlacesGrow ==
  ASSUME NEW S, NEW q \in Seq(S), NEW j \in S, NEW T, NEW lane, NEW at,
         StandsAt(at, lane, q, T)
  PROVE  /\ j \in T => \E more : StandsAt(more, Append(lane, j), Append(q, j), T)
         /\ j \notin T => StandsAt(at, lane, Append(q, j), T)
<1>1. /\ Append(q, j) \in Seq(S) /\ Len(q) \in Nat /\ DOMAIN q = 1 .. Len(q)
      /\ DOMAIN Append(q, j) = 1 .. Len(q) + 1
      /\ \A i \in 1 .. Len(q) : Append(q, j)[i] = q[i]
      /\ Append(q, j)[Len(q) + 1] = j
  OBVIOUS
<1>2. /\ lane \in Seq(T)
      /\ at \in [DOMAIN lane -> DOMAIN q]
      /\ \A k \in DOMAIN lane : lane[k] = q[at[k]]
      /\ \A k, m \in DOMAIN lane : k < m => at[k] < at[m]
      /\ \A i \in DOMAIN q : q[i] \in T <=> \E k \in DOMAIN lane : at[k] = i
  BY DEF StandsAt
<1>3. CASE j \in T
  <2> DEFINE s == Append(lane, j)
             more == [k \in 1 .. Len(lane) + 1 |->
                        IF k = Len(lane) + 1 THEN Len(q) + 1 ELSE at[k]]
  <2>1. /\ s \in Seq(T) /\ Len(lane) \in Nat /\ DOMAIN lane = 1 .. Len(lane)
        /\ DOMAIN s = 1 .. Len(lane) + 1
        /\ \A k \in 1 .. Len(lane) : s[k] = lane[k]
        /\ s[Len(lane) + 1] = j
    BY <1>2, <1>3
  <2>2. more \in [DOMAIN s -> DOMAIN Append(q, j)]
    BY <1>1, <1>2, <2>1
  <2>3. \A k \in DOMAIN s : s[k] = Append(q, j)[more[k]]
    BY <1>1, <1>2, <2>1
  <2>4. \A k, m \in DOMAIN s : k < m => more[k] < more[m]
    BY <1>1, <1>2, <2>1
  <2>5. ASSUME NEW i \in DOMAIN Append(q, j)
        PROVE  Append(q, j)[i] \in T <=> \E k \in DOMAIN s : more[k] = i
    <3>1. CASE i = Len(q) + 1
      BY <1>1, <1>3, <2>1, <3>1
    <3>2. CASE i \in DOMAIN q
      BY <1>1, <1>2, <2>1, <3>2
    <3> QED
      BY <1>1, <3>1, <3>2
  <2> HIDE DEF s, more
  <2>6. StandsAt(more, s, Append(q, j), T)
    BY <2>1, <2>2, <2>3, <2>4, <2>5 DEF StandsAt
  <2> QED
    BY <1>3, <2>6 DEF s
<1>4. CASE j \notin T
  <2>1. at \in [DOMAIN lane -> DOMAIN Append(q, j)]
    BY <1>1, <1>2
  <2>2. \A k \in DOMAIN lane : lane[k] = Append(q, j)[at[k]]
    BY <1>1, <1>2
  <2>3. \A i \in DOMAIN Append(q, j) :
          Append(q, j)[i] \in T <=> \E k \in DOMAIN lane : at[k] = i
    BY <1>1, <1>2, <1>4
  <2> QED
    BY <1>2, <1>4, <2>1, <2>2, <2>3 DEF StandsAt
<1> QED
  BY <1>3, <1>4

\* The recursion that defines Picked has a solution.
LEMMA PicksExist ==
  ASSUME NEW q, NEW T, NEW last \in Nat
  PROVE  \E upTo : Picks(upTo, q, T, last)
<1> DEFINE K == {m \in Nat : \E f : Picks(f, q, T, m)}
<1>1. 0 \in K
  <2> DEFINE f == [n \in 0 .. 0 |-> <<>>]
  <2>1. Picks(f, q, T, 0)
    BY DEF Picks
  <2> QED
    BY <2>1
<1>2. ASSUME NEW m \in Nat, m \in K PROVE m + 1 \in K
  <2>1. PICK f : Picks(f, q, T, m)
    BY <1>2
  <2> DEFINE more == [n \in 0 .. m + 1 |->
                        IF n <= m THEN f[n]
                        ELSE IF q[n] \in T THEN Append(f[n - 1], q[n])
                        ELSE f[n - 1]]
  <2>2. ASSUME NEW n \in 0 .. m + 1
        PROVE  more[n] = IF n = 0 THEN <<>>
                         ELSE IF q[n] \in T THEN Append(more[n - 1], q[n])
                         ELSE more[n - 1]
    <3>1. n # 0 => n - 1 \in 0 .. m /\ more[n - 1] = f[n - 1]
      OBVIOUS
    <3>2. CASE n <= m
      <4>1. more[n] = f[n] /\ n \in 0 .. m
        BY <3>2
      <4>2. f[n] = IF n = 0 THEN <<>>
                   ELSE IF q[n] \in T THEN Append(f[n - 1], q[n])
                   ELSE f[n - 1]
        BY <2>1, <4>1 DEF Picks
      <4> HIDE DEF more
      <4> QED
        BY <3>1, <4>1, <4>2
    <3>3. CASE ~ (n <= m)
      <4>1. n # 0 /\ more[n] = IF q[n] \in T THEN Append(f[n - 1], q[n]) ELSE f[n - 1]
        BY <3>3
      <4> HIDE DEF more
      <4> QED
        BY <3>1, <4>1
    <3> QED
      BY <3>2, <3>3
  <2>3. Picks(more, q, T, m + 1)
    <3>1. DOMAIN more = 0 .. m + 1 /\ more = [n \in 0 .. m + 1 |-> more[n]]
      OBVIOUS
    <3> HIDE DEF more
    <3> QED
      BY <2>2, <3>1 DEF Picks
  <2> QED
    BY <2>3
<1>3. Nat \subseteq K
  <2> HIDE DEF K
  <2> QED
    BY <1>1, <1>2, SetInduction
<1> QED
  BY <1>3

\* What is picked is all the elements of T, in their order.
LEMMA PickedPlaces ==
  ASSUME NEW S, NEW q \in Seq(S), NEW T
  PROVE  \E at : StandsAt(at, Picked(q, T), q, T)
<1>n. Len(q) \in Nat /\ DOMAIN q = 1 .. Len(q)
  OBVIOUS
<1>1. PICK upTo : Picks(upTo, q, T, Len(q)) /\ Picked(q, T) = upTo[Len(q)]
  <2> DEFINE upTo == CHOOSE upTo : upTo = [n \in 0 .. Len(q) |->
                       IF n = 0 THEN <<>>
                       ELSE IF q[n] \in T THEN Append(upTo[n - 1], q[n])
                       ELSE upTo[n - 1]]
  <2>1. Picks(upTo, q, T, Len(q))
    <3>1. PICK f : Picks(f, q, T, Len(q))
      BY <1>n, PicksExist
    <3>2. f = [n \in 0 .. Len(q) |->
                 IF n = 0 THEN <<>>
                 ELSE IF q[n] \in T THEN Append(f[n - 1], q[n])
                 ELSE f[n - 1]]
      BY <3>1 DEF Picks
    <3>3. upTo = [n \in 0 .. Len(q) |->
                    IF n = 0 THEN <<>>
                    ELSE IF q[n] \in T THEN Append(upTo[n - 1], q[n])
                    ELSE upTo[n - 1]]
      BY <3>2
    <3> HIDE DEF upTo
    <3> QED
      BY <3>3 DEF Picks
  <2>2. Picked(q, T) = upTo[Len(q)]
    BY DEF Picked
  <2> HIDE DEF upTo
  <2> QED
    BY <2>1, <2>2
<1> DEFINE Prefix(n) == SubSeq(q, 1, n)
           K == {n \in Nat : n <= Len(q) => \E at : StandsAt(at, upTo[n], Prefix(n), T)}
<1>2. 0 \in K
  <2>1. Prefix(0) = <<>> /\ upTo[0] = <<>>
    BY <1>n, <1>1 DEF Picks
  <2>2. StandsAt(<<>>, <<>>, <<>>, T)
    BY DEF StandsAt
  <2> QED
    BY <2>1, <2>2
<1>3. ASSUME NEW n \in Nat, n \in K PROVE n + 1 \in K
  <2> SUFFICES ASSUME n + 1 <= Len(q) PROVE \E at : StandsAt(at, upTo[n + 1], Prefix(n + 1), T)
    OBVIOUS
  <2>1. PICK at : StandsAt(at, upTo[n], Prefix(n), T)
    BY <1>n, <1>3
  <2>2. /\ Prefix(n) \in Seq(S) /\ q[n + 1] \in S
        /\ Prefix(n + 1) = Append(Prefix(n), q[n + 1])
    BY <1>n
  <2>n. n + 1 \in 0 .. Len(q) /\ n + 1 # 0 /\ (n + 1) - 1 = n
    BY <1>n
  <2>3. upTo[n + 1] = IF q[n + 1] \in T THEN Append(upTo[n], q[n + 1]) ELSE upTo[n]
    BY <2>n, <1>1 DEF Picks
  <2> HIDE DEF Prefix
  <2> QED
    BY <2>1, <2>2, <2>3, PlacesGrow
<1>4. Len(q) \in K
  <2> HIDE DEF K
  <2> QED
    BY <1>n, <1>2, <1>3, SetInduction
<1>5. Prefix(Len(q)) = q
  BY <1>n
<1>6. \E at : StandsAt(at, upTo[Len(q)], Prefix(Len(q)), T)
  BY <1>n, <1>4
<1> HIDE DEF Prefix, K
<1> QED
  BY <1>1, <1>5, <1>6

\* Two lists of the same places in the same order are one list.
LEMMA SameUpTo ==
  ASSUME NEW S, NEW q \in Seq(S), NEW T, NEW a, NEW b, NEW v, NEW w,
         StandsAt(a, v, q, T), StandsAt(b, w, q, T)
  PROVE  \A k \in DOMAIN v : k \in DOMAIN w /\ a[k] = b[k]
<1>1. /\ v \in Seq(T) /\ Len(v) \in Nat /\ DOMAIN v = 1 .. Len(v)
      /\ w \in Seq(T) /\ Len(w) \in Nat /\ DOMAIN w = 1 .. Len(w)
      /\ a \in [DOMAIN v -> DOMAIN q] /\ b \in [DOMAIN w -> DOMAIN q]
      /\ DOMAIN q \subseteq Nat
  BY DEF StandsAt
<1>2. /\ \A k, m \in DOMAIN v : k < m => a[k] < a[m]
      /\ \A k, m \in DOMAIN w : k < m => b[k] < b[m]
      /\ \A k \in DOMAIN v : \E m \in DOMAIN w : b[m] = a[k]
      /\ \A m \in DOMAIN w : \E k \in DOMAIN v : a[k] = b[m]
  BY DEF StandsAt
<1> DEFINE Differ == {k \in DOMAIN v : ~ (k \in DOMAIN w /\ a[k] = b[k])}
<1> SUFFICES ASSUME Differ # {} PROVE FALSE
  OBVIOUS
<1>3. PICK k \in Differ : \A m \in Differ : k <= m
  <2>1. Differ \in SUBSET Nat
    BY <1>1
  <2> HIDE DEF Differ
  <2> QED
    BY <2>1, LeastNumber
<1>4. k \in DOMAIN v /\ \A m \in DOMAIN v : m < k => m \in DOMAIN w /\ a[m] = b[m]
  BY <1>1, <1>3
<1>5. PICK m \in DOMAIN w : b[m] = a[k]
  BY <1>2, <1>4
<1>6. m >= k
  <2>1. CASE m < k
    <3>1. m \in DOMAIN v /\ a[m] = b[m]
      BY <1>1, <1>4, <1>5, <2>1
    <3> QED
      BY <1>1, <1>2, <1>4, <1>5, <2>1, <3>1
  <2> QED
    BY <1>1, <1>4, <1>5, <2>1
<1>7. k \in DOMAIN w
  BY <1>1, <1>4, <1>5, <1>6
<1>8. PICK l \in DOMAIN v : a[l] = b[k]
  BY <1>2, <1>7
<1>9. l >= k
  <2>1. CASE l < k
    <3>1. l \in DOMAIN w /\ b[l] = b[k]
      BY <1>4, <1>8, <2>1
    <3> QED
      BY <1>1, <1>2, <1>7, <1>8, <2>1, <3>1
  <2> QED
    BY <1>1, <1>4, <1>8, <2>1
<1>10. a[k] >= b[k] /\ b[k] >= a[k]
  <2>1. b[m] >= b[k]
    <3>1. m = k \/ k < m
      BY <1>1, <1>4, <1>5, <1>6
    <3>2. b[m] = b[k] \/ b[k] < b[m]
      BY <1>2, <1>5, <1>7, <3>1
    <3>3. b[m] \in Nat /\ b[k] \in Nat
      BY <1>1, <1>5, <1>7
    <3> QED
      BY <3>2, <3>3
  <2>2. a[l] >= a[k]
    <3>1. l = k \/ k < l
      BY <1>1, <1>4, <1>8, <1>9
    <3>2. a[l] = a[k] \/ a[k] < a[l]
      BY <1>2, <1>4, <1>8, <3>1
    <3>3. a[l] \in Nat /\ a[k] \in Nat
      BY <1>1, <1>4, <1>8
    <3> QED
      BY <3>2, <3>3
  <2> QED
    BY <1>5, <1>8, <2>1, <2>2
<1>11. a[k] = b[k]
  BY <1>1, <1>4, <1>7, <1>10
<1> QED
  BY <1>3, <1>7, <1>11

\* So what stands at all places with an element of T is what is picked.
LEMMA PickedIs ==
  ASSUME NEW S, NEW q \in Seq(S), NEW T, NEW at, NEW lane, StandsAt(at, lane, q, T)
  PROVE  Picked(q, T) = lane
<1>1. PICK b : StandsAt(b, Picked(q, T), q, T)
  BY PickedPlaces
<1> DEFINE w == Picked(q, T)
<1> HIDE DEF w
<1>2. StandsAt(b, w, q, T)
  BY <1>1 DEF w
<1>3. /\ \A k \in DOMAIN lane : k \in DOMAIN w /\ at[k] = b[k]
      /\ \A k \in DOMAIN w : k \in DOMAIN lane /\ b[k] = at[k]
  BY <1>2, SameUpTo
<1>4. /\ lane \in Seq(T) /\ w \in Seq(T)
      /\ DOMAIN lane = DOMAIN w
      /\ \A k \in DOMAIN w : lane[k] = w[k]
  BY <1>2, <1>3 DEF StandsAt
<1>5. Len(lane) = Len(w)
  BY <1>4
<1>6. lane = w
  BY <1>4, <1>5, SeqEqual
<1> QED
  BY <1>6 DEF w

\* Sets that agree on the elements of s pick the same.
LEMMA PickedSame ==
  ASSUME NEW S, NEW q \in Seq(S), NEW T, NEW U,
         \A i \in DOMAIN q : q[i] \in T <=> q[i] \in U
  PROVE  Picked(q, U) = Picked(q, T)
<1> DEFINE w == Picked(q, T)
<1>1. PICK at : StandsAt(at, w, q, T)
  BY PickedPlaces
<1> HIDE DEF w
<1>2. w \in Seq(T) /\ \A k \in DOMAIN w : w[k] \in U
  BY <1>1 DEF StandsAt
<1>3. w \in Seq(U)
  <2>1. Len(w) \in Nat /\ DOMAIN w = 1 .. Len(w) /\ w \in [1 .. Len(w) -> T]
    BY <1>2
  <2>2. w \in [1 .. Len(w) -> U]
    BY <1>2, <2>1
  <2> QED
    BY <2>1, <2>2, SeqDef
<1>4. StandsAt(at, w, q, U)
  BY <1>1, <1>3 DEF StandsAt
<1> QED
  BY <1>4, PickedIs DEF w

\* Picking from a sequence with one more element.
LEMMA PickedGrows ==
  ASSUME NEW S, NEW q \in Seq(S), NEW j \in S, NEW T
  PROVE  Picked(Append(q, j), T) = IF j \in T THEN Append(Picked(q, T), j)
                                     ELSE Picked(q, T)
<1>1. PICK at : StandsAt(at, Picked(q, T), q, T)
  BY PickedPlaces
<1>2. Append(q, j) \in Seq(S)
  OBVIOUS
<1> DEFINE w == Picked(q, T)
<1>3. StandsAt(at, w, q, T)
  BY <1>1
<1> HIDE DEF w
<1>4. CASE j \in T
  <2>1. PICK more : StandsAt(more, Append(w, j), Append(q, j), T)
    BY <1>3, <1>4, PlacesGrow
  <2>2. Picked(Append(q, j), T) = Append(w, j)
    BY <1>2, <2>1, PickedIs
  <2> QED
    BY <1>4, <2>2 DEF w
<1>5. CASE j \notin T
  <2>1. StandsAt(at, w, Append(q, j), T)
    BY <1>3, <1>5, PlacesGrow
  <2>2. Picked(Append(q, j), T) = w
    BY <1>2, <2>1, PickedIs
  <2> QED
    BY <1>5, <2>2 DEF w
<1> QED
  BY <1>4, <1>5

\* Dropping a place of a sequence drops one of what is picked or none; it is the
\* first when no earlier element is in T.
LEMMA PickedShrinks ==
  ASSUME NEW S, NEW q \in Seq(S), NEW i \in DOMAIN q, NEW T
  PROVE  /\ q[i] \notin T => Picked(RemoveAt(q, i), T) = Picked(q, T)
         /\ q[i] \in T =>
              \E p \in DOMAIN Picked(q, T) :
                /\ Picked(q, T)[p] = q[i]
                /\ Picked(RemoveAt(q, i), T) = RemoveAt(Picked(q, T), p)
                /\ (\A k \in DOMAIN q : q[k] \in T => i <= k) => p = 1
<1> DEFINE w == Picked(q, T)
           s == RemoveAt(q, i)
           Shift(n) == IF n < i THEN n ELSE n - 1
<1>1. PICK at : StandsAt(at, w, q, T)
  BY PickedPlaces
<1>2. /\ s \in Seq(S) /\ DOMAIN s = 1 .. Len(q) - 1
      /\ \A k \in 1 .. Len(q) - 1 : s[k] = IF k < i THEN q[k] ELSE q[k + 1]
  BY RemoveAtProperties
<1>3. Len(q) \in Nat /\ DOMAIN q = 1 .. Len(q) /\ i \in 1 .. Len(q)
  OBVIOUS
<1> HIDE DEF w, s
<1>4. /\ w \in Seq(T) /\ Len(w) \in Nat /\ DOMAIN w = 1 .. Len(w)
      /\ at \in [DOMAIN w -> DOMAIN q]
      /\ \A k \in DOMAIN w : w[k] = q[at[k]]
      /\ \A k, m \in DOMAIN w : k < m => at[k] < at[m]
      /\ \A k \in DOMAIN q : q[k] \in T <=> \E m \in DOMAIN w : at[m] = k
  BY <1>1 DEF StandsAt
<1>5. ASSUME NEW k \in DOMAIN q, k # i PROVE Shift(k) \in DOMAIN s /\ s[Shift(k)] = q[k]
  <2>1. CASE k < i
    BY <1>2, <1>3, <2>1
  <2>2. CASE k > i
    <3>1. k - 1 \in 1 .. Len(q) - 1 /\ ~ (k - 1 < i) /\ (k - 1) + 1 = k /\ Shift(k) = k - 1
      BY <1>3, <2>2
    <3> QED
      BY <1>2, <3>1
  <2> QED
    BY <1>3, <1>5, <2>1, <2>2
<1>6. ASSUME NEW k \in DOMAIN s
      PROVE  \E m \in DOMAIN q : m # i /\ Shift(m) = k /\ s[k] = q[m]
  <2>1. CASE k < i
    BY <1>2, <1>3, <2>1
  <2>2. CASE ~ (k < i)
    <3>1. k + 1 \in DOMAIN q /\ k + 1 # i /\ Shift(k + 1) = k
      BY <1>2, <1>3, <2>2
    <3> QED
      BY <1>2, <2>2, <3>1
  <2> QED
    BY <2>1, <2>2
<1>7. \A k, m \in DOMAIN q : k # i /\ m # i /\ k < m => Shift(k) < Shift(m)
  BY <1>3
<1>s. \A k, m \in DOMAIN q : k # i /\ m # i /\ Shift(k) = Shift(m) => k = m
  BY <1>3
<1> HIDE DEF Shift
<1>8. CASE q[i] \notin T
  <2> DEFINE now == [k \in DOMAIN w |-> Shift(at[k])]
  <2>1. \A k \in DOMAIN w : at[k] \in DOMAIN q /\ at[k] # i /\ now[k] = Shift(at[k])
    BY <1>3, <1>4, <1>8
  <2>2. now \in [DOMAIN w -> DOMAIN s]
    BY <1>5, <2>1
  <2> HIDE DEF now
  <2>3. \A k \in DOMAIN w : w[k] = s[now[k]]
    BY <1>4, <1>5, <2>1
  <2>4. \A k, m \in DOMAIN w : k < m => now[k] < now[m]
    BY <1>4, <1>7, <2>1
  <2>5. ASSUME NEW k \in DOMAIN s PROVE s[k] \in T <=> \E m \in DOMAIN w : now[m] = k
    <3>1. PICK m \in DOMAIN q : m # i /\ Shift(m) = k /\ s[k] = q[m]
      BY <1>6
    <3>2. s[k] \in T <=> \E l \in DOMAIN w : at[l] = m
      BY <1>4, <3>1
    <3> QED
      BY <1>s, <2>1, <3>1, <3>2
  <2>6. StandsAt(now, w, s, T)
    BY <1>4, <2>2, <2>3, <2>4, <2>5 DEF StandsAt
  <2>7. Picked(s, T) = w
    BY <1>2, <2>6, PickedIs
  <2> QED
    BY <1>8, <2>7 DEF w, s
<1>9. CASE q[i] \in T
  <2>1. PICK p \in DOMAIN w : at[p] = i
    BY <1>4, <1>9
  <2> DEFINE v == RemoveAt(w, p)
             Skip(k) == IF k < p THEN k ELSE k + 1
             now == [k \in DOMAIN v |-> Shift(at[Skip(k)])]
  <2>2. /\ v \in Seq(T) /\ DOMAIN v = 1 .. Len(w) - 1
        /\ \A k \in 1 .. Len(w) - 1 : v[k] = IF k < p THEN w[k] ELSE w[k + 1]
    <3>1. w \in Seq(T) /\ p \in DOMAIN w
      BY <1>4
    <3> QED
      BY <3>1, RemoveAtProperties
  <2>3. \A k \in DOMAIN v : /\ Skip(k) \in DOMAIN w /\ Skip(k) # p
                            /\ v[k] = w[Skip(k)] /\ now[k] = Shift(at[Skip(k)])
    BY <1>4, <2>1, <2>2
  <2>4. \A m \in DOMAIN w : m # p => \E k \in DOMAIN v : Skip(k) = m
    <3> SUFFICES ASSUME NEW m \in DOMAIN w, m # p PROVE \E k \in DOMAIN v : Skip(k) = m
      OBVIOUS
    <3>1. CASE m < p
      <4>1. m \in DOMAIN v /\ Skip(m) = m
        BY <1>4, <2>1, <2>2, <3>1
      <4> QED
        BY <4>1
    <3>2. CASE m > p
      <4>1. m - 1 \in DOMAIN v /\ Skip(m - 1) = m
        BY <1>4, <2>1, <2>2, <3>2
      <4> QED
        BY <4>1
    <3> QED
      BY <1>4, <2>1, <3>1, <3>2
  <2>5. \A k, m \in DOMAIN v : k < m => Skip(k) < Skip(m)
    BY <1>4, <2>1, <2>2
  <2> HIDE DEF v, Skip
  <2>6. ASSUME NEW m \in DOMAIN w, m # p PROVE at[m] # i
    <3>1. m < p \/ p < m
      BY <1>4, <2>1, <2>6
    <3>2. at[m] < at[p] \/ at[p] < at[m]
      BY <1>4, <3>1
    <3>3. at[m] \in Nat /\ at[p] \in Nat
      BY <1>3, <1>4
    <3> QED
      BY <2>1, <3>2, <3>3
  <2>7. now \in [DOMAIN v -> DOMAIN s]
    BY <1>4, <1>5, <2>3, <2>6
  <2> HIDE DEF now
  <2>8. \A k \in DOMAIN v : v[k] = s[now[k]]
    BY <1>4, <1>5, <2>3, <2>6
  <2>9. \A k, m \in DOMAIN v : k < m => now[k] < now[m]
    BY <1>4, <1>7, <2>3, <2>5, <2>6
  <2>10. ASSUME NEW k \in DOMAIN s PROVE s[k] \in T <=> \E m \in DOMAIN v : now[m] = k
    <3>1. PICK m \in DOMAIN q : m # i /\ Shift(m) = k /\ s[k] = q[m]
      BY <1>6
    <3>2. s[k] \in T <=> \E l \in DOMAIN w : at[l] = m
      BY <1>4, <3>1
    <3>3. ASSUME NEW l \in DOMAIN w, at[l] = m PROVE \E n \in DOMAIN v : now[n] = k
      BY <2>1, <2>3, <2>4, <3>1, <3>3
    <3>4. ASSUME NEW n \in DOMAIN v, now[n] = k PROVE \E l \in DOMAIN w : at[l] = m
      BY <1>4, <1>s, <2>3, <2>6, <3>1, <3>4
    <3> QED
      BY <3>2, <3>3, <3>4
  <2>11. Picked(s, T) = v
    <3>1. StandsAt(now, v, s, T)
      BY <2>2, <2>7, <2>8, <2>9, <2>10 DEF StandsAt
    <3> QED
      BY <1>2, <3>1, PickedIs
  <2>12. ASSUME \A k \in DOMAIN q : q[k] \in T => i <= k PROVE p = 1
    <3>1. CASE p > 1
      <4>1. 1 \in DOMAIN w /\ at[1] < i /\ q[at[1]] \in T /\ at[1] \in DOMAIN q
        BY <1>4, <2>1, <3>1
      <4> QED
        BY <1>3, <2>12, <4>1
    <3> QED
      BY <1>4, <2>1, <3>1
  <2>13. w[p] = q[i]
    BY <1>4, <2>1
  <2> QED
    BY <1>9, <2>1, <2>11, <2>12, <2>13 DEF w, s, v
<1> QED
  BY <1>8, <1>9

-----------------------------------------------------------------------------
\* A concatenation with one element more of its second half.
LEMMA OneMoreOf ==
  ASSUME NEW S, NEW p \in Seq(S), NEW s \in Seq(S), NEW k \in Nat, k < Len(s)
  PROVE  p \o SubSeq(s, 1, k + 1) = Append(p \o SubSeq(s, 1, k), s[k + 1])
<1>1. SubSeq(s, 1, k) \in Seq(S) /\ Len(SubSeq(s, 1, k)) = k
  OBVIOUS
<1>2. SubSeq(s, 1, k + 1) = Append(SubSeq(s, 1, k), s[k + 1])
  OBVIOUS
<1>3. s[k + 1] \in S
  OBVIOUS
<1> DEFINE q == SubSeq(s, 1, k)
<1>4. q \in Seq(S) /\ SubSeq(s, 1, k + 1) = Append(q, s[k + 1])
  BY <1>1, <1>2
<1> HIDE DEF q
<1>5. p \o Append(q, s[k + 1]) = Append(p \o q, s[k + 1])
  BY <1>3, <1>4
<1> QED
  BY <1>4, <1>5 DEF q

\* The numbers up to k, as FoldLeft comes to them.
LEMMA UpTo ==
  ASSUME NEW n \in Nat, NEW k \in 1 .. n
  PROVE  /\ 1 .. k \in SUBSET (1 .. n) /\ 1 .. k # {}
         /\ Max(1 .. k) = k /\ (1 .. k) \ {Max(1 .. k)} = 1 .. k - 1
<1>1. 1 .. k \in SUBSET (1 .. n) /\ k \in 1 .. k /\ 1 .. k # {} /\ k \in Nat
  OBVIOUS
<1>2. Max(1 .. k) \in 1 .. k /\ k <= Max(1 .. k)
  BY <1>1, LastPlace
<1>3. Max(1 .. k) = k
  BY <1>2
<1>4. (1 .. k) \ {k} = 1 .. k - 1
  OBVIOUS
<1> QED
  BY <1>1, <1>3, <1>4

LEMMA TopIsMax ==
  ASSUME NEW m \in Nat, NEW t \in SUBSET (1 .. m + 1), m + 1 \in t PROVE Max(t) = m + 1
<1>1. m + 1 \in Nat /\ t # {}
  OBVIOUS
<1>2. Max(t) \in t /\ m + 1 <= Max(t)
  BY <1>1, LastPlace
<1>3. Max(t) \in 1 .. m + 1
  BY <1>2
<1> QED
  BY <1>2, <1>3

\* The function that FoldLeft chooses when f is what it folds.
Folding(f, base, s, n, it) ==
  it = [t \in SUBSET (1 .. n) |->
          IF t = {} THEN base ELSE f[it[t \ {Max(t)}]][s[Max(t)]]]

Foldable(X, f, base, s, n) ==
  \E it \in [SUBSET (1 .. n) -> X] : Folding(f, base, s, n, it)

\* The recursion that defines a fold has a solution.
LEMMA FoldExists ==
  ASSUME NEW X, NEW E, NEW f \in [X -> [E -> X]], NEW base \in X, NEW s, NEW n \in Nat,
         \A k \in 1 .. n : s[k] \in E
  PROVE  Foldable(X, f, base, s, n)
<1> DEFINE K == {m \in Nat : m <= n => Foldable(X, f, base, s, m)}
<1>1. 0 \in K
  <2> DEFINE it == [t \in SUBSET (1 .. 0) |-> base]
  <2>1. ASSUME NEW t \in SUBSET (1 .. 0) PROVE t = {}
    OBVIOUS
  <2>2. it \in [SUBSET (1 .. 0) -> X] /\ Folding(f, base, s, 0, it)
    BY <2>1 DEF Folding
  <2> QED
    BY <2>2 DEF Foldable
<1>2. ASSUME NEW m \in Nat, m \in K PROVE m + 1 \in K
  <2> SUFFICES ASSUME m + 1 <= n
               PROVE  Foldable(X, f, base, s, m + 1)
    OBVIOUS
  <2>1. PICK it \in [SUBSET (1 .. m) -> X] : Folding(f, base, s, m, it)
    <3>1. Foldable(X, f, base, s, m)
      BY <1>2
    <3> QED
      BY <3>1 DEF Foldable
  <2>e. s[m + 1] \in E
    <3>1. m + 1 \in 1 .. n
      OBVIOUS
    <3> QED
      BY <3>1
  <2> DEFINE more == [t \in SUBSET (1 .. m + 1) |->
                        IF m + 1 \in t THEN f[it[t \ {m + 1}]][s[m + 1]] ELSE it[t]]
  <2>2. ASSUME NEW t \in SUBSET (1 .. m + 1)
        PROVE  /\ more[t] \in X
               /\ more[t] = IF t = {} THEN base ELSE f[more[t \ {Max(t)}]][s[Max(t)]]
    <3>1. CASE t = {}
      BY <3>1, <2>1 DEF Folding
    <3>2. CASE m + 1 \in t
      <4>1. Max(t) = m + 1
        BY <3>2, TopIsMax
      <4>2. t \ {m + 1} \in SUBSET (1 .. m) /\ t \ {m + 1} \in SUBSET (1 .. m + 1)
        OBVIOUS
      <4>3. more[t \ {m + 1}] = it[t \ {m + 1}] /\ it[t \ {m + 1}] \in X
        <5>1. m + 1 \notin t \ {m + 1}
          OBVIOUS
        <5>2. it[t \ {m + 1}] \in X
          BY <4>2
        <5> QED
          BY <4>2, <5>1, <5>2
      <4>4. more[t] = f[it[t \ {m + 1}]][s[m + 1]]
        BY <3>2
      <4> HIDE DEF more
      <4>5. f[it[t \ {m + 1}]] \in [E -> X]
        BY <4>3
      <4>6. more[t] \in X
        BY <2>e, <4>4, <4>5
      <4>7. t # {} /\ more[t] = f[more[t \ {Max(t)}]][s[Max(t)]]
        BY <3>2, <4>1, <4>3, <4>4
      <4> QED
        BY <4>6, <4>7
    <3>3. CASE m + 1 \notin t /\ t # {}
      <4>1. t \in SUBSET (1 .. m)
        <5>1. ASSUME NEW x \in t PROVE x \in 1 .. m
          <6>1. x \in 1 .. m + 1 /\ x # m + 1
            BY <3>3
          <6> QED
            BY <6>1
        <5> QED
          BY <5>1
      <4>2. Max(t) \in t
        BY <3>3, <4>1, LastPlace
      <4>3. t \ {Max(t)} \in SUBSET (1 .. m + 1) /\ m + 1 \notin t \ {Max(t)}
        BY <3>3
      <4>4. more[t \ {Max(t)}] = it[t \ {Max(t)}]
        BY <4>3
      <4>5. more[t] = it[t] /\ it[t] \in X
        <5>1. it[t] \in X
          BY <4>1
        <5> QED
          BY <3>3, <5>1
      <4>6. it[t] = f[it[t \ {Max(t)}]][s[Max(t)]]
        BY <2>1, <3>3, <4>1 DEF Folding
      <4> QED
        BY <3>3, <4>4, <4>5, <4>6
    <3> QED
      BY <3>1, <3>2, <3>3
  <2>3. Folding(f, base, s, m + 1, more)
    <3> DEFINE F == [t \in SUBSET (1 .. m + 1) |->
                       IF t = {} THEN base ELSE f[more[t \ {Max(t)}]][s[Max(t)]]]
    <3>1. more = F
      BY <2>2
    <3> QED
      BY <3>1 DEF Folding
  <2>4. more \in [SUBSET (1 .. m + 1) -> X]
    <3>1. more = [t \in SUBSET (1 .. m + 1) |-> more[t]]
      OBVIOUS
    <3> HIDE DEF more
    <3> QED
      BY <2>2, <3>1
  <2> QED
    BY <2>3, <2>4 DEF Foldable
<1>3. n \in K
  <2> HIDE DEF K
  <2> QED
    BY <1>1, <1>2, SetInduction
<1> QED
  BY <1>3

\* it solves it as far as its values are in X.
Solves(X, f, base, s, n, it) ==
  /\ it[{}] = base
  /\ \A t \in SUBSET (1 .. n) : t # {} /\ it[t \ {Max(t)}] \in X =>
       it[t] = f[it[t \ {Max(t)}]][s[Max(t)]]

\* v is what comes out of folding one element after the other.
FoldsTo(X, f, base, s, n, v) ==
  \E a \in [0 .. n -> X] : /\ a[0] = base /\ a[n] = v
                           /\ \A k \in 1 .. n : a[k] = f[a[k - 1]][s[k]]

\* Whatever solves it has come to its value in turn.
LEMMA FoldInTurn ==
  ASSUME NEW X, NEW E, NEW f \in [X -> [E -> X]], NEW base \in X, NEW s, NEW n \in Nat,
         \A k \in 1 .. n : s[k] \in E, NEW it, Solves(X, f, base, s, n, it)
  PROVE  FoldsTo(X, f, base, s, n, it[1 .. n])
<1> DEFINE K == {k \in Nat : k <= n => it[1 .. k] \in X}
           a == [k \in 0 .. n |-> it[1 .. k]]
<1>1. it[1 .. 0] = base
  <2>1. 1 .. 0 = {}
    OBVIOUS
  <2> QED
    BY <2>1 DEF Solves
<1>2. ASSUME NEW k \in 1 .. n, it[1 .. k - 1] \in X
      PROVE  it[1 .. k] = f[it[1 .. k - 1]][s[k]] /\ it[1 .. k] \in X
  <2>1. /\ 1 .. k \in SUBSET (1 .. n) /\ 1 .. k # {}
        /\ Max(1 .. k) = k /\ (1 .. k) \ {Max(1 .. k)} = 1 .. k - 1
    BY UpTo
  <2>2. it[1 .. k] = f[it[1 .. k - 1]][s[k]]
    BY <1>2, <2>1 DEF Solves
  <2>3. f[it[1 .. k - 1]] \in [E -> X] /\ s[k] \in E
    BY <1>2
  <2> QED
    BY <2>2, <2>3
<1>3. 0 \in K
  BY <1>1
<1>4. ASSUME NEW k \in Nat, k \in K PROVE k + 1 \in K
  <2> SUFFICES ASSUME k + 1 <= n PROVE it[1 .. k + 1] \in X
    OBVIOUS
  <2>1. k + 1 \in 1 .. n /\ (k + 1) - 1 = k
    OBVIOUS
  <2>2. it[1 .. k] \in X
    BY <1>4
  <2>3. it[1 .. (k + 1) - 1] \in X
    BY <2>1, <2>2
  <2> QED
    BY <1>2, <2>1, <2>3
<1>5. Nat \subseteq K
  <2> HIDE DEF K
  <2> QED
    BY <1>3, <1>4, SetInduction
<1>6. ASSUME NEW k \in 0 .. n PROVE it[1 .. k] \in X
  <2>1. k \in K /\ k <= n
    BY <1>5
  <2> QED
    BY <2>1
<1>7. a \in [0 .. n -> X] /\ a[0] = base /\ a[n] = it[1 .. n]
  BY <1>1, <1>6
<1>8. ASSUME NEW k \in 1 .. n PROVE a[k] = f[a[k - 1]][s[k]]
  <2>1. k \in 0 .. n /\ k - 1 \in 0 .. n
    OBVIOUS
  <2>2. it[1 .. k] = f[it[1 .. k - 1]][s[k]]
    BY <1>2, <1>6, <2>1
  <2> QED
    BY <2>1, <2>2
<1> HIDE DEF a
<1> QED
  BY <1>7, <1>8 DEF FoldsTo
=============================================================================
