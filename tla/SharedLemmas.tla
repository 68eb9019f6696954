---------------------------- MODULE SharedLemmas ----------------------------
(* What several of the proofs need to know: of lists of pending invocations (adding     *)
(* one, beginning the first, taking one out of the middle), of counting, and of loops.  *)
EXTENDS Naturals, Sequences, SequencesExt, Iteration, WellFoundedInduction, TLAPS

\* Splicing one entry out of a list of invocations leaves a list of invocations.
LEMMA RemoveAtType ==
    ASSUME NEW S, NEW s \in Seq(S), NEW i \in 1..Len(s)
    PROVE  RemoveAt(s, i) \in Seq(S)
  BY DEF RemoveAt

\* The shorter list keeps the order of the entries that stay.
LEMMA RemoveAtElements ==
    ASSUME NEW S, NEW s \in Seq(S), NEW i \in 1..Len(s)
    PROVE  /\ Len(RemoveAt(s, i)) = Len(s) - 1
           /\ \A j \in 1..(Len(s) - 1) :
                RemoveAt(s, i)[j] = s[IF j < i THEN j ELSE j + 1]
  <1> DEFINE a == SubSeq(s, 1, i - 1)
             b == SubSeq(s, i + 1, Len(s))
  <1>1. /\ a \in Seq(S) /\ Len(a) = i - 1
        /\ \A j \in 1..(i - 1) : a[j] = s[j]
    OBVIOUS
  <1>2. /\ b \in Seq(S) /\ Len(b) = Len(s) - i
        /\ \A j \in 1..(Len(s) - i) : b[j] = s[i + j]
    OBVIOUS
  <1>3. RemoveAt(s, i) = a \o b
    BY DEF RemoveAt
  <1> HIDE DEF a, b
  <1>4. Len(a \o b) = Len(s) - 1
    BY <1>1, <1>2
  <1>5. ASSUME NEW j \in 1..(Len(s) - 1)
        PROVE  (a \o b)[j] = s[IF j < i THEN j ELSE j + 1]
    <2>1. CASE j < i
      BY <1>1, <1>2, <2>1
    <2>2. CASE ~(j < i)
      <3>1. (a \o b)[j] = b[j - (i - 1)]
        BY <1>1, <1>2, <2>2
      <3>2. j - (i - 1) \in 1..(Len(s) - i) /\ i + (j - (i - 1)) = j + 1
        BY <2>2
      <3> QED  BY <1>2, <2>2, <3>1, <3>2
    <2> QED  BY <2>1, <2>2
  <1> QED  BY <1>3, <1>4, <1>5

\* One more entry is one more element.
LEMMA AppendSet ==
    ASSUME NEW S, NEW s \in Seq(S), NEW e \in S
    PROVE  ToSet(Append(s, e)) = ToSet(s) \cup {e}
  <1> DEFINE q == Append(s, e)
  <1>1. /\ q \in Seq(S) /\ Len(q) = Len(s) + 1 /\ q[Len(s) + 1] = e
        /\ \A i \in 1..Len(s) : q[i] = s[i]
    OBVIOUS
  <1> HIDE DEF q
  <1>2. /\ DOMAIN q = 1..(Len(s) + 1) /\ DOMAIN s = 1..Len(s) /\ Len(s) \in Nat
    BY <1>1
  <1> QED  BY <1>1, <1>2 DEF ToSet, q

\* Among different entries, the first one is an element that the rest has not.
LEMMA TailSet ==
    ASSUME NEW S, NEW s \in Seq(S), s # <<>>,
           \A i, j \in 1..Len(s) : i # j => s[i] # s[j]
    PROVE  /\ ToSet(s) = {Head(s)} \cup ToSet(Tail(s))
           /\ Head(s) \notin ToSet(Tail(s)) /\ Head(s) \in S
  <1> DEFINE q == Tail(s)
  <1>1. /\ Len(s) \in Nat \ {0} /\ Head(s) = s[1] /\ s[1] \in S
        /\ DOMAIN s = 1..Len(s) /\ DOMAIN q = 1..(Len(s) - 1)
        /\ \A i \in 1..(Len(s) - 1) : q[i] = s[i + 1]
    OBVIOUS
  <1> HIDE DEF q
  <1>2. ASSUME NEW i \in 1..Len(s), i # 1 PROVE i - 1 \in 1..(Len(s) - 1) /\ s[i] = q[i - 1]
    BY <1>1, <1>2
  <1>3. ToSet(s) \subseteq {s[1]} \cup ToSet(q)
    BY <1>1, <1>2 DEF ToSet
  <1>4. ASSUME NEW i \in 1..(Len(s) - 1) PROVE q[i] # s[1] /\ \E j \in 1..Len(s) : q[i] = s[j]
    <2>1. i + 1 \in 1..Len(s) /\ i + 1 # 1 /\ 1 \in 1..Len(s)
      BY <1>1
    <2> QED  BY <1>1, <2>1
  <1>5. ToSet(q) \subseteq ToSet(s) /\ s[1] \in ToSet(s) /\ s[1] \notin ToSet(q)
    <2>1. /\ ToSet(s) = {s[i] : i \in 1..Len(s)}
          /\ ToSet(q) = {q[i] : i \in 1..(Len(s) - 1)}
      BY <1>1 DEF ToSet
    <2>2. 1 \in 1..Len(s)
      BY <1>1
    <2> QED  BY <1>4, <2>1, <2>2, Zenon
  <1>6. ToSet(s) = {s[1]} \cup ToSet(q)
    BY <1>3, <1>5
  <1>7. Head(s) = s[1] /\ s[1] \in S
    BY <1>1
  <1> QED  BY <1>5, <1>6, <1>7, Zenon DEF q

\* And so is any one that is spliced out.
LEMMA RemoveSet ==
    ASSUME NEW S, NEW s \in Seq(S), NEW i \in 1..Len(s),
           \A j, k \in 1..Len(s) : j # k => s[j] # s[k]
    PROVE  /\ ToSet(s) = {s[i]} \cup ToSet(RemoveAt(s, i))
           /\ s[i] \notin ToSet(RemoveAt(s, i))
  <1> DEFINE q == RemoveAt(s, i)
  <1>1. /\ q \in Seq(S) /\ Len(q) = Len(s) - 1
        /\ \A j \in 1..(Len(s) - 1) : q[j] = s[IF j < i THEN j ELSE j + 1]
    BY RemoveAtType, RemoveAtElements
  <1> HIDE DEF q
  <1>2. /\ Len(s) \in Nat /\ DOMAIN s = 1..Len(s) /\ DOMAIN q = 1..(Len(s) - 1)
    BY <1>1
  <1>3. ASSUME NEW j \in 1..(Len(s) - 1)
        PROVE  \E k \in 1..Len(s) : k # i /\ q[j] = s[k]
    <2> DEFINE k == IF j < i THEN j ELSE j + 1
    <2>1. k \in 1..Len(s) /\ k # i /\ q[j] = s[k]
      BY <1>1, <1>2
    <2> QED  BY <2>1
  <1>4. ASSUME NEW k \in 1..Len(s), k # i
        PROVE  \E j \in 1..(Len(s) - 1) : q[j] = s[k]
    <2> DEFINE j == IF k < i THEN k ELSE k - 1
    <2>1. j \in 1..(Len(s) - 1) /\ k = IF j < i THEN j ELSE j + 1
      BY <1>2, <1>4
    <2> HIDE DEF j
    <2> QED  BY <1>1, <2>1
  <1>s. /\ ToSet(s) = {s[k] : k \in 1..Len(s)}
        /\ ToSet(q) = {q[j] : j \in 1..(Len(s) - 1)}
    BY <1>2 DEF ToSet
  <1>5. ToSet(s) \subseteq {s[i]} \cup ToSet(q)
    BY <1>4, <1>s, Zenon
  <1>6. ASSUME NEW j \in 1..(Len(s) - 1) PROVE q[j] \in ToSet(s) /\ q[j] # s[i]
    <2>1. PICK k \in 1..Len(s) : k # i /\ q[j] = s[k]
      BY <1>3
    <2> QED  BY <1>2, <2>1 DEF ToSet
  <1>7. ToSet(q) \subseteq ToSet(s) /\ s[i] \in ToSet(s) /\ s[i] \notin ToSet(q)
    BY <1>6, <1>s, Zenon
  <1> QED  BY <1>5, <1>7 DEF q
-----------------------------------------------------------------------------
(* Counting, and loops. *)

\* A set of numbers that holds 0, and after each number the next, holds them all.
LEMMA Counting ==
    ASSUME NEW N \in Nat, NEW S, 0 \in S, \A n \in 0 .. N : n \in S /\ n < N => n + 1 \in S
    PROVE  0 .. N \subseteq S
  <1> SUFFICES ASSUME NEW k \in 0 .. N, k \notin S PROVE FALSE
    OBVIOUS
  <1> DEFINE T == {n \in 0 .. N : n \notin S}
             R == {p \in Nat \X Nat : p[1] < p[2]}
  <1>1. IsWellFoundedOn(R, Nat)
    BY NatLessThanWellFounded DEF OpToRel
  <1>2. T \subseteq Nat /\ T # {}
    OBVIOUS
  <1>3. PICK m \in T : \A n \in T : <<n, m>> \notin R
    <2> HIDE DEF T, R
    <2> QED  BY <1>1, <1>2, WFMin
  <1>4. \A n \in T : ~ (n < m)
    BY <1>2, <1>3
  <1> QED  BY <1>4

\* Counting from any number to any other.
LEMMA CountingFrom ==
    ASSUME NEW a \in Nat, NEW b \in Nat, NEW S, a \in S,
           \A n \in a .. b : n \in S /\ n < b => n + 1 \in S
    PROVE  a .. b \subseteq S
  <1> SUFFICES ASSUME a <= b PROVE a .. b \subseteq S
    OBVIOUS
  <1> DEFINE N == b - a
             T == {n \in 0 .. N : a + n \in S}
  <1>1. N \in Nat /\ 0 \in T
    OBVIOUS
  <1>2. \A n \in 0 .. N : n \in T /\ n < N => n + 1 \in T
    <2> SUFFICES ASSUME NEW n \in 0 .. N, a + n \in S, n < N
                 PROVE  n + 1 \in 0 .. N /\ a + (n + 1) \in S
      OBVIOUS
    <2>1. a + n \in a .. b /\ a + n < b /\ (a + n) + 1 = a + (n + 1) /\ n + 1 \in 0 .. N
      OBVIOUS
    <2> HIDE DEF N
    <2> QED  BY <2>1
  <1>3. 0 .. N \subseteq T
    <2> HIDE DEF T, N
    <2> QED  BY <1>1, <1>2, Counting
  <1>4. \A n \in a .. b : n - a \in 0 .. N /\ a + (n - a) = n
    OBVIOUS
  <1> QED  BY <1>3, <1>4

\* A loop does what its rounds do, for any round.
LEMMA IterateUnfolds ==
    ASSUME NEW start, NEW step
    PROVE  LET made == Iterate(start, step) IN
           \A n \in Nat : made[n] = IF n = 0 THEN start ELSE step[n][made[n - 1]]
  <1> DEFINE Makes(k, f) ==
               /\ f = [n \in 0 .. k |-> f[n]]
               /\ \A n \in 0 .. k : f[n] = IF n = 0 THEN start ELSE step[n][f[n - 1]]
  <1>1. ASSUME NEW N \in Nat
        PROVE  \E f : Makes(N, f)
    <2> DEFINE S == {k \in 0 .. N : \E f : Makes(k, f)}
    <2>1. 0 \in S
      <3> DEFINE f == [n \in 0 .. 0 |-> start]
      <3>1. Makes(0, f)
        OBVIOUS
      <3> HIDE DEF f, Makes
      <3> QED  BY <3>1
    <2>2. \A k \in 0 .. N : k \in S /\ k < N => k + 1 \in S
      <3> SUFFICES ASSUME NEW k \in 0 .. N, k \in S, k < N
                   PROVE  \E g : Makes(k + 1, g)
        <4> HIDE DEF Makes
        <4> QED  OBVIOUS
      <3>1. PICK f : Makes(k, f)
        <4> HIDE DEF Makes
        <4> QED  OBVIOUS
      <3> DEFINE g == [n \in 0 .. k + 1 |-> IF n = k + 1 THEN step[k + 1][f[k]] ELSE f[n]]
      <3>2. /\ \A n \in 0 .. k : g[n] = f[n]
            /\ g[k + 1] = step[k + 1][f[k]]
        OBVIOUS
      <3>3. g = [n \in 0 .. k + 1 |-> g[n]]
        OBVIOUS
      <3> HIDE DEF g
      <3>4. \A n \in 0 .. k + 1 : g[n] = IF n = 0 THEN start ELSE step[n][g[n - 1]]
        <4> SUFFICES ASSUME NEW n \in 0 .. k + 1
                     PROVE  g[n] = IF n = 0 THEN start ELSE step[n][g[n - 1]]
          OBVIOUS
        <4>1. CASE n = k + 1
          <5>1. k \in 0 .. k /\ n # 0 /\ n - 1 = k
            BY <4>1
          <5> QED  BY <3>2, <4>1, <5>1
        <4>2. CASE n \in 1 .. k
          <5>1. n \in 0 .. k /\ n - 1 \in 0 .. k /\ n # 0
            BY <4>2
          <5>2. g[n] = f[n] /\ g[n - 1] = f[n - 1]
            BY <3>2, <5>1
          <5> QED  BY <3>1, <5>1, <5>2
        <4>3. CASE n = 0
          <5>1. 0 \in 0 .. k
            OBVIOUS
          <5> QED  BY <3>1, <3>2, <4>3, <5>1
        <4> QED  BY <4>1, <4>2, <4>3
      <3>5. Makes(k + 1, g)
        BY <3>3, <3>4
      <3> HIDE DEF Makes
      <3> QED  BY <3>5
    <2>3. 0 .. N \subseteq S
      <3> HIDE DEF S
      <3> QED  BY <2>1, <2>2, Counting
    <2>4. N \in S
      BY <2>3
    <2> HIDE DEF Makes
    <2> QED  BY <2>4
  <1>2. ASSUME NEW k \in Nat, NEW l \in Nat, k <= l, NEW f, NEW g, Makes(k, f), Makes(l, g)
        PROVE  f[k] = g[k]
    <2> DEFINE S == {n \in 0 .. k : f[n] = g[n]}
    <2>1. 0 \in S
      BY <1>2
    <2>2. \A n \in 0 .. k : n \in S /\ n < k => n + 1 \in S
      <3> SUFFICES ASSUME NEW n \in 0 .. k, f[n] = g[n], n < k
                   PROVE  n + 1 \in 0 .. k /\ f[n + 1] = g[n + 1]
        OBVIOUS
      <3>1. n + 1 \in 0 .. k /\ n + 1 \in 0 .. l /\ n + 1 # 0 /\ (n + 1) - 1 = n
        BY <1>2
      <3>2. f[n + 1] = step[n + 1][f[n]] /\ g[n + 1] = step[n + 1][g[n]]
        BY <1>2, <3>1
      <3> QED  BY <3>1, <3>2
    <2>3. 0 .. k \subseteq S
      <3> HIDE DEF S
      <3> QED  BY <2>1, <2>2, Counting
    <2> QED  BY <2>3
  <1> DEFINE upto(n) == CHOOSE f : Makes(n, f)
             whole == [n \in Nat |-> upto(n)[n]]
             Loops(f) == f = [n \in Nat |-> IF n = 0 THEN start ELSE step[n][f[n - 1]]]
  <1>3. \A n \in Nat : Makes(n, upto(n))
    <2> HIDE DEF Makes
    <2> QED  BY <1>1
  <1> HIDE DEF upto
  <1>4. \A n \in Nat : whole[n] = IF n = 0 THEN start ELSE step[n][whole[n - 1]]
    <2> SUFFICES ASSUME NEW n \in Nat
                 PROVE  whole[n] = IF n = 0 THEN start ELSE step[n][whole[n - 1]]
      OBVIOUS
    <2>1. upto(n)[n] = IF n = 0 THEN start ELSE step[n][upto(n)[n - 1]]
      BY <1>3
    <2>2. CASE n # 0
      <3>1. n - 1 \in Nat /\ n - 1 <= n
        BY <2>2
      <3>2. Makes(n - 1, upto(n - 1)) /\ Makes(n, upto(n))
        BY <1>3, <3>1
      <3>3. upto(n - 1)[n - 1] = upto(n)[n - 1]
        <4> HIDE DEF Makes
        <4> QED  BY <1>2, <3>1, <3>2
      <3> QED  BY <2>1, <2>2, <3>1, <3>3
    <2> QED  BY <2>1, <2>2
  <1>5. Loops(whole)
    <2>1. whole = [n \in Nat |-> whole[n]]
      OBVIOUS
    <2> HIDE DEF whole
    <2> QED  BY <1>4, <2>1
  <1>6. Iterate(start, step) = CHOOSE f : Loops(f)
    BY DEF Iterate
  <1>7. Loops(Iterate(start, step))
    <2> HIDE DEF Loops
    <2> QED  BY <1>5, <1>6
  <1> DEFINE made == Iterate(start, step)
  <1> HIDE DEF made
  <1>8. Loops(made)
    BY <1>7 DEF made
  <1> QED  BY <1>8 DEF made
=============================================================================
