---------------------------- MODULE QueueOrders -----------------------------
(***************************************************************************)
(* The order of things in a FIFO queue: what it holds, what comes before   *)
(* what, and what receiving and sending do to that.                        *)
(***************************************************************************)
EXTENDS Integers, Sequences, TLAPS

\* Something of A is in q; at most one thing is; no A comes after a B.
Holds(q, A) == \E i \in DOMAIN q : q[i] \in A
Once(q, A) == \A i, j \in DOMAIN q : q[i] \in A /\ q[j] \in A => i = j
Precedes(q, A, B) == \A i, j \in DOMAIN q : q[i] \in A /\ q[j] \in B => i < j

\* Some A is before every B, or after every B; every A has a B after it.
Leads(q, A, B) ==
    \E i \in DOMAIN q : q[i] \in A /\ \A j \in DOMAIN q : q[j] \in B => i < j
Trails(q, A, B) ==
    \E i \in DOMAIN q : q[i] \in A /\ \A j \in DOMAIN q : q[j] \in B => j < i
Followed(q, A, B) ==
    \A i \in DOMAIN q : q[i] \in A => \E j \in DOMAIN q : i < j /\ q[j] \in B

\* The last of R in q is an A.
EndsIn(q, A, R) ==
    \E i \in DOMAIN q : q[i] \in A /\ \A j \in DOMAIN q : q[j] \in R => j <= i

-----------------------------------------------------------------------------
(* The positions of a queue and of its tail.                                *)
LEMMA TailIndex ==
    ASSUME NEW S, NEW q \in Seq(S), q # <<>>
    PROVE  /\ DOMAIN q = 1 .. Len(q) /\ Len(q) \in Nat \ {0}
           /\ DOMAIN Tail(q) = 1 .. Len(q) - 1
           /\ Head(q) = q[1]
           /\ \A i \in 1 .. Len(q) - 1 : Tail(q)[i] = q[i + 1]
  OBVIOUS

(* What a queue holds is its head or in its tail.                           *)
LEMMA TailHolds ==
    ASSUME NEW S, NEW q \in Seq(S), q # <<>>, NEW A
    PROVE  Holds(q, A) <=> Head(q) \in A \/ Holds(Tail(q), A)
  <1>1. ASSUME Holds(Tail(q), A)
        PROVE  Holds(q, A)
    <2>1. PICK i \in 1 .. Len(q) - 1 : Tail(q)[i] \in A
      BY <1>1, TailIndex DEF Holds
    <2>2. q[i + 1] \in A /\ i + 1 \in DOMAIN q
      BY <2>1, TailIndex
    <2>3. QED
      BY <2>2 DEF Holds
  <1>2. ASSUME Holds(q, A), Head(q) \notin A
        PROVE  Holds(Tail(q), A)
    <2>1. PICK j \in 1 .. Len(q) : q[j] \in A
      BY <1>2, TailIndex DEF Holds
    <2>2. j - 1 \in 1 .. Len(q) - 1
      BY <1>2, <2>1, TailIndex
    <2>3. Tail(q)[j - 1] = q[(j - 1) + 1] /\ (j - 1) + 1 = j
      BY <2>2, TailIndex
    <2>4. QED
      BY <2>1, <2>2, <2>3, TailIndex DEF Holds
  <1>3. Head(q) \in A => Holds(q, A)
    <2>1. 1 \in DOMAIN q /\ Head(q) = q[1]
      BY TailIndex
    <2>2. QED
      BY <2>1 DEF Holds
  <1>4. QED
    BY <1>1, <1>2, <1>3

(* Receiving keeps every order, and what must come first may be the head.   *)
LEMMA TailOrders ==
    ASSUME NEW S, NEW q \in Seq(S), q # <<>>, NEW A, NEW B
    PROVE  /\ Once(q, A) =>
                Once(Tail(q), A) /\ (Head(q) \in A => ~Holds(Tail(q), A))
           /\ Precedes(q, A, B) =>
                Precedes(Tail(q), A, B) /\ (Head(q) \in B => ~Holds(q, A))
           /\ Leads(q, A, B) =>
                Head(q) \notin B /\ (Head(q) \in A \/ Leads(Tail(q), A, B))
           /\ Trails(q, A, B) =>
                Trails(Tail(q), A, B) \/ (Head(q) \in A /\ ~Holds(Tail(q), B))
           /\ Followed(q, A, B) => Followed(Tail(q), A, B)
  <1> DEFINE n == Len(q)
             t == Tail(q)
  <1>1. /\ DOMAIN q = 1 .. n /\ n \in Nat \ {0}
        /\ DOMAIN t = 1 .. n - 1
        /\ Head(q) = q[1]
    BY TailIndex
  <1>2. \A i \in 1 .. n - 1 : i + 1 \in 1 .. n /\ t[i] = q[i + 1]
    BY TailIndex
  <1>3. \A j \in 1 .. n : j # 1 => j - 1 \in 1 .. n - 1 /\ t[j - 1] = q[j]
    <2> SUFFICES ASSUME NEW j \in 1 .. n, j # 1
                 PROVE  j - 1 \in 1 .. n - 1 /\ t[j - 1] = q[j]
      OBVIOUS
    <2>1. j - 1 \in 1 .. n - 1 /\ (j - 1) + 1 = j
      BY <1>1
    <2>2. QED
      BY <1>2, <2>1
  <1> HIDE DEF n, t
  <1>4. ASSUME Once(q, A)
        PROVE  Once(t, A) /\ (Head(q) \in A => ~Holds(t, A))
    <2>1. \A i, j \in 1 .. n : q[i] \in A /\ q[j] \in A => i = j
      BY <1>1, <1>4 DEF Once
    <2>2. ASSUME NEW i \in 1 .. n - 1, NEW j \in 1 .. n - 1, t[i] \in A, t[j] \in A
          PROVE  i = j
      <3>1. i + 1 = j + 1
        BY <1>2, <2>1, <2>2
      <3>2. QED
        BY <3>1
    <2>3. ASSUME NEW i \in 1 .. n - 1, t[i] \in A, q[1] \in A
          PROVE  FALSE
      <3>1. i + 1 = 1
        BY <1>1, <1>2, <2>1, <2>3
      <3>2. QED
        BY <1>1, <3>1
    <2>4. QED
      BY <1>1, <2>2, <2>3 DEF Once, Holds
  <1>5. ASSUME Precedes(q, A, B)
        PROVE  Precedes(t, A, B) /\ (Head(q) \in B => ~Holds(q, A))
    <2>1. \A i, j \in 1 .. n : q[i] \in A /\ q[j] \in B => i < j
      BY <1>1, <1>5 DEF Precedes
    <2>2. ASSUME NEW i \in 1 .. n - 1, NEW j \in 1 .. n - 1, t[i] \in A, t[j] \in B
          PROVE  i < j
      <3>1. i + 1 < j + 1
        BY <1>2, <2>1, <2>2
      <3>2. QED
        BY <3>1
    <2>3. ASSUME NEW i \in 1 .. n, q[i] \in A, q[1] \in B
          PROVE  FALSE
      <3>1. i < 1
        BY <1>1, <2>1, <2>3
      <3>2. QED
        BY <3>1
    <2>4. QED
      BY <1>1, <2>2, <2>3 DEF Precedes, Holds
  <1>6. ASSUME Leads(q, A, B)
        PROVE  Head(q) \notin B /\ (Head(q) \in A \/ Leads(t, A, B))
    <2>1. PICK i \in 1 .. n : q[i] \in A /\ \A j \in 1 .. n : q[j] \in B => i < j
      BY <1>1, <1>6 DEF Leads
    <2>2. q[1] \notin B
      BY <1>1, <2>1
    <2>3. ASSUME i # 1
          PROVE  Leads(t, A, B)
      <3>1. i - 1 \in 1 .. n - 1 /\ t[i - 1] \in A
        BY <1>3, <2>1, <2>3
      <3>2. ASSUME NEW j \in 1 .. n - 1, t[j] \in B
            PROVE  i - 1 < j
        <4>1. i < j + 1
          BY <1>2, <2>1, <3>2
        <4>2. QED
          BY <4>1
      <3>3. QED
        BY <1>1, <3>1, <3>2 DEF Leads
    <2>4. QED
      BY <1>1, <2>1, <2>2, <2>3
  <1>7. ASSUME Trails(q, A, B)
        PROVE  Trails(t, A, B) \/ (Head(q) \in A /\ ~Holds(t, B))
    <2>1. PICK i \in 1 .. n : q[i] \in A /\ \A j \in 1 .. n : q[j] \in B => j < i
      BY <1>1, <1>7 DEF Trails
    <2>2. ASSUME NEW j \in 1 .. n - 1, t[j] \in B
          PROVE  j + 1 < i
      BY <1>2, <2>1, <2>2
    <2>3. CASE i = 1
      <3>1. ~Holds(t, B)
        BY <1>1, <2>2, <2>3 DEF Holds
      <3>2. QED
        BY <1>1, <2>1, <2>3, <3>1
    <2>4. CASE i # 1
      <3>1. i - 1 \in 1 .. n - 1 /\ t[i - 1] \in A
        BY <1>3, <2>1, <2>4
      <3>2. \A j \in 1 .. n - 1 : t[j] \in B => j < i - 1
        BY <2>2
      <3>3. QED
        BY <1>1, <3>1, <3>2 DEF Trails
    <2>5. QED
      BY <2>3, <2>4
  <1>8. ASSUME Followed(q, A, B)
        PROVE  Followed(t, A, B)
    <2> SUFFICES ASSUME NEW i \in 1 .. n - 1, t[i] \in A
                 PROVE  \E j \in 1 .. n - 1 : i < j /\ t[j] \in B
      BY <1>1 DEF Followed
    <2>1. PICK j \in 1 .. n : i + 1 < j /\ q[j] \in B
      BY <1>1, <1>2, <1>8 DEF Followed
    <2>2. j - 1 \in 1 .. n - 1 /\ t[j - 1] \in B /\ i < j - 1
      BY <1>3, <2>1
    <2>3. QED
      BY <2>2
  <1>9. QED
    BY <1>4, <1>5, <1>6, <1>7, <1>8 DEF t

(* The positions of two queues put together.                                *)
LEMMA JoinIndex ==
    ASSUME NEW S, NEW q \in Seq(S), NEW e \in Seq(S)
    PROVE  /\ Len(q) \in Nat /\ Len(e) \in Nat
           /\ DOMAIN q = 1 .. Len(q) /\ DOMAIN e = 1 .. Len(e)
           /\ DOMAIN (q \o e) = 1 .. Len(q) + Len(e)
           /\ \A i \in 1 .. Len(q) : (q \o e)[i] = q[i]
           /\ \A i \in 1 .. Len(e) : (q \o e)[Len(q) + i] = e[i]
  OBVIOUS

(* What sending does to what a queue holds and to its orders.               *)
LEMMA JoinHolds ==
    ASSUME NEW S, NEW q \in Seq(S), NEW e \in Seq(S)
    PROVE  /\ \A A : Holds(q \o e, A) <=> Holds(q, A) \/ Holds(e, A)
           /\ \A A : Once(q, A) /\ Once(e, A) /\ ~(Holds(q, A) /\ Holds(e, A))
                => Once(q \o e, A)
           /\ \A A, B : /\ Precedes(q, A, B) /\ Precedes(e, A, B)
                        /\ ~(Holds(q, B) /\ Holds(e, A))
                => Precedes(q \o e, A, B)
           /\ \A A, B : Leads(q, A, B) \/ (~Holds(q, B) /\ Leads(e, A, B))
                => Leads(q \o e, A, B)
           /\ \A A, B : Trails(e, A, B) \/ (~Holds(e, B) /\ Trails(q, A, B))
                => Trails(q \o e, A, B)
           /\ \A A, B : Followed(q, A, B) /\ Followed(e, A, B)
                => Followed(q \o e, A, B)
  <1> DEFINE n == Len(q)
             m == Len(e)
             c == q \o e
  <1>1. /\ n \in Nat /\ m \in Nat
        /\ DOMAIN q = 1 .. n /\ DOMAIN e = 1 .. m
        /\ DOMAIN c = 1 .. n + m
        /\ \A i \in 1 .. n : c[i] = q[i]
        /\ \A i \in 1 .. m : c[n + i] = e[i]
    BY JoinIndex
  <1> HIDE DEF n, m, c
  <1>2. \A k \in 1 .. n + m : \/ k \in 1 .. n /\ c[k] = q[k]
                              \/ k - n \in 1 .. m /\ c[k] = e[k - n] /\ k \notin 1 .. n
    <2> SUFFICES ASSUME NEW k \in 1 .. n + m, k \notin 1 .. n
                 PROVE  k - n \in 1 .. m /\ c[k] = e[k - n]
      BY <1>1
    <2>1. k - n \in 1 .. m /\ n + (k - n) = k
      BY <1>1
    <2>2. QED
      BY <1>1, <2>1
  <1>3. /\ \A i \in 1 .. n : i \in 1 .. n + m
        /\ \A i \in 1 .. m : n + i \in 1 .. n + m
    BY <1>1
  <1>4. ASSUME NEW A
        PROVE  Holds(c, A) <=> Holds(q, A) \/ Holds(e, A)
    BY <1>1, <1>2, <1>3 DEF Holds
  <1>5. ASSUME NEW A, Once(q, A), Once(e, A), ~(Holds(q, A) /\ Holds(e, A))
        PROVE  Once(c, A)
    <2> SUFFICES ASSUME NEW k \in 1 .. n + m, NEW l \in 1 .. n + m, c[k] \in A, c[l] \in A
                 PROVE  k = l
      BY <1>1 DEF Once
    <2>1. CASE k \in 1 .. n /\ l \in 1 .. n
      BY <1>1, <1>5, <2>1 DEF Once
    <2>2. CASE k \notin 1 .. n /\ l \notin 1 .. n
      <3>1. /\ k - n \in 1 .. m /\ e[k - n] \in A
            /\ l - n \in 1 .. m /\ e[l - n] \in A
        BY <1>2, <2>2
      <3>2. k - n = l - n
        BY <1>1, <1>5, <3>1 DEF Once
      <3>3. QED
        BY <1>1, <3>2
    <2>3. QED
      BY <1>1, <1>2, <1>5, <2>1, <2>2 DEF Holds
  <1>6. ASSUME NEW A, NEW B, Precedes(q, A, B), Precedes(e, A, B),
               ~(Holds(q, B) /\ Holds(e, A))
        PROVE  Precedes(c, A, B)
    <2> SUFFICES ASSUME NEW k \in 1 .. n + m, NEW l \in 1 .. n + m, c[k] \in A, c[l] \in B
                 PROVE  k < l
      BY <1>1 DEF Precedes
    <2>1. CASE k \in 1 .. n /\ l \in 1 .. n
      BY <1>1, <1>6, <2>1 DEF Precedes
    <2>2. CASE k \notin 1 .. n /\ l \notin 1 .. n
      <3>1. /\ k - n \in 1 .. m /\ e[k - n] \in A
            /\ l - n \in 1 .. m /\ e[l - n] \in B
        BY <1>2, <2>2
      <3>2. k - n < l - n
        BY <1>1, <1>6, <3>1 DEF Precedes
      <3>3. QED
        BY <1>1, <3>2
    <2>3. CASE k \in 1 .. n /\ l \notin 1 .. n
      BY <1>1, <2>3
    <2>4. CASE k \notin 1 .. n /\ l \in 1 .. n
      <3>1. e[k - n] \in A /\ k - n \in 1 .. m
        BY <1>2, <2>4
      <3>2. q[l] \in B
        BY <1>1, <2>4
      <3>3. Holds(q, B) /\ Holds(e, A)
        BY <1>1, <2>4, <3>1, <3>2 DEF Holds
      <3>4. QED
        BY <1>6, <3>3
    <2>5. QED
      BY <2>1, <2>2, <2>3, <2>4
  <1>7. ASSUME NEW A, NEW B, Leads(q, A, B) \/ (~Holds(q, B) /\ Leads(e, A, B))
        PROVE  Leads(c, A, B)
    <2>1. CASE Leads(q, A, B)
      <3>1. PICK i \in 1 .. n : q[i] \in A /\ \A j \in 1 .. n : q[j] \in B => i < j
        BY <1>1, <2>1 DEF Leads
      <3>2. c[i] \in A /\ i \in 1 .. n + m
        BY <1>1, <1>3, <3>1
      <3>3. \A j \in 1 .. n + m : c[j] \in B => i < j
        BY <1>1, <1>2, <3>1
      <3>4. QED
        BY <1>1, <3>2, <3>3 DEF Leads
    <2>2. CASE ~Holds(q, B) /\ Leads(e, A, B)
      <3>1. PICK i \in 1 .. m : e[i] \in A /\ \A j \in 1 .. m : e[j] \in B => i < j
        BY <1>1, <2>2 DEF Leads
      <3>2. c[n + i] \in A /\ n + i \in 1 .. n + m
        BY <1>1, <1>3, <3>1
      <3>3. \A j \in 1 .. n + m : c[j] \in B => n + i < j
        <4> SUFFICES ASSUME NEW j \in 1 .. n + m, c[j] \in B
                     PROVE  n + i < j
          OBVIOUS
        <4>1. ~(j \in 1 .. n /\ c[j] = q[j])
          BY <1>1, <2>2 DEF Holds
        <4>2. j - n \in 1 .. m /\ e[j - n] \in B
          BY <1>2, <4>1
        <4>3. QED
          BY <1>1, <3>1, <4>2
      <3>4. QED
        BY <1>1, <3>2, <3>3 DEF Leads
    <2>3. QED
      BY <1>7, <2>1, <2>2
  <1>8. ASSUME NEW A, NEW B, Trails(e, A, B) \/ (~Holds(e, B) /\ Trails(q, A, B))
        PROVE  Trails(c, A, B)
    <2>1. CASE ~Holds(e, B) /\ Trails(q, A, B)
      <3>1. PICK i \in 1 .. n : q[i] \in A /\ \A j \in 1 .. n : q[j] \in B => j < i
        BY <1>1, <2>1 DEF Trails
      <3>2. c[i] \in A /\ i \in 1 .. n + m
        BY <1>1, <1>3, <3>1
      <3>3. \A j \in 1 .. n + m : c[j] \in B => j < i
        BY <1>1, <1>2, <2>1, <3>1 DEF Holds
      <3>4. QED
        BY <1>1, <3>2, <3>3 DEF Trails
    <2>2. CASE Trails(e, A, B)
      <3>1. PICK i \in 1 .. m : e[i] \in A /\ \A j \in 1 .. m : e[j] \in B => j < i
        BY <1>1, <2>2 DEF Trails
      <3>2. c[n + i] \in A /\ n + i \in 1 .. n + m
        BY <1>1, <1>3, <3>1
      <3>3. \A j \in 1 .. n + m : c[j] \in B => j < n + i
        BY <1>1, <1>2, <3>1
      <3>4. QED
        BY <1>1, <3>2, <3>3 DEF Trails
    <2>3. QED
      BY <1>8, <2>1, <2>2
  <1>9. ASSUME NEW A, NEW B, Followed(q, A, B), Followed(e, A, B)
        PROVE  Followed(c, A, B)
    <2>1. SUFFICES ASSUME NEW k \in 1 .. n + m, c[k] \in A
                   PROVE  \E j \in 1 .. n + m : k < j /\ c[j] \in B
      BY <1>1 DEF Followed
    <2>2. CASE k \in 1 .. n /\ c[k] = q[k]
      <3>1. PICK j \in 1 .. n : k < j /\ q[j] \in B
        BY <1>1, <1>9, <2>1, <2>2 DEF Followed
      <3>2. QED
        BY <1>1, <1>3, <3>1
    <2>3. CASE k - n \in 1 .. m /\ c[k] = e[k - n]
      <3>1. PICK j \in 1 .. m : k - n < j /\ e[j] \in B
        BY <1>1, <1>9, <2>1, <2>3 DEF Followed
      <3>2. k < n + j /\ c[n + j] \in B /\ n + j \in 1 .. n + m
        BY <1>1, <1>3, <3>1
      <3>3. QED
        BY <3>2
    <2>4. QED
      BY <1>2, <2>1, <2>2, <2>3
  <1>10. QED
    BY <1>4, <1>5, <1>6, <1>7, <1>8, <1>9 DEF c

(* What the few things sent at once hold,                                   *)
LEMMA ShortHolds ==
    /\ \A A : ~Holds(<<>>, A)
    /\ \A x, A : Holds(<<x>>, A) <=> x \in A
    /\ \A x, y, A : Holds(<<x, y>>, A) <=> x \in A \/ y \in A
  BY DEF Holds

(* and how they are ordered.                                                *)
LEMMA ShortOrders ==
    /\ \A x, A : Once(<<x>>, A)
    /\ \A x, y, A : ~(x \in A /\ y \in A) => Once(<<x, y>>, A)
    /\ \A x, A, B : ~(x \in A /\ x \in B) => Precedes(<<x>>, A, B)
    /\ \A x, A, B : x \in A /\ x \notin B => Leads(<<x>>, A, B) /\ Trails(<<x>>, A, B)
  <1>1. \A x : DOMAIN <<x>> = {1} /\ <<x>>[1] = x
    OBVIOUS
  <1>2. \A x, y : DOMAIN <<x, y>> = {1, 2} /\ <<x, y>>[1] = x /\ <<x, y>>[2] = y
    OBVIOUS
  <1>3. /\ \A x, A : Once(<<x>>, A)
        /\ \A x, A, B : ~(x \in A /\ x \in B) => Precedes(<<x>>, A, B)
    BY <1>1 DEF Once, Precedes
  <1>4. \A x, y, A : ~(x \in A /\ y \in A) => Once(<<x, y>>, A)
    BY <1>2 DEF Once
  <1>5. \A x, A, B : x \in A /\ x \notin B => Leads(<<x>>, A, B) /\ Trails(<<x>>, A, B)
    BY <1>1 DEF Leads, Trails
  <1>6. QED
    BY <1>3, <1>4, <1>5

(* What is not there is in any order.                                       *)
LEMMA Absent ==
    ASSUME NEW q, NEW A, ~Holds(q, A)
    PROVE  /\ Once(q, A)
           /\ \A B : Precedes(q, A, B) /\ Precedes(q, B, A) /\ Followed(q, A, B)
  BY DEF Holds, Once, Precedes, Followed

(* What something held is followed by is held.                              *)
LEMMA FollowedHolds ==
    ASSUME NEW q, NEW A, NEW B, Followed(q, A, B), Holds(q, A)
    PROVE  Holds(q, B)
  BY DEF Followed, Holds

(* What leads is held.                                                      *)
LEMMA LeadsHolds ==
    ASSUME NEW q, NEW A, NEW B, Leads(q, A, B)
    PROVE  Holds(q, A)
  BY DEF Leads, Holds

(* Receiving leaves the last word, unless it was the head.                  *)
LEMMA TailEndsIn ==
    ASSUME NEW S, NEW q \in Seq(S), q # <<>>, NEW A, NEW R, A \subseteq R, EndsIn(q, A, R)
    PROVE  EndsIn(Tail(q), A, R) \/ (Head(q) \in A /\ ~Holds(Tail(q), R))
  <1> DEFINE n == Len(q)
             t == Tail(q)
  <1>1. /\ DOMAIN q = 1 .. n /\ n \in Nat \ {0}
        /\ DOMAIN t = 1 .. n - 1
        /\ Head(q) = q[1]
        /\ \A k \in 1 .. n - 1 : k + 1 \in 1 .. n /\ t[k] = q[k + 1]
    BY TailIndex
  <1> HIDE DEF n, t
  <1>2. PICK i \in 1 .. n : q[i] \in A /\ \A j \in 1 .. n : q[j] \in R => j <= i
    BY <1>1 DEF EndsIn
  <1>3. \A j \in 1 .. n - 1 : t[j] \in R => j + 1 <= i
    BY <1>1, <1>2
  <1>4. CASE i = 1
    <2>1. ~Holds(t, R)
      BY <1>1, <1>3, <1>4 DEF Holds
    <2>2. QED
      BY <1>1, <1>2, <1>4, <2>1 DEF t
  <1>5. CASE i # 1
    <2>1. i - 1 \in 1 .. n - 1 /\ (i - 1) + 1 = i
      BY <1>1, <1>5
    <2>2. t[i - 1] \in A
      BY <1>1, <1>2, <2>1
    <2>3. \A j \in 1 .. n - 1 : t[j] \in R => j <= i - 1
      BY <1>3, <2>1
    <2>4. EndsIn(t, A, R)
      BY <1>1, <2>1, <2>2, <2>3 DEF EndsIn
    <2>5. QED
      BY <2>4 DEF t
  <1>6. QED
    BY <1>4, <1>5

(* The last word is in what was sent, or, if that says nothing, before it.  *)
LEMMA JoinEndsIn ==
    ASSUME NEW S, NEW q \in Seq(S), NEW e \in Seq(S), NEW A, NEW R
    PROVE  /\ EndsIn(e, A, R) => EndsIn(q \o e, A, R)
           /\ EndsIn(q, A, R) /\ ~Holds(e, R) => EndsIn(q \o e, A, R)
  <1> DEFINE n == Len(q)
             m == Len(e)
             c == q \o e
  <1>1. /\ n \in Nat /\ m \in Nat
        /\ DOMAIN q = 1 .. n /\ DOMAIN e = 1 .. m /\ DOMAIN c = 1 .. n + m
        /\ \A i \in 1 .. n : c[i] = q[i]
        /\ \A i \in 1 .. m : c[n + i] = e[i]
    BY JoinIndex
  <1> HIDE DEF n, m, c
  <1>2. \A k \in 1 .. n + m : \/ k \in 1 .. n /\ c[k] = q[k]
                              \/ k - n \in 1 .. m /\ c[k] = e[k - n] /\ k \notin 1 .. n
    <2> SUFFICES ASSUME NEW k \in 1 .. n + m, k \notin 1 .. n
                 PROVE  k - n \in 1 .. m /\ c[k] = e[k - n]
      BY <1>1
    <2>1. k - n \in 1 .. m /\ n + (k - n) = k
      BY <1>1
    <2>2. QED
      BY <1>1, <2>1
  <1>3. /\ \A i \in 1 .. n : i \in 1 .. n + m
        /\ \A i \in 1 .. m : n + i \in 1 .. n + m
    BY <1>1
  <1>4. ASSUME EndsIn(e, A, R)
        PROVE  EndsIn(c, A, R)
    <2>1. PICK i \in 1 .. m : e[i] \in A /\ \A j \in 1 .. m : e[j] \in R => j <= i
      BY <1>1, <1>4 DEF EndsIn
    <2>2. c[n + i] \in A /\ n + i \in 1 .. n + m
      BY <1>1, <1>3, <2>1
    <2>3. \A j \in 1 .. n + m : c[j] \in R => j <= n + i
      BY <1>1, <1>2, <2>1
    <2>4. QED
      BY <1>1, <2>2, <2>3 DEF EndsIn
  <1>5. ASSUME EndsIn(q, A, R), ~Holds(e, R)
        PROVE  EndsIn(c, A, R)
    <2>1. PICK i \in 1 .. n : q[i] \in A /\ \A j \in 1 .. n : q[j] \in R => j <= i
      BY <1>1, <1>5 DEF EndsIn
    <2>2. c[i] \in A /\ i \in 1 .. n + m
      BY <1>1, <1>3, <2>1
    <2>3. \A j \in 1 .. n + m : c[j] \in R => j <= i
      BY <1>1, <1>2, <1>5, <2>1 DEF Holds
    <2>4. QED
      BY <1>1, <2>2, <2>3 DEF EndsIn
  <1>6. QED
    BY <1>4, <1>5 DEF c

(* The last word of the few things sent at once.                            *)
LEMMA ShortEnds ==
    /\ \A x, A, R : x \in A => EndsIn(<<x>>, A, R)
    /\ \A x, y, A, R : x \in A /\ y \notin R => EndsIn(<<x, y>>, A, R)
    /\ \A x, y, A, R : y \in A => EndsIn(<<x, y>>, A, R)
  BY DEF EndsIn
=============================================================================
