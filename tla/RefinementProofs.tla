-------------------------- MODULE RefinementProofs --------------------------
(***************************************************************************)
(* Proof that the scheduler implements RoundRobin for every number of      *)
(* threads: the linked list read from `current` on is the queue, and every *)
(* step of scheduler_yield, of a thread, a command or an interrupt is a    *)
(* step of the queue or leaves it alone.                                   *)
(***************************************************************************)
EXTENDS SchedulerSleepProofs, SchedulerRefinement

-----------------------------------------------------------------------------
(* Lists: the threads L, the pointers nx and the head c are any here, so   *)
(* that the lemmas speak of the state before a step and of that after it.  *)

(* q is the list once around, from c on. *)
Reads(q, L, c, nx) ==
  /\ q \in Seq(L) /\ q # <<>> /\ q[1] = c
  /\ \A i, j \in 1 .. Len(q) : q[i] = q[j] => i = j
  /\ \A i \in 1 .. Len(q) : nx[q[i]] = IF i = Len(q) THEN c ELSE q[i + 1]

OneCycle(L, nx) ==
  \A S \in SUBSET L : S # {} /\ (\A t \in S : nx[t] \in S) => S = L

LEMMA ReadsAll ==
  ASSUME NEW L, NEW c, NEW nx, OneCycle(L, nx), NEW q, Reads(q, L, c, nx)
  PROVE  \A t \in L : \E i \in 1 .. Len(q) : q[i] = t
<1> DEFINE S == {t \in L : \E i \in 1 .. Len(q) : q[i] = t}
<1>1. q \in Seq(L) /\ Len(q) \in Nat /\ Len(q) >= 1 /\ q[1] = c /\ 1 \in 1 .. Len(q)
  BY DEF Reads
<1>2. \A i \in 1 .. Len(q) : q[i] \in S
  BY <1>1
<1>3. ASSUME NEW t \in S PROVE nx[t] \in S
  <2>1. PICK i \in 1 .. Len(q) : q[i] = t
    BY DEF S
  <2>2. CASE i = Len(q)
    <3>1. nx[t] = q[1]
      BY <1>1, <2>1, <2>2 DEF Reads
    <3> QED BY <1>1, <1>2, <3>1
  <2>3. CASE i # Len(q)
    <3>1. nx[t] = q[i + 1] /\ i + 1 \in 1 .. Len(q)
      BY <1>1, <2>1, <2>3 DEF Reads
    <3> QED BY <1>2, <3>1
  <2> QED BY <2>2, <2>3
<1>4. S \in SUBSET L /\ S # {}
  BY <1>1, <1>2
<1>5. S = L
  BY <1>3, <1>4 DEF OneCycle
<1> QED BY <1>5 DEF S

LEMMA ReadsLength ==
  ASSUME NEW L, NEW c, NEW nx, OneCycle(L, nx), NEW q, Reads(q, L, c, nx)
  PROVE  Cardinality(L) = Len(q)
<1>1. Len(q) \in Nat /\ q \in [1 .. Len(q) -> L]
  BY DEF Reads
<1>2. q \in Bijection(1 .. Len(q), L)
  <2>1. \A i, j \in 1 .. Len(q) : q[i] = q[j] => i = j
    BY DEF Reads
  <2>2. \A t \in L : \E i \in 1 .. Len(q) : q[i] = t
    BY ReadsAll
  <2> QED BY <1>1, <2>1, <2>2 DEF Bijection, Injection, Surjection, IsInjective
<1> QED BY <1>1, <1>2, FS_CountingElements DEF ExistsBijection

(* What SchedulerRefinement's recursive function computes. *)
QueueOf(L, c, nx) ==
  LET walk[i \in 1 .. Cardinality(L)] == IF i = 1 THEN c ELSE nx[walk[i - 1]]
  IN  walk

LEMMA QueueIsOne ==
  ASSUME NEW L, NEW c, NEW nx, OneCycle(L, nx), NEW q, Reads(q, L, c, nx)
  PROVE  QueueOf(L, c, nx) = q
<1> DEFINE w == QueueOf(L, c, nx)
           n == Cardinality(L)
<1>1. n = Len(q) /\ Len(q) \in Nat /\ Len(q) >= 1 /\ q \in [1 .. Len(q) -> L] /\ q[1] = c
  <2>1. n = Len(q)
    BY ReadsLength
  <2>2. q \in Seq(L) /\ q # <<>> /\ q[1] = c
    BY DEF Reads
  <2>3. Len(q) \in Nat /\ Len(q) >= 1 /\ q \in [1 .. Len(q) -> L]
    BY <2>2
  <2> QED BY <2>1, <2>2, <2>3
<1>2. \E v : v = [i \in 1 .. n |-> IF i = 1 THEN c ELSE nx[v[i - 1]]]
  <2>1. q = [i \in 1 .. n |-> IF i = 1 THEN c ELSE nx[q[i - 1]]]
    <3>1. ASSUME NEW i \in 1 .. n
          PROVE  q[i] = IF i = 1 THEN c ELSE nx[q[i - 1]]
      <4>1. CASE i = 1
        BY <1>1, <4>1
      <4>2. CASE i # 1
        <5>1. i - 1 \in 1 .. Len(q) /\ i - 1 # Len(q) /\ (i - 1) + 1 = i
          BY <1>1, <4>2
        <5>2. nx[q[i - 1]] = q[(i - 1) + 1]
          BY <5>1 DEF Reads
        <5> QED BY <4>2, <5>1, <5>2
      <4> QED BY <4>1, <4>2
    <3> HIDE DEF n
    <3> QED BY <1>1, <3>1
  <2> QED BY <2>1
<1>3. w = [i \in 1 .. n |-> IF i = 1 THEN c ELSE nx[w[i - 1]]]
  BY <1>2 DEF QueueOf
<1> HIDE DEF w, n
<1> DEFINE S == {t \in L : \E i \in 1 .. Len(q) : q[i] = t /\ w[i] = t}
<1>4. ASSUME NEW t \in S PROVE nx[t] \in S
  <2>1. PICK i \in 1 .. Len(q) : q[i] = t /\ w[i] = t
    BY DEF S
  <2>2. CASE i = Len(q)
    <3>1. nx[q[i]] = c
      BY <2>2 DEF Reads
    <3>2. 1 \in 1 .. Len(q) /\ w[1] = c /\ c \in L
      BY <1>1, <1>3
    <3> QED BY <1>1, <2>1, <3>1, <3>2
  <2>3. CASE i # Len(q)
    <3>0. nx[q[i]] = q[i + 1]
      BY <2>3 DEF Reads
    <3>1. nx[t] = q[i + 1] /\ i + 1 \in 1 .. Len(q) /\ i + 1 # 1 /\ (i + 1) - 1 = i
      BY <1>1, <2>1, <2>3, <3>0
    <3>2. w[i + 1] = nx[w[(i + 1) - 1]]
      BY <1>1, <1>3, <3>1
    <3>3. w[i + 1] = nx[t] /\ q[i + 1] \in L
      BY <1>1, <2>1, <3>1, <3>2
    <3> QED BY <3>1, <3>3
  <2> QED BY <2>2, <2>3
<1>5. c \in S
  <2>1. 1 \in 1 .. Len(q) /\ w[1] = c /\ c \in L
    BY <1>1, <1>3
  <2> QED BY <1>1, <2>1
<1>6. S = L
  <2>1. S \in SUBSET L /\ S # {}
    BY <1>5
  <2> HIDE DEF S
  <2> QED BY <1>4, <2>1 DEF OneCycle
<1>7. ASSUME NEW i \in 1 .. Len(q) PROVE w[i] = q[i]
  <2>1. q[i] \in S
    BY <1>1, <1>6
  <2>2. PICK j \in 1 .. Len(q) : q[j] = q[i] /\ w[j] = q[i]
    BY <2>1 DEF S
  <2>3. j = i
    BY <2>2 DEF Reads
  <2> QED BY <2>2, <2>3
<1>8. w = q
  BY <1>1, <1>3, <1>7
<1> QED BY <1>8 DEF w

LEMMA QueueDef == Queue = QueueOf(Linked, current, next)
  BY DEF Queue, QueueOf

-----------------------------------------------------------------------------
(* The three operations on the queue, by their elements *)

LEMMA JoinFacts ==
  ASSUME NEW M, NEW h \in Seq(M), NEW u \in Seq(M)
  PROVE  /\ h \o u \in Seq(M) /\ Len(h \o u) = Len(h) + Len(u)
         /\ \A i \in 1 .. Len(h) + Len(u) :
              (h \o u)[i] = IF i <= Len(h) THEN h[i] ELSE u[i - Len(h)]
  OBVIOUS

LEMMA FunctionIsList ==
  ASSUME NEW M, NEW n \in Nat, NEW f \in [1 .. n -> M]
  PROVE  f \in Seq(M)
  OBVIOUS

LEMMA InsertFacts ==
  ASSUME NEW M, NEW q \in Seq(M), q # <<>>, NEW m \in M
  PROVE  LET r == <<Head(q), m>> \o Tail(q)
         IN  /\ r \in Seq(M) /\ Len(r) = Len(q) + 1
             /\ r[1] = q[1] /\ r[2] = m
             /\ \A i \in 3 .. Len(q) + 1 : r[i] = q[i - 1]
<1> DEFINE h == <<Head(q), m>>
           u == Tail(q)
<1>1. /\ u \in Seq(M) /\ Len(u) = Len(q) - 1 /\ Len(q) \in Nat /\ Len(q) >= 1
      /\ \A i \in 1 .. Len(q) - 1 : u[i] = q[i + 1]
  BY TailFacts
<1>2. h \in Seq(M) /\ Len(h) = 2 /\ h[1] = q[1] /\ h[2] = m
  BY TailFacts
<1> HIDE DEF h, u
<1>3. /\ h \o u \in Seq(M) /\ Len(h \o u) = Len(q) + 1
      /\ \A i \in 1 .. Len(q) + 1 : (h \o u)[i] = IF i <= 2 THEN h[i] ELSE u[i - 2]
  <2>1. /\ h \o u \in Seq(M) /\ Len(h \o u) = Len(h) + Len(u)
        /\ \A i \in 1 .. Len(h) + Len(u) :
             (h \o u)[i] = IF i <= Len(h) THEN h[i] ELSE u[i - Len(h)]
    BY <1>1, <1>2, JoinFacts
  <2>2. Len(h) = 2 /\ Len(h) + Len(u) = Len(q) + 1
    BY <1>1, <1>2
  <2> QED BY <2>1, <2>2
<1>4. ASSUME NEW i \in 3 .. Len(q) + 1 PROVE (h \o u)[i] = q[i - 1]
  <2>1. i - 2 \in 1 .. Len(q) - 1 /\ (i - 2) + 1 = i - 1 /\ i \in 1 .. Len(q) + 1 /\ ~(i <= 2)
    BY <1>1
  <2> QED BY <1>1, <1>3, <2>1
<1>5. (h \o u)[1] = q[1] /\ (h \o u)[2] = m
  BY <1>1, <1>2, <1>3
<1> QED BY <1>3, <1>4, <1>5 DEF h, u

LEMMA ConcatFacts ==
  ASSUME NEW M, NEW h \in Seq(M), NEW u \in Seq(M)
  PROVE  /\ h \o u \in Seq(M) /\ Len(h \o u) = Len(h) + Len(u)
         /\ \A i \in 1 .. Len(h) + Len(u) :
              (h \o u)[i] = IF i <= Len(h) THEN h[i] ELSE u[i - Len(h)]
  OBVIOUS

LEMMA RemoveFacts ==
  ASSUME NEW M, NEW q \in Seq(M), NEW k \in 1 .. Len(q)
  PROVE  LET r == SubSeq(q, 1, k - 1) \o SubSeq(q, k + 1, Len(q))
         IN  /\ r \in Seq(M) /\ Len(r) = Len(q) - 1
             /\ \A i \in 1 .. Len(q) - 1 : r[i] = IF i < k THEN q[i] ELSE q[i + 1]
<1> DEFINE h == SubSeq(q, 1, k - 1)
           u == SubSeq(q, k + 1, Len(q))
<1>1. /\ h \in Seq(M) /\ Len(h) = k - 1 /\ Len(q) \in Nat
      /\ \A i \in 1 .. k - 1 : h[i] = q[i]
  OBVIOUS
<1>2. /\ u \in Seq(M) /\ Len(u) = Len(q) - k
      /\ \A i \in 1 .. Len(q) - k : u[i] = q[k + i]
  OBVIOUS
<1> HIDE DEF h, u
<1>3. /\ h \o u \in Seq(M) /\ Len(h \o u) = Len(q) - 1
      /\ \A i \in 1 .. Len(q) - 1 : (h \o u)[i] = IF i <= k - 1 THEN h[i] ELSE u[i - (k - 1)]
  <2>1. /\ h \o u \in Seq(M) /\ Len(h \o u) = Len(h) + Len(u)
        /\ \A i \in 1 .. Len(h) + Len(u) :
             (h \o u)[i] = IF i <= Len(h) THEN h[i] ELSE u[i - Len(h)]
    BY <1>1, <1>2, ConcatFacts
  <2>2. Len(h) = k - 1 /\ Len(h) + Len(u) = Len(q) - 1
    BY <1>1, <1>2
  <2> QED BY <2>1, <2>2
<1>4. ASSUME NEW i \in 1 .. Len(q) - 1
      PROVE  (h \o u)[i] = IF i < k THEN q[i] ELSE q[i + 1]
  <2>1. CASE i < k
    BY <1>1, <1>3, <2>1
  <2>2. CASE ~(i < k)
    <3>1. i - (k - 1) \in 1 .. Len(q) - k /\ k + (i - (k - 1)) = i + 1 /\ ~(i <= k - 1)
      BY <1>1, <2>2
    <3> QED BY <1>2, <1>3, <2>2, <3>1
  <2> QED BY <2>1, <2>2
<1> QED BY <1>3, <1>4 DEF h, u

LEMMA RotateFacts ==
  ASSUME NEW M, NEW q \in Seq(M), NEW k \in 1 .. Len(q)
  PROVE  LET r == SubSeq(q, k, Len(q)) \o SubSeq(q, 1, k - 1)
         IN  /\ r \in Seq(M) /\ Len(r) = Len(q)
             /\ \A i \in 1 .. Len(q) :
                  r[i] = IF i <= Len(q) - k + 1 THEN q[i + k - 1] ELSE q[i + k - 1 - Len(q)]
<1> DEFINE h == SubSeq(q, k, Len(q))
           u == SubSeq(q, 1, k - 1)
<1>1. /\ h \in Seq(M) /\ Len(h) = Len(q) - k + 1 /\ Len(q) \in Nat
      /\ \A i \in 1 .. Len(q) - k + 1 : h[i] = q[i + k - 1]
  OBVIOUS
<1>2. /\ u \in Seq(M) /\ Len(u) = k - 1
      /\ \A i \in 1 .. k - 1 : u[i] = q[i]
  OBVIOUS
<1> HIDE DEF h, u
<1>3. /\ h \o u \in Seq(M) /\ Len(h \o u) = Len(q)
      /\ \A i \in 1 .. Len(q) :
           (h \o u)[i] = IF i <= Len(h) THEN h[i] ELSE u[i - Len(h)]
  BY <1>1, <1>2
<1>4. ASSUME NEW i \in 1 .. Len(q)
      PROVE  (h \o u)[i] = IF i <= Len(q) - k + 1 THEN q[i + k - 1] ELSE q[i + k - 1 - Len(q)]
  <2>1. CASE i <= Len(q) - k + 1
    BY <1>1, <1>3, <2>1
  <2>2. CASE ~(i <= Len(q) - k + 1)
    <3>1. i - Len(h) \in 1 .. k - 1 /\ i - Len(h) = i + k - 1 - Len(q)
      BY <1>1, <2>2
    <3> QED BY <1>1, <1>2, <1>3, <2>2, <3>1
  <2> QED BY <2>1, <2>2
<1> QED BY <1>3, <1>4 DEF h, u

(* scheduler_add: m right behind the head. *)
LEMMA ListInsert ==
  ASSUME NEW M, NEW L \in SUBSET M, NEW c, NEW nx, NEW ny, NEW q, Reads(q, L, c, nx),
         NEW m \in M \ L, ny[c] = m, ny[m] = nx[c], \A t \in L \ {c} : ny[t] = nx[t]
  PROVE  Reads(<<Head(q), m>> \o Tail(q), L \cup {m}, c, ny)
<1> DEFINE r == <<Head(q), m>> \o Tail(q)
           n == Len(q)
<1>1. /\ q \in Seq(L) /\ q # <<>> /\ q[1] = c /\ n \in Nat /\ n >= 1
      /\ \A i, j \in 1 .. n : q[i] = q[j] => i = j
      /\ \A i \in 1 .. n : q[i] \in L
  BY DEF Reads
<1>2. \A i \in 1 .. n : nx[q[i]] = IF i = n THEN c ELSE q[i + 1]
  BY DEF Reads
<1>3. q \in Seq(L \cup {m})
  BY <1>1
<1>4. /\ r \in Seq(L \cup {m}) /\ Len(r) = n + 1 /\ r[1] = c /\ r[2] = m
      /\ \A i \in 3 .. n + 1 : r[i] = q[i - 1]
  BY <1>1, <1>3, InsertFacts
<1> HIDE DEF r, n
<1>5. r # <<>>
  BY <1>1, <1>4
<1>6. ASSUME NEW i \in 1 .. Len(r), NEW j \in 1 .. Len(r), r[i] = r[j]
      PROVE  i = j
  <2>1. \A k \in 3 .. n + 1 : k - 1 \in 1 .. n /\ k - 1 # 1 /\ r[k] = q[k - 1]
    BY <1>1, <1>4
  <2>2. \A k \in 3 .. n + 1 : r[k] # c /\ r[k] # m
    BY <1>1, <2>1
  <2>3. c # m
    BY <1>1
  <2>4. CASE i \in 3 .. n + 1 /\ j \in 3 .. n + 1
    BY <1>1, <1>6, <2>1, <2>4
  <2>5. CASE i \in {1, 2} \/ j \in {1, 2}
    <3>1. i \in {1, 2} \cup (3 .. n + 1) /\ j \in {1, 2} \cup (3 .. n + 1)
      BY <1>1, <1>4
    <3> QED BY <1>4, <1>6, <2>2, <2>3, <2>5, <3>1
  <2> QED BY <1>1, <1>4, <2>4, <2>5
<1>7. ASSUME NEW i \in 1 .. Len(r)
      PROVE  ny[r[i]] = IF i = Len(r) THEN c ELSE r[i + 1]
  <2>1. CASE i = 1
    BY <1>1, <1>4, <2>1
  <2>2. CASE i = 2
    <3>1. ny[r[i]] = nx[q[1]]
      BY <1>1, <1>4, <2>2
    <3>2. CASE n = 1
      <4>1. nx[q[1]] = c /\ Len(r) = 2
        BY <1>2, <1>4, <3>2
      <4> QED BY <2>2, <3>1, <4>1
    <3>3. CASE n # 1
      <4>1. nx[q[1]] = q[2] /\ 3 \in 3 .. n + 1
        BY <1>1, <1>2, <3>3
      <4>2. r[3] = q[2]
        BY <1>4, <4>1
      <4> QED BY <1>4, <2>2, <3>1, <3>3, <4>1, <4>2
    <3> QED BY <3>2, <3>3
  <2>3. CASE i \in 3 .. n + 1
    <3>1. i - 1 \in 1 .. n /\ i - 1 # 1 /\ r[i] = q[i - 1] /\ (i - 1) + 1 = i
      BY <1>1, <1>4, <2>3
    <3>2. q[i - 1] \in L \ {c}
      BY <1>1, <3>1
    <3>3. ny[r[i]] = IF i - 1 = n THEN c ELSE q[i]
      BY <1>2, <3>1, <3>2
    <3>4. CASE i = n + 1
      <4>1. i - 1 = n /\ i = Len(r)
        BY <1>1, <1>4, <3>4
      <4> QED BY <3>3, <4>1
    <3>5. CASE i # n + 1
      <4>1. i + 1 \in 3 .. n + 1 /\ (i + 1) - 1 = i
        BY <1>1, <2>3, <3>5
      <4>2. r[i + 1] = q[i]
        BY <1>4, <4>1
      <4> QED BY <1>1, <1>4, <3>1, <3>3, <3>5, <4>2
    <3> QED BY <3>4, <3>5
  <2> QED BY <1>1, <1>4, <2>1, <2>2, <2>3
<1>8. Reads(r, L \cup {m}, c, ny)
  BY <1>4, <1>5, <1>6, <1>7 DEF Reads
<1> QED BY <1>8 DEF r

(* A turn of the scan on a thread that has ended: the k-th of the list goes. *)
LEMMA ListRemove ==
  ASSUME NEW L, NEW c, NEW nx, NEW ny, NEW q, Reads(q, L, c, nx),
         NEW k \in 2 .. Len(q), ny[q[k - 1]] = nx[q[k]],
         \A t \in L \ {q[k - 1], q[k]} : ny[t] = nx[t]
  PROVE  Reads(SubSeq(q, 1, k - 1) \o SubSeq(q, k + 1, Len(q)), L \ {q[k]}, c, ny)
<1> DEFINE r == SubSeq(q, 1, k - 1) \o SubSeq(q, k + 1, Len(q))
           n == Len(q)
<1>1. /\ q \in Seq(L) /\ q # <<>> /\ q[1] = c /\ n \in Nat /\ n >= 2
      /\ \A i, j \in 1 .. n : q[i] = q[j] => i = j
      /\ \A i \in 1 .. n : q[i] \in L
  BY DEF Reads
<1>2. \A i \in 1 .. n : nx[q[i]] = IF i = n THEN c ELSE q[i + 1]
  BY DEF Reads
<1>3. /\ r \in Seq(L) /\ Len(r) = n - 1
      /\ \A i \in 1 .. n - 1 : r[i] = IF i < k THEN q[i] ELSE q[i + 1]
  <2>1. k \in 1 .. n
    BY <1>1
  <2> QED BY <1>1, <2>1, RemoveFacts
<1> HIDE DEF r, n
<1>4. k \in 2 .. n
  BY DEF n
<1> DEFINE at(i) == IF i < k THEN i ELSE i + 1
<1>5. \A i \in 1 .. n - 1 : /\ at(i) \in (1 .. n) \ {k} /\ r[i] = q[at(i)]
                            /\ r[i] # q[k]
  <2>1. \A i \in 1 .. n - 1 : at(i) \in (1 .. n) \ {k} /\ r[i] = q[at(i)]
    BY <1>1, <1>3, <1>4
  <2> HIDE DEF at
  <2> QED BY <1>1, <1>4, <2>1
<1>6. r \in Seq(L \ {q[k]})
  <2>1. r \in [1 .. n - 1 -> L \ {q[k]}]
    BY <1>1, <1>3, <1>5
  <2>2. n - 1 \in Nat
    BY <1>1
  <2> QED BY <2>1, <2>2, FunctionIsList
<1>7. r # <<>> /\ r[1] = c
  BY <1>1, <1>3, <1>4
<1>8. ASSUME NEW i \in 1 .. Len(r), NEW j \in 1 .. Len(r), r[i] = r[j]
      PROVE  i = j
  <2>1. at(i) = at(j)
    <3>1. /\ at(i) \in 1 .. n /\ at(j) \in 1 .. n
          /\ r[i] = q[at(i)] /\ r[j] = q[at(j)]
      BY <1>3, <1>5
    <3> HIDE DEF at
    <3> QED BY <1>1, <1>8, <3>1
  <2> QED BY <1>3, <1>4, <2>1
<1>9. ASSUME NEW i \in 1 .. Len(r)
      PROVE  ny[r[i]] = IF i = Len(r) THEN c ELSE r[i + 1]
  <2>1. CASE i = k - 1
    <3>1. r[i] = q[k - 1] /\ ny[r[i]] = nx[q[k]]
      BY <1>3, <2>1, <1>4
    <3>2. CASE k = n
      BY <1>1, <1>2, <1>3, <1>4, <2>1, <3>1, <3>2
    <3>3. CASE k # n
      <4>1. nx[q[k]] = q[k + 1] /\ k \in 1 .. n - 1
        BY <1>1, <1>2, <1>4, <3>3
      <4>2. r[k] = q[k + 1]
        BY <1>3, <1>4, <4>1
      <4> QED BY <1>1, <1>3, <1>4, <2>1, <3>1, <3>3, <4>1, <4>2
    <3> QED BY <3>2, <3>3
  <2>2. CASE i # k - 1
    <3>1. at(i) \in 1 .. n /\ at(i) # k - 1 /\ at(i) # k /\ r[i] = q[at(i)]
      BY <1>1, <1>3, <1>4, <1>5, <2>2
    <3>2. ny[r[i]] = nx[q[at(i)]]
      <4>1. k - 1 \in 1 .. n /\ k \in 1 .. n
        BY <1>1, <1>4
      <4>2. q[at(i)] \in L \ {q[k - 1], q[k]}
        BY <1>1, <3>1, <4>1
      <4> QED BY <3>1, <4>2
    <3>3. nx[q[at(i)]] = IF at(i) = n THEN c ELSE q[at(i) + 1]
      BY <1>2, <3>1
    <3>4. CASE i = Len(r)
      <4>1. at(i) = n
        BY <1>1, <1>3, <1>4, <2>2, <3>4
      <4> QED BY <3>2, <3>3, <3>4, <4>1
    <3>5. CASE i # Len(r)
      <4>1. i + 1 \in 1 .. n - 1 /\ at(i) # n /\ at(i + 1) = at(i) + 1
        BY <1>1, <1>3, <1>4, <2>2, <3>5
      <4>2. r[i + 1] = q[at(i) + 1]
        BY <1>5, <4>1
      <4> QED BY <3>2, <3>3, <3>5, <4>1, <4>2
    <3> QED BY <3>4, <3>5
  <2> QED BY <2>1, <2>2
<1>10. Reads(r, L \ {q[k]}, c, ny)
  BY <1>6, <1>7, <1>8, <1>9 DEF Reads
<1> QED BY <1>10 DEF r, n

(* The k-th of the list becomes current. *)
LEMMA ListRotate ==
  ASSUME NEW L, NEW c, NEW nx, NEW q, Reads(q, L, c, nx), NEW k \in 1 .. Len(q)
  PROVE  Reads(SubSeq(q, k, Len(q)) \o SubSeq(q, 1, k - 1), L, q[k], nx)
<1> DEFINE r == SubSeq(q, k, Len(q)) \o SubSeq(q, 1, k - 1)
           n == Len(q)
<1>1. /\ q \in Seq(L) /\ q # <<>> /\ q[1] = c /\ n \in Nat /\ n >= 1
      /\ \A i, j \in 1 .. n : q[i] = q[j] => i = j
  BY DEF Reads
<1>2. \A i \in 1 .. n : nx[q[i]] = IF i = n THEN c ELSE q[i + 1]
  BY DEF Reads
<1>3. /\ r \in Seq(L) /\ Len(r) = n
      /\ \A i \in 1 .. n : r[i] = IF i <= n - k + 1 THEN q[i + k - 1] ELSE q[i + k - 1 - n]
  BY <1>1, RotateFacts
<1> HIDE DEF r, n
<1>4. k \in 1 .. n
  BY DEF n
<1> DEFINE at(i) == IF i <= n - k + 1 THEN i + k - 1 ELSE i + k - 1 - n
<1>5. \A i \in 1 .. n : at(i) \in 1 .. n /\ r[i] = q[at(i)]
  BY <1>1, <1>3, <1>4
<1>6. r # <<>> /\ r[1] = q[k]
  BY <1>1, <1>3, <1>4
<1>7. ASSUME NEW i \in 1 .. Len(r), NEW j \in 1 .. Len(r), r[i] = r[j]
      PROVE  i = j
  <2>1. at(i) = at(j)
    <3>1. /\ at(i) \in 1 .. n /\ at(j) \in 1 .. n
          /\ r[i] = q[at(i)] /\ r[j] = q[at(j)]
      BY <1>3, <1>5
    <3> HIDE DEF at
    <3> QED BY <1>1, <1>7, <3>1
  <2> QED BY <1>1, <1>3, <1>4, <2>1
<1>8. ASSUME NEW i \in 1 .. Len(r)
      PROVE  nx[r[i]] = IF i = Len(r) THEN q[k] ELSE r[i + 1]
  <2>1. nx[r[i]] = IF at(i) = n THEN c ELSE q[at(i) + 1]
    <3>1. at(i) \in 1 .. n /\ r[i] = q[at(i)]
      BY <1>3, <1>5
    <3> QED BY <1>2, <3>1
  <2>2. CASE i = n
    <3>1. at(i) = IF k = 1 THEN n ELSE k - 1
      BY <1>1, <1>4, <2>2
    <3> HIDE DEF at
    <3> QED BY <1>1, <1>3, <1>4, <2>1, <2>2, <3>1
  <2>3. CASE i # n
    <3>1. i + 1 \in 1 .. n
      BY <1>1, <1>3, <2>3
    <3>2. r[i + 1] = q[at(i + 1)]
      BY <1>5, <3>1
    <3>3. at(i + 1) = IF at(i) = n THEN 1 ELSE at(i) + 1
      BY <1>1, <1>3, <1>4, <3>1
    <3> HIDE DEF at
    <3> QED BY <1>1, <1>3, <2>1, <2>3, <3>2, <3>3
  <2> QED BY <2>2, <2>3
<1>9. Reads(r, L, q[k], nx)
  BY <1>3, <1>6, <1>7, <1>8 DEF Reads
<1> QED BY <1>9 DEF r, n

-----------------------------------------------------------------------------
(* The queue of a state *)

QInv == current # Null => Reads(Queue, Linked, current, next)

LEMMA QueueFacts ==
  ASSUME IInv, QInv, current # Null
  PROVE  /\ Queue \in Seq(Linked) /\ Queue # <<>> /\ Len(Queue) \in Nat /\ Len(Queue) >= 1
         /\ Queue[1] = current /\ Head(Queue) = current
         /\ \A t \in Linked : \E i \in 1 .. Len(Queue) : Queue[i] = t
         /\ RR!Queued = Linked
<1>1. Reads(Queue, Linked, current, next) /\ OneCycle(Linked, next)
  BY DEF QInv, IInv, RingInv, OneCycle
<1>2. Queue \in Seq(Linked) /\ Queue # <<>> /\ Queue[1] = current
  BY <1>1 DEF Reads
<1>3. Len(Queue) \in Nat /\ Len(Queue) >= 1 /\ Head(Queue) = Queue[1]
  BY <1>2, TailFacts
<1>4. \A t \in Linked : \E i \in 1 .. Len(Queue) : Queue[i] = t
  BY <1>1, ReadsAll
<1>5. \A i \in 1 .. Len(Queue) : Queue[i] \in Linked
  BY <1>2
<1>6. RR!Queued = Linked
  BY <1>4, <1>5 DEF RR!Queued
<1> QED BY <1>2, <1>3, <1>4, <1>6

LEMMA QueueStep ==
  ASSUME IInv', current' # Null, NEW q, Reads(q, Linked', current', next')
  PROVE  Queue' = q /\ QInv'
<1>1. OneCycle(Linked', next')
  BY DEF IInv, RingInv, OneCycle
<1>2. QueueOf(Linked', current', next') = q
  BY <1>1, QueueIsOne
<1>3. Queue' = QueueOf(Linked', current', next')
  BY DEF Queue, QueueOf
<1> QED BY <1>2, <1>3 DEF QInv

LEMMA QueueSame ==
  ASSUME QInv, UNCHANGED <<current, next>>
  PROVE  Queue' = Queue /\ QInv'
<1>1. Linked' = Linked
  BY DEF Linked
<1>2. Queue' = Queue
  BY <1>1 DEF Queue
<1> QED BY <1>1, <1>2 DEF QInv

LEMMA QueueEmpty ==
  ASSUME Linked = {}
  PROVE  Queue = <<>>
<1>1. 1 .. Cardinality(Linked) = {}
  <2>1. Cardinality(Linked) = 0
    BY FS_EmptySet
  <2> QED BY <2>1
<1> DEFINE walked == CHOOSE w : w = [i \in 1 .. Cardinality(Linked) |->
                                     IF i = 1 THEN current ELSE next[w[i - 1]]]
<1>2. Queue = walked
  BY DEF Queue
<1>3. <<>> = [i \in 1 .. Cardinality(Linked) |->
                IF i = 1 THEN current ELSE next[<<>>[i - 1]]]
  BY <1>1
<1>4. walked = [i \in 1 .. Cardinality(Linked) |->
                  IF i = 1 THEN current ELSE next[walked[i - 1]]]
  BY <1>3
<1> HIDE DEF walked
<1>5. walked = <<>>
  BY <1>1, <1>4
<1> QED BY <1>2, <1>5

-----------------------------------------------------------------------------
(* The names of the states *)

Pairs == {<<"FREE", "absent">>, <<"READY", "ready">>, <<"RUNNING", "ready">>,
          <<"BLOCKED", "blocked">>, <<"TERMINATED", "done">>}

LEMMA PairsFacts ==
  /\ <<"FREE", "absent">> \in Pairs /\ <<"READY", "ready">> \in Pairs
  /\ <<"RUNNING", "ready">> \in Pairs /\ <<"BLOCKED", "blocked">> \in Pairs
  /\ <<"TERMINATED", "done">> \in Pairs
  BY DEF Pairs

LEMMA StatusFacts ==
  ASSUME TypeOK, NEW t \in Threads
  PROVE  <<state[t], Status[t]>> \in Pairs
<1>1. state[t] \in States
  BY DEF TypeOK
<1>2. Status[t] = CASE state[t] = "FREE"       -> "absent"
                    [] state[t] = "BLOCKED"    -> "blocked"
                    [] state[t] = "TERMINATED" -> "done"
                    [] OTHER                   -> "ready"
  BY DEF Status
<1> QED BY <1>1, <1>2 DEF States, Pairs

LEMMA StatusSet ==
  ASSUME TypeOK, NEW x \in Threads, NEW s, NEW m, <<s, m>> \in Pairs,
         state' = [state EXCEPT ![x] = s]
  PROVE  Status' = [Status EXCEPT ![x] = m]
<1>1. state'[x] = s /\ \A t \in Threads \ {x} : state'[t] = state[t]
  BY DEF TypeOK
<1>2. Status'[x] = m
  <2>1. Status'[x] = CASE state'[x] = "FREE"       -> "absent"
                       [] state'[x] = "BLOCKED"    -> "blocked"
                       [] state'[x] = "TERMINATED" -> "done"
                       [] OTHER                    -> "ready"
    BY DEF Status, Threads
  <2> QED BY <1>1, <2>1 DEF Pairs
<1>3. \A t \in Threads \ {x} : Status'[t] = Status[t]
  BY <1>1 DEF Status, Threads
<1>4. Status = [t \in Threads |-> Status[t]] /\ Status' = [t \in Threads |-> Status'[t]]
  BY DEF Status, Threads
<1> QED BY <1>2, <1>3, <1>4

-----------------------------------------------------------------------------
(* The steps of the code as steps of the queue *)

Refines == [RR!Next]_RR!vars /\ QInv'

LEMMA RefQuiet ==
  ASSUME QInv, UNCHANGED <<current, next, left>>, Status' = Status
  PROVE  Refines
<1>1. Queue' = Queue /\ QInv'
  BY QueueSame
<1> QED BY <1>1 DEF Refines, RR!vars

LEMMA RefStart ==
  ASSUME IInv, IInv', SInv, InitCurrent
  PROVE  Refines
<1>1. /\ Running("scheduler_initialize") /\ current' = Boot /\ left' = left
      /\ next' = [next EXCEPT ![Boot] = Boot] /\ state' = [state EXCEPT ![Boot] = "RUNNING"]
  BY DEF InitCurrent
<1>2. "scheduler_initialize" \in BootFrames /\ Head(stack[cpu]) = "scheduler_initialize"
  BY <1>1 DEF BootFrames, Running
<1>3. /\ current = Null /\ cpu = Boot /\ Boot \in Threads /\ Boot # Null /\ Linked = {}
      /\ state[Boot] # "FREE"
  BY <1>1, <1>2, InBoot DEF IInv, RingInv
<1>4. Status[Boot] = "ready"
  <2>1. state[Boot] # "BLOCKED"
    <3>1. ~Waits(stack[Boot])
      BY <1>3, AloneAwake DEF Waits
    <3> QED BY <1>3, <3>1 DEF SInv, SleepInv
  <2>2. state[Boot] # "TERMINATED"
    BY DEF SInv, KeeperInv
  <2>3. <<state[Boot], Status[Boot]>> \in Pairs
    BY <1>3, StatusFacts DEF IInv
  <2> QED BY <1>3, <2>1, <2>2, <2>3 DEF Pairs
<1>5. Status' = Status
  <2>1. Status' = [Status EXCEPT ![Boot] = "ready"]
    BY <1>1, <1>3, StatusSet, PairsFacts DEF IInv
  <2>2. Status = [t \in Threads |-> Status[t]]
    BY DEF Status
  <2> QED BY <1>4, <2>1, <2>2
<1>6. Linked' = {Boot} /\ next'[Boot] = Boot
  <2>1. next \in [Threads -> Threads \cup {Null}]
    BY DEF IInv, TypeOK
  <2> QED BY <1>1, <1>3, <2>1 DEF Linked, Threads
<1>7. Reads(<<Boot>>, {Boot}, Boot, next')
  BY <1>6 DEF Reads
<1>8. Queue = <<>> /\ Queue' = <<Boot>> /\ QInv'
  BY <1>1, <1>3, <1>6, <1>7, QueueEmpty, QueueStep
<1>9. RR!Start
  BY <1>1, <1>5, <1>8 DEF RR!Start
<1> QED BY <1>8, <1>9 DEF Refines, RR!Next

LEMMA RefCreate ==
  ASSUME IInv, QInv, CreateIdle \/ TestCreate
  PROVE  Refines
<1>1. /\ current # Null /\ made = Null /\ UNCHANGED <<current, cpu, left>>
      /\ \E w \in Threads : \E s : ThreadCreate(w, s)
  <2>1. CASE CreateIdle
    <3>1. Running("create_idle") /\ "create_idle" \in BootFrames /\ Idle \in Threads
      BY <2>1 DEF CreateIdle, BootFrames, Threads
    <3> QED BY <2>1, <3>1, InBoot DEF CreateIdle
  <2>2. CASE TestCreate
    BY <2>2, InCommand DEF TestCreate, Threads
  <2> QED BY <2>1, <2>2
<1>2. PICK w \in Threads : \E s : ThreadCreate(w, s)
  BY <1>1
<1>3. state[w] = "FREE" /\ state' = [state EXCEPT ![w] = "READY"]
      /\ next' = [next EXCEPT ![w] = Null]
  BY <1>2 DEF ThreadCreate
<1>4. w \notin Linked
  BY <1>1, <1>2, CreateKeepsRing
<1>5. next' = next
  BY <1>3, <1>4 DEF IInv, TypeOK, Linked
<1>6. Queue' = Queue /\ QInv'
  BY <1>1, <1>5, QueueSame
<1>7. Status[w] = "absent" /\ Status' = [Status EXCEPT ![w] = "ready"]
  <2>1. <<state[w], Status[w]>> \in Pairs
    BY StatusFacts DEF IInv
  <2>2. Status' = [Status EXCEPT ![w] = "ready"]
    BY <1>3, StatusSet, PairsFacts DEF IInv
  <2> QED BY <1>3, <2>1, <2>2 DEF Pairs
<1>8. RR!Create(w)
  BY <1>1, <1>6, <1>7 DEF RR!Create
<1> QED BY <1>6, <1>8 DEF Refines, RR!Next

LEMMA RefAdd ==
  ASSUME IInv, IInv', MadeInv, QInv, AddIdle \/ TestAdd
  PROVE  Refines
<1>1. made # Null /\ SchedulerAdd(made) /\ UNCHANGED <<current, state, left>>
  <2>1. CASE AddIdle
    <3>1. "add_idle" \in BootFrames /\ Running("add_idle")
      BY <2>1 DEF AddIdle, BootFrames
    <3> QED BY <2>1, <3>1, InBoot DEF AddIdle
  <2>2. CASE TestAdd
    BY <2>2 DEF TestAdd
  <2> QED BY <2>1, <2>2
<1>2. /\ made \in Threads \ Linked /\ made # current /\ current # Null
      /\ next \in [Threads -> Threads \cup {Null}] /\ current \in Linked
      /\ Linked \subseteq Threads /\ RingInv
  BY <1>1, MadeApart DEF IInv, TypeOK, RingInv, Linked
<1>3. next' = [next EXCEPT ![made] = next[current], ![current] = made]
  BY <1>1 DEF SchedulerAdd
<1>4. Linked' = Linked \cup {made}
  BY <1>1, <1>2, <1>3, Link
<1>5. /\ next'[made] = next[current] /\ next'[current] = made
      /\ \A t \in Linked \ {current} : next'[t] = next[t]
  BY <1>2, <1>3
<1>6. PICK r : r = <<Head(Queue), made>> \o Tail(Queue)
  OBVIOUS
<1>7. Reads(r, Linked \cup {made}, current, next')
  <2>1. Reads(Queue, Linked, current, next)
    BY <1>2 DEF QInv
  <2> QED BY <1>2, <1>5, <1>6, <2>1, ListInsert
<1>8. Queue' = r /\ QInv'
  BY <1>1, <1>2, <1>4, <1>7, QueueStep
<1>9. Status[made] = "ready" /\ Status' = Status
  <2>1. <<state[made], Status[made]>> \in Pairs /\ state[made] = "READY"
    BY <1>1, <1>2, StatusFacts DEF IInv, MadeInv
  <2>2. Status' = Status
    BY <1>1 DEF Status, Threads
  <2> QED BY <2>1, <2>2 DEF Pairs
<1>10. RR!Queued = Linked /\ Queue # <<>>
  BY <1>2, QueueFacts
<1>11. RR!Add(made)
  BY <1>1, <1>2, <1>6, <1>8, <1>9, <1>10 DEF RR!Add
<1> QED BY <1>2, <1>8, <1>11 DEF Refines, RR!Next

LEMMA RefDiscard ==
  ASSUME IInv, MadeInv, QInv, TestDestroy
  PROVE  Refines
<1>1. /\ made # Null /\ state' = [state EXCEPT ![made] = "FREE"]
      /\ UNCHANGED <<current, next, left>>
  BY DEF TestDestroy, ThreadDestroy, ring
<1>2. made \in Threads /\ made \notin Linked /\ current # Null
  BY <1>1, MadeApart
<1>3. Queue' = Queue /\ QInv' /\ RR!Queued = Linked
  BY <1>1, <1>2, QueueSame, QueueFacts
<1>4. Status[made] = "ready" /\ Status' = [Status EXCEPT ![made] = "absent"]
  <2>1. <<state[made], Status[made]>> \in Pairs /\ state[made] = "READY"
    BY <1>1, <1>2, StatusFacts DEF IInv, MadeInv
  <2>2. Status' = [Status EXCEPT ![made] = "absent"]
    BY <1>1, <1>2, StatusSet, PairsFacts DEF IInv
  <2> QED BY <2>1, <2>2 DEF Pairs
<1>5. RR!Discard(made)
  BY <1>1, <1>2, <1>3, <1>4 DEF RR!Discard
<1> QED BY <1>2, <1>3, <1>5 DEF Refines, RR!Next

LEMMA RefAlarm ==
  ASSUME IInv, QInv, Sleep
  PROVE  Refines
<1>1. PICK n \in 0 .. MaxSleep : left' = [left EXCEPT ![current] = n]
  BY DEF Sleep
<1>2. UNCHANGED <<current, next, state>> /\ InCode
  BY DEF Sleep, ring
<1>3. current # Null
  <2>1. PICK f \in {"entry", "keyboard_isr"} : Running(f)
    BY <1>2 DEF InCode
  <2>2. f \in Frames \ BootFrames
    BY <2>1 DEF Frames, BootFrames
  <2> QED BY <2>1, <2>2, AfterBoot
<1>4. Queue' = Queue /\ QInv' /\ Queue # <<>> /\ Head(Queue) = current
  BY <1>2, <1>3, QueueSame, QueueFacts
<1>5. Status' = Status
  BY <1>2 DEF Status, Threads
<1>6. RR!SetAlarm(n)
  BY <1>1, <1>4, <1>5 DEF RR!SetAlarm
<1> QED BY <1>4, <1>6 DEF Refines, RR!Next

LEMMA RefBecome ==
  ASSUME IInv, QInv, Block \/ EntryReturn
  PROVE  Refines
<1>1. /\ UNCHANGED <<current, next, left>>
      /\ \E f \in {"thread_sleep", "entry"} : Running(f)
      /\ \/ state' = [state EXCEPT ![cpu] = "BLOCKED"]
         \/ state' = [state EXCEPT ![current] = "TERMINATED"]
  BY DEF Block, EntryReturn, ring
<1>2. current # Null /\ current = cpu /\ current \in Threads
  <2>1. PICK f \in {"thread_sleep", "entry"} : Running(f)
    BY <1>1
  <2>2. f \in Frames \ BootFrames /\ ~Running("window")
    BY <2>1 DEF Frames, BootFrames, Running
  <2> QED BY <2>1, <2>2, AfterBoot, OnCpu DEF IInv, CpuInv
<1>3. PICK m \in {"blocked", "done"} : Status' = [Status EXCEPT ![current] = m]
  <2>1. CASE state' = [state EXCEPT ![cpu] = "BLOCKED"]
    <3>1. Status' = [Status EXCEPT ![current] = "blocked"]
      BY <1>2, <2>1, StatusSet, PairsFacts DEF IInv
    <3> QED BY <3>1
  <2>2. CASE state' = [state EXCEPT ![current] = "TERMINATED"]
    <3>1. Status' = [Status EXCEPT ![current] = "done"]
      BY <1>2, <2>2, StatusSet, PairsFacts DEF IInv
    <3> QED BY <3>1
  <2> QED BY <1>1, <2>1, <2>2
<1>4. Queue' = Queue /\ QInv' /\ Queue # <<>> /\ Head(Queue) = current
  BY <1>1, <1>2, QueueSame, QueueFacts
<1>5. RR!Become(m)
  BY <1>1, <1>3, <1>4 DEF RR!Become
<1> QED BY <1>4, <1>5 DEF Refines, RR!Next

LEMMA RefTick ==
  ASSUME QInv, TimerInterrupt
  PROVE  Refines
<1>1. /\ UNCHANGED <<current, next, state>>
      /\ left' = [t \in Threads |-> IF left[t] = 0 THEN 0 ELSE left[t] - 1]
  BY DEF TimerInterrupt, ring
<1>2. Queue' = Queue /\ QInv'
  BY <1>1, QueueSame
<1>3. Status' = Status
  BY <1>1 DEF Status, Threads
<1>4. RR!Tick
  BY <1>1, <1>2, <1>3 DEF RR!Tick
<1> QED BY <1>2, <1>4 DEF Refines, RR!Next

(* The place of the candidate, behind the running thread. *)
LEMMA CandidateAt ==
  ASSUME IInv, QInv, Running("scan"), candidate # current
  PROVE  \E k \in 2 .. Len(Queue) : Queue[k] = candidate
<1>1. candidate \in Linked /\ current # Null
  BY InScan
<1>2. PICK k \in 1 .. Len(Queue) : Queue[k] = candidate
  BY <1>1, QueueFacts
<1>3. k # 1 /\ Len(Queue) \in Nat
  BY <1>1, <1>2, QueueFacts
<1> QED BY <1>2, <1>3

LEMMA RefReap ==
  ASSUME IInv, IInv', QInv, ScanReap
  PROVE  Refines
<1>1. /\ Running("scan") /\ candidate # current /\ state[candidate] = "TERMINATED"
      /\ next' = [next EXCEPT ![prev] = next[candidate], ![candidate] = Null]
      /\ state' = [state EXCEPT ![candidate] = "FREE"]
      /\ UNCHANGED <<current, left>>
  BY DEF ScanReap, ThreadDestroy
<1>2. /\ candidate \in Linked /\ prev \in Linked /\ next[prev] = candidate
      /\ current # Null /\ Linked \subseteq Threads
      /\ next \in [Threads -> Threads \cup {Null}] /\ RingInv
  BY <1>1, InScan DEF IInv, TypeOK
<1>3. prev # candidate
  BY <1>1, <1>2, NotItsOwnPredecessor
<1>4. Linked' = Linked \ {candidate}
  BY <1>1, <1>2, <1>3, Unlink
<1>5. PICK q : q = Queue
  OBVIOUS
<1>6. /\ Reads(q, Linked, current, next)
      /\ q \in Seq(Linked) /\ q[1] = current /\ Len(q) \in Nat
      /\ \A t \in Linked : \E i \in 1 .. Len(q) : q[i] = t
  BY <1>2, <1>5, QueueFacts DEF QInv
<1>7. PICK k \in 2 .. Len(q) : q[k] = candidate
  BY <1>1, <1>5, CandidateAt
<1>8. q[k - 1] = prev
  <2>1. PICK j \in 1 .. Len(q) : q[j] = prev
    BY <1>2, <1>6
  <2>2. next[prev] = IF j = Len(q) THEN current ELSE q[j + 1]
    BY <1>6, <2>1 DEF Reads
  <2>3. j # Len(q) /\ q[j + 1] = q[k]
    BY <1>1, <1>2, <1>7, <2>2
  <2>4. j + 1 \in 1 .. Len(q) /\ k \in 1 .. Len(q)
    BY <1>6, <1>7, <2>1, <2>3
  <2>5. j + 1 = k
    BY <1>6, <2>3, <2>4 DEF Reads
  <2>6. k - 1 = j
    BY <2>1, <2>5
  <2> QED BY <2>1, <2>6
<1>9. /\ next'[q[k - 1]] = next[q[k]]
      /\ \A t \in Linked \ {q[k - 1], q[k]} : next'[t] = next[t]
  BY <1>1, <1>2, <1>3, <1>7, <1>8
<1>10. PICK r : r = SubSeq(q, 1, k - 1) \o SubSeq(q, k + 1, Len(q))
  OBVIOUS
<1>11. Reads(r, Linked', current', next')
  <2>1. Reads(r, Linked \ {q[k]}, current, next')
    <3>1. Reads(q, Linked, current, next)
      BY <1>6
    <3>2. Reads(SubSeq(q, 1, k - 1) \o SubSeq(q, k + 1, Len(q)), Linked \ {q[k]}, current, next')
      BY <1>7, <1>9, <3>1, ListRemove
    <3> QED BY <1>10, <3>2
  <2> QED BY <1>1, <1>4, <1>7, <2>1
<1>12. Queue' = r /\ QInv'
  BY <1>1, <1>2, <1>11, QueueStep
<1>13. Status[candidate] = "done" /\ Status' = [Status EXCEPT ![candidate] = "absent"]
  <2>1. <<state[candidate], Status[candidate]>> \in Pairs
    BY <1>2, StatusFacts DEF IInv
  <2>2. Status' = [Status EXCEPT ![candidate] = "absent"]
    BY <1>1, <1>2, StatusSet, PairsFacts DEF IInv
  <2> QED BY <1>1, <2>1, <2>2 DEF Pairs
<1>14. RR!Reap(k)
  BY <1>1, <1>5, <1>7, <1>10, <1>12, <1>13 DEF RR!Reap
<1> QED BY <1>5, <1>7, <1>12, <1>14 DEF Refines, RR!Next

(* The scan is at the k-th of the list: it has passed all before. *)
LEMMA PassedBefore ==
  ASSUME NEW L, NEW c, NEW nx, OneCycle(L, nx), NEW q, Reads(q, L, c, nx),
         NEW k \in 2 .. Len(q), NEW V \in SUBSET L,
         \A t \in V \cup {c} : nx[t] \in V \cup {q[k]}
  PROVE  \A j \in 2 .. k - 1 : q[j] \in V
<1> DEFINE n == Len(q)
           S == {t \in L : \E i \in 1 .. n : q[i] = t /\ (i < k => t \in V \cup {c})}
<1>1. /\ q \in Seq(L) /\ q[1] = c /\ n \in Nat /\ n >= 2 /\ k \in 2 .. n
      /\ \A i, j \in 1 .. n : q[i] = q[j] => i = j
      /\ \A i \in 1 .. n : q[i] \in L
  BY DEF Reads
<1>2. \A i \in 1 .. n : nx[q[i]] = IF i = n THEN c ELSE q[i + 1]
  BY DEF Reads
<1> HIDE DEF n
<1>3. c \in S
  <2>1. 1 \in 1 .. n /\ q[1] = c /\ c \in L
    BY <1>1
  <2> QED BY <2>1
<1>4. ASSUME NEW t \in S PROVE nx[t] \in S
  <2>1. PICK i \in 1 .. n : q[i] = t /\ (i < k => t \in V \cup {c})
    BY DEF S
  <2>2. CASE i = n
    <3>1. nx[t] = c
      BY <1>2, <2>1, <2>2
    <3> QED BY <1>3, <3>1
  <2>3. CASE i # n
    <3>1. nx[t] = q[i + 1] /\ i + 1 \in 1 .. n /\ q[i + 1] \in L
      BY <1>1, <1>2, <2>1, <2>3
    <3>2. ASSUME i + 1 < k PROVE q[i + 1] \in V \cup {c}
      <4>1. t \in V \cup {c}
        BY <1>1, <2>1, <3>2
      <4>2. q[i + 1] \in V \cup {q[k]}
        BY <3>1, <4>1
      <4>3. q[i + 1] # q[k]
        BY <1>1, <3>1, <3>2
      <4> QED BY <4>2, <4>3
    <3> QED BY <3>1, <3>2
  <2> QED BY <2>2, <2>3
<1>5. S = L
  <2>1. S \in SUBSET L /\ S # {}
    BY <1>3
  <2> HIDE DEF S
  <2> QED BY <1>4, <2>1 DEF OneCycle
<1>6. ASSUME NEW j \in 2 .. k - 1 PROVE q[j] \in V
  <2>1. j \in 1 .. n /\ j < k /\ j # 1 /\ 1 \in 1 .. n
    BY <1>1
  <2>2. q[j] \in S
    BY <1>1, <1>5, <2>1
  <2>3. PICK i \in 1 .. n : q[i] = q[j] /\ (i < k => q[j] \in V \cup {c})
    BY <2>2 DEF S
  <2>4. i = j
    BY <1>1, <2>1, <2>3
  <2>5. q[j] # c
    BY <1>1, <2>1
  <2> QED BY <2>1, <2>3, <2>4, <2>5
<1> QED BY <1>6

LEMMA RefPick ==
  ASSUME IInv, IInv', SInv, WakeExact, QInv, ~untimely, ScanPick
  PROVE  Refines
<1>1. /\ Running("scan") /\ candidate # current /\ current' = candidate
      /\ state[candidate] # "TERMINATED" /\ ~Asleep(candidate)
      /\ state' = [state EXCEPT ![candidate] = IF @ = "BLOCKED" THEN "READY" ELSE @]
      /\ UNCHANGED <<next, left>>
  BY DEF ScanPick
<1>2. /\ candidate \in Linked /\ lock /\ current # Null /\ Linked \subseteq Threads
      /\ candidate # Null /\ state \in [Threads -> States] /\ state[candidate] # "FREE"
      /\ OneCycle(Linked, next)
  <2>1. /\ candidate \in Linked /\ lock /\ current # Null /\ Linked \subseteq Threads
    BY <1>1, InScan
  <2>2. candidate # Null
    BY <2>1, ThreadsAssumption
  <2>3. state \in [Threads -> States]
    BY DEF IInv, TypeOK
  <2>4. state[candidate] # "FREE"
    BY <2>1 DEF IInv, RingInv
  <2>5. OneCycle(Linked, next)
    BY DEF IInv, RingInv, OneCycle
  <2> QED BY <2>1, <2>2, <2>3, <2>4, <2>5
<1>3. PICK q : q = Queue
  OBVIOUS
<1>4. Reads(q, Linked, current, next) /\ q \in Seq(Linked) /\ Len(q) \in Nat
  BY <1>2, <1>3, QueueFacts DEF QInv
<1>5. PICK k \in 2 .. Len(q) : q[k] = candidate
  BY <1>1, <1>3, CandidateAt
<1>6. PICK r : r = SubSeq(q, k, Len(q)) \o SubSeq(q, 1, k - 1)
  OBVIOUS
<1>7. Queue' = r /\ QInv'
  <2>1. k \in 1 .. Len(q)
    BY <1>4
  <2>2. Reads(SubSeq(q, k, Len(q)) \o SubSeq(q, 1, k - 1), Linked, q[k], next)
    BY <1>4, <2>1, ListRotate
  <2>3. Reads(r, Linked', current', next')
    <3>1. Linked' = Linked
      BY <1>1 DEF Linked
    <3> QED BY <1>1, <1>5, <1>6, <2>2, <3>1
  <2> QED BY <1>1, <1>2, <2>3, QueueStep
<1>8. ASSUME NEW j \in 2 .. k - 1 PROVE RR!Asleep(q[j])
  <2>1. PICK V \in SUBSET Linked : Passed(V)
    BY <1>2 DEF SInv, ScanInv
  <2>2. q[j] \in V
    <3>1. \A t \in V \cup {current} : next[t] \in V \cup {q[k]}
      BY <1>5, <2>1 DEF Passed
    <3> QED BY <1>2, <1>4, <3>1, PassedBefore
  <2>3. q[j] \in Threads /\ Asleep(q[j])
    BY <1>2, <2>1, <2>2 DEF Passed
  <2>4. state[q[j]] = "BLOCKED" /\ left[q[j]] > 0
    BY <2>3 DEF WakeExact, Asleep
  <2>5. <<state[q[j]], Status[q[j]]>> \in Pairs
    BY <2>3, StatusFacts DEF IInv
  <2> QED BY <2>4, <2>5 DEF RR!Asleep, Pairs
<1>9. <<state[candidate], Status[candidate]>> \in Pairs
  BY <1>2, StatusFacts DEF IInv
<1>10. ~RR!Asleep(candidate) /\ Status[candidate] # "done"
  <2>1. state[candidate] = "BLOCKED" => ~(left[candidate] > 0)
    BY <1>1, <1>2 DEF WakeExact
  <2> QED BY <1>1, <1>9, <2>1 DEF RR!Asleep, Pairs
<1>11. Status' = [Status EXCEPT ![candidate] = "ready"]
  <2>1. PICK s \in {"READY", "RUNNING"} : state' = [state EXCEPT ![candidate] = s]
    <3>1. state[candidate] \in {"READY", "RUNNING", "BLOCKED"}
      BY <1>1, <1>2 DEF States
    <3> QED BY <1>1, <3>1
  <2>2. <<s, "ready">> \in Pairs
    BY DEF Pairs
  <2>3. candidate \in Threads /\ TypeOK
    BY <1>2 DEF IInv
  <2> QED BY <2>1, <2>2, <2>3, StatusSet
<1>12. RR!Dispatch(k)
  BY <1>1, <1>3, <1>5, <1>6, <1>7, <1>8, <1>10, <1>11 DEF RR!Dispatch
<1> QED BY <1>3, <1>7, <1>12 DEF Refines, RR!Next

LEMMA StepRefines ==
  ASSUME IInv, IInv', SInv, MadeInv, WakeExact, QInv, ~untimely, [Next]_vars
  PROVE  Refines
<1>1. CASE InitCurrent
  BY <1>1, RefStart
<1>2. CASE CreateIdle \/ TestCreate
  BY <1>2, RefCreate
<1>3. CASE AddIdle \/ TestAdd
  BY <1>3, RefAdd
<1>4. CASE TestDestroy
  BY <1>4, RefDiscard
<1>5. CASE Sleep
  BY <1>5, RefAlarm
<1>6. CASE Block \/ EntryReturn
  BY <1>6, RefBecome
<1>7. CASE TimerInterrupt
  BY <1>7, RefTick
<1>8. CASE ScanReap
  BY <1>8, RefReap
<1>9. CASE ScanPick
  BY <1>9, RefPick
<1>10. CASE \/ StartTimer \/ ScanSkip \/ ScanNone \/ ContextSwitch \/ ReturnFromSwitch
            \/ StartThread \/ Iret \/ SleepYield \/ SleepReturn \/ ExitYield \/ CallYield
            \/ KeyboardInterrupt \/ TestSti \/ KeyboardReturn \/ UNCHANGED vars
  <2>1. UNCHANGED <<current, next, left, state>>
    BY <1>10 DEF StartTimer, ScanSkip, ScanNone, ContextSwitch, ReturnFromSwitch, StartThread,
       Iret, SleepYield, SleepReturn, ExitYield, CallYield, KeyboardInterrupt, TestSti,
       KeyboardReturn, vars, ring
  <2>2. Status' = Status
    BY <2>1 DEF Status, Threads
  <2> QED BY <2>1, <2>2, RefQuiet
<1> QED
  BY <1>1, <1>2, <1>3, <1>4, <1>5, <1>6, <1>7, <1>8, <1>9, <1>10
     DEF Next, CodeStep, BootStep, Scan, Command

LEMMA InitRefines ==
  ASSUME Init
  PROVE  RR!Init /\ QInv
<1>1. /\ current = Null /\ left = [t \in Threads |-> 0]
      /\ state = [t \in Threads |-> IF t = Boot THEN "RUNNING" ELSE "FREE"]
      /\ Linked = {}
  BY DEF Init, Linked
<1>2. Queue = <<>>
  BY <1>1, QueueEmpty
<1>3. Status = [t \in Threads |-> IF t = Boot THEN "ready" ELSE "absent"]
  BY <1>1 DEF Status
<1> QED BY <1>1, <1>2, <1>3 DEF RR!Init, QInv

(* Until an interrupt comes untimely the scheduler is the round robin       *)
(* queue: for any number of threads and whatever interrupts, yields, sleeps *)
(* and commands do to the pointers, the stacks and the lock,                *)
(* scheduler_yield hands the CPU to the first thread behind the current one *)
(* that may run, wakes nobody early and overtakes nobody who is due, reaps  *)
(* only what has ended and does not run, and loses or duplicates no thread. *)
THEOREM SchedulerIsRoundRobin ==
  ASSUME FewThreads
  PROVE  Spec => ImplementsRoundRobin
<1> DEFINE Inv == (~untimely => IInv /\ SInv /\ MadeInv) /\ WakeExact
           Queues == ~untimely => QInv
           Step == [untimely' \/ RR!Next]_<<Queue, Status, left>>
<1>1. Spec => []Inv
  <2> DEFINE MInv == ~untimely => MadeInv
  <2>1. Init => MInv
    BY InitLate
  <2>2. ASSUME IInv, MadeInv, ~untimely', [Next]_vars PROVE MadeInv'
    BY <2>2, MadeKeeps
  <2>3. (~untimely => IInv /\ SInv) /\ MInv /\ [Next]_vars => MInv'
    BY <2>2, UntimelyStays
  <2> QED BY <2>1, <2>3, SleepInductive, WakeIsExact, PTL DEF Spec
<1>2. Init => RR!Init /\ Queues
  BY InitRefines
<1>3. ASSUME Inv, Inv', Queues, [Next]_vars PROVE Step /\ Queues'
  <2>1. CASE untimely'
    BY <2>1
  <2>2. CASE ~untimely'
    <3>1. ~untimely
      BY <1>3, <2>2, UntimelyStays
    <3>2. Refines
      BY <1>3, <2>2, <3>1, StepRefines
    <3> QED BY <3>2 DEF Refines, RR!vars
  <2> QED BY <2>1, <2>2
<1>4. Inv /\ Inv' /\ Queues /\ [Next]_vars => Step /\ Queues'
  BY <1>3
<1> HIDE DEF Inv, Queues
<1> QED BY <1>1, <1>2, <1>4, PTL DEF Spec, ImplementsRoundRobin
=============================================================================
