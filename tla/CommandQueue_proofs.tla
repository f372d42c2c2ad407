------------------------- MODULE CommandQueue_proofs -------------------------
(***************************************************************************)
(* No entry of the command queue is lost, in two queues, or freed while it *)
(* is in one; its counters are good for what they limit; and the wait      *)
(* queue is sorted: for any number of things, pids, and any quota.  The    *)
(* functions of cque.c are shown, one by one, to keep what holds of the    *)
(* queues, also where an entry is between two of them.  What waited on a   *)
(* semaphore is woken and runs in the order it came.                       *)
(***************************************************************************)
EXTENDS CommandQueue, FoldTheorems, SequenceTheorems

-----------------------------------------------------------------------------
(* Sequences.                                                              *)

(* What is in a sequence.                                                  *)
LEMMA InRange ==
  ASSUME NEW A, NEW s \in Seq(A)
  PROVE  /\ Len(s) \in Nat /\ DOMAIN s = 1..Len(s)
         /\ \A i \in DOMAIN s : s[i] \in A /\ s[i] \in Range(s)
         /\ \A p \in Range(s) : \E i \in DOMAIN s : s[i] = p
         /\ Range(s) \subseteq A
  BY DEF Range

(* One sequence behind the other.                                          *)
LEMMA Joined ==
  ASSUME NEW A, NEW s \in Seq(A), NEW t \in Seq(A)
  PROVE  /\ s \o t \in Seq(A)
         /\ Range(s \o t) = Range(s) \cup Range(t)
         /\ IsInjective(s) /\ IsInjective(t) /\ Range(s) \cap Range(t) = {} => IsInjective(s \o t)
<1> DEFINE u == s \o t
<1>1. /\ u \in Seq(A) /\ Len(u) = Len(s) + Len(t) /\ Len(s) \in Nat /\ Len(t) \in Nat
      /\ \A i \in 1..Len(u) : u[i] = IF i <= Len(s) THEN s[i] ELSE t[i - Len(s)]
  OBVIOUS
<1> HIDE DEF u
<1>2. DOMAIN u = 1..Len(u) /\ DOMAIN s = 1..Len(s) /\ DOMAIN t = 1..Len(t)
  BY <1>1
<1>3. \A i \in DOMAIN u :
        \/ i \in DOMAIN s /\ u[i] = s[i]
        \/ i - Len(s) \in DOMAIN t /\ u[i] = t[i - Len(s)]
  BY <1>1, <1>2
<1>4. Range(u) \subseteq Range(s) \cup Range(t)
  BY <1>3 DEF Range
<1>5. \A i \in DOMAIN s : i \in DOMAIN u /\ u[i] = s[i]
  BY <1>1, <1>2
<1>6. \A i \in DOMAIN t : i + Len(s) \in DOMAIN u /\ u[i + Len(s)] = t[i]
  BY <1>1, <1>2
<1>7. Range(s) \cup Range(t) \subseteq Range(u)
  BY <1>5, <1>6 DEF Range
<1>8. ASSUME IsInjective(s), IsInjective(t), Range(s) \cap Range(t) = {}
      PROVE  IsInjective(u)
  <2> SUFFICES ASSUME NEW i \in DOMAIN u, NEW j \in DOMAIN u, u[i] = u[j] PROVE i = j
    BY DEF IsInjective
  <2>1. CASE i \in DOMAIN s /\ u[i] = s[i] /\ j \in DOMAIN s /\ u[j] = s[j]
    BY <1>8, <2>1 DEF IsInjective
  <2>2. CASE i - Len(s) \in DOMAIN t /\ u[i] = t[i - Len(s)] /\ j - Len(s) \in DOMAIN t /\ u[j] = t[j - Len(s)]
    <3>1. i - Len(s) = j - Len(s)
      BY <1>8, <2>2 DEF IsInjective
    <3> QED
      BY <3>1, <1>1, <1>2
  <2>3. CASE i \in DOMAIN s /\ u[i] = s[i] /\ j - Len(s) \in DOMAIN t /\ u[j] = t[j - Len(s)]
    BY <1>8, <2>3 DEF Range
  <2>4. CASE i - Len(s) \in DOMAIN t /\ u[i] = t[i - Len(s)] /\ j \in DOMAIN s /\ u[j] = s[j]
    BY <1>8, <2>4 DEF Range
  <2> QED
    BY <1>3, <2>1, <2>2, <2>3, <2>4
<1> QED
  BY <1>1, <1>4, <1>7, <1>8 DEF u

(* One more at the end.                                                    *)
LEMMA Appended ==
  ASSUME NEW A, NEW s \in Seq(A), NEW p \in A
  PROVE  /\ Append(s, p) \in Seq(A)
         /\ Len(Append(s, p)) = Len(s) + 1
         /\ Range(Append(s, p)) = Range(s) \cup {p}
         /\ IsInjective(s) /\ p \notin Range(s) => IsInjective(Append(s, p))
<1> DEFINE t == <<p>>
<1>1. t \in Seq(A) /\ s \o t = Append(s, p) /\ Range(t) = {p} /\ IsInjective(t)
  BY DEF Range, IsInjective
<1> HIDE DEF t
<1>2. /\ s \o t \in Seq(A)
      /\ Range(s \o t) = Range(s) \cup Range(t)
      /\ IsInjective(s) /\ IsInjective(t) /\ Range(s) \cap Range(t) = {} => IsInjective(s \o t)
  BY <1>1, Joined
<1> QED
  BY <1>1, <1>2

(* A sequence in two parts.                                                *)
LEMMA Cut ==
  ASSUME NEW A, NEW s \in Seq(A), NEW n \in 0..Len(s), IsInjective(s)
  PROVE  /\ SubSeq(s, 1, n) \in Seq(A) /\ SubSeq(s, n + 1, Len(s)) \in Seq(A)
         /\ Len(SubSeq(s, 1, n)) = n /\ Len(SubSeq(s, n + 1, Len(s))) = Len(s) - n
         /\ \A i \in DOMAIN SubSeq(s, n + 1, Len(s)) :
              i + n \in DOMAIN s /\ SubSeq(s, n + 1, Len(s))[i] = s[i + n]
         /\ IsInjective(SubSeq(s, 1, n)) /\ IsInjective(SubSeq(s, n + 1, Len(s)))
         /\ Range(SubSeq(s, 1, n)) \cap Range(SubSeq(s, n + 1, Len(s))) = {}
         /\ Range(s) = Range(SubSeq(s, 1, n)) \cup Range(SubSeq(s, n + 1, Len(s)))
<1> DEFINE t == SubSeq(s, 1, n)
           u == SubSeq(s, n + 1, Len(s))
<1>1. Len(s) \in Nat /\ n \in Nat /\ n <= Len(s) /\ DOMAIN s = 1..Len(s)
  OBVIOUS
<1>2. /\ t \in Seq(A) /\ Len(t) = n /\ DOMAIN t = 1..n
      /\ \A i \in 1..n : t[i] = s[i]
  BY <1>1
<1>3. /\ u \in Seq(A) /\ Len(u) = Len(s) - n /\ DOMAIN u = 1..(Len(s) - n)
      /\ \A i \in 1..(Len(s) - n) : u[i] = s[i + n]
  <2>1. u \in Seq(A) /\ Len(u) = Len(s) - n
    <3>1. n + 1 \in Int /\ Len(s) \in Int /\ \A i \in (n + 1)..Len(s) : s[i] \in A
      BY <1>1
    <3>2. u \in Seq(A) /\ Len(u) = IF n + 1 <= Len(s) THEN Len(s) - (n + 1) + 1 ELSE 0
      BY <3>1, SubSeqProperties
    <3> HIDE DEF u
    <3>3. CASE n = Len(s)
      BY <3>2, <3>3, <1>1
    <3>4. CASE n < Len(s)
      <4>1. n + 1 <= Len(s)
        BY <3>4, <1>1
      <4>2. Len(u) = Len(s) - (n + 1) + 1
        BY <3>2, <4>1
      <4> QED
        BY <3>2, <4>2, <1>1
    <3>5. n = Len(s) \/ n < Len(s)
      OBVIOUS
    <3> QED
      BY <3>3, <3>4, <3>5
  <2>2. \A i \in 1..(Len(s) - n) : u[i] = s[i + n]
    BY <1>1, SubSeqProperties
  <2> QED
    BY <2>1, <2>2
<1> HIDE DEF t, u
<1>4. \A i \in DOMAIN t : i \in DOMAIN s /\ i <= n /\ t[i] = s[i]
  BY <1>1, <1>2
<1>5. \A i \in DOMAIN u : i \in Int /\ i + n \in DOMAIN s /\ i + n > n /\ u[i] = s[i + n]
  BY <1>1, <1>3
<1>6. IsInjective(t)
  BY <1>4 DEF IsInjective
<1>7. IsInjective(u)
  <2> SUFFICES ASSUME NEW i \in DOMAIN u, NEW j \in DOMAIN u, u[i] = u[j] PROVE i = j
    BY DEF IsInjective
  <2>1. i + n = j + n
    BY <1>5 DEF IsInjective
  <2> QED
    BY <2>1, <1>5, <1>1
<1>8. ASSUME NEW i \in DOMAIN t, NEW j \in DOMAIN u PROVE t[i] # u[j]
  <2>1. i # j + n
    BY <1>1, <1>4, <1>5
  <2> QED
    BY <2>1, <1>4, <1>5 DEF IsInjective
<1>9. Range(t) \cap Range(u) = {}
  BY <1>8 DEF Range
<1>10. \A i \in DOMAIN s : i \in DOMAIN t \/ i - n \in DOMAIN u
  BY <1>1, <1>2, <1>3
<1>11. \A i \in DOMAIN s : (i - n) + n = i
  BY <1>1
<1>12. Range(s) = Range(t) \cup Range(u)
  BY <1>4, <1>5, <1>10, <1>11 DEF Range
<1> QED
  BY <1>2, <1>3, <1>5, <1>6, <1>7, <1>9, <1>12 DEF t, u

(* The rest of a sequence.                                                 *)
LEMMA Rest ==
  ASSUME NEW A, NEW s \in Seq(A), s # <<>>, IsInjective(s)
  PROVE  /\ Head(s) \in A /\ Tail(s) \in Seq(A)
         /\ IsInjective(Tail(s)) /\ Head(s) \notin Range(Tail(s))
         /\ Range(s) = Range(Tail(s)) \cup {Head(s)}
<1>1. 1 \in 0..Len(s) /\ Tail(s) = SubSeq(s, 2, Len(s)) /\ Head(s) = s[1]
  OBVIOUS
<1>2. Head(s) \in A /\ Tail(s) \in Seq(A)
  OBVIOUS
<1> DEFINE t == SubSeq(s, 1, 1)
<1>3. t = <<Head(s)>>
  <2>1. Len(s) \in Nat /\ 1 <= Len(s)
    OBVIOUS
  <2>2. t \in Seq(A) /\ Len(t) = 1 /\ t[1] = s[1]
    BY <2>1
  <2> HIDE DEF t
  <2> QED
    BY <1>1, <2>2
<1>4. Range(t) = {Head(s)}
  BY <1>3 DEF Range
<1> HIDE DEF t
<1>5. PICK n \in 0..Len(s) : n = 1
  BY <1>1
<1>6. n + 1 = 2
  BY <1>5
<1>7. /\ IsInjective(SubSeq(s, n + 1, Len(s)))
      /\ Range(SubSeq(s, 1, n)) \cap Range(SubSeq(s, n + 1, Len(s))) = {}
      /\ Range(s) = Range(SubSeq(s, 1, n)) \cup Range(SubSeq(s, n + 1, Len(s)))
  BY Cut
<1> QED
  BY <1>1, <1>2, <1>4, <1>5, <1>6, <1>7 DEF t

(* One more at place i.                                                    *)
LEMMA Inserted ==
  ASSUME NEW A, NEW s \in Seq(A), NEW p \in A, NEW i \in 1..(Len(s) + 1), p \notin Range(s)
  PROVE  /\ InsertAt(s, i, p) \in Seq(A)
         /\ DOMAIN InsertAt(s, i, p) = 1..(Len(s) + 1)
         /\ \A j \in 1..(Len(s) + 1) :
              InsertAt(s, i, p)[j] = IF j < i THEN s[j] ELSE IF j = i THEN p ELSE s[j - 1]
         /\ Range(InsertAt(s, i, p)) = Range(s) \cup {p}
         /\ IsInjective(s) => IsInjective(InsertAt(s, i, p))
<1> DEFINE t == InsertAt(s, i, p)
<1>1. Len(s) \in Nat /\ i \in Nat /\ 1 <= i /\ i <= Len(s) + 1 /\ DOMAIN s = 1..Len(s)
  OBVIOUS
<1> DEFINE u == SubSeq(s, 1, i - 1)
           v == SubSeq(s, i, Len(s))
<1>2. u \in Seq(A) /\ Len(u) = i - 1 /\ \A j \in 1..(i - 1) : u[j] = s[j]
  BY <1>1
<1>3. v \in Seq(A) /\ Len(v) = Len(s) - i + 1 /\ \A j \in 1..(Len(s) - i + 1) : v[j] = s[j + i - 1]
  BY <1>1
<1>4. t = (u \o <<p>>) \o v
  BY DEF InsertAt
<1> HIDE DEF t, u, v
<1>5. t \in Seq(A) /\ Len(t) = Len(s) + 1
  <2>1. u \o <<p>> \in Seq(A) /\ Len(u \o <<p>>) = i
    BY <1>1, <1>2
  <2> DEFINE w == u \o <<p>>
  <2>2. w \in Seq(A) /\ Len(w) = i /\ t = w \o v
    BY <2>1, <1>4
  <2> HIDE DEF w
  <2>3. w \o v \in Seq(A) /\ Len(w \o v) = Len(w) + Len(v)
    BY <2>2, <1>3, ConcatProperties
  <2>4. i + (Len(s) - i + 1) = Len(s) + 1
    BY <1>1
  <2> QED
    BY <1>3, <2>2, <2>3, <2>4
<1>6. \A j \in 1..(Len(s) + 1) : t[j] = IF j < i THEN s[j] ELSE IF j = i THEN p ELSE s[j - 1]
  <2> SUFFICES ASSUME NEW j \in 1..(Len(s) + 1)
               PROVE  t[j] = IF j < i THEN s[j] ELSE IF j = i THEN p ELSE s[j - 1]
    OBVIOUS
  <2> DEFINE w == u \o <<p>>
  <2>1. w \in Seq(A) /\ Len(w) = i /\ w[i] = p /\ \A l \in 1..(i - 1) : w[l] = s[l]
    BY <1>1, <1>2
  <2> HIDE DEF w
  <2>2. t = w \o v
    BY <1>4 DEF w
  <2>3. CASE j <= i
    BY <2>1, <2>2, <2>3, <1>1, <1>3
  <2>4. CASE j > i
    <3>1. t[j] = v[j - i]
      BY <2>1, <2>2, <2>4, <1>1, <1>3
    <3>2. j - i \in 1..(Len(s) - i + 1) /\ (j - i) + i - 1 = j - 1
      BY <2>4, <1>1
    <3> QED
      BY <3>1, <3>2, <2>4, <1>1, <1>3
  <2> QED
    BY <2>3, <2>4, <1>1
<1>7. DOMAIN t = 1..(Len(s) + 1)
  BY <1>5
<1>8. \A j \in DOMAIN t : \/ j \in DOMAIN s /\ t[j] = s[j] /\ j < i
                          \/ j = i /\ t[j] = p
                          \/ j - 1 \in DOMAIN s /\ t[j] = s[j - 1] /\ i < j
  BY <1>1, <1>6, <1>7
<1>9. \A j \in DOMAIN s : \/ j \in DOMAIN t /\ t[j] = s[j]
                          \/ j + 1 \in DOMAIN t /\ t[j + 1] = s[j]
  BY <1>1, <1>6, <1>7
<1>10. i \in DOMAIN t /\ t[i] = p
  BY <1>1, <1>6, <1>7
<1>11. Range(t) = Range(s) \cup {p}
  BY <1>8, <1>9, <1>10 DEF Range
<1>12. ASSUME IsInjective(s) PROVE IsInjective(t)
  <2> SUFFICES ASSUME NEW j \in DOMAIN t, NEW l \in DOMAIN t, t[j] = t[l] PROVE j = l
    BY DEF IsInjective
  <2>1. \A m \in DOMAIN s : s[m] # p
    BY DEF Range
  <2>2. CASE j = i \/ l = i
    BY <2>1, <2>2, <1>8, <1>10
  <2>3. ASSUME NEW x \in DOMAIN t, NEW y \in DOMAIN t, t[x] = t[y], x < i, i < y PROVE FALSE
    <3>1. x \in DOMAIN s /\ t[x] = s[x] /\ y - 1 \in DOMAIN s /\ t[y] = s[y - 1]
      BY <2>3, <1>1, <1>7, <1>8
    <3>2. x = y - 1
      BY <2>3, <3>1, <1>12 DEF IsInjective
    <3> QED
      BY <2>3, <3>2, <1>1, <1>7
  <2>4. CASE j < i /\ l < i
    BY <2>4, <1>1, <1>7, <1>8, <1>12 DEF IsInjective
  <2>5. CASE i < j /\ i < l
    <3>1. j - 1 \in DOMAIN s /\ t[j] = s[j - 1] /\ l - 1 \in DOMAIN s /\ t[l] = s[l - 1]
      BY <2>5, <1>1, <1>7, <1>8
    <3>2. j - 1 = l - 1
      BY <3>1, <1>12 DEF IsInjective
    <3> QED
      BY <3>2, <1>1, <1>7
  <2>6. j \in Int /\ l \in Int
    BY <1>7
  <2> QED
    BY <2>2, <2>3, <2>4, <2>5, <2>6, <1>1
<1> QED
  BY <1>5, <1>6, <1>7, <1>11, <1>12 DEF t

(* A sequence without repetitions is as long as what is in it is large.    *)
LEMMA Counting ==
  ASSUME NEW A, NEW s \in Seq(A), IsInjective(s)
  PROVE  IsFiniteSet(Range(s)) /\ Cardinality(Range(s)) = Len(s)
<1>1. Len(s) \in Nat /\ DOMAIN s = 1..Len(s)
  OBVIOUS
<1>2. IsFiniteSet(DOMAIN s) /\ Cardinality(DOMAIN s) = Len(s)
  <2>1. IsFiniteSet(1..Len(s)) /\ Cardinality(1..Len(s)) = IF 1 > Len(s) THEN 0 ELSE Len(s) - 1 + 1
    BY <1>1, FS_Interval
  <2>2. (IF 1 > Len(s) THEN 0 ELSE Len(s) - 1 + 1) = Len(s)
    BY <1>1
  <2> QED
    BY <1>1, <2>1, <2>2
<1> DEFINE h == [i \in DOMAIN s |-> s[i]]
<1>3. h \in Surjection(DOMAIN s, Range(s)) /\ h \in Injection(DOMAIN s, Range(s))
  <2>1. h \in [DOMAIN s -> Range(s)]
    BY DEF Range
  <2>2. IsInjective(h)
    BY DEF IsInjective
  <2>3. \A p \in Range(s) : \E i \in DOMAIN s : h[i] = p
    BY DEF Range
  <2> HIDE DEF h
  <2> QED
    BY <2>1, <2>2, <2>3 DEF Injection, Surjection
<1> HIDE DEF h
<1>4. IsFiniteSet(Range(s)) /\ Cardinality(Range(s)) = Cardinality(DOMAIN s)
  BY <1>2, <1>3, FS_Surjection
<1> QED
  BY <1>2, <1>4

-----------------------------------------------------------------------------
(* What is left of a sequence.                                             *)

(* The equation of the fold in Among.                                      *)
AmongBody(s, S, g) ==
  [T \in SUBSET DOMAIN s |->
     IF T = {} THEN <<>>
     ELSE IF s[Max(T)] \in S THEN Append(g[T \ {Max(T)}], s[Max(T)])
     ELSE g[T \ {Max(T)}]]

(* Among has a function that solves the equation of its fold.              *)
LEMMA AmongIsFold ==
  ASSUME NEW A, NEW s \in Seq(A), NEW S
  PROVE  \E g : g = AmongBody(s, S, g) /\ Among(s, S) = g[DOMAIN s]
<1> DEFINE I == DOMAIN s
           V == Seq(A)
           c == [T \in SUBSET I |-> Max(T)]
           b == <<>>
           F == [i \in I |-> [v \in V |-> IF s[i] \in S THEN Append(v, s[i]) ELSE v]]
<1>1. Len(s) \in Nat /\ I = 1..Len(s) /\ IsFiniteSet(I)
  <2>1. Len(s) \in Nat /\ I = 1..Len(s)
    OBVIOUS
  <2>2. IsFiniteSet(1..Len(s))
    BY <2>1, FS_Interval
  <2> QED
    BY <2>1, <2>2
<1>2. Chooses(I, c)
  BY <1>1, Greatest DEF Chooses
<1>3. Closed(I, V, F)
  BY DEF Closed
<1>4. b \in V
  OBVIOUS
<1>5. PICK g \in [SUBSET I -> V] : Folded(I, b, c, F, g)
  <2> HIDE DEF I, V, c, b, F
  <2>1. IsFiniteSet(I)
    BY <1>1
  <2> QED
    BY <2>1, <1>2, <1>3, <1>4, FoldExists
<1>6. ASSUME NEW T \in SUBSET I
      PROVE  g[T] = IF T = {} THEN <<>>
                    ELSE IF s[Max(T)] \in S THEN Append(g[T \ {Max(T)}], s[Max(T)])
                    ELSE g[T \ {Max(T)}]
  <2>1. CASE T = {}
    BY <1>5, <2>1 DEF Folded
  <2>2. CASE T # {}
    <3>1. c[T] = Max(T) /\ Max(T) \in I /\ T \ {Max(T)} \in SUBSET I
      BY <1>2, <2>2 DEF Chooses
    <3>2. g[T \ {Max(T)}] \in V
      BY <3>1, <1>5
    <3>3. g[T] = F[Max(T)][g[T \ {Max(T)}]]
      BY <1>5, <2>2, <3>1 DEF Folded
    <3> QED
      BY <2>2, <3>1, <3>2, <3>3
  <2> QED
    BY <2>1, <2>2
<1>7. g = AmongBody(s, S, g)
  BY <1>5, <1>6 DEF AmongBody
<1> DEFINE f == CHOOSE f : f = AmongBody(s, S, f)
<1>8. f = AmongBody(s, S, f)
  <2> HIDE DEF I, V, c, F
  <2> QED
    BY <1>7
<1>9. Among(s, S) = f[DOMAIN s]
  BY DEF Among, FoldLeft, MapThenFoldSet, AmongBody
<1> QED
  BY <1>8, <1>9

(* r is what is in S of the first n of s, in its order: h says where it is *)
(* in s.                                                                   *)
Kept(s, S, n, r, h) ==
  /\ h \in [DOMAIN r -> 1..n]
  /\ \A i, j \in DOMAIN r : i < j => h[i] < h[j]
  /\ \A i \in DOMAIN r : r[i] = s[h[i]] /\ s[h[i]] \in S
  /\ \A m \in 1..n : s[m] \in S => \E i \in DOMAIN r : h[i] = m

(* Nothing is kept of nothing.                                             *)
LEMMA KeptNone == \A s, S, h : h = <<>> => Kept(s, S, 0, <<>>, h)
  BY DEF Kept

(* An element of S is kept, behind those kept before it.                   *)
LEMMA KeptOne ==
  ASSUME NEW A, NEW s \in Seq(A), NEW S, NEW n \in Nat, n + 1 \in DOMAIN s,
         NEW r \in Seq(A), NEW h, Kept(s, S, n, r, h), s[n + 1] \in S
  PROVE  \E f : Kept(s, S, n + 1, Append(r, s[n + 1]), f)
<1> DEFINE t == Append(r, s[n + 1])
           f == [i \in DOMAIN t |-> IF i = Len(r) + 1 THEN n + 1 ELSE h[i]]
<1>1. /\ Len(r) \in Nat /\ DOMAIN r = 1..Len(r) /\ DOMAIN t = 1..(Len(r) + 1)
      /\ t[Len(r) + 1] = s[n + 1]
      /\ \A i \in DOMAIN r : t[i] = r[i]
  OBVIOUS
<1> HIDE DEF t
<1>2. \A i \in DOMAIN t : i = Len(r) + 1 \/ (i \in DOMAIN r /\ i < Len(r) + 1 /\ i # Len(r) + 1)
  BY <1>1
<1>3. \A i \in DOMAIN r : i \in DOMAIN t /\ i < Len(r) + 1 /\ i # Len(r) + 1
  BY <1>1
<1>4. Len(r) + 1 \in DOMAIN t
  BY <1>1
<1>5. \A i \in DOMAIN r : h[i] \in 1..n /\ h[i] < n + 1 /\ h[i] \in 1..(n + 1)
  BY DEF Kept
<1>6. f \in [DOMAIN t -> 1..(n + 1)]
  BY <1>2, <1>5
<1>7. \A i \in DOMAIN r : f[i] = h[i]
  BY <1>3
<1>8. f[Len(r) + 1] = n + 1
  BY <1>4
<1> HIDE DEF f
<1>9. ASSUME NEW i \in DOMAIN t, NEW j \in DOMAIN t, i < j PROVE f[i] < f[j]
  <2>1. i # Len(r) + 1 /\ i \in DOMAIN r
    BY <1>1, <1>9
  <2>2. CASE j = Len(r) + 1
    BY <2>1, <2>2, <1>5, <1>7, <1>8
  <2>3. CASE j \in DOMAIN r
    BY <2>1, <2>3, <1>7, <1>9 DEF Kept
  <2> QED
    BY <1>2, <2>2, <2>3
<1>10. \A i \in DOMAIN t : t[i] = s[f[i]] /\ s[f[i]] \in S
  BY <1>1, <1>2, <1>7, <1>8 DEF Kept
<1>11. ASSUME NEW m \in 1..(n + 1), s[m] \in S PROVE \E i \in DOMAIN t : f[i] = m
  <2>1. CASE m = n + 1
    BY <2>1, <1>4, <1>8
  <2>2. CASE m \in 1..n
    BY <2>2, <1>3, <1>7, <1>11 DEF Kept
  <2> QED
    BY <2>1, <2>2
<1>12. Kept(s, S, n + 1, t, f)
  BY <1>6, <1>9, <1>10, <1>11 DEF Kept
<1> QED
  BY <1>12 DEF t

(* An element that is not in S is passed over.                             *)
LEMMA KeptNot ==
  ASSUME NEW s, NEW S, NEW n \in Nat, NEW r, NEW h, Kept(s, S, n, r, h), s[n + 1] \notin S
  PROVE  Kept(s, S, n + 1, r, h)
<1>1. 1..n \subseteq 1..(n + 1) /\ \A m \in 1..(n + 1) : m = n + 1 \/ m \in 1..n
  OBVIOUS
<1> QED
  BY <1>1 DEF Kept

(* Among: what is in S, in the order it had.                               *)
LEMMA AmongKept ==
  ASSUME NEW A, NEW s \in Seq(A), NEW S
  PROVE  /\ Among(s, S) \in Seq(A)
         /\ \E h : Kept(s, S, Len(s), Among(s, S), h)
<1>1. PICK g : g = AmongBody(s, S, g) /\ Among(s, S) = g[DOMAIN s]
  BY AmongIsFold
<1> DEFINE Fine(n) == g[1..n] \in Seq(A) /\ \E h : Kept(s, S, n, g[1..n], h)
           N == { n \in Nat : n <= Len(s) /\ ~Fine(n) }
<1>2. Len(s) \in Nat /\ DOMAIN s = 1..Len(s)
  OBVIOUS
<1>3. Fine(0)
  <2>1. 1..0 = {} /\ {} \in SUBSET DOMAIN s
    OBVIOUS
  <2>2. g[1..0] = <<>>
    BY <1>1, <2>1 DEF AmongBody
  <2>3. Kept(s, S, 0, <<>>, <<>>)
    BY KeptNone
  <2>4. <<>> \in Seq(A)
    OBVIOUS
  <2> QED
    BY <2>2, <2>3, <2>4
<1>4. ASSUME NEW n \in Nat, n + 1 <= Len(s), Fine(n) PROVE Fine(n + 1)
  <2> DEFINE T == 1..(n + 1)
             r == g[1..n]
  <2>1. T \in SUBSET DOMAIN s /\ T # {} /\ n + 1 \in T /\ n + 1 \in DOMAIN s
    <3>1. n + 1 \in T /\ n + 1 \in 1..Len(s)
      BY <1>2, <1>4
    <3>2. \A i \in T : i \in 1..Len(s)
      BY <1>2, <1>4
    <3> HIDE DEF T
    <3> QED
      BY <1>2, <3>1, <3>2
  <2>2. Max(T) = n + 1
    <3>1. Max(T) \in T /\ \A y \in T : y <= Max(T)
      <4>1. n + 1 \in Nat /\ T \subseteq 1..(n + 1)
        OBVIOUS
      <4> HIDE DEF T
      <4> QED
        BY <2>1, <4>1, Greatest
    <3>2. Max(T) \in Int /\ n + 1 <= Max(T) /\ Max(T) <= n + 1
      BY <2>1, <3>1
    <3> QED
      BY <3>2
  <2>3. T \ {n + 1} = 1..n
    OBVIOUS
  <2>4. g[T] = IF s[n + 1] \in S THEN Append(r, s[n + 1]) ELSE r
    BY <1>1, <2>1, <2>2, <2>3 DEF AmongBody
  <2>5. PICK h : Kept(s, S, n, r, h)
    BY <1>4
  <2>6. r \in Seq(A) /\ s[n + 1] \in A
    BY <1>4, <2>1
  <2> HIDE DEF T, r
  <2>7. CASE s[n + 1] \in S
    <3>1. Append(r, s[n + 1]) \in Seq(A)
      BY <2>6
    <3>2. \E f : Kept(s, S, n + 1, Append(r, s[n + 1]), f)
      BY <2>1, <2>5, <2>6, <2>7, KeptOne
    <3> QED
      BY <2>4, <2>7, <3>1, <3>2 DEF T
  <2>8. CASE s[n + 1] \notin S
    BY <2>4, <2>5, <2>6, <2>8, KeptNot DEF T
  <2> QED
    BY <2>7, <2>8
<1> HIDE DEF Fine
<1>5. N = {}
  <2> SUFFICES ASSUME N # {} PROVE FALSE
    OBVIOUS
  <2>1. N \subseteq Nat
    OBVIOUS
  <2> HIDE DEF N
  <2>2. PICK n \in N : \A m \in N : n <= m
    BY <2>1, Least
  <2> USE DEF N
  <2>3. n # 0 /\ n \in Nat /\ n <= Len(s) /\ ~Fine(n)
    BY <1>3, <2>2
  <2>4. PICK m \in Nat : n = m + 1
    <3>1. n - 1 \in Nat /\ n = (n - 1) + 1
      BY <2>3
    <3> QED
      BY <3>1
  <2>5. m \notin N /\ m <= Len(s)
    BY <1>2, <2>2, <2>3, <2>4
  <2> QED
    BY <1>4, <2>3, <2>4, <2>5
<1>6. Fine(Len(s))
  BY <1>2, <1>5
<1> QED
  BY <1>1, <1>2, <1>6 DEF Fine

(* What is in it, and that it has no repetitions if the whole has none.    *)
LEMMA AmongFacts ==
  ASSUME NEW A, NEW s \in Seq(A), NEW S
  PROVE  /\ Among(s, S) \in Seq(A)
         /\ Range(Among(s, S)) = Range(s) \cap S
         /\ IsInjective(s) => IsInjective(Among(s, S))
<1> DEFINE r == Among(s, S)
<1>1. r \in Seq(A) /\ \E h : Kept(s, S, Len(s), r, h)
  BY AmongKept
<1> HIDE DEF r
<1>2. PICK h : Kept(s, S, Len(s), r, h)
  BY <1>1
<1>3. DOMAIN s = 1..Len(s) /\ DOMAIN r = 1..Len(r) /\ Len(r) \in Nat
  BY <1>1
<1>4. Range(r) = Range(s) \cap S
  BY <1>2, <1>3 DEF Kept, Range
<1>5. ASSUME IsInjective(s), NEW i \in DOMAIN r, NEW j \in DOMAIN r, r[i] = r[j] PROVE i = j
  <2>1. h[i] = h[j] /\ h[i] \in 1..Len(s) /\ h[j] \in 1..Len(s)
    BY <1>2, <1>3, <1>5 DEF Kept, IsInjective
  <2>2. ~(i < j) /\ ~(j < i)
    BY <1>2, <2>1 DEF Kept
  <2> QED
    BY <1>3, <2>2
<1> QED
  BY <1>1, <1>4, <1>5 DEF r, IsInjective

(* Without: what is not in S, and nothing twice that was there once.       *)
LEMMA WithoutFacts ==
  ASSUME NEW A, NEW s \in Seq(A), NEW S
  PROVE  /\ Without(s, S) \in Seq(A)
         /\ Range(Without(s, S)) = Range(s) \ S
         /\ IsInjective(s) => IsInjective(Without(s, S))
  BY AmongFacts DEF Without

-----------------------------------------------------------------------------
(* What holds of the queues.                                               *)

(* What the queues are made of.  D is what is being executed, W what has   *)
(* just been taken from one queue and is not in another one yet.           *)
Maps == UNION { [S -> Entry] : S \in SUBSET Pids }

QType == [map : Maps, first : Seq(Pids), low : Seq(Pids), wait : Seq(Pids), sem : Seq(Pids),
          queued : [Objs -> Int], count : Int, halted : SUBSET Things, ub : BOOLEAN]

(* What is linked into one of the four lists.                              *)
InQueues(k) == Range(k.first) \cup Range(k.low) \cup Range(k.wait) \cup Range(k.sem)

(* Every entry is once in one queue.                                       *)
Apart(k) ==
  /\ IsInjective(k.first) /\ IsInjective(k.low) /\ IsInjective(k.wait) /\ IsInjective(k.sem)
  /\ Range(k.first) \cap Range(k.low) = {}
  /\ Range(k.first) \cap Range(k.wait) = {}
  /\ Range(k.first) \cap Range(k.sem) = {}
  /\ Range(k.low) \cap Range(k.wait) = {}
  /\ Range(k.low) \cap Range(k.sem) = {}
  /\ Range(k.wait) \cap Range(k.sem) = {}

(* queue_map holds what is in the queues and what is in C, and no more.    *)
Held(k, C) == C \cap InQueues(k) = {} /\ DOMAIN k.map = InQueues(k) \cup C

(* An entry that waits on the semaphore is not halted: @halt/pid frees it. *)
SemInv(k) ==
  \A p \in DOMAIN k.map : p \in Range(k.sem) => k.map[p].attr /\ k.map[p].executor \in Objs

(* The wait queue is sorted by due time.                                   *)
Later(k, p, r) == k.map[p].due <= k.map[r].due

InOrder(k, s) ==
  \A i \in DOMAIN s : \A j \in DOMAIN s : i < j => Later(k, s[i], s[j])

Ordered(k) == InOrder(k, k.wait)

(* The semaphore's attribute counts at least those that wait.              *)
Counted(k) == k.sem # <<>> => k.count >= Len(k.sem)

Sound(k, C) == k \in QType /\ Apart(k) /\ Held(k, C) /\ SemInv(k) /\ Ordered(k) /\ Counted(k)

(* The entries that things in S still have to pay back, and what the QUEUE *)
(* attributes say of them: an attribute of one's own pays for one's own.   *)
Alive(k, D, S) == { p \in DOMAIN k.map : p \notin D /\ k.map[p].executor \in S }

Paid(k, D) ==
  /\ \A x \in Objs : k.queued[x] <= Quota
  /\ Cardinality(Alive(k, D, Objs)) <= SumFunction(k.queued)
  /\ ~ownerQueues => \A x \in Things : Cardinality(Alive(k, D, {x})) <= k.queued[x]

(* All of it, at any point within a command or do_second().                *)
Good(k, W, D) == Sound(k, W \cup D) /\ Paid(k, D)

Executing == {cur} \ {Nothing}

(* The inductive invariant; nothing is known of the queues after a read of *)
(* what was freed.                                                         *)
IInv ==
  /\ ownerQueues \in BOOLEAN
  /\ cur \in Pids \cup {Nothing}
  /\ IF q.ub THEN q = Undefined ELSE Good(q, {}, Executing)

(* The assumptions, and what follows at once.                              *)
LEMMA Basics ==
  /\ MaxPid \in Nat /\ Quota \in Nat /\ MaxWait \in Nat /\ MaxWait > 0
  /\ IsFiniteSet(Pids) /\ Cardinality(Pids) = MaxPid /\ Pids \subseteq Nat
  /\ IsFiniteSet(Objs) /\ Player \in Objs /\ EventHandler \in Objs /\ Things \subseteq Objs
  /\ Player \notin Things /\ Nothing \notin Objs /\ Nothing \notin Pids
  /\ NoTime \in Due /\ 0 \in Due /\ Due \subseteq Int /\ \A d \in Due : NoTime <= d
  /\ \A x \in Objs : Key(x) \in Objs
<1>1. /\ MaxPid \in Nat /\ Quota \in Nat /\ MaxWait \in Nat /\ MaxWait > 0
      /\ EventHandler \in Things /\ Player \notin Things /\ IsFiniteSet(Things)
      /\ Nothing \notin Things \cup {Player} \cup 1..MaxPid
  BY CommandQueueAssumption
<1>2. IsFiniteSet(1..MaxPid) /\ Cardinality(1..MaxPid) = MaxPid
  <2>1. IsFiniteSet(1..MaxPid) /\ Cardinality(1..MaxPid) = IF 1 > MaxPid THEN 0 ELSE MaxPid - 1 + 1
    BY <1>1, FS_Interval
  <2>2. (IF 1 > MaxPid THEN 0 ELSE MaxPid - 1 + 1) = MaxPid
    BY <1>1
  <2> QED
    BY <2>1, <2>2
<1>3. IsFiniteSet(Things \cup {Player})
  BY <1>1, FS_AddElement
<1>4. NoTime \in Due /\ 0 \in Due /\ Due \subseteq Int /\ \A d \in Due : NoTime <= d
  BY <1>1 DEF NoTime, Due
<1>5. Pids \subseteq Nat
  BY <1>1 DEF Pids
<1> QED
  BY <1>1, <1>2, <1>3, <1>4, <1>5 DEF Pids, Objs, Key

(* Entries by their pids.                                                  *)
LEMMA MapType ==
  ASSUME NEW m, DOMAIN m \subseteq Pids, m = [p \in DOMAIN m |-> m[p]],
         \A p \in DOMAIN m : m[p] \in Entry
  PROVE  m \in Maps
  BY DEF Maps

(* The entries are finitely many, and each is of the type of an entry.     *)
LEMMA MapFacts ==
  ASSUME NEW m \in Maps
  PROVE  /\ DOMAIN m \subseteq Pids /\ m = [p \in DOMAIN m |-> m[p]]
         /\ \A p \in DOMAIN m : m[p] \in Entry
         /\ IsFiniteSet(DOMAIN m)
<1>1. /\ DOMAIN m \subseteq Pids /\ m = [p \in DOMAIN m |-> m[p]]
      /\ \A p \in DOMAIN m : m[p] \in Entry
  BY DEF Maps
<1> QED
  BY <1>1, Basics, FS_Subset

-----------------------------------------------------------------------------
(* The counters.                                                           *)

(* The sum of the QUEUE attributes, when one of them changes.              *)
LEMMA SumQueued ==
  ASSUME NEW f \in [Objs -> Int], NEW g \in [Objs -> Int], NEW y \in Objs,
         \A x \in Objs : x # y => g[x] = f[x]
  PROVE  /\ SumFunction(f) \in Int
         /\ SumFunction(g) = SumFunction(f) - f[y] + g[y]
<1>1. DOMAIN f = Objs /\ DOMAIN g = Objs /\ IsFiniteSet(Objs)
  BY Basics
<1>2. (\A x \in Objs : f[x] \in Int) /\ g[y] \in Int /\ \A x \in Objs \ {y} : g[x] = f[x]
  OBVIOUS
<1>3. /\ SumFunctionOnSet(f, Objs) \in Int
      /\ SumFunctionOnSet(g, Objs) = SumFunctionOnSet(f, Objs) - f[y] + g[y]
  BY <1>1, <1>2, SumChanged
<1> QED
  BY <1>1, <1>3 DEF SumFunction

(* A counter each for the entries of a set, by their keys.                 *)
Charged(f, R, key) == [x \in Objs |-> f[x] - Cardinality({ p \in R : key[p] = x })]

(* The sum of the QUEUE attributes, when each entry of R is given back.    *)
LEMMA SumParts ==
  ASSUME NEW f \in [Objs -> Int], NEW R, IsFiniteSet(R), NEW key \in [R -> Objs],
         NEW g, g = Charged(f, R, key)
  PROVE  /\ g \in [Objs -> Int]
         /\ SumFunction(g) = SumFunction(f) - Cardinality(R)
<1> DEFINE Of(T, x) == { p \in T : key[p] = x }
           Less(T) == [x \in Objs |-> f[x] - Cardinality(Of(T, x))]
           X == { T \in SUBSET R : SumFunction(Less(T)) = SumFunction(f) - Cardinality(T) }
<1>1. \A T \in SUBSET R : /\ IsFiniteSet(T) /\ Cardinality(T) \in Nat
                          /\ \A x \in Objs : IsFiniteSet(Of(T, x)) /\ Cardinality(Of(T, x)) \in Nat
  <2> SUFFICES ASSUME NEW T \in SUBSET R
               PROVE  /\ IsFiniteSet(T) /\ Cardinality(T) \in Nat
                      /\ \A x \in Objs : IsFiniteSet(Of(T, x)) /\ Cardinality(Of(T, x)) \in Nat
    OBVIOUS
  <2>1. IsFiniteSet(T) /\ \A x \in Objs : Of(T, x) \in SUBSET T
    BY FS_Subset
  <2> HIDE DEF Of
  <2> QED
    BY <2>1, FS_Subset, FS_CardinalityType
<1>2. \A T \in SUBSET R : Less(T) \in [Objs -> Int]
  <2> SUFFICES ASSUME NEW T \in SUBSET R PROVE Less(T) \in [Objs -> Int]
    OBVIOUS
  <2> HIDE DEF Of
  <2>1. \A x \in Objs : Cardinality(Of(T, x)) \in Nat
    BY <1>1
  <2>2. \A x \in Objs : f[x] - Cardinality(Of(T, x)) \in Int
    BY <2>1
  <2> QED
    BY <2>2
<1>3. SumFunction(f) \in Int
  BY Basics, SumQueued
<1>4. {} \in X
  <2>1. Cardinality({}) = 0
    BY FS_EmptySet
  <2>2. \A x \in Objs : Of({}, x) = {}
    OBVIOUS
  <2>3. \A x \in Objs : f[x] - 0 = f[x]
    OBVIOUS
  <2>4. Less({}) = f
    BY <2>1, <2>2, <2>3
  <2>5. SumFunction(Less({})) = SumFunction(f) - Cardinality({})
    BY <1>3, <2>1, <2>4
  <2> QED
    BY <2>5
<1>5. ASSUME NEW T \in SUBSET R, T # {}, \A a \in T : T \ {a} \in X PROVE T \in X
  <2>1. PICK a \in T : TRUE
    BY <1>5
  <2> DEFINE U == T \ {a}
             y == key[a]
  <2>2. U \in SUBSET R /\ y \in Objs
    OBVIOUS
  <2>3. SumFunction(Less(U)) = SumFunction(f) - Cardinality(U)
    BY <1>5
  <2>4. Cardinality(U) = Cardinality(T) - 1
    BY <1>1, FS_RemoveElement
  <2>5. \A x \in Objs : x # y => Of(T, x) = Of(U, x)
    OBVIOUS
  <2>6. Of(U, y) = Of(T, y) \ {a} /\ a \in Of(T, y)
    OBVIOUS
  <2> HIDE DEF U, y, Of
  <2>7. Cardinality(Of(U, y)) = Cardinality(Of(T, y)) - 1
    BY <1>1, <2>2, <2>6, FS_RemoveElement
  <2>8. /\ Less(T) \in [Objs -> Int] /\ Less(U) \in [Objs -> Int]
        /\ \A x \in Objs : x # y => Less(T)[x] = Less(U)[x]
    BY <1>2, <2>2, <2>5
  <2>9. Less(T)[y] = f[y] - Cardinality(Of(T, y)) /\ Less(U)[y] = f[y] - Cardinality(Of(U, y))
    BY <2>2
  <2> HIDE DEF Less
  <2>10. SumFunction(Less(T)) = SumFunction(Less(U)) - Less(U)[y] + Less(T)[y]
    BY <2>2, <2>8, SumQueued
  <2>11. f[y] \in Int /\ Cardinality(Of(T, y)) \in Nat /\ Cardinality(T) \in Nat
    BY <1>1, <2>2
  <2>12. Less(T)[y] = Less(U)[y] - 1 /\ Less(U)[y] \in Int
    BY <2>7, <2>9, <2>11
  <2>13. SumFunction(Less(T)) = SumFunction(f) - Cardinality(T)
    BY <1>3, <2>3, <2>4, <2>10, <2>11, <2>12
  <2> QED
    BY <2>13
<1> HIDE DEF X
<1>6. R \in X
  BY <1>4, <1>5, Subsets
<1>7. g = Less(R)
  BY DEF Charged
<1> QED
  BY <1>2, <1>6, <1>7 DEF X

(* The live entries.                                                       *)
LEMMA AliveFacts ==
  ASSUME NEW k \in QType, NEW D, NEW S
  PROVE  /\ Alive(k, D, S) \subseteq DOMAIN k.map
         /\ IsFiniteSet(Alive(k, D, S)) /\ Cardinality(Alive(k, D, S)) \in Nat
<1>1. k.map \in Maps
  BY DEF QType
<1>2. IsFiniteSet(DOMAIN k.map) /\ Alive(k, D, S) \in SUBSET DOMAIN k.map
  BY <1>1, MapFacts DEF Alive
<1>3. IsFiniteSet(Alive(k, D, S))
  BY <1>2, FS_Subset
<1> QED
  BY <1>2, <1>3, FS_CardinalityType

(* No more live entries than there were, but for those in R, and R is      *)
(* taken off one counter.                                                  *)
Fewer(k, D, l, E, y, R) ==
  /\ R \in SUBSET Alive(k, D, Objs)
  /\ \A x \in Objs : x # y => l.queued[x] = k.queued[x]
  /\ l.queued[y] = k.queued[y] - Cardinality(R)
  /\ ~ownerQueues /\ y \in Things => R \subseteq Alive(k, D, {y})
  /\ \A S \in SUBSET Objs : Alive(l, E, S) \subseteq Alive(k, D, S) \ R

(* Who gives back as much as it has entries less stays within its quota.   *)
LEMMA PaidLess ==
  ASSUME NEW k \in QType, NEW D, Paid(k, D), NEW l \in QType, NEW E, NEW y \in Objs,
         NEW R, Fewer(k, D, l, E, y, R)
  PROVE  Paid(l, E)
<1> /\ R \in SUBSET Alive(k, D, Objs)
    /\ \A x \in Objs : x # y => l.queued[x] = k.queued[x]
    /\ l.queued[y] = k.queued[y] - Cardinality(R)
    /\ ~ownerQueues /\ y \in Things => R \subseteq Alive(k, D, {y})
    /\ \A S \in SUBSET Objs : Alive(l, E, S) \subseteq Alive(k, D, S) \ R
  BY DEF Fewer
<1>1. k.queued \in [Objs -> Int] /\ l.queued \in [Objs -> Int] /\ Quota \in Nat /\ Things \subseteq Objs
  BY Basics DEF QType
<1>2. IsFiniteSet(R) /\ Cardinality(R) \in Nat
  BY AliveFacts, FS_Subset, FS_CardinalityType
<1>3. \A x \in Objs : k.queued[x] \in Int /\ l.queued[x] \in Int /\ l.queued[x] <= k.queued[x]
  BY <1>1, <1>2
<1>4. \A x \in Objs : l.queued[x] <= Quota
  <2>1. \A x \in Objs : k.queued[x] <= Quota
    BY DEF Paid
  <2> QED
    BY <1>1, <1>3, <2>1
<1>5. ASSUME NEW S \in SUBSET Objs, R \subseteq Alive(k, D, S)
      PROVE  Cardinality(Alive(l, E, S)) <= Cardinality(Alive(k, D, S)) - Cardinality(R)
  <2> DEFINE B == Alive(k, D, S)
             C == Alive(l, E, S)
  <2>1. IsFiniteSet(B) /\ IsFiniteSet(C) /\ Cardinality(B) \in Nat /\ Cardinality(C) \in Nat
    BY AliveFacts
  <2>2. C \cup R \in SUBSET B /\ C \cap R = {}
    BY <1>5
  <2> HIDE DEF B, C
  <2>3. Cardinality(C \cup R) = Cardinality(C) + Cardinality(R) - Cardinality(C \cap R)
    BY <1>2, <2>1, FS_Union
  <2>4. Cardinality(C \cap R) = 0
    BY <2>2, FS_EmptySet
  <2>5. Cardinality(C \cup R) <= Cardinality(B)
    BY <2>1, <2>2, FS_Subset
  <2>6. Cardinality(C) <= Cardinality(B) - Cardinality(R)
    BY <1>2, <2>1, <2>3, <2>4, <2>5
  <2> QED
    BY <2>6 DEF B, C
<1>6. \A S \in SUBSET Objs :
        /\ Cardinality(Alive(l, E, S)) \in Nat /\ Cardinality(Alive(k, D, S)) \in Nat
        /\ Cardinality(Alive(l, E, S)) <= Cardinality(Alive(k, D, S))
  <2> SUFFICES ASSUME NEW S \in SUBSET Objs
               PROVE  /\ Cardinality(Alive(l, E, S)) \in Nat /\ Cardinality(Alive(k, D, S)) \in Nat
                      /\ Cardinality(Alive(l, E, S)) <= Cardinality(Alive(k, D, S))
    OBVIOUS
  <2>1. Alive(l, E, S) \in SUBSET Alive(k, D, S)
    OBVIOUS
  <2>2. IsFiniteSet(Alive(k, D, S))
    BY AliveFacts
  <2> QED
    BY <2>1, <2>2, AliveFacts, FS_Subset
<1>7. Cardinality(Alive(l, E, Objs)) <= SumFunction(l.queued)
  <2>1. SumFunction(k.queued) \in Int /\ SumFunction(l.queued) = SumFunction(k.queued) - k.queued[y] + l.queued[y]
    BY <1>1, SumQueued
  <2>2. SumFunction(l.queued) = SumFunction(k.queued) - Cardinality(R)
    BY <1>2, <1>3, <2>1
  <2>3. Cardinality(Alive(k, D, Objs)) <= SumFunction(k.queued)
    BY DEF Paid
  <2>4. Cardinality(Alive(l, E, Objs)) <= Cardinality(Alive(k, D, Objs)) - Cardinality(R)
    BY <1>5
  <2> QED
    BY <1>2, <1>6, <2>1, <2>2, <2>3, <2>4
<1>8. ASSUME ~ownerQueues, NEW x \in Things
      PROVE  Cardinality(Alive(l, E, {x})) <= l.queued[x]
  <2>1. Cardinality(Alive(k, D, {x})) <= k.queued[x] /\ x \in Objs
    BY <1>1, <1>8 DEF Paid
  <2>2. CASE x = y
    <3>1. Cardinality(Alive(l, E, {x})) <= Cardinality(Alive(k, D, {x})) - Cardinality(R)
      BY <1>5, <1>8, <2>2
    <3> QED
      BY <1>2, <1>3, <1>6, <2>1, <2>2, <3>1
  <2>3. CASE x # y
    <3>1. l.queued[x] = k.queued[x]
      BY <2>1, <2>3
    <3> QED
      BY <1>3, <1>6, <2>1, <3>1
  <2> QED
    BY <2>2, <2>3
<1> QED
  BY <1>4, <1>7, <1>8 DEF Paid

(* No more live entries than there were, and the same counters.            *)
LEMMA PaidSame ==
  ASSUME NEW k \in QType, NEW D, Paid(k, D), NEW l \in QType, NEW E,
         l.queued = k.queued, \A S \in SUBSET Objs : Alive(l, E, S) \subseteq Alive(k, D, S)
  PROVE  Paid(l, E)
<1> DEFINE R == {}
<1>1. Player \in Objs /\ k.queued[Player] \in Int
  BY Basics DEF QType
<1>2. Cardinality(R) = 0
  BY FS_EmptySet
<1>3. k.queued[Player] = k.queued[Player] - Cardinality(R)
  BY <1>1, <1>2
<1>4. /\ R \in SUBSET Alive(k, D, Objs)
      /\ \A x \in Objs : l.queued[x] = k.queued[x]
      /\ R \subseteq Alive(k, D, {Player})
      /\ \A S \in SUBSET Objs : Alive(l, E, S) \subseteq Alive(k, D, S) \ R
  OBVIOUS
<1> HIDE DEF R
<1>5. l.queued[Player] = k.queued[Player] - Cardinality(R)
  BY <1>3
<1>6. Fewer(k, D, l, E, Player, R)
  BY <1>4, <1>5 DEF Fewer
<1> QED
  BY <1>1, <1>6, PaidLess

(* One more live entry, of x, and one more on its counter.                 *)
More(k, D, l, x, p) ==
  /\ k.queued[Key(x)] + 1 <= Quota
  /\ \A y \in Objs : y # Key(x) => l.queued[y] = k.queued[y]
  /\ l.queued[Key(x)] = k.queued[Key(x)] + 1
  /\ \A S \in SUBSET Objs :
       \A r \in Alive(l, D, S) : r \in Alive(k, D, S) \/ (x \in S /\ r = p)

(* One entry more is paid for, if the attribute is one more.               *)
LEMMA PaidMore ==
  ASSUME NEW k \in QType, NEW D, Paid(k, D), NEW l \in QType, NEW x \in Objs, NEW p,
         More(k, D, l, x, p)
  PROVE  Paid(l, D)
<1> /\ k.queued[Key(x)] + 1 <= Quota
    /\ \A y \in Objs : y # Key(x) => l.queued[y] = k.queued[y]
    /\ l.queued[Key(x)] = k.queued[Key(x)] + 1
    /\ \A S \in SUBSET Objs :
         \A r \in Alive(l, D, S) : r \in Alive(k, D, S) \/ (x \in S /\ r = p)
  BY DEF More
<1>1. /\ k.queued \in [Objs -> Int] /\ l.queued \in [Objs -> Int] /\ Quota \in Nat
      /\ Things \subseteq Objs /\ Key(x) \in Objs
  BY Basics DEF QType
<1>2. ASSUME NEW S \in SUBSET Objs
      PROVE  /\ Cardinality(Alive(k, D, S)) \in Nat /\ Cardinality(Alive(l, D, S)) \in Nat
             /\ Cardinality(Alive(l, D, S)) <= Cardinality(Alive(k, D, S)) + 1
             /\ x \notin S => Cardinality(Alive(l, D, S)) <= Cardinality(Alive(k, D, S))
  <2> DEFINE B == Alive(k, D, S)
             C == Alive(l, D, S)
  <2>1. IsFiniteSet(B) /\ Cardinality(B) \in Nat /\ Cardinality(C) \in Nat
    BY AliveFacts
  <2>2. C \in SUBSET (B \cup {p}) /\ (x \notin S => C \in SUBSET B)
    OBVIOUS
  <2> HIDE DEF B, C
  <2>3. IsFiniteSet(B \cup {p}) /\ Cardinality(B \cup {p}) <= Cardinality(B) + 1
    <3>1. /\ IsFiniteSet(B \cup {p})
          /\ Cardinality(B \cup {p}) = IF p \in B THEN Cardinality(B) ELSE Cardinality(B) + 1
      BY <2>1, FS_AddElement
    <3> QED
      BY <2>1, <3>1
  <2>4. Cardinality(C) <= Cardinality(B \cup {p}) /\ Cardinality(B \cup {p}) \in Nat
    BY <2>2, <2>3, FS_Subset, FS_CardinalityType
  <2>5. x \notin S => Cardinality(C) <= Cardinality(B)
    BY <2>1, <2>2, FS_Subset
  <2>6. Cardinality(C) <= Cardinality(B) + 1
    BY <2>1, <2>3, <2>4
  <2> QED
    BY <2>1, <2>5, <2>6 DEF B, C
<1>3. \A y \in Objs : k.queued[y] \in Int /\ l.queued[y] \in Int /\ k.queued[y] <= l.queued[y]
  BY <1>1
<1>4. \A y \in Objs : l.queued[y] <= Quota
  BY <1>1 DEF Paid
<1>5. Cardinality(Alive(l, D, Objs)) <= SumFunction(l.queued)
  <2>1. SumFunction(k.queued) \in Int
        /\ SumFunction(l.queued) = SumFunction(k.queued) - k.queued[Key(x)] + l.queued[Key(x)]
    BY <1>1, SumQueued
  <2>2. SumFunction(l.queued) = SumFunction(k.queued) + 1
    BY <1>1, <1>3, <2>1
  <2>3. Cardinality(Alive(k, D, Objs)) <= SumFunction(k.queued)
    BY DEF Paid
  <2> QED
    BY <1>2, <2>1, <2>2, <2>3
<1>6. ASSUME ~ownerQueues, NEW y \in Things
      PROVE  Cardinality(Alive(l, D, {y})) <= l.queued[y]
  <2>1. Cardinality(Alive(k, D, {y})) <= k.queued[y] /\ y \in Objs
    BY <1>1, <1>6 DEF Paid
  <2>2. CASE x = y
    <3>1. Key(x) = x
      BY <1>6 DEF Key
    <3>2. l.queued[y] = k.queued[y] + 1
      BY <2>2, <3>1
    <3> QED
      BY <1>2, <1>3, <2>1, <3>2
  <2>3. CASE x # y
    <3>1. Cardinality(Alive(l, D, {y})) <= Cardinality(Alive(k, D, {y}))
      BY <1>2, <2>1, <2>3
    <3> QED
      BY <1>2, <1>3, <2>1, <3>1
  <2> QED
    BY <2>2, <2>3
<1> QED
  BY <1>4, <1>5, <1>6 DEF Paid

-----------------------------------------------------------------------------
(* The functions that the commands share.                                  *)

(* What Good says of the queues' types and contents.                       *)
LEMMA GoodFacts ==
  ASSUME NEW k, NEW W, NEW D, Good(k, W, D)
  PROVE  /\ k \in QType /\ k.map \in Maps /\ DOMAIN k.map \subseteq Pids
         /\ \A p \in DOMAIN k.map : k.map[p] \in Entry
         /\ k.first \in Seq(Pids) /\ k.low \in Seq(Pids)
         /\ k.wait \in Seq(Pids) /\ k.sem \in Seq(Pids)
         /\ k.queued \in [Objs -> Int] /\ k.count \in Int
         /\ Range(k.first) \subseteq DOMAIN k.map /\ Range(k.low) \subseteq DOMAIN k.map
         /\ Range(k.wait) \subseteq DOMAIN k.map /\ Range(k.sem) \subseteq DOMAIN k.map
         /\ W \subseteq DOMAIN k.map /\ D \subseteq DOMAIN k.map
<1>1. k \in QType
  BY DEF Good, Sound
<1>2. k.map \in Maps
  BY <1>1 DEF QType
<1> QED
  BY <1>1, <1>2, MapFacts DEF Good, Sound, Held, InQueues, QType

(* Where nothing is between two queues.                                    *)
LEMMA AtRest ==
  ASSUME NEW k, NEW D
  PROVE  Good(k, {}, D) <=> /\ k \in QType /\ Apart(k) /\ Held(k, D) /\ SemInv(k)
                            /\ Ordered(k) /\ Counted(k) /\ Paid(k, D)
<1>1. {} \cup D = D
  OBVIOUS
<1> QED
  BY <1>1 DEF Good, Sound

(* What is left of a sorted queue is sorted.                               *)
LEMMA OrderAmong ==
  ASSUME NEW k, NEW A, NEW s \in Seq(A), NEW S, InOrder(k, s)
  PROVE  InOrder(k, Among(s, S)) /\ InOrder(k, Without(s, S))
<1>1. ASSUME NEW T PROVE InOrder(k, Among(s, T))
  <2> DEFINE r == Among(s, T)
  <2>1. r \in Seq(A) /\ \E h : Kept(s, T, Len(s), r, h)
    BY AmongKept
  <2> HIDE DEF r
  <2>2. PICK h : Kept(s, T, Len(s), r, h)
    BY <2>1
  <2>3. DOMAIN s = 1..Len(s)
    OBVIOUS
  <2>4. \A i, j \in DOMAIN r : i < j => Later(k, r[i], r[j])
    BY <2>2, <2>3 DEF Kept, InOrder
  <2> QED
    BY <2>4 DEF r, InOrder
<1> QED
  BY <1>1 DEF Without

(* A queue stays sorted if no two of its entries change places in time.    *)
LEMMA OrderSame ==
  ASSUME NEW k, NEW l, NEW s, InOrder(k, s),
         \A p, r \in Range(s) : Later(k, p, r) => Later(l, p, r)
  PROVE  InOrder(l, s)
  BY DEF InOrder, Range

(* How many are left.                                                      *)
LEMMA WithoutCount ==
  ASSUME NEW A, NEW s \in Seq(A), IsInjective(s), NEW S, S \subseteq Range(s)
  PROVE  /\ IsFiniteSet(S) /\ Cardinality(S) \in Nat
         /\ Len(Without(s, S)) = Len(s) - Cardinality(S)
<1> DEFINE t == Without(s, S)
           U == Range(s)
           V == Range(t)
<1>1. t \in Seq(A) /\ V = U \ S /\ IsInjective(t)
  BY WithoutFacts
<1>2. IsFiniteSet(U) /\ Cardinality(U) = Len(s)
  BY Counting
<1> HIDE DEF t
<1>3. IsFiniteSet(V) /\ Cardinality(V) = Len(t)
  BY <1>1, Counting
<1>4. IsFiniteSet(S) /\ Cardinality(S) \in Nat
  BY <1>2, FS_Subset, FS_CardinalityType
<1>5. V \cup S = U /\ V \cap S = {}
  BY <1>1
<1> HIDE DEF U, V
<1>6. Cardinality(V \cup S) = Cardinality(V) + Cardinality(S) - Cardinality(V \cap S)
  BY <1>3, <1>4, FS_Union
<1>7. Cardinality(V \cap S) = 0
  BY <1>5, FS_EmptySet
<1>8. Len(t) \in Nat /\ Len(s) \in Nat
  BY <1>1
<1>9. Len(s) = Len(t) + Cardinality(S) - 0
  BY <1>2, <1>3, <1>5, <1>6, <1>7
<1> QED
  BY <1>4, <1>8, <1>9 DEF t

(* What add_to() and free_qentry() leave alone.                            *)
LEMMA AddToFields ==
  ASSUME NEW k \in QType, NEW x \in Objs, NEW n \in Int
  PROVE  /\ AddTo(k, x, n) \in QType
         /\ AddTo(k, x, n).map = k.map /\ AddTo(k, x, n).first = k.first
         /\ AddTo(k, x, n).low = k.low /\ AddTo(k, x, n).wait = k.wait
         /\ AddTo(k, x, n).sem = k.sem /\ AddTo(k, x, n).count = k.count
         /\ AddTo(k, x, n).halted = k.halted
         /\ \A y \in Objs : y # Key(x) => AddTo(k, x, n).queued[y] = k.queued[y]
         /\ AddTo(k, x, n).queued[Key(x)] = k.queued[Key(x)] + n
<1>1. Key(x) \in Objs /\ k.queued \in [Objs -> Int]
  BY Basics DEF QType
<1> DEFINE f == [k.queued EXCEPT ![Key(x)] = k.queued[Key(x)] + n]
<1>2. f \in [Objs -> Int]
  BY <1>1
<1>3. (\A y \in Objs : y # Key(x) => f[y] = k.queued[y]) /\ f[Key(x)] = k.queued[Key(x)] + n
  BY <1>1
<1>4. AddTo(k, x, n) = [k EXCEPT !.queued = f]
  BY <1>1 DEF AddTo, QType
<1> HIDE DEF f
<1> QED
  BY <1>2, <1>3, <1>4 DEF QType

(* free_qentry() takes entries from queue_map and changes nothing else.    *)
LEMMA FreedFields ==
  ASSUME NEW k \in QType, NEW S
  PROVE  /\ Freed(k, S) \in QType
         /\ Freed(k, S).map = [p \in DOMAIN k.map \ S |-> k.map[p]]
         /\ Freed(k, S).first = k.first /\ Freed(k, S).low = k.low
         /\ Freed(k, S).wait = k.wait /\ Freed(k, S).sem = k.sem
         /\ Freed(k, S).count = k.count /\ Freed(k, S).queued = k.queued
         /\ Freed(k, S).halted = k.halted
<1> DEFINE m == [p \in DOMAIN k.map \ S |-> k.map[p]]
<1>1. k.map \in Maps
  BY DEF QType
<1>2. m \in Maps
  <2>1. DOMAIN m \subseteq Pids /\ m = [p \in DOMAIN m |-> m[p]] /\ \A p \in DOMAIN m : m[p] \in Entry
    BY <1>1, MapFacts
  <2> HIDE DEF m
  <2> QED
    BY <2>1, MapType
<1>3. Freed(k, S) = [k EXCEPT !.map = m]
  BY DEF Freed
<1> HIDE DEF m
<1>4. /\ Freed(k, S) \in QType /\ Freed(k, S).map = m
      /\ Freed(k, S).first = k.first /\ Freed(k, S).low = k.low
      /\ Freed(k, S).wait = k.wait /\ Freed(k, S).sem = k.sem
      /\ Freed(k, S).count = k.count /\ Freed(k, S).queued = k.queued
      /\ Freed(k, S).halted = k.halted
  BY <1>2, <1>3 DEF QType
<1> QED
  BY <1>4 DEF m

(* What do_halt() changes.                                                 *)
Victims(k, l, v, running, gone, waiters) ==
  /\ running = { p \in Range(k.first) \cup Range(k.low) : IsVictim(k.map[p].executor, v) }
  /\ gone = { p \in Range(k.wait) : IsVictim(k.map[p].executor, v) }
  /\ waiters = { p \in Range(k.sem) : IsVictim(k.map[p].executor, v) }
  /\ l.first = k.first /\ l.low = k.low
  /\ l.wait = Without(k.wait, gone) /\ l.sem = Without(k.sem, waiters)
  /\ l.count = k.count - Cardinality(waiters)
  /\ DOMAIN l.map = DOMAIN k.map \ (gone \cup waiters)
  /\ \A p \in DOMAIN l.map :
       /\ l.map[p].due = k.map[p].due /\ l.map[p].attr = k.map[p].attr
       /\ l.map[p].executor = IF p \in running THEN Nothing ELSE k.map[p].executor
  /\ \A x \in Objs : x # Key(v) => l.queued[x] = k.queued[x]
  /\ l.queued[Key(v)] = k.queued[Key(v)] - Cardinality(running \cup gone \cup waiters)

(* do_halt(): what it marks, takes from the wait queue and has dequeued.   *)
LEMMA HaltParts ==
  ASSUME NEW k, NEW D, Good(k, {}, D), NEW v \in Objs, NEW stray \in BOOLEAN
  PROVE  /\ DoHalt(k, v, stray) \in QType
         /\ \E running, gone, waiters :
              Victims(k, DoHalt(k, v, stray), v, running, gone, waiters)
<1> DEFINE running == VictimsIn(k, k.first \o k.low, v)
           gone == VictimsIn(k, k.wait, v)
           waiters == VictimsIn(k, k.sem, v)
           marked == [p \in DOMAIN k.map |->
                        IF p \in running THEN [k.map[p] EXCEPT !.executor = Nothing]
                        ELSE k.map[p]]
           R == running \cup gone \cup waiters
           l == DoHalt(k, v, stray)
<1>1. /\ k \in QType /\ k.map \in Maps /\ DOMAIN k.map \subseteq Pids
      /\ \A p \in DOMAIN k.map : k.map[p] \in Entry
      /\ k.first \in Seq(Pids) /\ k.low \in Seq(Pids)
      /\ k.wait \in Seq(Pids) /\ k.sem \in Seq(Pids)
      /\ k.queued \in [Objs -> Int] /\ k.count \in Int
      /\ Range(k.first) \subseteq DOMAIN k.map /\ Range(k.low) \subseteq DOMAIN k.map
      /\ Range(k.wait) \subseteq DOMAIN k.map /\ Range(k.sem) \subseteq DOMAIN k.map
  BY GoodFacts
<1>2. Range(k.first \o k.low) = Range(k.first) \cup Range(k.low)
  BY <1>1, Joined
<1>3. /\ running = { p \in Range(k.first) \cup Range(k.low) : IsVictim(k.map[p].executor, v) }
      /\ gone = { p \in Range(k.wait) : IsVictim(k.map[p].executor, v) }
      /\ waiters = { p \in Range(k.sem) : IsVictim(k.map[p].executor, v) }
  BY <1>2 DEF VictimsIn
<1>4. IsFiniteSet(R) /\ IsFiniteSet(waiters) /\ Cardinality(R) \in Nat /\ Cardinality(waiters) \in Nat
  <2>1. R \in SUBSET Pids /\ waiters \in SUBSET Pids
    BY <1>1, <1>3
  <2> HIDE DEF R, waiters
  <2> QED
    BY <2>1, Basics, FS_Subset, FS_CardinalityType
<1> DEFINE c == Cardinality(waiters)
           n == Cardinality(R)
           w == Without(k.wait, gone)
           s == Without(k.sem, waiters)
<1>5. /\ w \in Seq(Pids) /\ s \in Seq(Pids)
      /\ Range(w) = Range(k.wait) \ gone /\ Range(s) = Range(k.sem) \ waiters
  <2> HIDE DEF gone, waiters
  <2> QED
    BY <1>1, WithoutFacts
<1> DEFINE k1 == [k EXCEPT !.map = marked, !.wait = w, !.sem = s, !.count = k.count - c,
                          !.ub = k.ub \/ stray]
           k2 == Freed(k1, gone \cup waiters)
<1>6. marked \in Maps
  <2>1. \A p \in DOMAIN marked : marked[p] \in Entry
    BY <1>1 DEF Entry
  <2>2. marked = [p \in DOMAIN marked |-> marked[p]] /\ DOMAIN marked = DOMAIN k.map
    OBVIOUS
  <2> HIDE DEF marked
  <2> QED
    BY <1>1, <2>1, <2>2, MapType
<1>7. /\ k1 \in QType /\ k1.map = marked /\ k1.wait = w /\ k1.sem = s /\ k1.count = k.count - c
      /\ k1.first = k.first /\ k1.low = k.low /\ k1.queued = k.queued
  <2>1. k.count - c \in Int /\ (k.ub \/ stray) \in BOOLEAN
    BY <1>1, <1>4
  <2> HIDE DEF marked, w, s, c
  <2> QED
    BY <1>1, <1>5, <1>6, <2>1 DEF QType
<1>8. /\ k2 \in QType /\ k2.map = [p \in DOMAIN marked \ (gone \cup waiters) |-> marked[p]]
      /\ k2.wait = w /\ k2.sem = s /\ k2.count = k.count - c
      /\ k2.first = k.first /\ k2.low = k.low /\ k2.queued = k.queued
  <2> HIDE DEF marked, gone, waiters, k1
  <2> QED
    BY <1>7, FreedFields
<1>9. l = AddTo(k2, v, -n)
  BY DEF DoHalt
<1>10. /\ l \in QType /\ l.map = [p \in DOMAIN marked \ (gone \cup waiters) |-> marked[p]]
       /\ l.wait = w /\ l.sem = s /\ l.count = k.count - c
       /\ l.first = k.first /\ l.low = k.low
       /\ \A x \in Objs : x # Key(v) => l.queued[x] = k.queued[x]
       /\ l.queued[Key(v)] = k.queued[Key(v)] - n
  <2>1. -n \in Int /\ k.queued[Key(v)] \in Int /\ k.queued[Key(v)] + -n = k.queued[Key(v)] - n
    BY <1>1, <1>4, Basics
  <2> DEFINE am == -n
  <2>2. am \in Int /\ k.queued[Key(v)] + am = k.queued[Key(v)] - n
    BY <2>1
  <2>3. l = AddTo(k2, v, am)
    BY <1>9
  <2> HIDE DEF k2, marked, gone, waiters, n, am, l, w, s, c
  <2>4. /\ l \in QType /\ l.map = k2.map
        /\ l.wait = k2.wait /\ l.sem = k2.sem /\ l.count = k2.count
        /\ l.first = k2.first /\ l.low = k2.low
        /\ \A x \in Objs : x # Key(v) => l.queued[x] = k2.queued[x]
        /\ l.queued[Key(v)] = k2.queued[Key(v)] + am
    BY <1>8, <2>2, <2>3, AddToFields
  <2> QED
    BY <1>8, <2>2, <2>4
<1>11. DOMAIN l.map = DOMAIN k.map \ (gone \cup waiters)
  BY <1>10
<1>12. \A p \in DOMAIN l.map :
         /\ l.map[p].due = k.map[p].due /\ l.map[p].attr = k.map[p].attr
         /\ l.map[p].executor = IF p \in running THEN Nothing ELSE k.map[p].executor
  <2>1. \A p \in DOMAIN l.map : p \in DOMAIN k.map /\ l.map[p] = marked[p]
    <3> HIDE DEF l
    <3> QED
      BY <1>10
  <2>2. \A p \in DOMAIN k.map :
          /\ marked[p].due = k.map[p].due /\ marked[p].attr = k.map[p].attr
          /\ marked[p].executor = IF p \in running THEN Nothing ELSE k.map[p].executor
    BY <1>1 DEF Entry
  <2> HIDE DEF l, marked, running
  <2> QED
    BY <2>1, <2>2
<1>13. l.first = k.first /\ l.low = k.low
  BY <1>10
<1> HIDE DEF l, running, gone, waiters
<1>14. Victims(k, l, v, running, gone, waiters)
  BY <1>3, <1>10, <1>11, <1>12, <1>13 DEF Victims, R, w, s, c, n
<1>15. l \in QType
  BY <1>10
<1> QED
  BY <1>14, <1>15 DEF l

(* do_halt().                                                              *)
LEMMA HaltGood ==
  ASSUME NEW k, NEW D, Good(k, {}, D), NEW v \in Objs, NEW stray \in BOOLEAN
  PROVE  Good(DoHalt(k, v, stray), {}, D)
<1>1. /\ k \in QType /\ k.map \in Maps /\ DOMAIN k.map \subseteq Pids
      /\ \A p \in DOMAIN k.map : k.map[p] \in Entry
      /\ k.first \in Seq(Pids) /\ k.low \in Seq(Pids)
      /\ k.wait \in Seq(Pids) /\ k.sem \in Seq(Pids)
      /\ k.queued \in [Objs -> Int] /\ k.count \in Int
      /\ Range(k.first) \subseteq DOMAIN k.map /\ Range(k.low) \subseteq DOMAIN k.map
      /\ Range(k.wait) \subseteq DOMAIN k.map /\ Range(k.sem) \subseteq DOMAIN k.map
  BY GoodFacts
<1>2. PICK l : l = DoHalt(k, v, stray)
  OBVIOUS
<1>3. l \in QType /\ \E running, gone, waiters : Victims(k, l, v, running, gone, waiters)
  BY <1>2, HaltParts
<1>4. PICK running, gone, waiters : Victims(k, l, v, running, gone, waiters)
  BY <1>3
<1>5. PICK R : R = running \cup gone \cup waiters
  OBVIOUS
<1>6. PICK w, s : w = Without(k.wait, gone) /\ s = Without(k.sem, waiters)
  OBVIOUS
<1>7. /\ running = { p \in Range(k.first) \cup Range(k.low) : IsVictim(k.map[p].executor, v) }
      /\ gone = { p \in Range(k.wait) : IsVictim(k.map[p].executor, v) }
      /\ waiters = { p \in Range(k.sem) : IsVictim(k.map[p].executor, v) }
  BY <1>4 DEF Victims
<1>8. /\ l.first = k.first /\ l.low = k.low /\ l.wait = w /\ l.sem = s
      /\ l.count = k.count - Cardinality(waiters)
      /\ DOMAIN l.map = DOMAIN k.map \ (gone \cup waiters)
      /\ \A x \in Objs : x # Key(v) => l.queued[x] = k.queued[x]
      /\ l.queued[Key(v)] = k.queued[Key(v)] - Cardinality(R)
  BY <1>4, <1>5, <1>6 DEF Victims
<1>9. /\ w \in Seq(Pids) /\ s \in Seq(Pids)
      /\ Range(w) = Range(k.wait) \ gone /\ Range(s) = Range(k.sem) \ waiters
      /\ (IsInjective(k.wait) => IsInjective(w)) /\ (IsInjective(k.sem) => IsInjective(s))
  BY <1>1, <1>6, WithoutFacts
<1>10. \A p \in DOMAIN l.map :
         /\ p \in DOMAIN k.map /\ l.map[p].due = k.map[p].due
         /\ l.map[p].attr = k.map[p].attr
         /\ p \notin running => l.map[p].executor = k.map[p].executor
         /\ p \in running => l.map[p].executor = Nothing
  BY <1>4, <1>8 DEF Victims
<1>11. /\ Apart(k) /\ Held(k, D) /\ SemInv(k) /\ Ordered(k) /\ Counted(k) /\ Paid(k, D)
  BY AtRest
<1>12. Apart(l)
  BY <1>8, <1>9, <1>11 DEF Apart
<1>13. Held(l, D)
  <2>1. gone \subseteq Range(k.wait) /\ waiters \subseteq Range(k.sem)
    BY <1>7
  <2> QED
    BY <1>8, <1>9, <1>11, <2>1 DEF Held, InQueues, Apart
<1>14. SemInv(l)
  <2>1. \A p \in Range(l.sem) : p \in Range(k.sem) /\ p \notin running
    BY <1>7, <1>8, <1>9, <1>11 DEF Apart
  <2>2. ASSUME NEW p \in DOMAIN l.map, p \in Range(l.sem)
        PROVE  l.map[p].attr /\ l.map[p].executor \in Objs
    <3>1. p \in Range(k.sem) /\ p \notin running /\ p \in DOMAIN k.map
      BY <1>10, <2>1, <2>2
    <3>2. k.map[p].attr /\ k.map[p].executor \in Objs
      BY <1>11, <3>1 DEF SemInv
    <3> QED
      BY <1>10, <3>1, <3>2
  <2> QED
    BY <2>2 DEF SemInv
<1>15. Ordered(l)
  <2>1. InOrder(k, w)
    BY <1>1, <1>6, <1>11, OrderAmong DEF Ordered
  <2>2. \A p \in Range(w) : p \in DOMAIN l.map
    BY <1>8, <1>13 DEF Held, InQueues
  <2>3. ASSUME NEW p \in Range(w), NEW r \in Range(w), Later(k, p, r) PROVE Later(l, p, r)
    <3>1. l.map[p].due = k.map[p].due /\ l.map[r].due = k.map[r].due
      BY <1>10, <2>2
    <3> QED
      BY <2>3, <3>1 DEF Later
  <2> QED
    BY <1>8, <2>1, <2>3, OrderSame DEF Ordered
<1>16. Counted(l)
  <2>1. waiters \subseteq Range(k.sem) /\ IsInjective(k.sem)
    BY <1>7, <1>11 DEF Apart
  <2>2. Len(s) = Len(k.sem) - Cardinality(waiters) /\ Cardinality(waiters) \in Nat
    BY <1>1, <1>6, <2>1, WithoutCount
  <2>3. s # <<>> => Len(s) > 0
    BY <1>9
  <2>4. s # <<>> => k.sem # <<>>
    BY <1>1, <2>2, <2>3
  <2>5. Len(k.sem) \in Nat
    BY <1>1
  <2> QED
    BY <1>1, <1>8, <1>11, <2>2, <2>4, <2>5 DEF Counted
<1>17. Paid(l, D)
  <2>1. R \in SUBSET Alive(k, D, Objs)
    BY <1>1, <1>5, <1>7, <1>11 DEF Alive, Held, InQueues, IsVictim
  <2>2. ~ownerQueues /\ Key(v) \in Things => R \subseteq Alive(k, D, {Key(v)})
    <3>1. Player \notin Things
      BY Basics
    <3> QED
      BY <2>1, <3>1, <1>5, <1>7 DEF Alive, IsVictim, Key
  <2>3. ASSUME NEW S \in SUBSET Objs PROVE Alive(l, D, S) \subseteq Alive(k, D, S) \ R
    <3> SUFFICES ASSUME NEW p \in Alive(l, D, S) PROVE p \in Alive(k, D, S) /\ p \notin R
      OBVIOUS
    <3>1. p \in DOMAIN l.map /\ p \notin D /\ l.map[p].executor \in S
      BY DEF Alive
    <3>2. p \notin running
      <4>1. Nothing \notin S
        BY Basics
      <4> QED
        BY <1>10, <3>1, <4>1
    <3>3. p \notin gone \cup waiters
      BY <1>8, <3>1
    <3>4. p \in DOMAIN k.map /\ l.map[p].executor = k.map[p].executor
      BY <1>10, <3>1, <3>2
    <3> QED
      BY <1>5, <3>1, <3>2, <3>3, <3>4 DEF Alive
  <2>4. PICK y : y = Key(v)
    OBVIOUS
  <2>5. /\ y \in Objs /\ l.queued[y] = k.queued[y] - Cardinality(R)
        /\ \A x \in Objs : x # y => l.queued[x] = k.queued[x]
        /\ ~ownerQueues /\ y \in Things => R \subseteq Alive(k, D, {y})
    BY <1>8, <2>2, <2>4, Basics
  <2>6. \A S \in SUBSET Objs : Alive(l, D, S) \subseteq Alive(k, D, S) \ R
    BY <2>3
  <2>7. Fewer(k, D, l, D, y, R)
    BY <2>1, <2>5, <2>6 DEF Fewer
  <2> QED
    BY <1>1, <1>3, <1>11, <2>5, <2>7, PaidLess
<1> QED
  BY <1>2, <1>3, <1>12, <1>13, <1>14, <1>15, <1>16, <1>17, AtRest

(* A change of entries that leaves them where they are.                    *)
Adjusted(k, m) ==
  /\ m \in Maps /\ DOMAIN m = DOMAIN k.map
  /\ \A p \in DOMAIN m :
       /\ m[p].attr = k.map[p].attr
       /\ \/ m[p].executor = k.map[p].executor
          \/ m[p].executor = Nothing /\ p \notin Range(k.sem)
  /\ \A p \in Range(k.wait) : \A r \in Range(k.wait) :
       k.map[p].due <= k.map[r].due => m[p].due <= m[r].due

(* Entries that only change as Adjusted says keep what holds.              *)
LEMMA Remapped ==
  ASSUME NEW k, NEW W, NEW D, Good(k, W, D), NEW m, Adjusted(k, m)
  PROVE  Good([k EXCEPT !.map = m], W, D)
<1>1. PICK l : l = [k EXCEPT !.map = m]
  OBVIOUS
<1>2. k \in QType /\ Range(k.wait) \subseteq DOMAIN k.map
  BY GoodFacts
<1>3. /\ l \in QType /\ l.map = m /\ l.first = k.first /\ l.low = k.low /\ l.wait = k.wait
      /\ l.sem = k.sem /\ l.queued = k.queued /\ l.count = k.count
  BY <1>1, <1>2 DEF QType, Adjusted
<1>4. /\ Apart(k) /\ Held(k, W \cup D) /\ SemInv(k) /\ Ordered(k) /\ Counted(k) /\ Paid(k, D)
  BY DEF Good, Sound
<1>5. Apart(l) /\ Counted(l) /\ Held(l, W \cup D)
  BY <1>3, <1>4 DEF Apart, Counted, Held, InQueues, Adjusted
<1>6. SemInv(l)
  BY <1>3, <1>4 DEF SemInv, Adjusted
<1>7. Ordered(l)
  <2>1. \A p, r \in Range(k.wait) : Later(k, p, r) => Later(l, p, r)
    BY <1>2, <1>3 DEF Later, Adjusted
  <2> QED
    BY <1>3, <1>4, <2>1, OrderSame DEF Ordered
<1>8. Paid(l, D)
  <2>1. \A S \in SUBSET Objs : Alive(l, D, S) \subseteq Alive(k, D, S)
    BY <1>3, Basics DEF Alive, Adjusted
  <2> QED
    BY <1>2, <1>3, <1>4, <2>1, PaidSame
<1> QED
  BY <1>1, <1>3, <1>4, <1>5, <1>6, <1>7, <1>8 DEF Good, Sound

(* The semaphore's attribute changes.                                      *)
LEMMA Recounted ==
  ASSUME NEW k, NEW W, NEW D, Good(k, W, D), NEW n \in Int, k.sem # <<>> => n >= Len(k.sem)
  PROVE  Good([k EXCEPT !.count = n], W, D)
<1>1. PICK l : l = [k EXCEPT !.count = n]
  OBVIOUS
<1>2. k \in QType
  BY GoodFacts
<1>3. /\ l \in QType /\ l.map = k.map /\ l.first = k.first /\ l.low = k.low /\ l.wait = k.wait
      /\ l.sem = k.sem /\ l.queued = k.queued /\ l.count = n
  BY <1>1, <1>2 DEF QType
<1>4. /\ Apart(k) /\ Held(k, W \cup D) /\ SemInv(k) /\ Ordered(k) /\ Paid(k, D)
  BY DEF Good, Sound
<1>5. Apart(l) /\ Counted(l) /\ Held(l, W \cup D) /\ SemInv(l)
  BY <1>3, <1>4 DEF Apart, Counted, Held, InQueues, SemInv
<1>6. Ordered(l)
  BY <1>3, <1>4 DEF Ordered, InOrder, Later
<1>7. Paid(l, D)
  BY <1>3, <1>4 DEF Paid, Alive
<1> QED
  BY <1>1, <1>3, <1>5, <1>6, <1>7 DEF Good, Sound

(* The HALT flag changes, or ub.                                           *)
LEMMA Flagged ==
  ASSUME NEW k, NEW W, NEW D, Good(k, W, D), NEW H \in SUBSET Things
  PROVE  Good([k EXCEPT !.halted = H], W, D)
<1>1. PICK l : l = [k EXCEPT !.halted = H]
  OBVIOUS
<1>2. k \in QType
  BY GoodFacts
<1>3. /\ l \in QType /\ l.map = k.map /\ l.first = k.first /\ l.low = k.low /\ l.wait = k.wait
      /\ l.sem = k.sem /\ l.queued = k.queued /\ l.count = k.count
  BY <1>1, <1>2 DEF QType
<1>4. /\ Apart(k) /\ Held(k, W \cup D) /\ SemInv(k) /\ Ordered(k) /\ Counted(k) /\ Paid(k, D)
  BY DEF Good, Sound
<1>5. Apart(l) /\ Counted(l) /\ Held(l, W \cup D) /\ SemInv(l)
  BY <1>3, <1>4 DEF Apart, Counted, Held, InQueues, SemInv
<1>6. Ordered(l)
  BY <1>3, <1>4 DEF Ordered, InOrder, Later
<1>7. Paid(l, D)
  BY <1>3, <1>4 DEF Paid, Alive
<1> QED
  BY <1>1, <1>3, <1>5, <1>6, <1>7 DEF Good, Sound

(* The HALT flag has no part in what holds of the queues.                  *)
LEMMA SetHaltedGood ==
  ASSUME NEW k, NEW D, Good(k, {}, D), NEW x
  PROVE  Good(SetHalted(k, x), {}, D)
<1>1. k.halted \cup ({x} \cap Things) \in SUBSET Things
  BY GoodFacts DEF QType
<1> QED
  BY <1>1, Flagged DEF SetHalted

(* free_qentry() of what is in no queue.                                   *)
LEMMA FreedGood ==
  ASSUME NEW k, NEW W, NEW D, Good(k, W, D), NEW F, F \subseteq W \cup D
  PROVE  Good(Freed(k, F), W \ F, D \ F)
<1>1. PICK l : l = Freed(k, F)
  OBVIOUS
<1>2. k \in QType
  BY GoodFacts
<1>3. /\ l \in QType /\ l.map = [p \in DOMAIN k.map \ F |-> k.map[p]]
      /\ l.first = k.first /\ l.low = k.low /\ l.wait = k.wait
      /\ l.sem = k.sem /\ l.queued = k.queued /\ l.count = k.count
  BY <1>1, <1>2, FreedFields
<1>4. /\ Apart(k) /\ Held(k, W \cup D) /\ SemInv(k) /\ Ordered(k) /\ Counted(k) /\ Paid(k, D)
  BY DEF Good, Sound
<1>5. DOMAIN l.map = DOMAIN k.map \ F /\ \A p \in DOMAIN l.map : l.map[p] = k.map[p]
  BY <1>3
<1>6. Apart(l) /\ Counted(l)
  BY <1>3, <1>4 DEF Apart, Counted
<1>7. Held(l, (W \ F) \cup (D \ F))
  BY <1>3, <1>4, <1>5 DEF Held, InQueues
<1>8. SemInv(l)
  BY <1>3, <1>4, <1>5 DEF SemInv
<1>9. Ordered(l)
  <2>1. \A p \in Range(k.wait) : p \in DOMAIN l.map
    BY <1>3, <1>7 DEF Held, InQueues
  <2>2. \A p, r \in Range(k.wait) : Later(k, p, r) => Later(l, p, r)
    BY <1>5, <2>1 DEF Later
  <2> QED
    BY <1>3, <1>4, <2>2, OrderSame DEF Ordered
<1>10. Paid(l, D \ F)
  <2>1. \A S \in SUBSET Objs : Alive(l, D \ F, S) \subseteq Alive(k, D, S)
    BY <1>5 DEF Alive
  <2>2. PICK E : E = D \ F
    OBVIOUS
  <2> QED
    BY <1>2, <1>3, <1>4, <2>1, <2>2, PaidSame
<1> QED
  BY <1>1, <1>3, <1>6, <1>7, <1>8, <1>9, <1>10 DEF Good, Sound

-----------------------------------------------------------------------------
(* From queue to queue.                                                    *)

(* The run queues get what is in no queue.                                 *)
Requeues(k, a, b, W) ==
  /\ a \in Seq(Pids) /\ b \in Seq(Pids) /\ IsInjective(a) /\ IsInjective(b)
  /\ Range(a) \cap Range(b) = {} /\ Range(a) \cup Range(b) = W

(* Entries that are in no queue may be put behind the run queues.          *)
LEMMA Requeued ==
  ASSUME NEW k, NEW W, NEW D, Good(k, W, D), W \cap D = {}, NEW a, NEW b, Requeues(k, a, b, W)
  PROVE  Good([k EXCEPT !.first = k.first \o a, !.low = k.low \o b], {}, D)
<1>1. PICK l : l = [k EXCEPT !.first = k.first \o a, !.low = k.low \o b]
  OBVIOUS
<1>2. k \in QType /\ k.first \in Seq(Pids) /\ k.low \in Seq(Pids)
  BY GoodFacts
<1>3. /\ a \in Seq(Pids) /\ b \in Seq(Pids) /\ IsInjective(a) /\ IsInjective(b)
      /\ Range(a) \cap Range(b) = {} /\ Range(a) \cup Range(b) = W
  BY DEF Requeues
<1>4. /\ Apart(k) /\ Held(k, W \cup D) /\ SemInv(k) /\ Ordered(k) /\ Counted(k) /\ Paid(k, D)
  BY DEF Good, Sound
<1>5. PICK s, t : s = k.first \o a /\ t = k.low \o b
  OBVIOUS
<1>6. /\ s \in Seq(Pids) /\ Range(s) = Range(k.first) \cup Range(a)
      /\ IsInjective(k.first) /\ Range(k.first) \cap Range(a) = {} => IsInjective(s)
      /\ t \in Seq(Pids) /\ Range(t) = Range(k.low) \cup Range(b)
      /\ IsInjective(k.low) /\ Range(k.low) \cap Range(b) = {} => IsInjective(t)
  BY <1>2, <1>3, <1>5, Joined
<1>7. /\ l \in QType /\ l.map = k.map /\ l.first = s /\ l.low = t /\ l.wait = k.wait
      /\ l.sem = k.sem /\ l.queued = k.queued /\ l.count = k.count
  BY <1>1, <1>2, <1>5, <1>6 DEF QType
<1>8. W \cap InQueues(k) = {}
  BY <1>4 DEF Held
<1>9. Apart(l)
  BY <1>3, <1>4, <1>6, <1>7, <1>8 DEF Apart, InQueues
<1>10. Held(l, D)
  BY <1>3, <1>4, <1>6, <1>7 DEF Held, InQueues
<1>11. SemInv(l) /\ Counted(l)
  BY <1>4, <1>7 DEF SemInv, Counted
<1>12. Ordered(l)
  BY <1>4, <1>7 DEF Ordered, InOrder, Later
<1>13. Paid(l, D)
  BY <1>4, <1>7 DEF Paid, Alive
<1> QED
  BY <1>1, <1>7, <1>9, <1>10, <1>11, <1>12, <1>13, AtRest

(* insert_que().                                                           *)
LEMMA EnqueuedGood ==
  ASSUME NEW k, NEW D, NEW p, Good(k, {p}, D), p \notin D, NEW byPlayer
  PROVE  Good(Enqueued(k, p, byPlayer), {}, D)
<1>1. p \in Pids /\ k \in QType /\ k.first \in Seq(Pids) /\ k.low \in Seq(Pids)
  BY GoodFacts
<1>2. /\ <<p>> \in Seq(Pids) /\ Range(<<p>>) = {p} /\ IsInjective(<<p>>)
      /\ <<>> \in Seq(Pids) /\ Range(<<>>) = {} /\ IsInjective(<<>>)
  BY <1>1 DEF Range, IsInjective
<1>3. PICK a, b : a = <<p>> /\ b = <<>>
  OBVIOUS
<1>4. Requeues(k, a, b, {p}) /\ Requeues(k, b, a, {p})
  BY <1>2, <1>3 DEF Requeues
<1>5. {p} \cap D = {}
  OBVIOUS
<1>6. /\ Good([k EXCEPT !.first = k.first \o a, !.low = k.low \o b], {}, D)
      /\ Good([k EXCEPT !.first = k.first \o b, !.low = k.low \o a], {}, D)
  BY <1>4, <1>5, Requeued
<1>7. /\ k.first \o a = Append(k.first, p) /\ k.low \o a = Append(k.low, p)
      /\ k.first \o b = k.first /\ k.low \o b = k.low
  BY <1>1, <1>3
<1>8. /\ [k EXCEPT !.first = k.first \o a, !.low = k.low \o b] = [k EXCEPT !.first = Append(k.first, p)]
      /\ [k EXCEPT !.first = k.first \o b, !.low = k.low \o a] = [k EXCEPT !.low = Append(k.low, p)]
  BY <1>1, <1>7 DEF QType
<1> QED
  BY <1>6, <1>8 DEF Enqueued

(* What leaves the semaphore's queue.                                      *)
LEMMA UnlinkedGood ==
  ASSUME NEW k, NEW D, Good(k, {}, D), NEW s \in Seq(Pids), IsInjective(s), Range(s) \subseteq Range(k.sem)
  PROVE  Good(Unlinked(k, s), Range(s), D)
<1>1. k \in QType /\ k.sem \in Seq(Pids) /\ k.count \in Int
  BY GoodFacts
<1>2. /\ Apart(k) /\ Held(k, D) /\ SemInv(k) /\ Ordered(k) /\ Counted(k) /\ Paid(k, D)
  BY AtRest
<1>3. PICK t, S : t = Without(k.sem, S) /\ S = Range(s)
  OBVIOUS
<1>4. IsInjective(k.sem)
  BY <1>2 DEF Apart
<1>5. t \in Seq(Pids) /\ Range(t) = Range(k.sem) \ S /\ IsInjective(t)
  BY <1>1, <1>3, <1>4, WithoutFacts
<1>6. Len(t) = Len(k.sem) - Len(s) /\ Len(s) \in Nat /\ Len(k.sem) \in Nat /\ Len(t) \in Nat
  <2>1. Cardinality(S) = Len(s)
    BY <1>3, Counting
  <2>2. Len(t) = Len(k.sem) - Cardinality(S)
    BY <1>1, <1>3, <1>4, WithoutCount
  <2> QED
    BY <1>1, <1>5, <2>1, <2>2
<1>7. PICK l : l = Unlinked(k, s)
  OBVIOUS
<1>8. /\ l \in QType /\ l.map = k.map /\ l.first = k.first /\ l.low = k.low /\ l.wait = k.wait
      /\ l.sem = t /\ l.queued = k.queued /\ l.count = k.count - Len(s)
  <2>1. PICK n : n = k.count - Len(s)
    OBVIOUS
  <2>2. n \in Int
    BY <1>1, <1>6, <2>1
  <2>3. l = [k EXCEPT !.sem = t, !.count = n]
    BY <1>1, <1>3, <1>7, <2>1 DEF Unlinked, QType
  <2>4. /\ l \in QType /\ l.map = k.map /\ l.first = k.first /\ l.low = k.low /\ l.wait = k.wait
        /\ l.sem = t /\ l.queued = k.queued /\ l.count = n
    BY <1>1, <1>5, <2>2, <2>3 DEF QType
  <2> QED
    BY <2>1, <2>4
<1>9. Apart(l)
  BY <1>2, <1>5, <1>8 DEF Apart
<1>10. Held(l, S \cup D)
  BY <1>2, <1>3, <1>5, <1>8 DEF Held, InQueues, Apart
<1>11. SemInv(l)
  BY <1>2, <1>5, <1>8 DEF SemInv
<1>12. Counted(l)
  <2>1. t # <<>> => Len(t) > 0
    BY <1>5
  <2>2. t # <<>> => k.sem # <<>>
    BY <1>1, <1>6, <2>1
  <2> QED
    BY <1>1, <1>2, <1>6, <1>8, <2>2 DEF Counted
<1>13. Ordered(l)
  BY <1>2, <1>8 DEF Ordered, InOrder, Later
<1>14. Paid(l, D)
  BY <1>2, <1>8 DEF Paid, Alive
<1> QED
  BY <1>3, <1>7, <1>8, <1>9, <1>10, <1>11, <1>12, <1>13, <1>14 DEF Good, Sound

(* What was unlinked goes to the run queues.                               *)
LEMMA WokenGood ==
  ASSUME NEW k, NEW D, NEW s \in Seq(Pids), IsInjective(s), Good(k, Range(s), D), Range(s) \cap D = {}
  PROVE  Good(Woken(k, s), {}, D)
<1>1. /\ k \in QType /\ k.map \in Maps /\ DOMAIN k.map \subseteq Pids
      /\ \A p \in DOMAIN k.map : k.map[p] \in Entry
      /\ k.first \in Seq(Pids) /\ k.low \in Seq(Pids)
      /\ Range(s) \subseteq DOMAIN k.map /\ Range(k.wait) \subseteq DOMAIN k.map
  BY GoodFacts
<1> DEFINE mm == [p \in DOMAIN k.map |->
                   IF p \in Range(s) THEN [k.map[p] EXCEPT !.due = NoTime] ELSE k.map[p]]
           Caused(x) == { p \in Range(s) : k.map[p].player = x }
<1>2. /\ DOMAIN mm = DOMAIN k.map
      /\ \A p \in DOMAIN mm : /\ mm[p] \in Entry /\ mm[p].attr = k.map[p].attr
                              /\ mm[p].executor = k.map[p].executor
                              /\ p \notin Range(s) => mm[p] = k.map[p]
  BY <1>1, Basics DEF Entry
<1>3. mm \in Maps
  <2>1. mm = [p \in DOMAIN mm |-> mm[p]] /\ DOMAIN mm \subseteq Pids /\ \A p \in DOMAIN mm : mm[p] \in Entry
    BY <1>1, <1>2
  <2> HIDE DEF mm
  <2> QED
    BY <2>1, MapType
<1>4. PICK m : m = mm
  OBVIOUS
<1>5. Range(s) \cap Range(k.wait) = {}
  BY DEF Good, Sound, Held, InQueues
<1>6. Adjusted(k, m)
  <2> HIDE DEF mm
  <2> QED
    BY <1>1, <1>2, <1>3, <1>4, <1>5 DEF Adjusted
<1>7. PICK l : l = [k EXCEPT !.map = m]
  OBVIOUS
<1>8. Good(l, Range(s), D)
  BY <1>6, <1>7, Remapped
<1>9. PICK a, b : a = Among(s, Caused(TRUE)) /\ b = Among(s, Caused(FALSE))
  OBVIOUS
<1>10. /\ a \in Seq(Pids) /\ Range(a) = Range(s) \cap Caused(TRUE) /\ IsInjective(a)
       /\ b \in Seq(Pids) /\ Range(b) = Range(s) \cap Caused(FALSE) /\ IsInjective(b)
  <2> HIDE DEF Caused
  <2> QED
    BY <1>9, AmongFacts
<1>11. /\ Caused(TRUE) \cup Caused(FALSE) = Range(s) /\ Caused(TRUE) \cap Caused(FALSE) = {}
  BY <1>1 DEF Entry
<1>12. Requeues(l, a, b, Range(s))
  <2> HIDE DEF Caused
  <2> QED
    BY <1>10, <1>11 DEF Requeues
<1>13. Good([l EXCEPT !.first = l.first \o a, !.low = l.low \o b], {}, D)
  <2>1. PICK W : W = Range(s)
    OBVIOUS
  <2> QED
    BY <1>8, <1>12, <2>1, Requeued
<1>14. Woken(k, s) = [k EXCEPT !.map = m, !.first = k.first \o a, !.low = k.low \o b]
  BY <1>4, <1>9 DEF Woken
<1>15. [k EXCEPT !.map = m, !.first = k.first \o a, !.low = k.low \o b]
         = [l EXCEPT !.first = l.first \o a, !.low = l.low \o b]
  <2> HIDE DEF mm, Caused
  <2> QED
    BY <1>1, <1>7 DEF QType
<1> QED
  BY <1>13, <1>14, <1>15

(* do_second(): the object queue.                                          *)
LEMMA ObjectsMovedGood ==
  ASSUME NEW k, NEW D, Good(k, {}, D)
  PROVE  Good(ObjectsMoved(k), {}, D)
<1>1. k \in QType /\ k.first \in Seq(Pids) /\ k.low \in Seq(Pids)
  BY GoodFacts
<1>2. /\ Apart(k) /\ Held(k, D) /\ SemInv(k) /\ Ordered(k) /\ Counted(k) /\ Paid(k, D)
  BY AtRest
<1>3. PICK s, e : s = k.first \o k.low /\ e = <<>>
  OBVIOUS
<1>4. /\ s \in Seq(Pids) /\ Range(s) = Range(k.first) \cup Range(k.low) /\ IsInjective(s)
      /\ e \in Seq(Pids) /\ Range(e) = {} /\ IsInjective(e)
  <2>1. /\ s \in Seq(Pids) /\ Range(s) = Range(k.first) \cup Range(k.low)
        /\ IsInjective(k.first) /\ IsInjective(k.low) /\ Range(k.first) \cap Range(k.low) = {}
             => IsInjective(s)
    BY <1>1, <1>3, Joined
  <2>2. e \in Seq(Pids) /\ Range(e) = {} /\ IsInjective(e)
    BY <1>3 DEF Range, IsInjective
  <2> QED
    BY <1>2, <2>1, <2>2 DEF Apart
<1>5. PICK l : l = ObjectsMoved(k)
  OBVIOUS
<1>6. /\ l \in QType /\ l.map = k.map /\ l.first = s /\ l.low = e /\ l.wait = k.wait
      /\ l.sem = k.sem /\ l.queued = k.queued /\ l.count = k.count
  BY <1>1, <1>3, <1>4, <1>5 DEF QType, ObjectsMoved
<1>7. Apart(l) /\ Held(l, D)
  BY <1>2, <1>4, <1>6 DEF Apart, Held, InQueues
<1>8. SemInv(l) /\ Counted(l)
  BY <1>2, <1>6 DEF SemInv, Counted
<1>9. Ordered(l)
  BY <1>2, <1>6 DEF Ordered, InOrder, Later
<1>10. Paid(l, D)
  BY <1>2, <1>6 DEF Paid, Alive
<1> QED
  BY <1>5, <1>6, <1>7, <1>8, <1>9, <1>10, AtRest

(* An entry that is to wait on the semaphore.                              *)
LEMMA OnSemaphore ==
  ASSUME NEW k, NEW D, NEW p, Good(k, {p}, D), p \notin D,
         k.map[p].attr, k.map[p].executor \in Objs, k.count >= Len(k.sem) + 1
  PROVE  Good([k EXCEPT !.sem = Append(k.sem, p)], {}, D)
<1>1. /\ p \in Pids /\ k \in QType /\ k.sem \in Seq(Pids)
  BY GoodFacts
<1>2. /\ Apart(k) /\ Held(k, {p} \cup D) /\ SemInv(k) /\ Ordered(k) /\ Counted(k) /\ Paid(k, D)
  BY DEF Good, Sound
<1>3. p \notin InQueues(k)
  BY <1>2 DEF Held
<1>4. PICK s : s = Append(k.sem, p)
  OBVIOUS
<1>5. /\ s \in Seq(Pids) /\ Len(s) = Len(k.sem) + 1 /\ Range(s) = Range(k.sem) \cup {p}
      /\ IsInjective(s)
  <2>1. IsInjective(k.sem) /\ p \notin Range(k.sem)
    BY <1>2, <1>3 DEF Apart, InQueues
  <2> QED
    BY <1>1, <1>4, <2>1, Appended
<1>6. PICK l : l = [k EXCEPT !.sem = s]
  OBVIOUS
<1>7. /\ l \in QType /\ l.map = k.map /\ l.first = k.first /\ l.low = k.low /\ l.wait = k.wait
      /\ l.sem = s /\ l.queued = k.queued /\ l.count = k.count
  BY <1>1, <1>5, <1>6 DEF QType
<1>8. Apart(l)
  BY <1>2, <1>3, <1>5, <1>7 DEF Apart, InQueues
<1>9. Held(l, D)
  BY <1>2, <1>5, <1>7 DEF Held, InQueues
<1>10. SemInv(l)
  BY <1>2, <1>5, <1>7 DEF SemInv
<1>11. Counted(l)
  BY <1>5, <1>7 DEF Counted
<1>12. Ordered(l)
  BY <1>2, <1>7 DEF Ordered, InOrder, Later
<1>13. Paid(l, D)
  BY <1>2, <1>7 DEF Paid, Alive
<1> QED
  BY <1>4, <1>6, <1>7, <1>8, <1>9, <1>10, <1>11, <1>12, <1>13, AtRest

(* The entries that are due no later are the first ones of a sorted queue. *)
LEMMA SortedPlace ==
  ASSUME NEW A, NEW s \in Seq(A), NEW due, due \in [A -> Int], NEW d \in Int,
         \A i, j \in DOMAIN s : i < j => due[s[i]] <= due[s[j]]
  PROVE  \E n \in 0..Len(s) :
           /\ Cardinality({ j \in DOMAIN s : due[s[j]] <= d }) = n
           /\ \A j \in DOMAIN s : due[s[j]] <= d <=> j <= n
<1> DEFINE J == { j \in DOMAIN s : due[s[j]] <= d }
<1>1. Len(s) \in Nat /\ DOMAIN s = 1..Len(s) /\ \A j \in DOMAIN s : s[j] \in A /\ due[s[j]] \in Int
  OBVIOUS
<1>2. \E n \in 0..Len(s) : \A j \in DOMAIN s : j \in J <=> j <= n
  <2>1. CASE J = {}
    <3>1. 0 \in 0..Len(s) /\ \A j \in DOMAIN s : ~(j <= 0)
      BY <1>1
    <3> QED
      BY <2>1, <3>1
  <2>2. CASE J # {}
    <3>1. J \subseteq 1..Len(s)
      BY <1>1
    <3>2. PICK n : n = Max(J)
      OBVIOUS
    <3>3. n \in J /\ \A y \in J : y <= n
      <4> HIDE DEF J
      <4> QED
        BY <1>1, <2>2, <3>1, <3>2, Greatest
    <3>4. n \in DOMAIN s /\ due[s[n]] <= d
      BY <3>3
    <3>5. ASSUME NEW j \in DOMAIN s, j <= n PROVE due[s[j]] <= d
      <4>1. CASE j = n
        BY <3>4, <4>1
      <4>2. CASE j < n
        <5>1. due[s[j]] <= due[s[n]]
          BY <3>4, <4>2
        <5>2. due[s[j]] \in Int /\ due[s[n]] \in Int
          BY <1>1, <3>4
        <5> QED
          BY <3>4, <5>1, <5>2
      <4>3. j = n \/ j < n
        BY <1>1, <3>4, <3>5
      <4> QED
        BY <4>1, <4>2, <4>3
    <3>6. \A j \in DOMAIN s : j \in J <=> j <= n
      BY <3>3, <3>5
    <3>7. n \in 0..Len(s)
      BY <1>1, <3>4
    <3> QED
      BY <3>6, <3>7
  <2> QED
    BY <2>1, <2>2
<1>3. PICK n \in 0..Len(s) : \A j \in DOMAIN s : j \in J <=> j <= n
  BY <1>2
<1>4. J = 1..n
  <2>1. J \subseteq 1..Len(s)
    BY <1>1
  <2>2. ASSUME NEW j \in J PROVE j \in 1..n
    BY <1>1, <1>3, <2>1
  <2>3. ASSUME NEW j \in 1..n PROVE j \in J
    <3>1. j \in DOMAIN s /\ j <= n
      BY <1>1
    <3> QED
      BY <1>3, <3>1
  <2> QED
    BY <2>2, <2>3
<1>5. Cardinality(1..n) = n
  <2>1. n \in Nat
    BY <1>1
  <2>2. Cardinality(1..n) = IF 1 > n THEN 0 ELSE n - 1 + 1
    BY <2>1, FS_Interval
  <2> QED
    BY <2>1, <2>2
<1> QED
  BY <1>3, <1>4, <1>5

(* wait_que(): an entry takes its place in the wait queue.                 *)
LEMMA OnWait ==
  ASSUME NEW k, NEW D, NEW p, Good(k, {p}, D), p \notin D
  PROVE  Good([k EXCEPT !.wait = SortedInto(k, k.wait, p)], {}, D)
<1>1. /\ p \in Pids /\ p \in DOMAIN k.map /\ k \in QType /\ k.wait \in Seq(Pids)
      /\ Range(k.wait) \subseteq DOMAIN k.map
      /\ \A r \in DOMAIN k.map : k.map[r] \in Entry
  BY GoodFacts
<1>2. /\ Apart(k) /\ Held(k, {p} \cup D) /\ SemInv(k) /\ Ordered(k) /\ Counted(k) /\ Paid(k, D)
  BY DEF Good, Sound
<1>3. p \notin InQueues(k)
  BY <1>2 DEF Held
<1>4. \A r \in DOMAIN k.map : k.map[r].due \in Int
  BY <1>1, Basics DEF Entry
<1>5. PICK s : s = k.wait
  OBVIOUS
<1>6. /\ s \in Seq(Pids) /\ Len(s) \in Nat /\ DOMAIN s = 1..Len(s) /\ p \notin Range(s)
      /\ \A i \in DOMAIN s : s[i] \in Range(s) /\ s[i] \in DOMAIN k.map
  BY <1>1, <1>3, <1>5, InRange DEF InQueues
<1>7. PICK due : due = [r \in DOMAIN k.map |-> k.map[r].due]
  OBVIOUS
<1>8. /\ due \in [DOMAIN k.map -> Int] /\ due[p] \in Int
      /\ \A r \in DOMAIN k.map : due[r] = k.map[r].due
  BY <1>1, <1>4, <1>7
<1>9. \E n \in 0..Len(s) : /\ Cardinality({ j \in DOMAIN s : due[s[j]] <= due[p] }) = n
                          /\ \A j \in DOMAIN s : due[s[j]] <= due[p] <=> j <= n
  <2>1. \A i, j \in DOMAIN s : i < j => due[s[i]] <= due[s[j]]
    BY <1>2, <1>5, <1>6, <1>8 DEF Ordered, InOrder, Later
  <2>2. s \in Seq(DOMAIN k.map)
    BY <1>6
  <2> QED
    BY <1>8, <2>1, <2>2, SortedPlace
<1>10. PICK n \in 0..Len(s) : /\ Cardinality({ j \in DOMAIN s : due[s[j]] <= due[p] }) = n
                             /\ \A j \in DOMAIN s : due[s[j]] <= due[p] <=> j <= n
  BY <1>9
<1>11. { j \in DOMAIN s : due[s[j]] <= due[p] } = { j \in DOMAIN s : k.map[s[j]].due <= k.map[p].due }
  BY <1>1, <1>6, <1>8
<1>12. PICK t : t = InsertAt(s, n + 1, p)
  OBVIOUS
<1>13. SortedInto(k, k.wait, p) = t
  BY <1>5, <1>10, <1>11, <1>12 DEF SortedInto
<1>14. /\ t \in Seq(Pids) /\ DOMAIN t = 1..(Len(s) + 1)
       /\ \A j \in 1..(Len(s) + 1) :
            t[j] = IF j < n + 1 THEN s[j] ELSE IF j = n + 1 THEN p ELSE s[j - 1]
       /\ Range(t) = Range(s) \cup {p} /\ IsInjective(t)
  <2>1. PICK i : i = n + 1
    OBVIOUS
  <2>2. i \in 1..(Len(s) + 1)
    BY <1>6, <2>1
  <2>3. IsInjective(s)
    BY <1>2, <1>5 DEF Apart
  <2> QED
    BY <1>1, <1>6, <1>12, <2>1, <2>2, <2>3, Inserted
<1>15. ASSUME NEW i \in DOMAIN t, NEW j \in DOMAIN t, i < j PROVE Later(k, t[i], t[j])
  <2>1. i \in 1..(Len(s) + 1) /\ j \in 1..(Len(s) + 1) /\ n \in Int /\ Len(s) \in Nat
    BY <1>6, <1>14
  <2>2. CASE i < n + 1 /\ j < n + 1
    <3>1. t[i] = s[i] /\ t[j] = s[j] /\ i \in DOMAIN s /\ j \in DOMAIN s
      BY <1>6, <1>14, <2>1, <2>2
    <3> QED
      BY <1>2, <1>5, <1>15, <3>1 DEF Ordered, InOrder
  <2>3. CASE i < n + 1 /\ j = n + 1
    <3>1. t[i] = s[i] /\ t[j] = p /\ i \in DOMAIN s /\ i <= n
      BY <1>6, <1>14, <2>1, <2>3
    <3>2. due[s[i]] <= due[p]
      BY <1>10, <3>1
    <3> QED
      BY <1>1, <1>6, <1>8, <3>1, <3>2 DEF Later
  <2>4. CASE i < n + 1 /\ j > n + 1
    <3>1. t[i] = s[i] /\ t[j] = s[j - 1] /\ i \in DOMAIN s /\ j - 1 \in DOMAIN s /\ i < j - 1
      BY <1>6, <1>14, <2>1, <2>4
    <3> QED
      BY <1>2, <1>5, <3>1 DEF Ordered, InOrder
  <2>5. CASE i = n + 1 /\ j > n + 1
    <3>1. t[i] = p /\ t[j] = s[j - 1] /\ j - 1 \in DOMAIN s /\ ~(j - 1 <= n)
      BY <1>6, <1>14, <2>1, <2>5
    <3>2. ~(due[s[j - 1]] <= due[p])
      BY <1>10, <3>1
    <3>3. due[s[j - 1]] \in Int /\ due[p] \in Int
      BY <1>6, <1>8, <3>1
    <3>4. due[p] <= due[s[j - 1]]
      BY <3>2, <3>3
    <3> QED
      BY <1>1, <1>6, <1>8, <3>1, <3>4 DEF Later
  <2>6. CASE i > n + 1
    <3>1. /\ t[i] = s[i - 1] /\ t[j] = s[j - 1] /\ i - 1 \in DOMAIN s /\ j - 1 \in DOMAIN s
          /\ i - 1 < j - 1
      BY <1>6, <1>14, <1>15, <2>1, <2>6
    <3> QED
      BY <1>2, <1>5, <3>1 DEF Ordered, InOrder
  <2>7. \/ i < n + 1 /\ j < n + 1
        \/ i < n + 1 /\ j = n + 1
        \/ i < n + 1 /\ j > n + 1
        \/ i = n + 1 /\ j > n + 1
        \/ i > n + 1
    BY <1>15, <2>1
  <2> QED
    BY <2>2, <2>3, <2>4, <2>5, <2>6, <2>7
<1>16. PICK l : l = [k EXCEPT !.wait = t]
  OBVIOUS
<1>17. /\ l \in QType /\ l.map = k.map /\ l.first = k.first /\ l.low = k.low /\ l.wait = t
       /\ l.sem = k.sem /\ l.queued = k.queued /\ l.count = k.count
  BY <1>1, <1>14, <1>16 DEF QType
<1>18. Apart(l)
  BY <1>2, <1>3, <1>5, <1>14, <1>17 DEF Apart, InQueues
<1>19. Held(l, D)
  BY <1>2, <1>5, <1>14, <1>17 DEF Held, InQueues
<1>20. SemInv(l) /\ Counted(l)
  BY <1>2, <1>17 DEF SemInv, Counted
<1>21. Ordered(l)
  BY <1>15, <1>17 DEF Ordered, InOrder, Later
<1>22. Paid(l, D)
  BY <1>2, <1>17 DEF Paid, Alive
<1> QED
  BY <1>13, <1>16, <1>17, <1>18, <1>19, <1>20, <1>21, <1>22, AtRest

-----------------------------------------------------------------------------
(* do_second().                                                            *)

(* A set of numbers that is not empty has a least one, which Min finds.    *)
LEMMA Smallest ==
  ASSUME NEW T, T \subseteq Nat, T # {}
  PROVE  Min(T) \in T /\ \A y \in T : Min(T) <= y
<1>1. \E x \in T : \A y \in T : x <= y
  BY Least
<1> QED
  BY <1>1 DEF Min

(* do_second(): how much of the wait queue is due.                         *)
LEMMA WaitsOverParts ==
  ASSUME NEW k, NEW D, Good(k, {}, D)
  PROVE  \E n \in 0..Len(k.wait) :
           WaitsOver(k) = Woken([k EXCEPT !.wait = SubSeq(k.wait, n + 1, Len(k.wait))],
                                SubSeq(k.wait, 1, n))
<1>1. Len(k.wait) \in Nat
  BY GoodFacts
<1> DEFINE I == { i \in 1..Len(k.wait) : k.map[k.wait[i]].due > 0 }
<1>2. PICK early : early = IF I # {} THEN Min(I) ELSE 0
  OBVIOUS
<1>3. PICK n : n = IF early = 0 THEN Len(k.wait) ELSE early - 1
  OBVIOUS
<1>4. n \in 0..Len(k.wait)
  <2>1. early = 0 \/ early \in 1..Len(k.wait)
    <3>1. I \subseteq 1..Len(k.wait) /\ I \subseteq Nat
      OBVIOUS
    <3> HIDE DEF I
    <3> QED
      BY <1>2, <3>1, Smallest
  <2> QED
    BY <1>1, <1>3, <2>1
<1>5. PICK s, r : s = SubSeq(k.wait, 1, n) /\ r = SubSeq(k.wait, n + 1, Len(k.wait))
  OBVIOUS
<1>6. WaitsOver(k) = Woken([k EXCEPT !.wait = r], s)
  BY <1>2, <1>3, <1>5 DEF WaitsOver, SelectInSeq
<1> QED
  BY <1>4, <1>5, <1>6

(* do_second(): the front of the wait queue goes to the run queues.        *)
LEMMA WaitsOverGood ==
  ASSUME NEW k, NEW D, Good(k, {}, D)
  PROVE  Good(WaitsOver(k), {}, D)
<1>1. k \in QType /\ k.wait \in Seq(Pids)
  BY GoodFacts
<1>2. /\ Apart(k) /\ Held(k, D) /\ SemInv(k) /\ Ordered(k) /\ Counted(k) /\ Paid(k, D)
  BY AtRest
<1>3. PICK n \in 0..Len(k.wait) :
        WaitsOver(k) = Woken([k EXCEPT !.wait = SubSeq(k.wait, n + 1, Len(k.wait))],
                             SubSeq(k.wait, 1, n))
  BY WaitsOverParts
<1>5. n \in 0..Len(k.wait)
  BY <1>3
<1>6. PICK s, r : s = SubSeq(k.wait, 1, n) /\ r = SubSeq(k.wait, n + 1, Len(k.wait))
  OBVIOUS
<1>7. WaitsOver(k) = Woken([k EXCEPT !.wait = r], s)
  BY <1>3, <1>6
<1>8. IsInjective(k.wait)
  BY <1>2 DEF Apart
<1>9. /\ s \in Seq(Pids) /\ r \in Seq(Pids) /\ Len(r) = Len(k.wait) - n
      /\ \A i \in DOMAIN r : i + n \in DOMAIN k.wait /\ r[i] = k.wait[i + n]
      /\ IsInjective(s) /\ IsInjective(r) /\ Range(s) \cap Range(r) = {}
      /\ Range(k.wait) = Range(s) \cup Range(r)
  BY <1>1, <1>5, <1>6, <1>8, Cut
<1>10. PICK l : l = [k EXCEPT !.wait = r]
  OBVIOUS
<1>11. /\ l \in QType /\ l.map = k.map /\ l.first = k.first /\ l.low = k.low /\ l.wait = r
       /\ l.sem = k.sem /\ l.queued = k.queued /\ l.count = k.count
  BY <1>1, <1>9, <1>10 DEF QType
<1>12. Apart(l)
  BY <1>2, <1>9, <1>11 DEF Apart
<1>13. Held(l, Range(s) \cup D)
  BY <1>2, <1>9, <1>11 DEF Held, InQueues, Apart
<1>14. SemInv(l) /\ Counted(l)
  BY <1>2, <1>11 DEF SemInv, Counted
<1>15. Ordered(l)
  <2>1. ASSUME NEW i \in DOMAIN r, NEW j \in DOMAIN r, i < j PROVE Later(k, r[i], r[j])
    <3>1. /\ i + n \in DOMAIN k.wait /\ j + n \in DOMAIN k.wait
          /\ r[i] = k.wait[i + n] /\ r[j] = k.wait[j + n]
      BY <1>9
    <3>2. i \in Nat /\ j \in Nat /\ n \in Nat
      BY <1>5, <1>9
    <3>3. i + n < j + n
      BY <2>1, <3>2
    <3> QED
      BY <1>2, <3>1, <3>3 DEF Ordered, InOrder
  <2> QED
    BY <1>11, <2>1 DEF Ordered, InOrder, Later
<1>16. Paid(l, D)
  BY <1>2, <1>11 DEF Paid, Alive
<1>17. Good(l, Range(s), D)
  BY <1>11, <1>12, <1>13, <1>14, <1>15, <1>16 DEF Good, Sound
<1>18. Range(s) \cap D = {}
  BY <1>2, <1>9 DEF Held, InQueues
<1> QED
  BY <1>7, <1>9, <1>10, <1>17, <1>18, WokenGood

(* do_second(): who waited long enough on the semaphore goes on.           *)
LEMMA TimedOutGood ==
  ASSUME NEW k, NEW D, Good(k, {}, D)
  PROVE  Good(TimedOut(k), {}, D)
<1>1. k.sem \in Seq(Pids)
  BY GoodFacts
<1>2. Apart(k) /\ Held(k, D)
  BY AtRest
<1>3. PICK S : S = { p \in Range(k.sem) : k.map[p].due = 0 }
  OBVIOUS
<1>4. PICK s : s = Among(k.sem, S)
  OBVIOUS
<1>5. s \in Seq(Pids) /\ Range(s) = Range(k.sem) \cap S /\ IsInjective(s)
  BY <1>1, <1>2, <1>4, AmongFacts DEF Apart
<1>6. Range(s) \subseteq Range(k.sem) /\ Range(s) \cap D = {}
  BY <1>2, <1>5 DEF Held, InQueues
<1>7. PICK l : l = Unlinked(k, s)
  OBVIOUS
<1>8. Good(l, Range(s), D)
  BY <1>5, <1>6, <1>7, UnlinkedGood
<1>9. TimedOut(k) = Woken(l, s)
  BY <1>3, <1>4, <1>7 DEF TimedOut
<1> QED
  BY <1>5, <1>6, <1>8, <1>9, WokenGood

(* Time passes: what was due no later is due no later.                     *)
LEMMA ElapsedGood ==
  ASSUME NEW k, NEW D, Good(k, {}, D), NEW n \in Nat
  PROVE  Good(Elapsed(k, n), {}, D)
<1>1. /\ k \in QType /\ DOMAIN k.map \subseteq Pids /\ \A p \in DOMAIN k.map : k.map[p] \in Entry
      /\ Range(k.wait) \subseteq DOMAIN k.map
  BY GoodFacts
<1> DEFINE Left(d) == IF d <= 0 THEN d ELSE Max({0, d - n})
           mm == [p \in DOMAIN k.map |->
                   IF k.map[p].due <= 0 THEN k.map[p]
                   ELSE [k.map[p] EXCEPT !.due = Max({0, k.map[p].due - n})]]
<1>2. MaxWait \in Nat /\ Due \subseteq Int /\ \A d \in Due : d <= MaxWait /\ -1 <= d
  BY Basics DEF Due, NoTime
<1>3. ASSUME NEW d \in Due, d > 0
      PROVE  /\ Max({0, d - n}) = IF n > d THEN 0 ELSE d - n
  <2>1. d \in Int /\ d - n \in Int
    BY <1>2
  <2>2. Max({0, d - n}) \in {0, d - n} /\ \A y \in {0, d - n} : y <= Max({0, d - n})
    <3>1. CASE n > d
      <4>1. \A y \in {0, d - n} : 0 >= y
        BY <2>1, <3>1
      <4>2. \E x \in {0, d - n} : \A y \in {0, d - n} : x >= y
        BY <4>1
      <4>3. Max({0, d - n}) \in {0, d - n} /\ \A y \in {0, d - n} : Max({0, d - n}) >= y
        BY <4>2 DEF Max
      <4> QED
        BY <2>1, <4>3
    <3>2. CASE ~(n > d)
      <4>1. \A y \in {0, d - n} : d - n >= y
        BY <2>1, <3>2
      <4>2. \E x \in {0, d - n} : \A y \in {0, d - n} : x >= y
        BY <4>1
      <4>3. Max({0, d - n}) \in {0, d - n} /\ \A y \in {0, d - n} : Max({0, d - n}) >= y
        BY <4>2 DEF Max
      <4> QED
        BY <2>1, <4>3
    <3> QED
      BY <3>1, <3>2
  <2>3. PICK x : x = Max({0, d - n})
    OBVIOUS
  <2>4. x \in {0, d - n} /\ 0 <= x /\ d - n <= x
    BY <2>2, <2>3
  <2>5. x = IF n > d THEN 0 ELSE d - n
    BY <2>1, <2>4
  <2> QED
    BY <2>3, <2>5
<1>4. \A d \in Due : Left(d) \in Due
  <2> SUFFICES ASSUME NEW d \in Due PROVE Left(d) \in Due
    OBVIOUS
  <2>1. CASE d <= 0
    BY <2>1
  <2>2. CASE ~(d <= 0)
    <3>1. d > 0 /\ d \in Int /\ d <= MaxWait
      BY <1>2, <2>2
    <3>2. Left(d) = IF n > d THEN 0 ELSE d - n
      BY <1>3, <2>2, <3>1
    <3> HIDE DEF Left
    <3>3. Left(d) \in Int /\ 0 <= Left(d) /\ Left(d) <= MaxWait
      BY <1>2, <3>1, <3>2
    <3> QED
      BY <1>2, <3>3 DEF Due, NoTime
  <2> QED
    BY <2>1, <2>2
<1>5. \A d, e \in Due : d <= e => Left(d) <= Left(e)
  <2> SUFFICES ASSUME NEW d \in Due, NEW e \in Due, d <= e PROVE Left(d) <= Left(e)
    OBVIOUS
  <2>1. d \in Int /\ e \in Int
    BY <1>2
  <2>2. Left(d) = IF d <= 0 THEN d ELSE IF n > d THEN 0 ELSE d - n
    BY <1>3, <2>1
  <2>3. Left(e) = IF e <= 0 THEN e ELSE IF n > e THEN 0 ELSE e - n
    BY <1>3, <2>1
  <2> HIDE DEF Left
  <2> QED
    BY <2>1, <2>2, <2>3
<1> HIDE DEF Left
<1>6. /\ DOMAIN mm = DOMAIN k.map
      /\ \A p \in DOMAIN mm : /\ mm[p] \in Entry /\ mm[p].attr = k.map[p].attr
                              /\ mm[p].executor = k.map[p].executor
                              /\ mm[p].due = Left(k.map[p].due)
  <2>1. DOMAIN mm = DOMAIN k.map
    OBVIOUS
  <2>2. ASSUME NEW p \in DOMAIN k.map
        PROVE  /\ mm[p] \in Entry /\ mm[p].attr = k.map[p].attr
               /\ mm[p].executor = k.map[p].executor /\ mm[p].due = Left(k.map[p].due)
    <3>1. PICK e : e = k.map[p]
      OBVIOUS
    <3>2. e \in Entry /\ e.due \in Due
      BY <1>1, <3>1 DEF Entry
    <3>3. mm[p] = IF e.due <= 0 THEN e ELSE [e EXCEPT !.due = Max({0, e.due - n})]
      BY <3>1
    <3>4. Left(e.due) \in Due /\ Left(e.due) = IF e.due <= 0 THEN e.due ELSE Max({0, e.due - n})
      BY <1>4, <3>2 DEF Left
    <3> HIDE DEF mm
    <3>5. mm[p] = [e EXCEPT !.due = Left(e.due)]
      BY <3>2, <3>3, <3>4 DEF Entry
    <3> QED
      BY <3>1, <3>2, <3>4, <3>5 DEF Entry
  <2> HIDE DEF mm
  <2> QED
    BY <2>1, <2>2
<1>7. mm = [p \in DOMAIN mm |-> mm[p]]
  OBVIOUS
<1>8. Elapsed(k, n) = [k EXCEPT !.map = mm]
  BY DEF Elapsed
<1> HIDE DEF mm
<1>9. mm \in Maps
  BY <1>1, <1>6, <1>7, MapType
<1>10. \A p \in Range(k.wait) : \A r \in Range(k.wait) :
         k.map[p].due <= k.map[r].due => mm[p].due <= mm[r].due
  BY <1>1, <1>5, <1>6 DEF Entry
<1>11. PICK m : m = mm
  OBVIOUS
<1>12. Adjusted(k, m)
  BY <1>6, <1>9, <1>10, <1>11 DEF Adjusted
<1> QED
  BY <1>8, <1>11, <1>12, Remapped

(* do_second() as a whole, however many seconds went by.                   *)
LEMMA DoSecondGood ==
  ASSUME NEW k, NEW D, Good(k, {}, D), NEW n \in Nat
  PROVE  Good(DoSecond(Elapsed(k, n)), {}, D)
<1>1. PICK a : a = Elapsed(k, n)
  OBVIOUS
<1>2. Good(a, {}, D)
  BY <1>1, ElapsedGood
<1>3. PICK b : b = ObjectsMoved(a)
  OBVIOUS
<1>4. Good(b, {}, D)
  BY <1>2, <1>3, ObjectsMovedGood
<1>5. PICK c : c = WaitsOver(b)
  OBVIOUS
<1>6. Good(c, {}, D)
  BY <1>4, <1>5, WaitsOverGood
<1>7. Good(TimedOut(c), {}, D)
  BY <1>6, TimedOutGood
<1> QED
  BY <1>1, <1>3, <1>5, <1>7 DEF DoSecond

-----------------------------------------------------------------------------
(* A new entry.                                                            *)

(* next_pid().                                                             *)
LEMMA FreePid ==
  ASSUME NEW k, NEW W, NEW D, Good(k, W, D), ~TableFull(k)
  PROVE  NextPid(k) \in Pids /\ NextPid(k) \notin DOMAIN k.map
<1>1. DOMAIN k.map \subseteq Pids
  BY GoodFacts
<1>2. PICK S : S = DOMAIN k.map
  OBVIOUS
<1>3. Pids \ S # {}
  <2>1. S # Pids
    BY <1>2, Basics DEF TableFull
  <2> QED
    BY <1>1, <1>2, <2>1
<1>4. PICK T : T = Pids \ S
  OBVIOUS
<1>5. T \subseteq Nat /\ T # {}
  BY <1>3, <1>4, Basics
<1>6. Min(T) \in T
  BY <1>5, Smallest
<1> QED
  BY <1>2, <1>4, <1>6 DEF NextPid

(* pay_queue() counts one more.                                            *)
LEMMA PaidOne ==
  ASSUME NEW k, NEW D, Good(k, {}, D), NEW x \in Objs, k.queued[Key(x)] + 1 <= Quota
  PROVE  Good(AddTo(k, x, 1), {}, D)
<1>1. k \in QType
  BY GoodFacts
<1>2. /\ Apart(k) /\ Held(k, D) /\ SemInv(k) /\ Ordered(k) /\ Counted(k) /\ Paid(k, D)
  BY AtRest
<1>3. PICK n : n = 1
  OBVIOUS
<1>4. PICK l : l = AddTo(k, x, n)
  OBVIOUS
<1>5. n \in Int
  BY <1>3
<1>6. /\ l \in QType /\ l.map = k.map /\ l.first = k.first /\ l.low = k.low /\ l.wait = k.wait
      /\ l.sem = k.sem /\ l.count = k.count
      /\ \A y \in Objs : y # Key(x) => l.queued[y] = k.queued[y]
      /\ l.queued[Key(x)] = k.queued[Key(x)] + n
  BY <1>1, <1>4, <1>5, AddToFields
<1>7. Apart(l) /\ Counted(l) /\ Held(l, D) /\ SemInv(l)
  BY <1>2, <1>6 DEF Apart, Counted, Held, InQueues, SemInv
<1>8. Ordered(l)
  BY <1>2, <1>6 DEF Ordered, InOrder, Later
<1>9. Paid(l, D)
  <2>1. More(k, D, l, x, Nothing)
    BY <1>3, <1>6 DEF More, Alive
  <2> QED
    BY <1>1, <1>2, <1>6, <2>1, PaidMore
<1> QED
  BY <1>3, <1>4, <1>6, <1>7, <1>8, <1>9, AtRest

(* pay_queue() halts who has used up its quota, and charges the others.    *)
LEMMA PayGood ==
  ASSUME NEW k, NEW D, Good(k, {}, D), NEW x \in Objs, NEW stray \in BOOLEAN
  PROVE  /\ Good(PayQueue(k, x, stray).q, {}, D)
         /\ PayQueue(k, x, stray).ok =>
              /\ PayQueue(k, x, stray).q = AddTo(k, x, 1)
              /\ k.queued[Key(x)] + 1 <= Quota
<1>1. k.queued[Key(x)] \in Int /\ Quota \in Nat
  BY GoodFacts, Basics
<1>2. CASE k.queued[Key(x)] + 1 > Quota
  <2>1. PICK l : l = DoHalt(k, x, stray)
    OBVIOUS
  <2>2. Good(l, {}, D)
    BY <2>1, HaltGood
  <2>3. Good(SetHalted(l, x), {}, D)
    BY <2>2, SetHaltedGood
  <2> QED
    BY <1>2, <2>1, <2>3 DEF PayQueue
<1>3. CASE ~(k.queued[Key(x)] + 1 > Quota)
  <2>1. k.queued[Key(x)] + 1 <= Quota
    BY <1>1, <1>3
  <2>2. Good(AddTo(k, x, 1), {}, D)
    BY <2>1, PaidOne
  <2> QED
    BY <1>3, <2>1, <2>2 DEF PayQueue
<1> QED
  BY <1>2, <1>3

(* An entry is paid for and gets a pid.                                    *)
LEMMA Entered ==
  ASSUME NEW k, NEW D, Good(k, {}, D), NEW x \in Objs, k.queued[Key(x)] + 1 <= Quota,
         NEW l, l = AddTo(k, x, 1), ~TableFull(l), NEW e \in Entry, e.executor = x
  PROVE  /\ Good(Mapped(l, e), {NextPid(l)}, D)
         /\ NextPid(l) \notin D /\ Mapped(l, e).map[NextPid(l)] = e
         /\ Mapped(l, e).sem = k.sem /\ Mapped(l, e).count = k.count
<1>1. k \in QType
  BY GoodFacts
<1>2. Good(l, {}, D)
  BY PaidOne
<1>3. /\ Apart(l) /\ Held(l, D) /\ SemInv(l) /\ Ordered(l) /\ Counted(l) /\ Paid(k, D) /\ Held(k, D)
  BY <1>2, AtRest
<1>4. PICK n : n = 1
  OBVIOUS
<1>5. n \in Int
  BY <1>4
<1>6. /\ l \in QType /\ l.map = k.map
      /\ l.sem = k.sem /\ l.count = k.count
      /\ \A y \in Objs : y # Key(x) => l.queued[y] = k.queued[y]
      /\ l.queued[Key(x)] = k.queued[Key(x)] + n
  BY <1>1, <1>4, <1>5, AddToFields
<1>7. PICK p : p = NextPid(l)
  OBVIOUS
<1>8. p \in Pids /\ p \notin DOMAIN l.map
  BY <1>2, <1>7, FreePid
<1>9. PICK m : m = [r \in DOMAIN l.map \cup {p} |-> IF r = p THEN e ELSE l.map[r]]
  OBVIOUS
<1>10. /\ DOMAIN m = DOMAIN l.map \cup {p} /\ m[p] = e
       /\ \A r \in DOMAIN l.map : m[r] = l.map[r]
  BY <1>8, <1>9
<1>11. m \in Maps
  <2>1. l.map \in Maps
    BY <1>6 DEF QType
  <2>2. DOMAIN l.map \subseteq Pids /\ \A r \in DOMAIN l.map : l.map[r] \in Entry
    BY <2>1, MapFacts
  <2>3. DOMAIN m \subseteq Pids /\ \A r \in DOMAIN m : m[r] \in Entry
    BY <1>8, <1>10, <2>2
  <2>4. m = [r \in DOMAIN m |-> m[r]]
    BY <1>9
  <2> QED
    BY <2>3, <2>4, MapType
<1>12. PICK j : j = Mapped(l, e)
  OBVIOUS
<1>13. j = [l EXCEPT !.map = m]
  BY <1>7, <1>9, <1>12 DEF Mapped
<1>14. /\ j \in QType /\ j.map = m /\ j.first = l.first /\ j.low = l.low /\ j.wait = l.wait
       /\ j.sem = l.sem /\ j.count = l.count /\ j.queued = l.queued
  BY <1>6, <1>11, <1>13 DEF QType
<1>15. Apart(j) /\ Counted(j)
  BY <1>3, <1>14 DEF Apart, Counted
<1>16. Held(j, {p} \cup D)
  BY <1>3, <1>8, <1>10, <1>14 DEF Held, InQueues
<1>17. SemInv(j)
  BY <1>3, <1>8, <1>10, <1>14 DEF SemInv, Held, InQueues
<1>18. Ordered(j)
  <2>1. Range(l.wait) \subseteq DOMAIN l.map
    BY <1>2, GoodFacts
  <2>2. \A q1, q2 \in Range(l.wait) : Later(l, q1, q2) => Later(j, q1, q2)
    BY <1>10, <1>14, <2>1 DEF Later
  <2> QED
    BY <1>3, <1>14, <2>2, OrderSame DEF Ordered
<1>19. Paid(j, D)
  <2>1. ASSUME NEW S \in SUBSET Objs, NEW r \in Alive(j, D, S)
        PROVE  r \in Alive(k, D, S) \/ (x \in S /\ r = p)
    BY <1>6, <1>10, <1>14 DEF Alive
  <2>2. /\ k.queued[Key(x)] + 1 <= Quota
        /\ \A y \in Objs : y # Key(x) => j.queued[y] = k.queued[y]
        /\ j.queued[Key(x)] = k.queued[Key(x)] + 1
    BY <1>4, <1>6, <1>14
  <2>3. More(k, D, j, x, p)
    BY <2>1, <2>2 DEF More
  <2> QED
    BY <1>1, <1>3, <1>14, <2>3, PaidMore
<1>20. p \notin D
  BY <1>3, <1>8 DEF Held
<1> QED
  BY <1>6, <1>7, <1>10, <1>12, <1>14, <1>15, <1>16, <1>17, <1>18, <1>19, <1>20 DEF Good, Sound

(* What new_queue_actionlist() makes is an entry.                          *)
LEMMA QueuedEntry ==
  ASSUME NEW x \in Objs, NEW byPlayer \in BOOLEAN
  PROVE  Queued(x, byPlayer) \in Entry /\ Queued(x, byPlayer).executor = x
  BY Basics DEF Queued, Entry

(* new_queue_actionlist() once it is known who executes it.                *)
LEMMA EventGood ==
  ASSUME NEW k, NEW D, Good(k, {}, D), NEW x \in Objs, NEW byPlayer \in BOOLEAN,
         NEW pay, pay.q = AddTo(k, x, 1), k.queued[Key(x)] + 1 <= Quota, ~TableFull(pay.q)
  PROVE  Good(Enqueued(Mapped(pay.q, Queued(x, byPlayer)), NextPid(pay.q), byPlayer), {}, D)
<1>1. PICK e : e = Queued(x, byPlayer)
  OBVIOUS
<1>2. e \in Entry /\ e.executor = x
  BY <1>1, QueuedEntry
<1>3. PICK l : l = pay.q
  OBVIOUS
<1>4. PICK j, p : j = Mapped(l, e) /\ p = NextPid(l)
  OBVIOUS
<1>5. Good(j, {p}, D) /\ p \notin D
  BY <1>2, <1>3, <1>4, Entered
<1> QED
  BY <1>1, <1>3, <1>4, <1>5, EnqueuedGood

(* insert_que(), paid for or not.                                          *)
LEMMA InsertGood ==
  ASSUME NEW k, NEW D, Good(k, {}, D), NEW x \in Objs, NEW byPlayer \in BOOLEAN,
         NEW stray \in BOOLEAN
  PROVE  Good(InsertQue(k, x, byPlayer, stray), {}, D)
<1>1. PICK pay : pay = PayQueue(k, x, stray)
  OBVIOUS
<1>2. /\ Good(pay.q, {}, D)
      /\ pay.ok => pay.q = AddTo(k, x, 1) /\ k.queued[Key(x)] + 1 <= Quota
  BY <1>1, PayGood
<1>3. InsertQue(k, x, byPlayer, stray) =
        IF x \in k.halted THEN k
        ELSE IF ~pay.ok \/ TableFull(pay.q) THEN pay.q
        ELSE Enqueued(Mapped(pay.q, Queued(x, byPlayer)), NextPid(pay.q), byPlayer)
  BY <1>1 DEF InsertQue
<1>4. CASE x \in k.halted
  BY <1>3, <1>4
<1>5. CASE x \notin k.halted /\ (~pay.ok \/ TableFull(pay.q))
  BY <1>2, <1>3, <1>5
<1>6. CASE x \notin k.halted /\ ~(~pay.ok \/ TableFull(pay.q))
  <2>1. Good(Enqueued(Mapped(pay.q, Queued(x, byPlayer)), NextPid(pay.q), byPlayer), {}, D)
    BY <1>2, <1>6, EventGood
  <2> QED
    BY <1>3, <1>6, <2>1
<1> QED
  BY <1>4, <1>5, <1>6

(* wait_que(): on the semaphore only what was counted there.               *)
LEMMA WaitQueGood ==
  ASSUME NEW k, NEW D, Good(k, {}, D), NEW x \in Objs, NEW byPlayer \in BOOLEAN,
         NEW due \in Due, NEW sem \in BOOLEAN, NEW stray \in BOOLEAN,
         sem => k.count >= Len(k.sem) + 1
  PROVE  Good(WaitQue(k, x, byPlayer, due, sem, stray), {}, D)
<1>1. PICK pay : pay = PayQueue(k, x, stray)
  OBVIOUS
<1>2. /\ Good(pay.q, {}, D)
      /\ pay.ok => pay.q = AddTo(k, x, 1) /\ k.queued[Key(x)] + 1 <= Quota
  BY <1>1, PayGood
<1>3. PICK e : e = [executor |-> x, player |-> byPlayer, due |-> due, attr |-> sem]
  OBVIOUS
<1>4. e \in Entry /\ e.executor = x /\ e.attr = sem
  BY <1>3 DEF Entry
<1>5. PICK l : l = pay.q
  OBVIOUS
<1>6. PICK j, p : j = Mapped(l, e) /\ p = NextPid(l)
  OBVIOUS
<1>7. WaitQue(k, x, byPlayer, due, sem, stray) =
        IF ~pay.ok \/ TableFull(l) THEN l
        ELSE IF sem THEN [j EXCEPT !.sem = Append(j.sem, p)]
        ELSE [j EXCEPT !.wait = SortedInto(j, j.wait, p)]
  BY <1>1, <1>3, <1>5, <1>6 DEF WaitQue
<1>8. CASE ~pay.ok \/ TableFull(l)
  BY <1>2, <1>5, <1>7, <1>8
<1>9. CASE ~(~pay.ok \/ TableFull(l))
  <2>1. l = AddTo(k, x, 1) /\ k.queued[Key(x)] + 1 <= Quota /\ ~TableFull(l)
    BY <1>2, <1>5, <1>9
  <2>2. /\ Good(j, {p}, D) /\ p \notin D /\ j.map[p] = e
        /\ j.sem = k.sem /\ j.count = k.count
    BY <1>4, <1>6, <2>1, Entered
  <2>3. CASE sem
    <3>1. j.map[p].attr /\ j.map[p].executor \in Objs /\ j.count >= Len(j.sem) + 1
      BY <1>4, <2>2, <2>3
    <3>2. Good([j EXCEPT !.sem = Append(j.sem, p)], {}, D)
      BY <2>2, <3>1, OnSemaphore
    <3> QED
      BY <1>7, <1>9, <2>3, <3>2
  <2>4. CASE ~sem
    <3>1. Good([j EXCEPT !.wait = SortedInto(j, j.wait, p)], {}, D)
      BY <2>2, OnWait
    <3> QED
      BY <1>7, <1>9, <2>4, <3>1
  <2> QED
    BY <2>3, <2>4
<1> QED
  BY <1>8, <1>9

-----------------------------------------------------------------------------
(* The commands that take entries off the queues.                          *)

(* @notify: the oldest waiters.                                            *)
LEMMA OldestFacts ==
  ASSUME NEW k, NEW D, Good(k, {}, D), NEW n \in Nat
  PROVE  /\ Oldest(k, n) \in Seq(Pids) /\ IsInjective(Oldest(k, n))
         /\ Range(Oldest(k, n)) \subseteq Range(k.sem)
         /\ Len(Oldest(k, n)) = IF n <= Len(k.sem) THEN n ELSE Len(k.sem)
         /\ n > Len(k.sem) => Range(Oldest(k, n)) = Range(k.sem)
<1>1. k.sem \in Seq(Pids) /\ Len(k.sem) \in Nat /\ IsInjective(k.sem)
  BY GoodFacts, AtRest DEF Apart
<1>2. Min({n, Len(k.sem)}) = IF n <= Len(k.sem) THEN n ELSE Len(k.sem)
  <2>1. PICK T : T = {n, Len(k.sem)}
    OBVIOUS
  <2>2. T \subseteq Nat /\ T # {}
    BY <1>1, <2>1
  <2>3. Min(T) \in T /\ \A y \in T : Min(T) <= y
    BY <2>2, Smallest
  <2>4. PICK x : x = Min(T)
    OBVIOUS
  <2>5. x \in {n, Len(k.sem)} /\ x <= n /\ x <= Len(k.sem)
    BY <2>1, <2>3, <2>4
  <2>6. x = IF n <= Len(k.sem) THEN n ELSE Len(k.sem)
    BY <1>1, <2>5
  <2> QED
    BY <2>1, <2>4, <2>6
<1>3. PICK m : m = Min({n, Len(k.sem)})
  OBVIOUS
<1>4. m \in 0..Len(k.sem)
  BY <1>1, <1>2, <1>3
<1>5. PICK s, t : s = SubSeq(k.sem, 1, m) /\ t = SubSeq(k.sem, m + 1, Len(k.sem))
  OBVIOUS
<1>6. /\ s \in Seq(Pids) /\ IsInjective(s) /\ Len(s) = m
      /\ t \in Seq(Pids) /\ Len(t) = Len(k.sem) - m
      /\ Range(k.sem) = Range(s) \cup Range(t)
  BY <1>1, <1>4, <1>5, Cut
<1>7. n > Len(k.sem) => Range(t) = {}
  <2>1. ASSUME n > Len(k.sem) PROVE Len(t) = 0
    BY <1>1, <1>2, <1>3, <1>6, <2>1
  <2>2. Len(t) = 0 => Range(t) = {}
    BY <1>6 DEF Range
  <2> QED
    BY <2>1, <2>2
<1>8. Oldest(k, n) = s
  BY <1>3, <1>5 DEF Oldest
<1> QED
  BY <1>2, <1>3, <1>6, <1>7, <1>8

(* Entries of the semaphore queue that go to the run queues.               *)
LEMMA WakeGood ==
  ASSUME NEW k, NEW D, Good(k, {}, D), NEW s \in Seq(Pids), IsInjective(s),
         Range(s) \subseteq Range(k.sem)
  PROVE  /\ Good(Woken(Unlinked(k, s), s), {}, D)
         /\ Woken(Unlinked(k, s), s).sem = Without(k.sem, Range(s))
<1>1. PICK l : l = Unlinked(k, s)
  OBVIOUS
<1>2. Good(l, Range(s), D)
  BY <1>1, UnlinkedGood
<1>3. Range(s) \cap D = {}
  BY AtRest DEF Held, InQueues
<1>4. Good(Woken(l, s), {}, D)
  BY <1>2, <1>3, WokenGood
<1>5. l \in QType /\ k \in QType
  BY <1>2, GoodFacts
<1>6. Woken(l, s).sem = l.sem
  BY <1>5 DEF Woken, QType
<1>7. l.sem = Without(k.sem, Range(s))
  BY <1>1, <1>5 DEF Unlinked, QType
<1> QED
  BY <1>1, <1>4, <1>6, <1>7

(* A sequence in which nothing is, is empty.                               *)
LEMMA EmptyRange ==
  ASSUME NEW A, NEW s \in Seq(A), Range(s) = {}
  PROVE  s = <<>>
  BY DEF Range

(* dequeue_semaphores() for @notify: the attribute loses what was woken,   *)
(* or all it counted.                                                      *)
LEMMA NotifyGood ==
  ASSUME NEW k, NEW D, Good(k, {}, D), NEW n \in Nat, NEW s, s = Oldest(k, n)
  PROVE  Good([Woken(Unlinked(k, s), s) EXCEPT !.count = @ - (n - Len(s))], {}, D)
<1>1. /\ s \in Seq(Pids) /\ IsInjective(s) /\ Range(s) \subseteq Range(k.sem)
      /\ Len(s) = (IF n <= Len(k.sem) THEN n ELSE Len(k.sem))
      /\ n > Len(k.sem) => Range(s) = Range(k.sem)
  BY OldestFacts
<1>2. k.sem \in Seq(Pids) /\ Len(k.sem) \in Nat /\ Len(s) \in Nat
  BY <1>1, GoodFacts
<1>3. PICK l : l = Woken(Unlinked(k, s), s)
  OBVIOUS
<1>4. Good(l, {}, D) /\ l.sem = Without(k.sem, Range(s))
  BY <1>1, <1>3, WakeGood
<1>5. l.count \in Int /\ l.sem \in Seq(Pids) /\ Counted(l) /\ l \in QType
  BY <1>4, GoodFacts, AtRest
<1>6. PICK c : c = l.count - (n - Len(s))
  OBVIOUS
<1>7. c \in Int
  BY <1>2, <1>5, <1>6
<1>8. l.sem # <<>> => c >= Len(l.sem)
  <2>1. CASE n <= Len(k.sem)
    <3>1. c = l.count
      BY <1>1, <1>2, <1>5, <1>6, <2>1
    <3> QED
      BY <1>5, <3>1 DEF Counted
  <2>2. CASE n > Len(k.sem)
    <3>1. Range(l.sem) = {}
      BY <1>1, <1>2, <1>4, <2>2, WithoutFacts
    <3> QED
      BY <1>5, <3>1, EmptyRange
  <2> QED
    BY <1>2, <2>1, <2>2
<1>9. Good([l EXCEPT !.count = c], {}, D)
  BY <1>4, <1>7, <1>8, Recounted
<1>10. [l EXCEPT !.count = @ - (n - Len(s))] = [l EXCEPT !.count = c]
  BY <1>5, <1>6 DEF QType
<1> QED
  BY <1>3, <1>9, <1>10

(* A part of a set that another part of it is taken from.                  *)
LEMMA CardLess ==
  ASSUME NEW B, IsFiniteSet(B), NEW C, NEW R, C \subseteq B, R \subseteq B, C \cap R = {}
  PROVE  /\ Cardinality(B) \in Nat /\ Cardinality(C) \in Nat /\ Cardinality(R) \in Nat
         /\ Cardinality(C) <= Cardinality(B) - Cardinality(R)
<1>1. IsFiniteSet(C) /\ IsFiniteSet(R)
  BY FS_Subset
<1>2. Cardinality(B) \in Nat /\ Cardinality(C) \in Nat /\ Cardinality(R) \in Nat
  BY <1>1, FS_CardinalityType
<1>3. Cardinality(C \cup R) = Cardinality(C) + Cardinality(R) - Cardinality(C \cap R)
  BY <1>1, FS_Union
<1>4. Cardinality(C \cap R) = 0
  BY FS_EmptySet
<1>5. Cardinality(C \cup R) <= Cardinality(B)
  <2>1. C \cup R \in SUBSET B
    OBVIOUS
  <2> QED
    BY <2>1, FS_Subset
<1>6. Cardinality(C) <= Cardinality(B) - Cardinality(R)
  BY <1>2, <1>3, <1>4, <1>5
<1> QED
  BY <1>2, <1>6

(* @drain: every entry is taken off the counter that counts it.            *)
LEMMA DrainedGood ==
  ASSUME NEW k, NEW D, Good(k, {}, D), NEW s \in Seq(Pids), IsInjective(s),
         Range(s) \subseteq Range(k.sem)
  PROVE  /\ Good(Drained(k, s), {}, D)
         /\ Drained(k, s).sem = Without(k.sem, Range(s))
<1>1. PICK R : R = Range(s)
  OBVIOUS
<1>2. PICK a : a = Unlinked(k, s)
  OBVIOUS
<1>3. Good(a, R, D)
  BY <1>1, <1>2, UnlinkedGood
<1>4. PICK l : l = Freed(a, R)
  OBVIOUS
<1>5. /\ k \in QType /\ a \in QType /\ k.queued \in [Objs -> Int]
      /\ Range(k.sem) \subseteq DOMAIN k.map
      /\ Apart(k) /\ Held(k, D) /\ SemInv(k) /\ Paid(k, D)
  BY <1>3, GoodFacts, AtRest
<1>6. R \cap D = {} /\ R \subseteq DOMAIN k.map
  BY <1>1, <1>5 DEF Held, InQueues
<1>7. Good(l, {}, D)
  <2>1. R \subseteq R \cup D /\ R \ R = {} /\ D \ R = D
    BY <1>6
  <2>2. Good(Freed(a, R), R \ R, D \ R)
    BY <1>3, <2>1, FreedGood
  <2> QED
    BY <1>4, <2>1, <2>2
<1>8. /\ a.map = k.map /\ a.sem = Without(k.sem, Range(s)) /\ a.queued = k.queued
  BY <1>2, <1>5 DEF Unlinked, QType
<1>9. /\ l \in QType /\ l.map = [p \in DOMAIN k.map \ R |-> k.map[p]]
      /\ l.sem = Without(k.sem, Range(s)) /\ l.queued = k.queued
  <2>1. /\ l \in QType /\ l.map = [p \in DOMAIN a.map \ R |-> a.map[p]]
        /\ l.sem = a.sem /\ l.queued = a.queued
    BY <1>4, <1>5, FreedFields
  <2> QED
    BY <1>8, <2>1
<1>10. PICK key : key = [p \in R |-> Key(k.map[p].executor)]
  OBVIOUS
<1>11. /\ key \in [R -> Objs] /\ \A p \in R : key[p] = Key(k.map[p].executor)
       /\ \A p \in R : k.map[p].executor \in Objs
  BY <1>1, <1>5, <1>6, <1>10, Basics DEF SemInv
<1>12. PICK f, g : f = k.queued /\ g = [x \in Objs |-> f[x] - Cardinality({ p \in R : key[p] = x })]
  OBVIOUS
<1>13. IsFiniteSet(R) /\ \A x \in Objs : Cardinality({ p \in R : key[p] = x }) \in Nat
  <2>1. IsFiniteSet(R)
    BY <1>1, Counting
  <2>2. \A x \in Objs : { p \in R : key[p] = x } \in SUBSET R
    OBVIOUS
  <2> QED
    BY <2>1, <2>2, FS_Subset, FS_CardinalityType
<1>14. g \in [Objs -> Int] /\ SumFunction(g) = SumFunction(f) - Cardinality(R)
  <2>1. f \in [Objs -> Int] /\ g = Charged(f, R, key)
    BY <1>5, <1>12 DEF Charged
  <2> QED
    BY <1>11, <1>13, <2>1, SumParts
<1>15. PICK j : j = Drained(k, s)
  OBVIOUS
<1>16. j = [l EXCEPT !.queued = g]
  <2>1. \A x \in Objs : { p \in R : Key(k.map[p].executor) = x } = { p \in R : key[p] = x }
    BY <1>11
  <2>2. [x \in Objs |-> k.queued[x] - Cardinality({ p \in R : Key(k.map[p].executor) = x })] = g
    BY <1>12, <2>1
  <2> QED
    BY <1>1, <1>2, <1>4, <1>15, <2>2 DEF Drained
<1>17. /\ j \in QType /\ j.map = l.map /\ j.first = l.first /\ j.low = l.low /\ j.wait = l.wait
       /\ j.sem = l.sem /\ j.count = l.count /\ j.queued = g
  BY <1>9, <1>14, <1>16 DEF QType
<1>18. /\ Apart(l) /\ Held(l, D) /\ SemInv(l) /\ Ordered(l) /\ Counted(l)
  BY <1>7, AtRest
<1>19. Apart(j) /\ Counted(j) /\ Held(j, D) /\ SemInv(j)
  BY <1>17, <1>18 DEF Apart, Counted, Held, InQueues, SemInv
<1>20. Ordered(j)
  BY <1>17, <1>18 DEF Ordered, InOrder, Later
<1>21. \A S : Alive(j, D, S) \subseteq Alive(k, D, S) /\ Alive(j, D, S) \cap R = {}
  BY <1>9, <1>17 DEF Alive
<1>22. Paid(j, D)
  <2>1. \A x \in Objs : f[x] \in Int /\ g[x] = f[x] - Cardinality({ p \in R : key[p] = x })
    BY <1>5, <1>12
  <2>2. \A x \in Objs : j.queued[x] <= Quota
    <3>1. ASSUME NEW x \in Objs PROVE g[x] <= Quota
      <4>1. PICK c : c = Cardinality({ p \in R : key[p] = x })
        OBVIOUS
      <4>2. c \in Nat /\ f[x] \in Int /\ g[x] = f[x] - c /\ Quota \in Nat
        BY <1>13, <2>1, <4>1, Basics
      <4>3. f[x] <= Quota
        BY <1>5, <1>12 DEF Paid
      <4> QED
        BY <4>2, <4>3
    <3> QED
      BY <1>17, <3>1
  <2>3. Cardinality(Alive(j, D, Objs)) <= SumFunction(g)
    <3>1. PICK B, C : B = Alive(k, D, Objs) /\ C = Alive(j, D, Objs)
      OBVIOUS
    <3>2. IsFiniteSet(B) /\ C \subseteq B /\ C \cap R = {} /\ R \subseteq B
      <4>1. IsFiniteSet(B) /\ C \subseteq B /\ C \cap R = {}
        BY <1>5, <1>21, <3>1, AliveFacts
      <4>2. R \subseteq B
        BY <1>6, <1>11, <3>1 DEF Alive
      <4> QED
        BY <4>1, <4>2
    <3>3. /\ Cardinality(B) \in Nat /\ Cardinality(C) \in Nat /\ Cardinality(R) \in Nat
          /\ Cardinality(C) <= Cardinality(B) - Cardinality(R)
      BY <3>2, CardLess
    <3>4. Cardinality(B) <= SumFunction(f)
      BY <1>5, <1>12, <3>1 DEF Paid
    <3>5. SumFunction(f) \in Int
      BY <1>5, <1>12, Basics, SumQueued
    <3>6. Cardinality(C) <= SumFunction(f) - Cardinality(R)
      BY <3>3, <3>4, <3>5
    <3> QED
      BY <1>14, <3>1, <3>6
  <2>4. ASSUME ~ownerQueues, NEW x \in Things
        PROVE  Cardinality(Alive(j, D, {x})) <= g[x]
    <3>1. x \in Objs
      BY Basics
    <3>2. PICK B, C, T : B = Alive(k, D, {x}) /\ C = Alive(j, D, {x}) /\ T = { p \in R : key[p] = x }
      OBVIOUS
    <3>3. \A p \in R : key[p] = k.map[p].executor
      BY <1>11, <2>4 DEF Key
    <3>4. T \subseteq B
      BY <1>6, <3>2, <3>3 DEF Alive
    <3>5. IsFiniteSet(B) /\ C \subseteq B /\ C \cap T = {}
      BY <1>5, <1>21, <3>2, AliveFacts
    <3>6. /\ Cardinality(B) \in Nat /\ Cardinality(C) \in Nat /\ Cardinality(T) \in Nat
          /\ Cardinality(C) <= Cardinality(B) - Cardinality(T)
      BY <3>4, <3>5, CardLess
    <3>7. Cardinality(B) <= f[x]
      BY <1>5, <1>12, <2>4, <3>2 DEF Paid
    <3>8. g[x] = f[x] - Cardinality(T) /\ f[x] \in Int
      BY <2>1, <3>1, <3>2
    <3>9. Cardinality(C) <= g[x]
      BY <3>6, <3>7, <3>8
    <3> QED
      BY <3>2, <3>9
  <2> QED
    BY <1>17, <2>2, <2>3, <2>4 DEF Paid
<1> QED
  BY <1>9, <1>15, <1>17, <1>19, <1>20, <1>22, AtRest

(* @drain without a number frees all that waits and clears the attribute.  *)
LEMMA DrainedAllGood ==
  ASSUME NEW k, NEW D, Good(k, {}, D)
  PROVE  Good([Drained(k, k.sem) EXCEPT !.count = 0], {}, D)
<1>1. k.sem \in Seq(Pids) /\ IsInjective(k.sem)
  BY GoodFacts, AtRest DEF Apart
<1>2. PICK s, l : s = k.sem /\ l = Drained(k, s)
  OBVIOUS
<1>3. Good(l, {}, D) /\ l.sem = Without(s, Range(s))
  BY <1>1, <1>2, DrainedGood
<1>4. l.sem = <<>>
  <2>1. Range(l.sem) = {} /\ l.sem \in Seq(Pids)
    BY <1>1, <1>2, <1>3, WithoutFacts
  <2> QED
    BY <2>1, EmptyRange
<1>5. PICK c : c = 0
  OBVIOUS
<1>6. Good([l EXCEPT !.count = c], {}, D)
  BY <1>3, <1>4, <1>5, Recounted
<1> QED
  BY <1>2, <1>5, <1>6

-----------------------------------------------------------------------------
(* The commands on one entry.                                              *)

(* What changes of an entry.                                               *)
LEMMA Changed ==
  ASSUME NEW k, NEW W, NEW D, Good(k, W, D), NEW p \in DOMAIN k.map, NEW e \in Entry,
         NEW m, m = [k.map EXCEPT ![p] = e]
  PROVE  /\ m \in Maps /\ DOMAIN m = DOMAIN k.map /\ m[p] = e
         /\ \A r \in DOMAIN m : r # p => m[r] = k.map[r]
<1>1. /\ DOMAIN k.map \subseteq Pids /\ \A r \in DOMAIN k.map : k.map[r] \in Entry
  BY GoodFacts
<1>2. /\ DOMAIN m = DOMAIN k.map /\ m[p] = e /\ \A r \in DOMAIN m : r # p => m[r] = k.map[r]
      /\ m = [r \in DOMAIN m |-> m[r]]
  OBVIOUS
<1>3. DOMAIN m \subseteq Pids /\ \A r \in DOMAIN m : m[r] \in Entry
  BY <1>1, <1>2
<1>4. m \in Maps
  BY <1>2, <1>3, MapType
<1> QED
  BY <1>2, <1>4

(* @halt/pid.                                                              *)
LEMMA HaltPidGood ==
  ASSUME NEW k, NEW D, Good(k, {}, D), NEW p \in DOMAIN k.map,
         NEW l, l = [k EXCEPT !.map[p].executor = Nothing]
  PROVE  /\ ~k.map[p].attr => Good(l, {}, D)
         /\ p \in Range(k.sem) => Good(Freed(Unlinked(l, <<p>>), {p}), {}, D)
<1>1. /\ k \in QType /\ k.sem \in Seq(Pids) /\ p \in Pids /\ k.map[p] \in Entry
      /\ Range(k.wait) \subseteq DOMAIN k.map
  BY GoodFacts
<1>2. Apart(k) /\ Held(k, D) /\ SemInv(k)
  BY AtRest
<1>3. PICK e : e = [k.map[p] EXCEPT !.executor = Nothing]
  OBVIOUS
<1>4. e \in Entry /\ e.attr = k.map[p].attr /\ e.due = k.map[p].due /\ e.executor = Nothing
  BY <1>1, <1>3 DEF Entry
<1>5. PICK m : m = [k.map EXCEPT ![p] = e]
  OBVIOUS
<1>6. l = [k EXCEPT !.map = m]
  BY <1>1, <1>3, <1>5 DEF QType
<1>7. /\ m \in Maps /\ DOMAIN m = DOMAIN k.map /\ m[p] = e
      /\ \A r \in DOMAIN m : r # p => m[r] = k.map[r]
  BY <1>4, <1>5, Changed
<1>8. ASSUME ~k.map[p].attr PROVE Good(l, {}, D)
  <2>1. p \notin Range(k.sem)
    BY <1>2, <1>8 DEF SemInv
  <2>2. \A r \in DOMAIN m : m[r].due = k.map[r].due
    BY <1>4, <1>7
  <2>3. /\ \A r \in DOMAIN m :
             /\ m[r].attr = k.map[r].attr
             /\ \/ m[r].executor = k.map[r].executor
                \/ m[r].executor = Nothing /\ r \notin Range(k.sem)
    BY <1>4, <1>7, <2>1
  <2>4. Adjusted(k, m)
    BY <1>1, <1>7, <2>2, <2>3 DEF Adjusted
  <2> QED
    BY <1>6, <2>4, Remapped
<1>9. ASSUME p \in Range(k.sem) PROVE Good(Freed(Unlinked(l, <<p>>), {p}), {}, D)
  <2>1. PICK s : s = <<p>>
    OBVIOUS
  <2>2. s \in Seq(Pids) /\ IsInjective(s) /\ Range(s) = {p}
    BY <1>1, <2>1 DEF IsInjective, Range
  <2>3. PICK a, F : a = Unlinked(k, s) /\ F = {p}
    OBVIOUS
  <2>4. Good(a, F, D)
    BY <1>9, <2>2, <2>3, UnlinkedGood
  <2>5. F \cap D = {}
    BY <1>2, <1>9, <2>3 DEF Held, InQueues
  <2>6. F \ F = {} /\ D \ F = D /\ F \subseteq F \cup D
    BY <2>5
  <2>7. Good(Freed(a, F), F \ F, D \ F)
    BY <2>4, <2>6, FreedGood
  <2>8. Freed(a, F) = Freed(Unlinked(l, s), F)
    <3>1. PICK t, c : t = Without(k.sem, Range(s)) /\ c = k.count - Len(s)
      OBVIOUS
    <3>2. a = [k EXCEPT !.sem = t, !.count = c]
      BY <1>1, <2>3, <3>1 DEF Unlinked, QType
    <3>3. Unlinked(l, s) = [l EXCEPT !.sem = t, !.count = c]
      BY <1>1, <1>6, <3>1 DEF Unlinked, QType
    <3>4. PICK b : b = Unlinked(l, s)
      OBVIOUS
    <3>5. b = [k EXCEPT !.map = m, !.sem = t, !.count = c]
      BY <1>1, <1>6, <3>3, <3>4 DEF QType
    <3>6. a.map = k.map /\ b.map = m
      BY <1>1, <3>2, <3>5 DEF QType
    <3>7. PICK g : g = [r \in DOMAIN k.map \ F |-> k.map[r]]
      OBVIOUS
    <3>8. [r \in DOMAIN m \ F |-> m[r]] = g
      BY <1>7, <2>3, <3>7
    <3>9. Freed(a, F) = [a EXCEPT !.map = g] /\ Freed(b, F) = [b EXCEPT !.map = g]
      BY <3>6, <3>7, <3>8 DEF Freed
    <3>10. [a EXCEPT !.map = g] = [b EXCEPT !.map = g]
      BY <1>1, <3>2, <3>5 DEF QType
    <3> QED
      BY <3>4, <3>9, <3>10
  <2> QED
    BY <2>1, <2>3, <2>6, <2>7, <2>8
<1> QED
  BY <1>8, <1>9

(* @wait/pid of an entry in the wait queue: it leaves it,                  *)
LEMMA OffWait ==
  ASSUME NEW k, NEW D, Good(k, {}, D), NEW p \in Range(k.wait)
  PROVE  Good([k EXCEPT !.wait = Without(k.wait, {p})], {p}, D)
<1>1. k \in QType /\ k.wait \in Seq(Pids)
  BY GoodFacts
<1>2. /\ Apart(k) /\ Held(k, D) /\ SemInv(k) /\ Ordered(k) /\ Counted(k) /\ Paid(k, D)
  BY AtRest
<1>3. PICK S, t : S = {p} /\ t = Without(k.wait, S)
  OBVIOUS
<1>4. t \in Seq(Pids) /\ Range(t) = Range(k.wait) \ {p} /\ IsInjective(t)
  BY <1>1, <1>2, <1>3, WithoutFacts DEF Apart
<1>5. PICK l : l = [k EXCEPT !.wait = t]
  OBVIOUS
<1>6. /\ l \in QType /\ l.map = k.map /\ l.first = k.first /\ l.low = k.low /\ l.wait = t
      /\ l.sem = k.sem /\ l.queued = k.queued /\ l.count = k.count
  BY <1>1, <1>4, <1>5 DEF QType
<1>7. Apart(l)
  BY <1>2, <1>4, <1>6 DEF Apart
<1>8. Held(l, {p} \cup D)
  BY <1>2, <1>4, <1>6 DEF Held, InQueues, Apart
<1>9. SemInv(l) /\ Counted(l)
  BY <1>2, <1>6 DEF SemInv, Counted
<1>10. Ordered(l)
  <2>1. InOrder(k, t)
    BY <1>1, <1>2, <1>3, OrderAmong DEF Ordered
  <2> QED
    BY <1>6, <2>1 DEF Ordered, InOrder, Later
<1>11. Paid(l, D)
  BY <1>2, <1>6 DEF Paid, Alive
<1> QED
  BY <1>3, <1>5, <1>6, <1>7, <1>8, <1>9, <1>10, <1>11 DEF Good, Sound

(* and is put in at its new place.                                         *)
LEMMA WaitPidGood ==
  ASSUME NEW k, NEW D, Good(k, {}, D), NEW p \in DOMAIN k.map, NEW due \in Due,
         NEW l, l = [k EXCEPT !.map[p].due = due]
  PROVE  /\ p \in Range(k.wait) =>
              Good([l EXCEPT !.wait = SortedInto(l, Without(l.wait, {p}), p)], {}, D)
         /\ p \in Range(k.sem) => Good(l, {}, D)
<1>1. /\ k \in QType /\ p \in Pids /\ k.map[p] \in Entry /\ k.wait \in Seq(Pids)
      /\ Range(k.wait) \subseteq DOMAIN k.map
  BY GoodFacts
<1>2. Apart(k) /\ Held(k, D)
  BY AtRest
<1>3. PICK e : e = [k.map[p] EXCEPT !.due = due]
  OBVIOUS
<1>4. e \in Entry /\ e.attr = k.map[p].attr /\ e.executor = k.map[p].executor
  BY <1>1, <1>3 DEF Entry
<1>5. PICK m : m = [k.map EXCEPT ![p] = e]
  OBVIOUS
<1>6. l = [k EXCEPT !.map = m]
  BY <1>1, <1>3, <1>5 DEF QType
<1>7. /\ m \in Maps /\ DOMAIN m = DOMAIN k.map /\ m[p] = e
      /\ \A r \in DOMAIN m : r # p => m[r] = k.map[r]
  BY <1>4, <1>5, Changed
<1>8. \A r \in DOMAIN m : m[r].attr = k.map[r].attr /\ m[r].executor = k.map[r].executor
  BY <1>4, <1>7
<1>9. ASSUME p \in Range(k.wait)
      PROVE  Good([l EXCEPT !.wait = SortedInto(l, Without(l.wait, {p}), p)], {}, D)
  <2>1. PICK t : t = Without(k.wait, {p})
    OBVIOUS
  <2>2. PICK a : a = [k EXCEPT !.wait = t]
    OBVIOUS
  <2>3. Good(a, {p}, D)
    BY <1>9, <2>1, <2>2, OffWait
  <2>4. a.map = k.map /\ a.wait = t /\ Range(t) \subseteq DOMAIN k.map
    <3>1. a.map = k.map /\ a.wait = t
      BY <1>1, <2>2 DEF QType
    <3> QED
      BY <2>3, <3>1, GoodFacts
  <2>5. p \notin Range(t)
    BY <1>1, <2>1, WithoutFacts
  <2>6. Adjusted(a, m)
    BY <1>7, <1>8, <2>4, <2>5 DEF Adjusted
  <2>7. PICK b : b = [a EXCEPT !.map = m]
    OBVIOUS
  <2>8. Good(b, {p}, D)
    BY <2>3, <2>6, <2>7, Remapped
  <2>9. p \notin D
    BY <1>2, <1>9 DEF Held, InQueues
  <2>10. Good([b EXCEPT !.wait = SortedInto(b, b.wait, p)], {}, D)
    BY <2>8, <2>9, OnWait
  <2>11. b.map = l.map /\ b.wait = t /\ l.wait = k.wait
    BY <1>1, <1>6, <2>2, <2>7 DEF QType
  <2>12. SortedInto(b, t, p) = SortedInto(l, t, p)
    BY <2>11 DEF SortedInto
  <2>13. PICK w : w = SortedInto(l, t, p)
    OBVIOUS
  <2>14. [b EXCEPT !.wait = w] = [l EXCEPT !.wait = w]
    BY <1>1, <1>6, <2>2, <2>7 DEF QType
  <2> QED
    BY <2>1, <2>10, <2>11, <2>12, <2>13, <2>14
<1>10. ASSUME p \in Range(k.sem) PROVE Good(l, {}, D)
  <2>1. p \notin Range(k.wait)
    BY <1>2, <1>10 DEF Apart
  <2>2. Adjusted(k, m)
    BY <1>1, <1>7, <1>8, <2>1 DEF Adjusted
  <2> QED
    BY <1>6, <2>2, Remapped
<1> QED
  BY <1>9, <1>10

(* do_top(): the head of the player queue is being executed.               *)
LEMMA HeadGood ==
  ASSUME NEW k, Good(k, {}, {}), k.first # <<>>
  PROVE  /\ Good([k EXCEPT !.first = Tail(k.first)], {Head(k.first)}, {})
         /\ Head(k.first) \in DOMAIN k.map
<1>1. k \in QType /\ k.first \in Seq(Pids) /\ Range(k.first) \subseteq DOMAIN k.map
  BY GoodFacts
<1>2. /\ Apart(k) /\ Held(k, {}) /\ SemInv(k) /\ Ordered(k) /\ Counted(k) /\ Paid(k, {})
  BY AtRest
<1>3. PICK p, t : p = Head(k.first) /\ t = Tail(k.first)
  OBVIOUS
<1>4. /\ p \in Pids /\ t \in Seq(Pids) /\ IsInjective(t) /\ p \notin Range(t)
      /\ Range(k.first) = Range(t) \cup {p}
  BY <1>1, <1>2, <1>3, Rest DEF Apart
<1>5. PICK l : l = [k EXCEPT !.first = t]
  OBVIOUS
<1>6. /\ l \in QType /\ l.map = k.map /\ l.first = t /\ l.low = k.low /\ l.wait = k.wait
      /\ l.sem = k.sem /\ l.queued = k.queued /\ l.count = k.count
  BY <1>1, <1>4, <1>5 DEF QType
<1>7. Apart(l)
  BY <1>2, <1>4, <1>6 DEF Apart
<1>8. Held(l, {p} \cup {})
  BY <1>2, <1>4, <1>6 DEF Held, InQueues, Apart
<1>9. SemInv(l) /\ Counted(l)
  BY <1>2, <1>6 DEF SemInv, Counted
<1>10. Ordered(l)
  BY <1>2, <1>6 DEF Ordered, InOrder, Later
<1>11. Paid(l, {})
  BY <1>2, <1>6 DEF Paid, Alive
<1> QED
  BY <1>1, <1>3, <1>4, <1>5, <1>6, <1>7, <1>8, <1>9, <1>10, <1>11 DEF Good, Sound

(* Its executor pays back, and it no longer counts.                        *)
LEMMA PaidBack ==
  ASSUME NEW k, NEW p, Good(k, {p}, {}), NEW x \in Objs, k.map[p].executor = x
  PROVE  Good(AddTo(k, x, -1), {}, {p})
<1>1. k \in QType /\ p \in DOMAIN k.map /\ k.queued \in [Objs -> Int]
  BY GoodFacts
<1>2. /\ Apart(k) /\ Held(k, {p} \cup {}) /\ SemInv(k) /\ Ordered(k) /\ Counted(k) /\ Paid(k, {})
  BY DEF Good, Sound
<1>3. PICK n : n = -1
  OBVIOUS
<1>4. n \in Int
  BY <1>3
<1>5. PICK l, y : l = AddTo(k, x, n) /\ y = Key(x)
  OBVIOUS
<1>6. /\ l \in QType /\ l.map = k.map /\ l.first = k.first /\ l.low = k.low /\ l.wait = k.wait
      /\ l.sem = k.sem /\ l.count = k.count
      /\ \A z \in Objs : z # y => l.queued[z] = k.queued[z]
      /\ l.queued[y] = k.queued[y] + n
  BY <1>1, <1>4, <1>5, AddToFields
<1>7. Apart(l) /\ Counted(l) /\ Held(l, {p}) /\ SemInv(l)
  BY <1>2, <1>6 DEF Apart, Counted, Held, InQueues, SemInv
<1>8. Ordered(l)
  BY <1>2, <1>6 DEF Ordered, InOrder, Later
<1>9. PICK R, D : R = {p} /\ D = {}
  OBVIOUS
<1>10. y \in Objs
  BY <1>5, Basics
<1>11. Fewer(k, D, l, R, y, R)
  <2>1. R \in SUBSET Alive(k, D, Objs)
    BY <1>1, <1>9 DEF Alive
  <2>2. l.queued[y] = k.queued[y] - Cardinality(R)
    <3>1. Cardinality(R) = 1
      BY <1>9, FS_Singleton
    <3>2. k.queued[y] \in Int
      BY <1>1, <1>10
    <3> QED
      BY <1>3, <1>6, <3>1, <3>2
  <2>3. ~ownerQueues /\ y \in Things => R \subseteq Alive(k, D, {y})
    BY <1>1, <1>5, <1>9 DEF Alive, Key
  <2>4. \A S \in SUBSET Objs : Alive(l, R, S) \subseteq Alive(k, D, S) \ R
    BY <1>6, <1>9 DEF Alive
  <2> QED
    BY <1>6, <2>1, <2>2, <2>3, <2>4 DEF Fewer
<1>12. Paid(l, R)
  BY <1>1, <1>2, <1>6, <1>9, <1>10, <1>11, PaidLess
<1> QED
  BY <1>3, <1>5, <1>6, <1>7, <1>8, <1>9, <1>12, AtRest

-----------------------------------------------------------------------------
(* What is woken of a semaphore, and in which order it stands.             *)

(* Two ways to list what is in S list it alike, as far as the first goes.  *)
LEMMA KeptSame ==
  ASSUME NEW s, NEW S, NEW n \in Nat,
         NEW r, NEW g, Kept(s, S, n, r, g), \E m \in Nat : DOMAIN r = 1..m,
         NEW t, NEW h, Kept(s, S, n, t, h), \E m \in Nat : DOMAIN t = 1..m
  PROVE  \A i \in DOMAIN r : i \in DOMAIN t /\ g[i] = h[i]
<1> DEFINE T == { i \in DOMAIN r : ~(i \in DOMAIN t /\ g[i] = h[i]) }
<1> SUFFICES ASSUME T # {} PROVE FALSE
  OBVIOUS
<1>1. PICK lr \in Nat, lt \in Nat : DOMAIN r = 1..lr /\ DOMAIN t = 1..lt
  OBVIOUS
<1>2. T \subseteq Nat
  BY <1>1
<1> HIDE DEF T
<1>3. PICK i \in T : \A y \in T : i <= y
  BY <1>2, Least
<1> USE DEF T
<1>4. i \in DOMAIN r /\ i \in Nat /\ ~(i \in DOMAIN t /\ g[i] = h[i])
  BY <1>1, <1>3
<1>5. \A j \in DOMAIN r : j < i => j \in DOMAIN t /\ g[j] = h[j]
  BY <1>1, <1>3
<1> HIDE DEF T
<1>6. /\ \A j \in DOMAIN r : g[j] \in 1..n /\ s[g[j]] \in S
      /\ \A j \in DOMAIN t : h[j] \in 1..n /\ s[h[j]] \in S
      /\ \A j, l \in DOMAIN r : j < l => g[j] < g[l]
      /\ \A j, l \in DOMAIN t : j < l => h[j] < h[l]
  BY DEF Kept
<1>7. PICK j \in DOMAIN t : h[j] = g[i]
  BY <1>4, <1>6 DEF Kept
<1>8. j # i /\ j \in Nat
  BY <1>1, <1>4, <1>7
<1>9. CASE j < i
  <2>1. j \in DOMAIN r
    BY <1>1, <1>4, <1>7, <1>9
  <2>2. g[j] = g[i] /\ g[j] < g[i] /\ g[i] \in Nat
    BY <1>4, <1>5, <1>6, <1>7, <1>9, <2>1
  <2> QED
    BY <2>2
<1>10. CASE i < j
  <2>1. i \in DOMAIN t
    BY <1>1, <1>4, <1>7, <1>10
  <2>2. h[i] < g[i] /\ h[i] \in Nat /\ g[i] \in Nat
    BY <1>4, <1>6, <1>7, <1>10, <2>1
  <2>3. PICK l \in DOMAIN r : g[l] = h[i]
    BY <1>6, <2>1 DEF Kept
  <2>4. l \in Nat /\ l # i
    BY <1>1, <2>2, <2>3
  <2>5. CASE l < i
    <3>1. l \in DOMAIN t /\ h[l] = h[i]
      BY <1>5, <2>3, <2>5
    <3>2. h[l] < h[i]
      BY <1>6, <2>1, <2>5, <3>1
    <3> QED
      BY <2>2, <3>1, <3>2
  <2>6. CASE i < l
    <3>1. g[i] < h[i]
      BY <1>4, <1>6, <2>3, <2>6
    <3> QED
      BY <2>2, <3>1
  <2> QED
    BY <1>4, <2>4, <2>5, <2>6
<1> QED
  BY <1>4, <1>8, <1>9, <1>10

(* Among is the only sequence of what is in S, in its order.               *)
LEMMA KeptOnce ==
  ASSUME NEW A, NEW s \in Seq(A), NEW S, NEW n \in Nat,
         NEW r \in Seq(A), NEW g, Kept(s, S, n, r, g),
         NEW t \in Seq(A), NEW h, Kept(s, S, n, t, h)
  PROVE  r = t
<1>1. /\ Len(r) \in Nat /\ DOMAIN r = 1..Len(r) /\ \E m \in Nat : DOMAIN r = 1..m
      /\ Len(t) \in Nat /\ DOMAIN t = 1..Len(t) /\ \E m \in Nat : DOMAIN t = 1..m
  OBVIOUS
<1>2. \A i \in DOMAIN r : i \in DOMAIN t /\ g[i] = h[i]
  BY <1>1, KeptSame
<1>3. \A i \in DOMAIN t : i \in DOMAIN r /\ h[i] = g[i]
  BY <1>1, KeptSame
<1>4. DOMAIN r = DOMAIN t
  BY <1>2, <1>3
<1>5. \A i \in DOMAIN r : r[i] = t[i]
  BY <1>2, <1>4 DEF Kept
<1>6. Len(r) = Len(t)
  <2>1. PICK a \in Nat, b \in Nat : a = Len(r) /\ b = Len(t)
    BY <1>1
  <2>2. 1..a = 1..b
    BY <1>1, <1>4, <2>1
  <2>3. a <= b
    <3>1. a = 0 \/ a \in 1..a
      OBVIOUS
    <3> QED
      BY <2>2, <3>1
  <2>4. b <= a
    <3>1. b = 0 \/ b \in 1..b
      OBVIOUS
    <3> QED
      BY <2>2, <3>1
  <2> QED
    BY <2>1, <2>3, <2>4
<1> QED
  BY <1>1, <1>5, <1>6

(* u begins with s.                                                        *)
BeginsWith(u, s) == Len(s) <= Len(u) /\ \A i \in DOMAIN s : s[i] = u[i]

(* What is in W comes behind a in the order it has in u, when it is taken  *)
(* from the front s of u and is in neither a nor the rest of u.            *)
LEMMA KeptBehind ==
  ASSUME NEW A, NEW a \in Seq(A), NEW s \in Seq(A), NEW u \in Seq(A), IsInjective(u),
         BeginsWith(u, s), NEW C, NEW W, W \subseteq C, W \subseteq Range(s), Range(a) \cap W = {}
  PROVE  Among(a \o Among(s, C), W) = Among(u, W)
<1>1. PICK b : b = Among(s, C)
  OBVIOUS
<1>2. b \in Seq(A) /\ \E g : Kept(s, C, Len(s), b, g)
  BY <1>1, AmongKept
<1>3. PICK g : Kept(s, C, Len(s), b, g)
  BY <1>2
<1>4. PICK v : v = a \o b
  OBVIOUS
<1>5. PICK n \in Nat : n = Len(a)
  OBVIOUS
<1>6. /\ v \in Seq(A) /\ Len(v) = n + Len(b) /\ Len(b) \in Nat /\ DOMAIN b = 1..Len(b)
      /\ DOMAIN a = 1..n
      /\ \A i \in 1..Len(v) : v[i] = IF i <= n THEN a[i] ELSE b[i - n]
  BY <1>2, <1>4, <1>5
<1>7. PICK r : r = Among(v, W)
  OBVIOUS
<1>8. r \in Seq(A) /\ \E h : Kept(v, W, Len(v), r, h)
  BY <1>6, <1>7, AmongKept
<1>9. PICK h : Kept(v, W, Len(v), r, h)
  BY <1>8
<1> DEFINE f == [i \in DOMAIN r |-> g[h[i] - n]]
<1>10. /\ Len(s) \in Nat /\ DOMAIN s = 1..Len(s) /\ Len(u) \in Nat /\ DOMAIN u = 1..Len(u)
       /\ Len(s) <= Len(u) /\ \A i \in DOMAIN s : s[i] = u[i]
  BY DEF BeginsWith
<1>11. ASSUME NEW i \in DOMAIN r
       PROVE  /\ h[i] - n \in DOMAIN b /\ h[i] \in Nat /\ h[i] \in 1..Len(v)
              /\ r[i] = b[h[i] - n]
  <2>1. h[i] \in 1..Len(v) /\ r[i] = v[h[i]] /\ v[h[i]] \in W
    BY <1>9 DEF Kept
  <2>2. ~(h[i] <= n)
    <3>1. ASSUME h[i] <= n PROVE FALSE
      <4>1. h[i] \in DOMAIN a /\ v[h[i]] = a[h[i]]
        BY <1>6, <2>1, <3>1
      <4> QED
        BY <2>1, <4>1 DEF Range
    <3> QED
      BY <3>1
  <2>3. h[i] - n \in 1..Len(b) /\ v[h[i]] = b[h[i] - n]
    BY <1>6, <2>1, <2>2
  <2> QED
    BY <1>6, <2>1, <2>3
<1>12. ASSUME NEW i \in DOMAIN r
       PROVE  /\ f[i] \in DOMAIN s /\ f[i] \in 1..Len(u) /\ f[i] \in Nat
              /\ r[i] = u[f[i]] /\ u[f[i]] \in W
  <2>1. f[i] = g[h[i] - n]
    OBVIOUS
  <2>2. h[i] - n \in DOMAIN b /\ r[i] = b[h[i] - n]
    BY <1>11
  <2>3. f[i] \in 1..Len(s) /\ r[i] = s[f[i]]
    BY <1>3, <2>1, <2>2 DEF Kept
  <2>4. r[i] \in W
    BY <1>9 DEF Kept
  <2>5. s[f[i]] = u[f[i]]
    BY <1>10, <2>3
  <2>6. f[i] \in 1..Len(u)
    BY <1>10, <2>3
  <2> QED
    BY <1>10, <2>3, <2>4, <2>5, <2>6
<1>13. ASSUME NEW i \in DOMAIN r, NEW j \in DOMAIN r, i < j PROVE f[i] < f[j]
  <2>1. h[i] < h[j]
    BY <1>9, <1>13 DEF Kept
  <2>2. h[i] - n \in DOMAIN b /\ h[j] - n \in DOMAIN b /\ h[i] \in Nat /\ h[j] \in Nat
    BY <1>11
  <2>3. h[i] - n < h[j] - n
    BY <2>1, <2>2
  <2>4. g[h[i] - n] < g[h[j] - n]
    BY <1>3, <2>2, <2>3 DEF Kept
  <2> QED
    BY <2>4
<1>14. ASSUME NEW m \in 1..Len(u), u[m] \in W PROVE \E i \in DOMAIN r : f[i] = m
  <2>1. PICK l \in DOMAIN s : s[l] = u[m]
    BY <1>14 DEF Range
  <2>2. u[l] = u[m] /\ l \in DOMAIN u
    BY <1>10, <2>1
  <2>3. l = m
    BY <1>10, <2>2 DEF IsInjective
  <2>4. m \in 1..Len(s) /\ s[m] \in C /\ s[m] = u[m]
    BY <1>10, <1>14, <2>1, <2>3
  <2>5. PICK j \in DOMAIN b : g[j] = m
    BY <1>3, <2>4 DEF Kept
  <2>6. b[j] = u[m]
    BY <1>3, <2>4, <2>5 DEF Kept
  <2>7. PICK x : x = n + j
    OBVIOUS
  <2>8. x \in 1..Len(v) /\ ~(x <= n) /\ x - n = j
    BY <1>6, <2>5, <2>7
  <2>9. v[x] = b[j] /\ v[x] \in W
    BY <1>6, <1>14, <2>6, <2>8
  <2>10. PICK i \in DOMAIN r : h[i] = x
    BY <1>9, <2>8, <2>9 DEF Kept
  <2> QED
    BY <2>5, <2>8, <2>10
<1>15. Kept(u, W, Len(u), r, f)
  <2>1. f \in [DOMAIN r -> 1..Len(u)]
    BY <1>12
  <2> HIDE DEF f
  <2> QED
    BY <1>12, <1>13, <1>14, <2>1 DEF Kept
<1> HIDE DEF f
<1>16. PICK t : t = Among(u, W)
  OBVIOUS
<1>17. t \in Seq(A) /\ \E e : Kept(u, W, Len(u), t, e)
  BY <1>16, AmongKept
<1>18. PICK e : Kept(u, W, Len(u), t, e)
  BY <1>17
<1>19. r = t
  BY <1>8, <1>10, <1>15, <1>17, <1>18, KeptOnce
<1> QED
  BY <1>1, <1>4, <1>7, <1>16, <1>19

(* What has been woken and has not been executed yet.                      *)
Wakened(k) == { p \in Range(k.first) \cup Range(k.low) : k.map[p].attr }

(* What waited without a timeout and is woken on the way from k to l, and  *)
(* what of it players, or objects, caused.                                 *)
Awoken(k, l) ==
  { p \in Range(k.sem) : /\ p \in Range(l.first \o l.low)
                         /\ k.map[p].due = NoTime
                         /\ l.map[p].attr }

Caused(k, l, b) == { p \in Awoken(k, l) : k.map[p].player = b }

(* From k to l, what waited longest is woken first, and runs first.        *)
OrderKept(k, l) ==
  /\ \A i, j \in DOMAIN k.sem :
       i < j /\ k.sem[j] \in Awoken(k, l) => k.sem[i] \notin Range(l.sem)
  /\ Among(l.first, Caused(k, l, TRUE)) = Among(k.sem, Caused(k, l, TRUE))
  /\ Among(l.low, Caused(k, l, FALSE)) = Among(k.sem, Caused(k, l, FALSE))

(* Where none is woken there is nothing to be put in order.                *)
LEMMA NoneAwoken ==
  ASSUME NEW k, NEW D, Good(k, {}, D), NEW l \in QType, Awoken(k, l) = {}
  PROVE  OrderKept(k, l)
<1>1. k.sem \in Seq(Pids) /\ l.first \in Seq(Pids) /\ l.low \in Seq(Pids)
  BY GoodFacts DEF QType
<1>2. PICK S : S = {}
  OBVIOUS
<1>3. ASSUME NEW s \in Seq(Pids) PROVE Among(s, S) = <<>>
  <2>1. PICK r : r = Among(s, S)
    OBVIOUS
  <2>2. r \in Seq(Pids) /\ Range(r) = Range(s) \cap S
    BY <2>1, AmongFacts
  <2>3. Range(r) = {}
    BY <1>2, <2>2
  <2> QED
    BY <2>1, <2>2, <2>3, EmptyRange
<1>4. Caused(k, l, TRUE) = S /\ Caused(k, l, FALSE) = S
  BY <1>2 DEF Caused
<1> QED
  BY <1>1, <1>3, <1>4 DEF OrderKept

(* What has been woken already is not woken again.                         *)
LEMMA NotAgain ==
  ASSUME NEW k, NEW D, Good(k, {}, D), NEW l \in QType, Wakened(l) \subseteq Wakened(k)
  PROVE  Awoken(k, l) = {}
<1>1. Range(l.first \o l.low) = Range(l.first) \cup Range(l.low)
  BY Joined DEF QType
<1>2. Apart(k)
  BY AtRest
<1>3. ASSUME NEW p \in Awoken(k, l) PROVE FALSE
  <2>1. p \in Wakened(l) /\ p \in Range(k.sem)
    BY <1>1 DEF Awoken, Wakened
  <2>2. p \in Range(k.first) \cup Range(k.low)
    BY <2>1 DEF Wakened
  <2> QED
    BY <1>2, <2>1, <2>2 DEF Apart
<1> QED
  BY <1>3

(* What of s a player caused, or an object.                                *)
Enacted(k, s, b) == { p \in Range(s) : k.map[p].player = b }

(* Woken, field by field.                                                  *)
LEMMA WokenFields ==
  ASSUME NEW k, k \in QType, NEW s \in Seq(Pids), Range(s) \subseteq DOMAIN k.map
  PROVE  /\ Woken(k, s).first = k.first \o Among(s, Enacted(k, s, TRUE))
         /\ Woken(k, s).low = k.low \o Among(s, Enacted(k, s, FALSE))
         /\ Woken(k, s).wait = k.wait /\ Woken(k, s).sem = k.sem
         /\ DOMAIN Woken(k, s).map = DOMAIN k.map
         /\ \A p \in DOMAIN k.map : /\ Woken(k, s).map[p].attr = k.map[p].attr
                                    /\ p \notin Range(s) => Woken(k, s).map[p] = k.map[p]
<1> DEFINE mm == [p \in DOMAIN k.map |->
                   IF p \in Range(s) THEN [k.map[p] EXCEPT !.due = NoTime] ELSE k.map[p]]
<1>1. k.map \in Maps
  BY DEF QType
<1>2. \A p \in DOMAIN k.map : k.map[p] \in Entry
  BY <1>1, MapFacts
<1>3. /\ DOMAIN mm = DOMAIN k.map
      /\ \A p \in DOMAIN k.map : mm[p].attr = k.map[p].attr /\ (p \notin Range(s) => mm[p] = k.map[p])
  BY <1>2 DEF Entry
<1>4. PICK m : m = mm
  OBVIOUS
<1>5. PICK a, b : /\ a = k.first \o Among(s, Enacted(k, s, TRUE))
                  /\ b = k.low \o Among(s, Enacted(k, s, FALSE))
  OBVIOUS
<1>6. Woken(k, s) = [k EXCEPT !.map = m, !.first = a, !.low = b]
  BY <1>4, <1>5 DEF Woken, Enacted
<1> HIDE DEF mm
<1>7. PICK l : l = Woken(k, s)
  OBVIOUS
<1>8. l.map = m /\ l.first = a /\ l.low = b /\ l.wait = k.wait /\ l.sem = k.sem
  BY <1>6, <1>7 DEF QType
<1> QED
  BY <1>3, <1>4, <1>5, <1>7, <1>8

(* Unlinked, field by field.                                               *)
LEMMA UnlinkedFields ==
  ASSUME NEW k, k \in QType, NEW s
  PROVE  /\ Unlinked(k, s).first = k.first /\ Unlinked(k, s).low = k.low
         /\ Unlinked(k, s).wait = k.wait /\ Unlinked(k, s).map = k.map
         /\ Unlinked(k, s).sem = Without(k.sem, Range(s))
<1>1. PICK t, n : t = Without(k.sem, Range(s)) /\ n = k.count - Len(s)
  OBVIOUS
<1>2. Unlinked(k, s) = [k EXCEPT !.sem = t, !.count = n]
  BY <1>1 DEF Unlinked, QType
<1> QED
  BY <1>1, <1>2 DEF QType

(* The run queues get what is woken and nothing else.                      *)
LEMMA WokenRuns ==
  ASSUME NEW k, k \in QType, NEW s \in Seq(Pids), Range(s) \subseteq DOMAIN k.map
  PROVE  /\ Range(Woken(k, s).first) \subseteq Range(k.first) \cup Range(s)
         /\ Range(Woken(k, s).low) \subseteq Range(k.low) \cup Range(s)
<1>1. k.first \in Seq(Pids) /\ k.low \in Seq(Pids)
  BY DEF QType
<1>2. ASSUME NEW S, NEW r \in Seq(Pids) PROVE Range(r \o Among(s, S)) \subseteq Range(r) \cup Range(s)
  <2>1. PICK b : b = Among(s, S)
    OBVIOUS
  <2>2. b \in Seq(Pids) /\ Range(b) = Range(s) \cap S
    BY <2>1, AmongFacts
  <2>3. Range(r \o b) = Range(r) \cup Range(b)
    BY <2>2, Joined
  <2> QED
    BY <2>1, <2>2, <2>3
<1>3. PICK S, T : S = Enacted(k, s, TRUE) /\ T = Enacted(k, s, FALSE)
  OBVIOUS
<1>4. Woken(k, s).first = k.first \o Among(s, S) /\ Woken(k, s).low = k.low \o Among(s, T)
  BY <1>3, WokenFields
<1> QED
  BY <1>1, <1>2, <1>4

(* @notify: the front of the semaphore's queue is woken in its order.      *)
LEMMA FrontInOrder ==
  ASSUME NEW k, NEW D, Good(k, {}, D), NEW s \in Seq(Pids),
         BeginsWith(k.sem, s),
         NEW l, NEW w, w = Woken(Unlinked(k, s), s),
         l.map = w.map, l.first = w.first, l.low = w.low, l.sem = w.sem
  PROVE  OrderKept(k, l)
<1>1. /\ k \in QType /\ k.sem \in Seq(Pids) /\ k.first \in Seq(Pids) /\ k.low \in Seq(Pids)
      /\ Range(k.sem) \subseteq DOMAIN k.map /\ Apart(k)
  BY GoodFacts, AtRest
<1>2. /\ Len(s) \in Nat /\ DOMAIN s = 1..Len(s)
      /\ Len(k.sem) \in Nat /\ DOMAIN k.sem = 1..Len(k.sem) /\ IsInjective(k.sem)
      /\ Len(s) <= Len(k.sem) /\ \A i \in DOMAIN s : s[i] = k.sem[i]
  BY <1>1 DEF Apart, BeginsWith
<1>3. Range(s) \subseteq Range(k.sem) /\ IsInjective(s)
  <2>1. \A i \in DOMAIN s : i \in DOMAIN k.sem /\ s[i] = k.sem[i]
    BY <1>2
  <2> QED
    BY <1>2, <2>1 DEF Range, IsInjective
<1>4. PICK a : a = Unlinked(k, s)
  OBVIOUS
<1>5. a \in QType
  <2>1. Good(a, Range(s), D)
    BY <1>3, <1>4, UnlinkedGood
  <2> QED
    BY <2>1, GoodFacts
<1>6. /\ a.first = k.first /\ a.low = k.low /\ a.map = k.map
      /\ a.sem = Without(k.sem, Range(s))
  BY <1>1, <1>4, UnlinkedFields
<1>7. Range(s) \subseteq DOMAIN a.map
  BY <1>1, <1>3, <1>6
<1>8. PICK T, F : T = Enacted(a, s, TRUE) /\ F = Enacted(a, s, FALSE)
  OBVIOUS
<1>9. /\ l.first = k.first \o Among(s, T) /\ l.low = k.low \o Among(s, F)
      /\ l.sem = Without(k.sem, Range(s))
  BY <1>4, <1>5, <1>6, <1>7, <1>8, WokenFields
<1>10. /\ Range(l.first) \subseteq Range(k.first) \cup Range(s)
       /\ Range(l.low) \subseteq Range(k.low) \cup Range(s)
  BY <1>4, <1>5, <1>6, <1>7, WokenRuns
<1>11. l.first \in Seq(Pids) /\ l.low \in Seq(Pids)
  <2>1. PICK b, c : b = Among(s, T) /\ c = Among(s, F)
    OBVIOUS
  <2>2. b \in Seq(Pids) /\ c \in Seq(Pids)
    BY <2>1, AmongFacts
  <2>3. k.first \o b \in Seq(Pids) /\ k.low \o c \in Seq(Pids)
    BY <1>1, <2>2, Joined
  <2> QED
    BY <1>9, <2>1, <2>3
<1>12. Range(l.first \o l.low) = Range(l.first) \cup Range(l.low)
  BY <1>11, Joined
<1>13. Awoken(k, l) \subseteq Range(s)
  <2>1. \A p \in Range(k.sem) : p \notin Range(k.first) /\ p \notin Range(k.low)
    BY <1>1 DEF Apart
  <2> QED
    BY <1>10, <1>12, <2>1 DEF Awoken
<1>14. PICK X, Y : X = Caused(k, l, TRUE) /\ Y = Caused(k, l, FALSE)
  OBVIOUS
<1>15. X \subseteq T /\ Y \subseteq F /\ X \subseteq Range(s) /\ Y \subseteq Range(s)
  BY <1>6, <1>8, <1>13, <1>14 DEF Caused, Enacted
<1>16. Range(k.first) \cap X = {} /\ Range(k.low) \cap Y = {}
  BY <1>1, <1>3, <1>15 DEF Apart
<1>17. /\ Among(k.first \o Among(s, T), X) = Among(k.sem, X)
       /\ Among(k.low \o Among(s, F), Y) = Among(k.sem, Y)
  <2>1. PICK u, f, g : u = k.sem /\ f = k.first /\ g = k.low
    OBVIOUS
  <2>2. /\ u \in Seq(Pids) /\ f \in Seq(Pids) /\ g \in Seq(Pids)
        /\ IsInjective(u) /\ BeginsWith(u, s) /\ Range(f) \cap X = {} /\ Range(g) \cap Y = {}
    BY <1>1, <1>2, <1>16, <2>1
  <2>3. Among(f \o Among(s, T), X) = Among(u, X)
    BY <1>15, <2>2, KeptBehind
  <2>4. Among(g \o Among(s, F), Y) = Among(u, Y)
    BY <1>15, <2>2, KeptBehind
  <2> QED
    BY <2>1, <2>3, <2>4
<1>18. ASSUME NEW i \in DOMAIN k.sem, NEW j \in DOMAIN k.sem, i < j, k.sem[j] \in Awoken(k, l)
       PROVE  k.sem[i] \notin Range(l.sem)
  <2>1. PICK m \in DOMAIN s : s[m] = k.sem[j]
    BY <1>13, <1>18 DEF Range
  <2>2. m \in DOMAIN k.sem /\ k.sem[m] = k.sem[j]
    BY <1>2, <2>1
  <2>3. m = j
    BY <1>2, <2>2 DEF IsInjective
  <2>4. i \in DOMAIN s
    BY <1>2, <1>18, <2>1, <2>3
  <2>5. k.sem[i] \in Range(s)
    BY <1>2, <2>4 DEF Range
  <2>6. PICK t, S : t = Without(k.sem, S) /\ S = Range(s)
    OBVIOUS
  <2>7. Range(t) = Range(k.sem) \ S
    BY <1>1, <2>6, WithoutFacts
  <2> QED
    BY <1>9, <2>5, <2>6, <2>7
<1> QED
  BY <1>9, <1>14, <1>17, <1>18 DEF OrderKept

-----------------------------------------------------------------------------
(* The functions of cque.c that wake entries.                              *)

(* Where no entry that was on a run queue is changed.                      *)
LEMMA RunsSame ==
  ASSUME NEW k, NEW l, l.first = k.first, l.low = k.low,
         \A p \in Range(k.first) \cup Range(k.low) : l.map[p].attr = k.map[p].attr
  PROVE  Wakened(l) = Wakened(k)
  BY DEF Wakened

(* do_halt() wakes nothing,                                                *)
LEMMA HaltWakes ==
  ASSUME NEW k, NEW D, Good(k, {}, D), NEW v \in Objs, NEW stray \in BOOLEAN
  PROVE  Wakened(DoHalt(k, v, stray)) = Wakened(k)
<1>1. PICK l : l = DoHalt(k, v, stray)
  OBVIOUS
<1>2. PICK running, gone, waiters : Victims(k, l, v, running, gone, waiters)
  BY <1>1, HaltParts
<1>3. Apart(k) /\ Range(k.first) \subseteq DOMAIN k.map /\ Range(k.low) \subseteq DOMAIN k.map
  BY GoodFacts, AtRest
<1>4. /\ gone \subseteq Range(k.wait) /\ waiters \subseteq Range(k.sem)
      /\ l.first = k.first /\ l.low = k.low
      /\ DOMAIN l.map = DOMAIN k.map \ (gone \cup waiters)
      /\ \A p \in DOMAIN l.map : l.map[p].attr = k.map[p].attr
  BY <1>2 DEF Victims
<1>5. ASSUME NEW p \in Range(k.first) \cup Range(k.low) PROVE l.map[p].attr = k.map[p].attr
  <2>1. p \in DOMAIN l.map
    BY <1>3, <1>4 DEF Apart
  <2> QED
    BY <1>4, <2>1
<1> QED
  BY <1>1, <1>4, <1>5, RunsSame

(* nor does the HALT flag,                                                 *)
LEMMA SetHaltedWakes ==
  ASSUME NEW k \in QType, NEW x
  PROVE  Wakened(SetHalted(k, x)) = Wakened(k)
<1>1. PICK l : l = SetHalted(k, x)
  OBVIOUS
<1>2. l.first = k.first /\ l.low = k.low /\ l.map = k.map
  BY <1>1 DEF SetHalted, QType
<1> QED
  BY <1>1, <1>2, RunsSame

(* nor paying or being refused,                                            *)
LEMMA PayWakes ==
  ASSUME NEW k, NEW D, Good(k, {}, D), NEW x \in Objs, NEW stray \in BOOLEAN
  PROVE  Wakened(PayQueue(k, x, stray).q) = Wakened(k)
<1>1. CASE k.queued[Key(x)] + 1 > Quota
  <2>1. PICK h : h = DoHalt(k, x, stray)
    OBVIOUS
  <2>2. h \in QType /\ Wakened(h) = Wakened(k)
    BY <2>1, HaltParts, HaltWakes
  <2>3. PayQueue(k, x, stray).q = SetHalted(h, x)
    BY <1>1, <2>1 DEF PayQueue
  <2> QED
    BY <2>2, <2>3, SetHaltedWakes
<1>2. CASE ~(k.queued[Key(x)] + 1 > Quota)
  <2>1. PICK n : n = 1
    OBVIOUS
  <2>2. PICK l : l = AddTo(k, x, n)
    OBVIOUS
  <2>3. n \in Int /\ k \in QType
    BY <2>1, GoodFacts
  <2>4. l.first = k.first /\ l.low = k.low /\ l.map = k.map
    BY <2>2, <2>3, AddToFields
  <2>5. PayQueue(k, x, stray).q = l
    BY <1>2, <2>1, <2>2 DEF PayQueue
  <2> QED
    BY <2>4, <2>5, RunsSame
<1> QED
  BY <1>1, <1>2

(* nor a new pid, which is not that of an entry there is.                  *)
LEMMA MappedFields ==
  ASSUME NEW k, NEW D, Good(k, {}, D), ~TableFull(k), NEW e, NEW p, p = NextPid(k)
  PROVE  /\ Mapped(k, e).first = k.first /\ Mapped(k, e).low = k.low
         /\ DOMAIN Mapped(k, e) = DOMAIN k
         /\ Mapped(k, e).map[p] = e
         /\ \A r \in DOMAIN k.map : Mapped(k, e).map[r] = k.map[r]
         /\ Wakened(Mapped(k, e)) = Wakened(k)
<1>1. k \in QType /\ p \notin DOMAIN k.map
  BY GoodFacts, FreePid
<1>2. PICK m : m = [r \in DOMAIN k.map \cup {p} |-> IF r = p THEN e ELSE k.map[r]]
  OBVIOUS
<1>3. m[p] = e /\ \A r \in DOMAIN k.map : m[r] = k.map[r]
  BY <1>1, <1>2
<1>4. PICK l : l = Mapped(k, e)
  OBVIOUS
<1>5. l = [k EXCEPT !.map = m]
  BY <1>2, <1>4 DEF Mapped
<1>6. l.map = m /\ l.first = k.first /\ l.low = k.low /\ DOMAIN l = DOMAIN k
  BY <1>1, <1>5 DEF QType
<1>7. Range(k.first) \subseteq DOMAIN k.map /\ Range(k.low) \subseteq DOMAIN k.map
  BY GoodFacts
<1>8. \A r \in Range(k.first) \cup Range(k.low) : l.map[r].attr = k.map[r].attr
  BY <1>3, <1>6, <1>7
<1>9. Wakened(l) = Wakened(k)
  BY <1>6, <1>8, RunsSame
<1> QED
  BY <1>3, <1>4, <1>6, <1>9

(* An entry that never waited is not woken.                                *)
LEMMA EnqueueWakes ==
  ASSUME NEW k, NEW D, Good(k, {}, D), ~TableFull(k), NEW x \in Objs, NEW byPlayer \in BOOLEAN
  PROVE  Wakened(Enqueued(Mapped(k, Queued(x, byPlayer)), NextPid(k), byPlayer)) \subseteq Wakened(k)
<1>1. PICK e, p : e = Queued(x, byPlayer) /\ p = NextPid(k)
  OBVIOUS
<1>2. PICK j : j = Mapped(k, e)
  OBVIOUS
<1>3. /\ j.first = k.first /\ j.low = k.low /\ DOMAIN j = DOMAIN k
      /\ j.map[p] = e /\ Wakened(j) = Wakened(k)
  BY <1>1, <1>2, MappedFields
<1>4. /\ k \in QType /\ k.first \in Seq(Pids) /\ k.low \in Seq(Pids) /\ p \in Pids
  BY <1>1, GoodFacts, FreePid
<1>5. ~e.attr
  BY <1>1 DEF Queued
<1>6. PICK f, g : f = Append(k.first, p) /\ g = Append(k.low, p)
  OBVIOUS
<1>7. Range(f) = Range(k.first) \cup {p} /\ Range(g) = Range(k.low) \cup {p}
  BY <1>4, <1>6, Appended
<1>8. PICK l : l = Enqueued(j, p, byPlayer)
  OBVIOUS
<1>9. l = IF byPlayer THEN [j EXCEPT !.first = f] ELSE [j EXCEPT !.low = g]
  BY <1>3, <1>6, <1>8 DEF Enqueued
<1>10. /\ l.map = j.map
       /\ l.first \in {k.first, f} /\ l.low \in {k.low, g}
  BY <1>3, <1>4, <1>9 DEF QType
<1>11. ASSUME NEW r \in Wakened(l) PROVE r \in Wakened(j)
  <2>1. r \in Range(l.first) \cup Range(l.low) /\ j.map[r].attr
    BY <1>10 DEF Wakened
  <2>2. r \in Range(k.first) \cup Range(k.low) \cup {p}
    BY <1>7, <1>10, <2>1
  <2>3. r # p
    BY <1>3, <1>5, <2>1
  <2> QED
    BY <1>3, <2>1, <2>2, <2>3 DEF Wakened
<1> QED
  BY <1>1, <1>2, <1>3, <1>8, <1>11

(* insert_que(), paid for or not.                                          *)
LEMMA InsertWakes ==
  ASSUME NEW k, NEW D, Good(k, {}, D), NEW x \in Objs, NEW byPlayer \in BOOLEAN,
         NEW stray \in BOOLEAN
  PROVE  Wakened(InsertQue(k, x, byPlayer, stray)) \subseteq Wakened(k)
<1>1. PICK pay : pay = PayQueue(k, x, stray)
  OBVIOUS
<1>2. Good(pay.q, {}, D) /\ Wakened(pay.q) = Wakened(k)
  BY <1>1, PayGood, PayWakes
<1>3. InsertQue(k, x, byPlayer, stray) =
        IF x \in k.halted THEN k
        ELSE IF ~pay.ok \/ TableFull(pay.q) THEN pay.q
        ELSE Enqueued(Mapped(pay.q, Queued(x, byPlayer)), NextPid(pay.q), byPlayer)
  BY <1>1 DEF InsertQue
<1>4. CASE x \in k.halted
  BY <1>3, <1>4
<1>5. CASE x \notin k.halted /\ (~pay.ok \/ TableFull(pay.q))
  BY <1>2, <1>3, <1>5
<1>6. CASE x \notin k.halted /\ ~(~pay.ok \/ TableFull(pay.q))
  <2>1. PICK l : l = pay.q
    OBVIOUS
  <2>2. Wakened(Enqueued(Mapped(l, Queued(x, byPlayer)), NextPid(l), byPlayer)) \subseteq Wakened(l)
    BY <1>2, <1>6, <2>1, EnqueueWakes
  <2> QED
    BY <1>2, <1>3, <1>6, <2>1, <2>2
<1> QED
  BY <1>4, <1>5, <1>6

(* wait_que(): what is to wait goes to neither run queue.                  *)
LEMMA WaitQueWakes ==
  ASSUME NEW k, NEW D, Good(k, {}, D), NEW x \in Objs, NEW byPlayer \in BOOLEAN,
         NEW due \in Due, NEW sem \in BOOLEAN, NEW stray \in BOOLEAN
  PROVE  Wakened(WaitQue(k, x, byPlayer, due, sem, stray)) = Wakened(k)
<1>1. PICK pay : pay = PayQueue(k, x, stray)
  OBVIOUS
<1>2. Good(pay.q, {}, D) /\ Wakened(pay.q) = Wakened(k)
  BY <1>1, PayGood, PayWakes
<1>3. PICK e : e = [executor |-> x, player |-> byPlayer, due |-> due, attr |-> sem]
  OBVIOUS
<1>4. PICK l : l = pay.q
  OBVIOUS
<1>5. PICK j, p : j = Mapped(l, e) /\ p = NextPid(l)
  OBVIOUS
<1>6. WaitQue(k, x, byPlayer, due, sem, stray) =
        IF ~pay.ok \/ TableFull(l) THEN l
        ELSE IF sem THEN [j EXCEPT !.sem = Append(j.sem, p)]
        ELSE [j EXCEPT !.wait = SortedInto(j, j.wait, p)]
  BY <1>1, <1>3, <1>4, <1>5 DEF WaitQue
<1>7. CASE ~pay.ok \/ TableFull(l)
  BY <1>2, <1>4, <1>6, <1>7
<1>8. CASE ~(~pay.ok \/ TableFull(l))
  <2>1. DOMAIN j = DOMAIN l /\ Wakened(j) = Wakened(l) /\ l \in QType
    BY <1>2, <1>4, <1>5, <1>8, MappedFields, GoodFacts
  <2>2. PICK a, b : a = [j EXCEPT !.sem = Append(j.sem, p)]
                    /\ b = [j EXCEPT !.wait = SortedInto(j, j.wait, p)]
    OBVIOUS
  <2>3. /\ a.first = j.first /\ a.low = j.low /\ a.map = j.map
        /\ b.first = j.first /\ b.low = j.low /\ b.map = j.map
    BY <2>1, <2>2 DEF QType
  <2>4. Wakened(a) = Wakened(j) /\ Wakened(b) = Wakened(j)
    BY <2>3, RunsSame
  <2> QED
    BY <1>2, <1>4, <1>6, <1>8, <2>1, <2>2, <2>4
<1> QED
  BY <1>7, <1>8

(* @drain: what was taken off the semaphore is freed.                      *)
LEMMA DrainedWakes ==
  ASSUME NEW k, NEW D, Good(k, {}, D), NEW s \in Seq(Pids), IsInjective(s),
         Range(s) \subseteq Range(k.sem)
  PROVE  Wakened(Drained(k, s)) = Wakened(k)
<1>1. PICK R : R = Range(s)
  OBVIOUS
<1>2. PICK a : a = Unlinked(k, s)
  OBVIOUS
<1>3. a \in QType
  <2>1. Good(a, R, D)
    BY <1>1, <1>2, UnlinkedGood
  <2> QED
    BY <2>1, GoodFacts
<1>4. /\ k \in QType /\ Apart(k)
      /\ Range(k.first) \subseteq DOMAIN k.map /\ Range(k.low) \subseteq DOMAIN k.map
  BY GoodFacts, AtRest
<1>5. a.first = k.first /\ a.low = k.low /\ a.map = k.map
  BY <1>2, <1>4, UnlinkedFields
<1>6. PICK b : b = Freed(a, R)
  OBVIOUS
<1>7. /\ b \in QType /\ b.first = k.first /\ b.low = k.low
      /\ b.map = [p \in DOMAIN k.map \ R |-> k.map[p]]
  <2>1. /\ b \in QType /\ b.first = a.first /\ b.low = a.low
        /\ b.map = [p \in DOMAIN a.map \ R |-> a.map[p]]
    BY <1>3, <1>6, FreedFields
  <2> QED
    BY <1>5, <2>1
<1>8. PICK f : f = [x \in Objs |->
                      k.queued[x] - Cardinality({ p \in R : Key(k.map[p].executor) = x })]
  OBVIOUS
<1>9. PICK l : l = Drained(k, s)
  OBVIOUS
<1>10. l = [b EXCEPT !.queued = f]
  BY <1>1, <1>2, <1>6, <1>8, <1>9 DEF Drained
<1>11. l.first = k.first /\ l.low = k.low /\ l.map = b.map
  BY <1>7, <1>10 DEF QType
<1>12. ASSUME NEW p \in Range(k.first) \cup Range(k.low) PROVE l.map[p].attr = k.map[p].attr
  <2>1. p \in DOMAIN k.map \ R
    BY <1>1, <1>4 DEF Apart
  <2> QED
    BY <1>7, <1>11, <2>1
<1> QED
  BY <1>9, <1>11, <1>12, RunsSame

(* @halt/pid of an entry that waits on the semaphore.                      *)
LEMMA HaltPidWakes ==
  ASSUME NEW k, NEW D, Good(k, {}, D), NEW p \in Range(k.sem),
         NEW l, l = [k EXCEPT !.map[p].executor = Nothing]
  PROVE  Wakened(Freed(Unlinked(l, <<p>>), {p})) = Wakened(k)
<1>1. /\ k \in QType /\ Apart(k) /\ p \in DOMAIN k.map /\ k.map[p] \in Entry
      /\ Range(k.first) \subseteq DOMAIN k.map /\ Range(k.low) \subseteq DOMAIN k.map
  BY GoodFacts, AtRest
<1>2. PICK e : e = [k.map[p] EXCEPT !.executor = Nothing]
  OBVIOUS
<1>3. e \in Entry
  BY <1>1, <1>2 DEF Entry
<1>4. PICK m : m = [k.map EXCEPT ![p] = e]
  OBVIOUS
<1>5. m \in Maps /\ DOMAIN m = DOMAIN k.map /\ \A r \in DOMAIN m : r # p => m[r] = k.map[r]
  BY <1>1, <1>3, <1>4, Changed
<1>6. l = [k EXCEPT !.map = m]
  BY <1>1, <1>2, <1>4 DEF QType
<1>7. l.map = m /\ l.first = k.first /\ l.low = k.low /\ l \in QType
  BY <1>1, <1>5, <1>6 DEF QType
<1>8. PICK s, F : s = <<p>> /\ F = {p}
  OBVIOUS
<1>9. PICK a : a = Unlinked(l, s)
  OBVIOUS
<1>10. a.first = k.first /\ a.low = k.low /\ a.map = m
  BY <1>7, <1>9, UnlinkedFields
<1>11. PICK g : g = [r \in DOMAIN m \ F |-> m[r]]
  OBVIOUS
<1>12. PICK b : b = Freed(a, F)
  OBVIOUS
<1>13. b = [a EXCEPT !.map = g]
  BY <1>10, <1>11, <1>12 DEF Freed
<1>14. DOMAIN a = DOMAIN k
  BY <1>7, <1>9, <1>1 DEF Unlinked, QType
<1>15. b.first = k.first /\ b.low = k.low /\ b.map = g
  BY <1>1, <1>10, <1>13, <1>14 DEF QType
<1>16. ASSUME NEW r \in Range(k.first) \cup Range(k.low) PROVE b.map[r].attr = k.map[r].attr
  <2>1. r # p /\ r \in DOMAIN k.map
    BY <1>1 DEF Apart
  <2>2. g[r] = k.map[r]
    BY <1>5, <1>8, <1>11, <2>1
  <2> QED
    BY <1>15, <2>2
<1> QED
  BY <1>8, <1>9, <1>12, <1>15, <1>16, RunsSame

(* @restart: one STARTUP after the other.                                  *)
RestartBody(k, S, stray, g) ==
  [s \in SUBSET S |->
     IF s = {} THEN k ELSE InsertQue(g[s \ {Pick(s)}], Pick(s), Pick(s) = Player, stray)]

(* do_restart() runs every STARTUP, in any order.                          *)
LEMMA RestartGood ==
  ASSUME NEW k, NEW D, Good(k, {}, D), NEW stray \in BOOLEAN, NEW S \in SUBSET Objs
  PROVE  /\ Good(FoldSet(LAMBDA o, j : InsertQue(j, o, o = Player, stray), k, S), {}, D)
         /\ Wakened(FoldSet(LAMBDA o, j : InsertQue(j, o, o = Player, stray), k, S)) \subseteq Wakened(k)
<1> DEFINE V == { j \in QType : Good(j, {}, D) /\ Wakened(j) \subseteq Wakened(k) }
           c == [s \in SUBSET S |-> Pick(s)]
           F == [o \in S |-> [j \in V |-> InsertQue(j, o, o = Player, stray)]]
<1>1. IsFiniteSet(S)
  BY Basics, FS_Subset
<1>2. Chooses(S, c)
  BY DEF Chooses, Pick
<1>3. \A o \in S : \A j \in V : InsertQue(j, o, o = Player, stray) \in V
  <2> SUFFICES ASSUME NEW o \in S, NEW j \in V PROVE InsertQue(j, o, o = Player, stray) \in V
    OBVIOUS
  <2>1. PICK b : b = (o = Player)
    OBVIOUS
  <2>2. b \in BOOLEAN /\ o \in Objs /\ Good(j, {}, D) /\ Wakened(j) \subseteq Wakened(k)
    BY <2>1
  <2>3. Good(InsertQue(j, o, b, stray), {}, D)
    BY <2>2, InsertGood
  <2>4. InsertQue(j, o, b, stray) \in QType
    BY <2>3, GoodFacts
  <2>5. Wakened(InsertQue(j, o, b, stray)) \subseteq Wakened(j)
    BY <2>2, InsertWakes
  <2> QED
    BY <2>1, <2>2, <2>3, <2>4, <2>5
<1>4. Closed(S, V, F)
  BY <1>3 DEF Closed
<1>5. k \in V
  BY GoodFacts
<1> HIDE DEF V
<1>6. PICK g \in [SUBSET S -> V] : Folded(S, k, c, F, g)
  <2> HIDE DEF c, F
  <2> QED
    BY <1>1, <1>2, <1>4, <1>5, FoldExists
<1>7. ASSUME NEW T \in SUBSET S
      PROVE  g[T] = IF T = {} THEN k
                    ELSE InsertQue(g[T \ {Pick(T)}], Pick(T), Pick(T) = Player, stray)
  <2>1. CASE T = {}
    BY <1>6, <2>1 DEF Folded
  <2>2. CASE T # {}
    <3>1. c[T] = Pick(T) /\ Pick(T) \in S /\ T \ {Pick(T)} \in SUBSET S
      BY <1>2, <2>2 DEF Chooses
    <3>2. g[T \ {Pick(T)}] \in V
      BY <3>1, <1>6
    <3>3. g[T] = F[Pick(T)][g[T \ {Pick(T)}]]
      BY <1>6, <2>2, <3>1 DEF Folded
    <3> QED
      BY <2>2, <3>1, <3>2, <3>3
  <2> QED
    BY <2>1, <2>2
<1>8. g = RestartBody(k, S, stray, g)
  BY <1>6, <1>7 DEF RestartBody
<1> DEFINE f == CHOOSE f : f = RestartBody(k, S, stray, f)
<1>9. f = RestartBody(k, S, stray, f)
  <2> HIDE DEF c, F
  <2> QED
    BY <1>8
<1>10. FoldSet(LAMBDA o, j : InsertQue(j, o, o = Player, stray), k, S) = f[S]
  BY DEF FoldSet, MapThenFoldSet, RestartBody, Pick
<1> HIDE DEF f
<1>11. \A T \in SUBSET S : T \in { s \in SUBSET S : f[s] \in V }
  <2> DEFINE X == { s \in SUBSET S : f[s] \in V }
  <2>1. {} \in X
    BY <1>5, <1>9 DEF RestartBody
  <2>2. ASSUME NEW T \in SUBSET S, T # {}, \A x \in T : T \ {x} \in X PROVE T \in X
    <3>1. Pick(T) \in T
      BY <2>2 DEF Pick
    <3>2. f[T \ {Pick(T)}] \in V
      BY <2>2, <3>1
    <3>3. f[T] = InsertQue(f[T \ {Pick(T)}], Pick(T), Pick(T) = Player, stray)
      BY <1>9, <2>2 DEF RestartBody
    <3> QED
      BY <1>3, <3>1, <3>2, <3>3
  <2> HIDE DEF X
  <2>3. \A T \in SUBSET S : T \in X
    BY <1>1, <2>1, <2>2, Subsets
  <2> QED
    BY <2>3 DEF X
<1>12. f[S] \in V
  BY <1>11
<1> QED
  BY <1>10, <1>12 DEF V

(* The attribute counts one more than wait.                                *)
LEMMA OneMore ==
  ASSUME NEW k, NEW D, Good(k, {}, D), NEW l, l = [k EXCEPT !.count = @ + 1]
  PROVE  /\ Good(l, {}, D) /\ l.count \in Int /\ l.count = k.count + 1
         /\ l.first = k.first /\ l.low = k.low /\ l.sem = k.sem /\ l.map = k.map
         /\ l.count > 0 => l.count >= Len(l.sem) + 1
         /\ Good([l EXCEPT !.count = @ - 1], {}, D)
         /\ Wakened(l) = Wakened(k) /\ Wakened([l EXCEPT !.count = @ - 1]) = Wakened(k)
<1>1. k \in QType /\ k.count \in Int /\ Len(k.sem) \in Nat /\ Counted(k)
  BY GoodFacts, AtRest
<1>2. PICK n \in Int : n = k.count + 1
  BY <1>1
<1>3. l = [k EXCEPT !.count = n]
  BY <1>1, <1>2 DEF QType
<1>4. k.sem # <<>> => n >= Len(k.sem)
  BY <1>1, <1>2 DEF Counted
<1>5. Good(l, {}, D)
  BY <1>3, <1>4, Recounted
<1>6. /\ l.first = k.first /\ l.low = k.low /\ l.sem = k.sem /\ l.map = k.map /\ l.count = n
      /\ l \in QType
  BY <1>1, <1>2, <1>3 DEF QType
<1>7. n > 0 => n >= Len(k.sem) + 1
  <2>1. CASE k.sem = <<>>
    BY <1>1, <1>2, <2>1
  <2>2. CASE k.sem # <<>>
    BY <1>1, <1>2, <2>2 DEF Counted
  <2> QED
    BY <2>1, <2>2
<1>8. PICK m \in Int : m = l.count - 1
  BY <1>2, <1>6
<1>9. PICK j : j = [l EXCEPT !.count = m]
  OBVIOUS
<1>10. l.sem # <<>> => m >= Len(l.sem)
  BY <1>1, <1>2, <1>6, <1>8 DEF Counted
<1>11. Good(j, {}, D)
  BY <1>5, <1>9, <1>10, Recounted
<1>12. j.first = k.first /\ j.low = k.low /\ j.map = k.map
  BY <1>6, <1>9 DEF QType
<1>13. j = [l EXCEPT !.count = @ - 1]
  BY <1>6, <1>8, <1>9 DEF QType
<1>14. Wakened(l) = Wakened(k) /\ Wakened(j) = Wakened(k)
  BY <1>6, <1>12, RunsSame
<1> QED
  BY <1>2, <1>5, <1>6, <1>7, <1>11, <1>13, <1>14

-----------------------------------------------------------------------------
(* The steps.                                                              *)

(* A process that has just started.                                        *)
LEMMA FreshGood ==
  ASSUME NEW H \in SUBSET Things
  PROVE  Good(Fresh(H), {}, {}) /\ Fresh(H).ub = FALSE
<1>1. PICK k, e, z : k = Fresh(H) /\ e = <<>> /\ z = [x \in Objs |-> 0]
  OBVIOUS
<1>2. /\ e \in Seq(Pids) /\ Len(e) = 0 /\ Range(e) = {} /\ IsInjective(e) /\ DOMAIN e = {}
      /\ e = [p \in {} |-> p]
  BY <1>1 DEF Range, IsInjective
<1>3. e \in Maps
  <2>1. e = [p \in DOMAIN e |-> e[p]] /\ DOMAIN e \subseteq Pids /\ \A p \in DOMAIN e : e[p] \in Entry
    BY <1>2
  <2> QED
    BY <2>1, MapType
<1>4. z \in [Objs -> Int]
  BY <1>1
<1>5. /\ k.map = e /\ k.first = e /\ k.low = e /\ k.wait = e /\ k.sem = e
      /\ k.queued = z /\ k.count = 0 /\ k.halted = H /\ k.ub = FALSE
  BY <1>1 DEF Fresh
<1>6. k \in QType
  <2>1. k = [map |-> e, first |-> e, low |-> e, wait |-> e, sem |-> e,
             queued |-> z, count |-> 0, halted |-> H, ub |-> FALSE]
    BY <1>1 DEF Fresh
  <2> QED
    BY <1>2, <1>3, <1>4, <2>1 DEF QType
<1>7. Apart(k) /\ Held(k, {}) /\ SemInv(k) /\ Counted(k)
  BY <1>1, <1>2, <1>5 DEF Apart, Held, InQueues, SemInv, Counted
<1>8. Ordered(k)
  BY <1>2, <1>5 DEF Ordered, InOrder
<1>9. Paid(k, {})
  <2>1. \A S : Alive(k, {}, S) = {}
    BY <1>2, <1>5 DEF Alive
  <2>2. Cardinality({}) = 0
    BY FS_EmptySet
  <2>3. SumFunction(z) = 0
    <3>1. DOMAIN z = Objs /\ IsFiniteSet(Objs) /\ \A x \in Objs : z[x] = 0
      BY <1>1, Basics
    <3>2. SumFunctionOnSet(z, Objs) = 0
      BY <3>1, SumZero
    <3> QED
      BY <3>1, <3>2 DEF SumFunction
  <2>4. \A x \in Objs : z[x] = 0 /\ 0 <= Quota /\ 0 <= 0
    BY <1>1, Basics
  <2>5. Things \subseteq Objs
    BY Basics
  <2> QED
    BY <1>5, <2>1, <2>2, <2>3, <2>4, <2>5 DEF Paid
<1> QED
  BY <1>1, <1>5, <1>6, <1>7, <1>8, <1>9, AtRest

(* What holds of the queues holds at the start.                            *)
LEMMA InitInv == Init => IInv
<1> SUFFICES ASSUME Init PROVE IInv
  OBVIOUS
<1>1. PICK H : H = {}
  OBVIOUS
<1>2. H \in SUBSET Things /\ q = Fresh(H) /\ ownerQueues \in BOOLEAN /\ cur = Nothing
  BY <1>1 DEF Init
<1>3. Good(q, {}, {}) /\ q.ub = FALSE
  BY <1>2, FreshGood
<1> QED
  BY <1>2, <1>3 DEF IInv, Executing

(* What do_second() and do_top() call reads no pid that was freed.         *)
LEMMA UbKept ==
  ASSUME NEW k \in QType
  PROVE  /\ \A n : Elapsed(k, n).ub = k.ub
         /\ ObjectsMoved(k).ub = k.ub /\ WaitsOver(k).ub = k.ub /\ TimedOut(k).ub = k.ub
         /\ \A F : Freed(k, F).ub = k.ub
         /\ \A x, n : AddTo(k, x, n).ub = k.ub
<1>1. ASSUME NEW j, DOMAIN j = DOMAIN k, NEW s PROVE Woken(j, s).ub = j.ub
  BY <1>1 DEF Woken, QType
<1>2. WaitsOver(k).ub = k.ub
  <2>1. \A w : DOMAIN [k EXCEPT !.wait = w] = DOMAIN k /\ [k EXCEPT !.wait = w].ub = k.ub
    BY DEF QType
  <2> QED
    BY <1>1, <2>1 DEF WaitsOver
<1>3. TimedOut(k).ub = k.ub
  <2>1. \A s : DOMAIN Unlinked(k, s) = DOMAIN k /\ Unlinked(k, s).ub = k.ub
    BY DEF QType, Unlinked
  <2> QED
    BY <1>1, <2>1 DEF TimedOut
<1>4. /\ \A n : Elapsed(k, n).ub = k.ub
      /\ ObjectsMoved(k).ub = k.ub
      /\ \A F : Freed(k, F).ub = k.ub
      /\ \A x, n : AddTo(k, x, n).ub = k.ub
  BY DEF Elapsed, ObjectsMoved, Freed, AddTo, QType
<1> QED
  BY <1>2, <1>3, <1>4

(* One step of the queues, from what is known of them to what they become. *)
LEMMA Becomes ==
  ASSUME IInv, ~q.ub, ownerQueues' = ownerQueues, cur' \in Pids \cup {Nothing},
         NEW l, NEW E, E = Executing', Good(l, {}, E), ~l.ub, q' = l
  PROVE  IInv'
<1>1. Good(q, {}, Executing)'
  BY DEF Good, Paid, Key
<1>2. q'.ub = FALSE
  <2>1. l.ub \in BOOLEAN
    BY GoodFacts DEF QType
  <2> QED
    BY <2>1
<1> QED
  BY <1>1, <1>2 DEF IInv

(* A command that leaves the queues good keeps the invariant.              *)
LEMMA EffectInv ==
  ASSUME IInv, NEW l, Effect(l), NEW D, D = Executing, Good(l, {}, D)
  PROVE  IInv'
<1>1. /\ ~q.ub /\ q' = (IF l.ub THEN Undefined ELSE l)
      /\ ownerQueues' = ownerQueues /\ cur' = cur
  BY DEF Effect
<1>2. CASE l.ub
  <2>1. q' = Undefined
    BY <1>1, <1>2
  <2>2. Undefined.ub = TRUE
    BY DEF Undefined, Fresh
  <2> QED
    BY <1>1, <2>1, <2>2 DEF IInv
<1>3. CASE ~l.ub
  <2>1. D = Executing' /\ cur' \in Pids \cup {Nothing}
    BY <1>1 DEF Executing, IInv
  <2> QED
    BY <1>1, <1>3, <2>1, Becomes
<1> QED
  BY <1>2, <1>3

(* Every command keeps the invariant.                                      *)
LEMMA CommandInv ==
  ASSUME IInv, Command
  PROVE  IInv'
<1>1. PICK k, D : k = q /\ D = Executing
  OBVIOUS
<1>2. ASSUME ~q.ub PROVE Good(k, {}, D) /\ k.count \in Int /\ k.sem \in Seq(Pids) /\ Counted(k)
  <2>1. Good(k, {}, D)
    BY <1>1, <1>2 DEF IInv
  <2> QED
    BY <2>1, GoodFacts, AtRest
<1>3. ASSUME NEW l, Effect(l), ~q.ub => Good(l, {}, D) PROVE IInv'
  <2>1. ~q.ub
    BY <1>3 DEF Effect
  <2> QED
    BY <1>1, <1>3, <2>1, EffectInv
<1>4. \A x \in Objs : \A byPlayer \in EnactedBy(x) : byPlayer \in BOOLEAN
  BY DEF EnactedBy
<1>5. \A stray \in Stray(q) : stray \in BOOLEAN
  BY DEF Stray, ReadsOwnerOfNothing
<1>6. ASSUME NEW x \in Objs, NEW byPlayer \in BOOLEAN, Queue(x, byPlayer) PROVE IInv'
  <2>1. PICK stray \in BOOLEAN : Effect(InsertQue(q, x, byPlayer, stray))
    BY <1>5, <1>6 DEF Queue
  <2>2. PICK l : l = InsertQue(k, x, byPlayer, stray)
    OBVIOUS
  <2>3. Effect(l)
    BY <1>1, <2>1, <2>2
  <2>4. ~q.ub => Good(l, {}, D)
    BY <1>2, <2>2, InsertGood
  <2> QED
    BY <1>3, <2>3, <2>4
<1>7. PICK onemore : onemore = [k EXCEPT !.count = @ + 1]
  OBVIOUS
<1>8. ASSUME ~q.ub
      PROVE  /\ Good(onemore, {}, D) /\ onemore.count = k.count + 1 /\ onemore.sem = k.sem
             /\ onemore.count > 0 => onemore.count >= Len(onemore.sem) + 1
             /\ Good([onemore EXCEPT !.count = @ - 1], {}, D)
  BY <1>2, <1>7, <1>8, OneMore
<1>9. ASSUME NEW x \in Objs, NEW byPlayer \in BOOLEAN, WaitSemaphoreNoTime(x, byPlayer) PROVE IInv'
  <2>1. PICK stray \in BOOLEAN :
          Effect(IF onemore.count <= 0 THEN WaitQue(onemore, x, byPlayer, NoTime, FALSE, stray)
                 ELSE InsertQue([onemore EXCEPT !.count = @ - 1], x, byPlayer, stray))
    BY <1>1, <1>5, <1>7, <1>9 DEF WaitSemaphoreNoTime
  <2>2. PICK back, d, no : back = [onemore EXCEPT !.count = @ - 1] /\ d = NoTime /\ no = FALSE
    OBVIOUS
  <2>3. PICK l : l = IF onemore.count <= 0 THEN WaitQue(onemore, x, byPlayer, d, no, stray)
                     ELSE InsertQue(back, x, byPlayer, stray)
    OBVIOUS
  <2>4. Effect(l)
    BY <2>1, <2>2, <2>3
  <2>5. ASSUME ~q.ub PROVE Good(l, {}, D)
    <3>1. Good(WaitQue(onemore, x, byPlayer, d, no, stray), {}, D)
      <4>1. d \in Due /\ no \in BOOLEAN /\ (no => onemore.count >= Len(onemore.sem) + 1)
        BY <2>2, Basics
      <4> QED
        BY <1>8, <2>5, <4>1, WaitQueGood
    <3>2. Good(InsertQue(back, x, byPlayer, stray), {}, D)
      BY <1>8, <2>2, <2>5, InsertGood
    <3> QED
      BY <2>3, <3>1, <3>2
  <2> QED
    BY <1>3, <2>4, <2>5
<1>10. ASSUME NEW x \in Objs, NEW byPlayer \in BOOLEAN, NEW due \in Due, Wait(x, byPlayer, due) PROVE IInv'
  <2>1. PICK stray \in BOOLEAN : Effect(WaitQue(q, x, byPlayer, due, FALSE, stray))
    BY <1>5, <1>10 DEF Wait
  <2>2. PICK no : no = FALSE
    OBVIOUS
  <2>3. PICK l : l = WaitQue(k, x, byPlayer, due, no, stray)
    OBVIOUS
  <2>4. Effect(l)
    BY <1>1, <2>1, <2>2, <2>3
  <2>5. no \in BOOLEAN /\ (no => k.count >= Len(k.sem) + 1)
    BY <2>2
  <2>6. ~q.ub => Good(l, {}, D)
    BY <1>2, <2>3, <2>5, WaitQueGood
  <2> QED
    BY <1>3, <2>4, <2>6
<1>11. ASSUME NEW x \in Objs, NEW byPlayer \in BOOLEAN, NEW due \in Due, WaitSemaphore(x, byPlayer, due)
       PROVE  IInv'
  <2>1. PICK stray \in BOOLEAN :
          Effect(IF onemore.count <= 0 THEN WaitQue(onemore, x, byPlayer, NoTime, FALSE, stray)
                 ELSE WaitQue(onemore, x, byPlayer, due, TRUE, stray))
    BY <1>1, <1>5, <1>7, <1>11 DEF WaitSemaphore
  <2>2. PICK d, no, yes : d = NoTime /\ no = FALSE /\ yes = TRUE
    OBVIOUS
  <2>3. PICK l : l = IF onemore.count <= 0 THEN WaitQue(onemore, x, byPlayer, d, no, stray)
                     ELSE WaitQue(onemore, x, byPlayer, due, yes, stray)
    OBVIOUS
  <2>4. Effect(l)
    BY <2>1, <2>2, <2>3
  <2>5. ASSUME ~q.ub PROVE Good(l, {}, D)
    <3>1. CASE onemore.count <= 0
      <4>1. d \in Due /\ no \in BOOLEAN /\ (no => onemore.count >= Len(onemore.sem) + 1)
        BY <2>2, Basics
      <4>2. Good(WaitQue(onemore, x, byPlayer, d, no, stray), {}, D)
        BY <1>8, <2>5, <4>1, WaitQueGood
      <4> QED
        BY <2>3, <3>1, <4>2
    <3>2. CASE ~(onemore.count <= 0)
      <4>1. onemore.count \in Int
        BY <1>2, <1>8, <2>5
      <4>2. yes \in BOOLEAN /\ (yes => onemore.count >= Len(onemore.sem) + 1)
        BY <1>8, <2>2, <2>5, <3>2, <4>1
      <4>3. Good(WaitQue(onemore, x, byPlayer, due, yes, stray), {}, D)
        BY <1>8, <2>5, <4>2, WaitQueGood
      <4> QED
        BY <2>3, <3>2, <4>3
    <3> QED
      BY <3>1, <3>2
  <2> QED
    BY <1>3, <2>4, <2>5
<1>12. ASSUME QueueEvent PROVE IInv'
  <2>1. PICK x, byPlayer : x = EventHandler /\ byPlayer = TRUE
    OBVIOUS
  <2>2. PICK stray \in BOOLEAN :
          LET pay == PayQueue(k, x, stray) IN
          Effect(IF ~pay.ok \/ TableFull(pay.q) THEN pay.q
                 ELSE Enqueued(Mapped(pay.q, Queued(x, byPlayer)), NextPid(pay.q), byPlayer))
    BY <1>1, <1>5, <1>12, <2>1 DEF QueueEvent
  <2>3. PICK pay : pay = PayQueue(k, x, stray)
    OBVIOUS
  <2>4. PICK l : l = IF ~pay.ok \/ TableFull(pay.q) THEN pay.q
                     ELSE Enqueued(Mapped(pay.q, Queued(x, byPlayer)), NextPid(pay.q), byPlayer)
    OBVIOUS
  <2>5. Effect(l)
    BY <2>2, <2>3, <2>4
  <2>6. ASSUME ~q.ub PROVE Good(l, {}, D)
    <3>1. x \in Objs /\ byPlayer \in BOOLEAN
      BY <2>1, Basics
    <3>2. /\ Good(pay.q, {}, D)
          /\ pay.ok => pay.q = AddTo(k, x, 1) /\ k.queued[Key(x)] + 1 <= Quota
      BY <1>2, <2>3, <2>6, <3>1, PayGood
    <3>3. CASE ~pay.ok \/ TableFull(pay.q)
      BY <2>4, <3>2, <3>3
    <3>4. CASE ~(~pay.ok \/ TableFull(pay.q))
      <4>1. Good(Enqueued(Mapped(pay.q, Queued(x, byPlayer)), NextPid(pay.q), byPlayer), {}, D)
        BY <1>2, <2>6, <3>1, <3>2, <3>4, EventGood
      <4> QED
        BY <2>4, <3>4, <4>1
    <3> QED
      BY <3>3, <3>4
  <2> QED
    BY <1>3, <2>5, <2>6
<1>13. ASSUME WaitUnpaid PROVE IInv'
  <2>1. Effect(onemore)
    BY <1>1, <1>7, <1>13 DEF WaitUnpaid
  <2> QED
    BY <1>3, <1>8, <2>1
<1>14. ASSUME NEW n \in Nat, Notify(n) \/ NotifyWaiting(n) \/ Drain(n) PROVE IInv'
  <2>1. PICK s : s = Oldest(k, n)
    OBVIOUS
  <2>2. ~q.ub => /\ s \in Seq(Pids) /\ IsInjective(s) /\ Range(s) \subseteq Range(k.sem)
    BY <1>2, <2>1, OldestFacts
  <2>3. CASE Notify(n)
    <3>1. PICK l : l = [Woken(Unlinked(k, s), s) EXCEPT !.count = @ - (n - Len(s))]
      OBVIOUS
    <3>2. Effect(l)
      BY <1>1, <2>1, <2>3, <3>1 DEF Notify
    <3>3. ~q.ub => Good(l, {}, D)
      BY <1>2, <2>1, <3>1, NotifyGood
    <3> QED
      BY <1>3, <3>2, <3>3
  <2>4. CASE NotifyWaiting(n)
    <3>1. PICK l : l = Woken(Unlinked(k, s), s)
      OBVIOUS
    <3>2. Effect(l)
      BY <1>1, <2>1, <2>4, <3>1 DEF NotifyWaiting
    <3>3. ~q.ub => Good(l, {}, D)
      BY <1>2, <2>2, <3>1, WakeGood
    <3> QED
      BY <1>3, <3>2, <3>3
  <2>5. CASE Drain(n)
    <3>1. PICK l : l = Drained(k, s)
      OBVIOUS
    <3>2. Effect(l)
      BY <1>1, <2>1, <2>5, <3>1 DEF Drain
    <3>3. ~q.ub => Good(l, {}, D)
      BY <1>2, <2>2, <3>1, DrainedGood
    <3> QED
      BY <1>3, <3>2, <3>3
  <2> QED
    BY <1>14, <2>3, <2>4, <2>5
<1>15. ASSUME NotifyAll PROVE IInv'
  <2>1. PICK s : s = k.sem
    OBVIOUS
  <2>2. PICK l : l = Woken(Unlinked(k, s), s)
    OBVIOUS
  <2>3. Effect(l)
    BY <1>1, <1>15, <2>1, <2>2 DEF NotifyAll
  <2>4. ASSUME ~q.ub PROVE Good(l, {}, D)
    <3>1. s \in Seq(Pids) /\ IsInjective(s) /\ Range(s) \subseteq Range(k.sem)
      BY <1>2, <2>1, <2>4, AtRest DEF Apart
    <3> QED
      BY <1>2, <2>2, <2>4, <3>1, WakeGood
  <2> QED
    BY <1>3, <2>3, <2>4
<1>16. ASSUME DrainAll PROVE IInv'
  <2>1. PICK l : l = [Drained(k, k.sem) EXCEPT !.count = 0]
    OBVIOUS
  <2>2. Effect(l)
    BY <1>1, <1>16, <2>1 DEF DrainAll
  <2>3. ~q.ub => Good(l, {}, D)
    BY <1>2, <2>1, DrainedAllGood
  <2> QED
    BY <1>3, <2>2, <2>3
<1>17. ASSUME NEW x \in Objs, Halt(x) PROVE IInv'
  <2>1. PICK stray \in BOOLEAN : Effect(SetHalted(DoHalt(q, x, stray), x))
    BY <1>5, <1>17 DEF Halt
  <2>2. PICK h : h = DoHalt(k, x, stray)
    OBVIOUS
  <2>3. PICK l : l = SetHalted(h, x)
    OBVIOUS
  <2>4. Effect(l)
    BY <1>1, <2>1, <2>2, <2>3
  <2>5. ~q.ub => Good(h, {}, D)
    BY <1>2, <2>2, HaltGood
  <2>6. ~q.ub => Good(l, {}, D)
    BY <2>3, <2>5, SetHaltedGood
  <2> QED
    BY <1>3, <2>4, <2>6
<1>18. ASSUME NEW x \in Objs, HaltCommand(x) PROVE IInv'
  <2>1. PICK stray \in BOOLEAN : Effect(InsertQue(DoHalt(q, x, stray), x, x = Player, stray))
    BY <1>5, <1>18 DEF HaltCommand
  <2>2. PICK h, b : h = DoHalt(k, x, stray) /\ b = (x = Player)
    OBVIOUS
  <2>3. PICK l : l = InsertQue(h, x, b, stray)
    OBVIOUS
  <2>4. Effect(l)
    BY <1>1, <2>1, <2>2, <2>3
  <2>5. ~q.ub => Good(h, {}, D)
    BY <1>2, <2>2, HaltGood
  <2>6. b \in BOOLEAN
    BY <2>2
  <2>7. ~q.ub => Good(l, {}, D)
    BY <2>3, <2>5, <2>6, InsertGood
  <2> QED
    BY <1>3, <2>4, <2>7
<1>19. ASSUME NEW x \in Objs, Restart(x) PROVE IInv'
  <2>1. PICK stray \in BOOLEAN, started \in SUBSET Objs :
          Effect(FoldSet(LAMBDA o, j : InsertQue(j, o, o = Player, stray),
                         DoHalt(q, x, stray), started))
    BY <1>5, <1>19 DEF Restart
  <2>2. PICK h : h = DoHalt(k, x, stray)
    OBVIOUS
  <2>3. PICK l : l = FoldSet(LAMBDA o, j : InsertQue(j, o, o = Player, stray), h, started)
    OBVIOUS
  <2>4. Effect(l)
    BY <1>1, <2>1, <2>2, <2>3
  <2>5. ~q.ub => Good(h, {}, D)
    BY <1>2, <2>2, HaltGood
  <2>6. ~q.ub => Good(l, {}, D)
    BY <2>3, <2>5, RestartGood
  <2> QED
    BY <1>3, <2>4, <2>6
<1>20. ASSUME NEW x \in Things, SetHaltFlag(x) PROVE IInv'
  <2>1. PICK H : H = (k.halted \ {x}) \cup ({x} \ k.halted)
    OBVIOUS
  <2>2. PICK l : l = [k EXCEPT !.halted = H]
    OBVIOUS
  <2>3. l = [q EXCEPT !.halted = (@ \ {x}) \cup ({x} \ @)]
    BY <1>1, <2>1, <2>2
  <2>4. Effect(l)
    BY <1>20, <2>3 DEF SetHaltFlag
  <2>5. ASSUME ~q.ub PROVE Good(l, {}, D)
    <3>1. H \in SUBSET Things
      BY <1>2, <2>1, <2>5, GoodFacts DEF QType
    <3> QED
      BY <1>2, <2>2, <2>5, <3>1, Flagged
  <2> QED
    BY <1>3, <2>4, <2>5
<1>21. ASSUME NEW p \in Pids, HaltPid(p) PROVE IInv'
  <2>1. PICK l : l = [k EXCEPT !.map[p].executor = Nothing]
    OBVIOUS
  <2>2. /\ p \in DOMAIN k.map
        /\ Effect(IF ~k.map[p].attr THEN l
                  ELSE IF p \in Range(k.sem) THEN Freed(Unlinked(l, <<p>>), {p})
                  ELSE [l EXCEPT !.ub = TRUE])
    BY <1>1, <1>21, <2>1 DEF HaltPid
  <2>3. ~q.ub => /\ ~k.map[p].attr => Good(l, {}, D)
                 /\ p \in Range(k.sem) => Good(Freed(Unlinked(l, <<p>>), {p}), {}, D)
    BY <1>2, <2>1, <2>2, HaltPidGood
  <2>4. CASE ~k.map[p].attr
    BY <1>3, <2>2, <2>3, <2>4
  <2>5. CASE k.map[p].attr /\ p \in Range(k.sem)
    <3>1. PICK j : j = Freed(Unlinked(l, <<p>>), {p})
      OBVIOUS
    <3>2. Effect(j)
      BY <2>2, <2>5, <3>1
    <3>3. ~q.ub => Good(j, {}, D)
      BY <2>3, <2>5, <3>1
    <3> QED
      BY <1>3, <3>2, <3>3
  <2>6. CASE k.map[p].attr /\ p \notin Range(k.sem)
    <3>1. PICK j : j = [l EXCEPT !.ub = TRUE]
      OBVIOUS
    <3>2. Effect(j)
      BY <2>2, <2>6, <3>1
    <3>3. j.ub = TRUE
      <4>1. ~q.ub
        BY <3>2 DEF Effect
      <4>2. k \in QType
        BY <1>2, <4>1, GoodFacts
      <4> QED
        BY <2>1, <3>1, <4>2 DEF QType
    <3>4. q' = Undefined /\ ownerQueues' = ownerQueues /\ cur' = cur
      BY <3>2, <3>3 DEF Effect
    <3>5. Undefined.ub = TRUE
      BY DEF Undefined, Fresh
    <3> QED
      BY <3>4, <3>5 DEF IInv
  <2> QED
    BY <2>4, <2>5, <2>6
<1>22. ASSUME NEW p \in Pids, NEW due \in Due, WaitPid(p, due) PROVE IInv'
  <2>1. PICK l : l = [k EXCEPT !.map[p].due = due]
    OBVIOUS
  <2>2. PICK j : j = [l EXCEPT !.wait = SortedInto(l, Without(l.wait, {p}), p)]
    OBVIOUS
  <2>3. \/ p \in Range(k.wait) /\ Effect(j)
        \/ p \in Range(k.sem) /\ Effect(l)
    <3>1. l = [q EXCEPT !.map[p].due = due]
      BY <1>1, <2>1
    <3>2. j = [l EXCEPT !.wait = SortedInto(l, Without(@, {p}), p)]
      BY <2>2
    <3> QED
      BY <1>1, <1>22, <3>1, <3>2 DEF WaitPid
  <2>4. ASSUME ~q.ub
        PROVE  /\ p \in Range(k.wait) => Good(j, {}, D)
               /\ p \in Range(k.sem) => Good(l, {}, D)
    <3>1. CASE p \in DOMAIN k.map
      BY <1>2, <2>1, <2>2, <2>4, <3>1, WaitPidGood
    <3>2. CASE p \notin DOMAIN k.map
      BY <1>2, <2>4, <3>2, GoodFacts
    <3> QED
      BY <3>1, <3>2
  <2> QED
    BY <1>3, <2>3, <2>4
<1>23. ASSUME Reboot PROVE IInv'
  <2>1. q.halted \in SUBSET Things
    <3>1. CASE q.ub
      BY <3>1 DEF IInv, Undefined, Fresh
    <3>2. CASE ~q.ub
      BY <1>1, <1>2, <3>2, GoodFacts DEF QType
    <3> QED
      BY <3>1, <3>2
  <2>2. PICK H, E : H = q.halted /\ E = {}
    OBVIOUS
  <2>3. PICK l : l = Fresh(H)
    OBVIOUS
  <2>4. Good(l, {}, E) /\ l.ub = FALSE
    BY <2>1, <2>2, <2>3, FreshGood
  <2>5. q' = l /\ cur' = Nothing /\ ownerQueues' = ownerQueues
    BY <1>23, <2>2, <2>3 DEF Reboot
  <2>6. Executing' = E
    BY <2>2, <2>5 DEF Executing
  <2>7. Good(q, {}, Executing)'
    BY <2>4, <2>5, <2>6 DEF Good, Paid, Key
  <2> QED
    BY <2>4, <2>5, <2>7 DEF IInv
<1>24. 1..2 \subseteq Nat /\ Due \ {0} \subseteq Due
  OBVIOUS
<1> QED
  <2>1. CASE \E x \in Objs : \E byPlayer \in EnactedBy(x) :
               \/ Queue(x, byPlayer)
               \/ WaitSemaphoreNoTime(x, byPlayer)
               \/ \E due \in Due \ {0} : Wait(x, byPlayer, due)
               \/ \E due \in Due : WaitSemaphore(x, byPlayer, due)
    BY <1>4, <1>6, <1>9, <1>10, <1>11, <1>24, <2>1
  <2>2. CASE \E n \in 1..2 : Notify(n) \/ NotifyWaiting(n) \/ Drain(n)
    BY <1>14, <1>24, <2>2
  <2>3. CASE \E x \in Objs : Halt(x) \/ HaltCommand(x) \/ Restart(x)
    BY <1>17, <1>18, <1>19, <2>3
  <2>4. CASE \E x \in Things : SetHaltFlag(x)
    BY <1>20, <2>4
  <2>5. CASE \E p \in Pids : HaltPid(p)
    BY <1>21, <2>5
  <2>6. CASE \E p \in Pids, due \in Due : WaitPid(p, due)
    BY <1>22, <2>6
  <2> QED
    BY <1>12, <1>13, <1>15, <1>16, <1>23, <2>1, <2>2, <2>3, <2>4, <2>5, <2>6 DEF Command

(* do_second() keeps the invariant.                                        *)
LEMMA SecondInv ==
  ASSUME IInv, NEW n \in 1..MaxWait, OnEverySecond(n)
  PROVE  IInv'
<1>1. PICK k, D : k = q /\ D = Executing
  OBVIOUS
<1>2. Good(k, {}, D) /\ ~k.ub /\ D = Executing'
  BY <1>1 DEF IInv, OnEverySecond, Executing
<1>3. PICK a : a = Elapsed(k, n)
  OBVIOUS
<1>4. PICK l : l = DoSecond(a)
  OBVIOUS
<1>5. n \in Nat
  BY Basics
<1>6. Good(l, {}, D)
  BY <1>2, <1>3, <1>4, <1>5, DoSecondGood
<1>7. ~l.ub
  <2>1. a.ub = k.ub /\ Good(a, {}, D)
    BY <1>2, <1>3, <1>5, ElapsedGood, GoodFacts, UbKept
  <2>2. PICK b : b = ObjectsMoved(a)
    OBVIOUS
  <2>3. b.ub = a.ub /\ Good(b, {}, D)
    BY <2>1, <2>2, ObjectsMovedGood, GoodFacts, UbKept
  <2>4. PICK c : c = WaitsOver(b)
    OBVIOUS
  <2>5. c.ub = b.ub /\ Good(c, {}, D)
    BY <2>3, <2>4, WaitsOverGood, GoodFacts, UbKept
  <2>6. TimedOut(c).ub = c.ub
    BY <2>5, GoodFacts, UbKept
  <2> QED
    BY <1>2, <1>4, <2>1, <2>2, <2>3, <2>4, <2>5, <2>6 DEF DoSecond
<1>8. q' = l /\ ownerQueues' = ownerQueues /\ cur' \in Pids \cup {Nothing} /\ ~q.ub
  BY <1>1, <1>2, <1>3, <1>4 DEF OnEverySecond, IInv
<1> QED
  BY <1>2, <1>6, <1>7, <1>8, Becomes

(* do_top() keeps it when it takes an entry, which is then in no queue.    *)
LEMMA DoTopInv ==
  ASSUME IInv, DoTop
  PROVE  IInv'
<1>1. PICK k, D : k = q /\ D = {}
  OBVIOUS
<1>2. Good(k, {}, D) /\ ~k.ub /\ k.first # <<>> /\ cur = Nothing /\ k \in QType
  <2>1. Good(k, {}, D) /\ ~k.ub /\ k.first # <<>> /\ cur = Nothing
    BY <1>1 DEF IInv, DoTop, Executing
  <2> QED
    BY <2>1, GoodFacts
<1>3. PICK p, l : p = Head(k.first) /\ l = [k EXCEPT !.first = Tail(k.first)]
  OBVIOUS
<1>4. Good(l, {p}, D) /\ p \in DOMAIN k.map /\ p \in Pids /\ p # Nothing
  <2>1. Good(l, {p}, D) /\ p \in DOMAIN k.map
    BY <1>1, <1>2, <1>3, HeadGood
  <2> QED
    BY <1>2, <2>1, GoodFacts, Basics
<1>5. PICK x : x = k.map[p].executor
  OBVIOUS
<1>6. x \in Objs \cup {Nothing}
  BY <1>2, <1>4, <1>5, GoodFacts DEF Entry
<1>7. l.map = k.map /\ ~l.ub /\ l \in QType
  BY <1>2, <1>3, <1>4, GoodFacts DEF QType
<1>8. PICK n : n = -1
  OBVIOUS
<1>9. PICK j : j = AddTo(l, x, n)
  OBVIOUS
<1>10. x \in Objs => Good(j, {}, {p}) /\ j \in QType /\ ~j.ub
  <2>1. ASSUME x \in Objs PROVE Good(j, {}, {p})
    BY <1>1, <1>4, <1>5, <1>7, <1>8, <1>9, <2>1, PaidBack
  <2>2. j.ub = l.ub
    BY <1>7, <1>9, UbKept
  <2> QED
    BY <1>7, <2>1, <2>2, GoodFacts
<1>11. ownerQueues' = ownerQueues /\ ~q.ub
  BY DEF DoTop
<1>12. \/ x = Nothing /\ q' = Freed(l, {p}) /\ cur' = cur
       \/ x \in Objs /\ q' = Freed(j, {p}) /\ cur' = cur
       \/ x \in Objs /\ q' = j /\ cur' = p
  BY <1>1, <1>3, <1>5, <1>6, <1>8, <1>9 DEF DoTop
<1>13. PICK P : P = {p}
  OBVIOUS
<1>14. CASE x = Nothing /\ q' = Freed(l, {p}) /\ cur' = cur
  <2>1. PICK f : f = Freed(l, P)
    OBVIOUS
  <2>2. P \subseteq P \cup D /\ P \ P = {} /\ D \ P = D
    BY <1>1
  <2>3. Good(f, {}, D)
    BY <1>4, <1>13, <2>1, <2>2, FreedGood
  <2>4. ~f.ub
    BY <1>7, <2>1, UbKept
  <2>5. q' = f /\ cur' \in Pids \cup {Nothing} /\ D = Executing'
    BY <1>1, <1>2, <1>13, <1>14, <2>1 DEF Executing
  <2> QED
    BY <1>11, <2>3, <2>4, <2>5, Becomes
<1>15. CASE x \in Objs /\ q' = Freed(j, {p}) /\ cur' = cur
  <2>1. PICK f, W : f = Freed(j, P) /\ W = {}
    OBVIOUS
  <2>2. P \subseteq W \cup P /\ W \ P = {} /\ P \ P = D
    BY <1>1, <2>1
  <2>3. Good(f, {}, D)
    <3>1. Good(j, W, P)
      BY <1>10, <1>13, <1>15, <2>1
    <3>2. Good(Freed(j, P), W \ P, P \ P)
      BY <2>2, <3>1, FreedGood
    <3> QED
      BY <2>1, <2>2, <3>2
  <2>4. ~f.ub
    BY <1>10, <1>15, <2>1, UbKept
  <2>5. q' = f /\ cur' \in Pids \cup {Nothing} /\ D = Executing'
    BY <1>1, <1>2, <1>13, <1>15, <2>1 DEF Executing
  <2> QED
    BY <1>11, <2>3, <2>4, <2>5, Becomes
<1>16. CASE x \in Objs /\ q' = j /\ cur' = p
  <2>1. cur' \in Pids \cup {Nothing} /\ P = Executing'
    BY <1>4, <1>13, <1>16 DEF Executing
  <2> QED
    BY <1>10, <1>11, <1>13, <1>16, <2>1, Becomes
<1> QED
  BY <1>12, <1>14, <1>15, <1>16

(* do_top() keeps it when it frees the entry that it executed.             *)
LEMMA EndEntryInv ==
  ASSUME IInv, EndEntry
  PROVE  IInv'
<1>1. PICK k, P, W : k = q /\ P = {cur} /\ W = {}
  OBVIOUS
<1>2. Good(k, W, P) /\ ~k.ub /\ k \in QType
  <2>1. Good(k, W, P) /\ ~k.ub
    <3>1. Executing = P
      BY <1>1 DEF EndEntry, Executing
    <3> QED
      BY <1>1, <3>1 DEF IInv, EndEntry
  <2> QED
    BY <2>1, GoodFacts
<1>3. PICK f, D : f = Freed(k, P) /\ D = {}
  OBVIOUS
<1>4. P \subseteq W \cup P /\ W \ P = {} /\ P \ P = D
  BY <1>1, <1>3
<1>5. Good(f, {}, D)
  <2>1. Good(Freed(k, P), W \ P, P \ P)
    BY <1>2, <1>4, FreedGood
  <2> QED
    BY <1>3, <1>4, <2>1
<1>6. ~f.ub
  BY <1>2, <1>3, UbKept
<1>7. /\ q' = f /\ cur' = Nothing /\ cur' \in Pids \cup {Nothing} /\ D = Executing'
      /\ ownerQueues' = ownerQueues /\ ~q.ub
  BY <1>1, <1>3 DEF EndEntry, Executing
<1> QED
  BY <1>5, <1>6, <1>7, Becomes

(* Every step keeps the invariant.                                         *)
LEMMA NextInv ==
  ASSUME IInv, [Next]_vars
  PROVE  IInv'
<1>1. CASE UNCHANGED vars
  BY <1>1 DEF IInv, vars, Executing, Good, Paid, Key
<1>2. CASE Second
  BY <1>2, SecondInv DEF Second
<1> QED
  BY <1>1, <1>2, CommandInv, DoTopInv, EndEntryInv DEF Next

(* The inductive invariant: what the queues hold, in what order, and what  *)
(* the counters say of it.                                                 *)
THEOREM QueuesAreGood == Spec => []IInv
<1>1. Init => IInv
  BY InitInv
<1>2. IInv /\ [Next]_vars => IInv'
  BY NextInv
<1> QED
  BY <1>1, <1>2, PTL DEF Spec

-----------------------------------------------------------------------------
(* The invariants that the runs check.                                     *)

(* The queues after a read of what was freed, field by field.              *)
LEMMA UndefinedFacts ==
  ASSUME q = Undefined
  PROVE  /\ q.map = <<>> /\ q.first = <<>> /\ q.low = <<>> /\ q.wait = <<>> /\ q.sem = <<>>
         /\ q.queued = [x \in Objs |-> 0] /\ q.count = 0 /\ q.halted = {} /\ q.ub = TRUE
  BY DEF Undefined, Fresh

(* The invariant implies the types.                                        *)
LEMMA TypeOKHolds ==
  ASSUME IInv
  PROVE  TypeOK
<1>1. ownerQueues \in BOOLEAN /\ cur \in Pids \cup {Nothing}
  BY DEF IInv
<1>2. CASE q.ub
  <2>1. q = Undefined
    BY <1>2 DEF IInv
  <2>2. PICK e, z : e = <<>> /\ z = [x \in Objs |-> 0]
    OBVIOUS
  <2>3. /\ q.map = e /\ q.first = e /\ q.low = e /\ q.wait = e /\ q.sem = e
        /\ q.queued = z /\ q.count = 0 /\ q.halted = {} /\ q.ub = TRUE
    BY <2>1, <2>2, UndefinedFacts
  <2>4. Range(e) = {} /\ DOMAIN e = {} /\ e = [p \in {} |-> p] /\ z \in [Objs -> Int]
    BY <2>2 DEF Range
  <2>5. e \in [{} -> Entry]
    BY <2>4
  <2>6. DOMAIN q.map \subseteq Pids /\ q.map \in [DOMAIN q.map -> Entry]
    BY <2>3, <2>4, <2>5
  <2>7. \A s \in {q.first, q.low, q.wait, q.sem} : Range(s) \subseteq Pids
    BY <2>3, <2>4
  <2>8. q.queued \in [Objs -> Int]
    BY <2>3, <2>4
  <2>9. q.count \in Int /\ q.halted \subseteq Things /\ q.ub \in BOOLEAN
    <3>1. q.count = 0 /\ q.halted = {} /\ q.ub = TRUE
      BY <2>3
    <3>2. 0 \in Int /\ {} \subseteq Things
      OBVIOUS
    <3>3. q.count \in Int
      BY <3>1, <3>2
    <3>4. q.halted \subseteq Things
      BY <3>1, <3>2
    <3>5. q.ub \in BOOLEAN
      BY <3>1
    <3> QED
      BY <3>3, <3>4, <3>5
  <2> QED
    BY <1>1, <2>6, <2>7, <2>8, <2>9 DEF TypeOK
<1>3. CASE ~q.ub
  <2>1. Good(q, {}, Executing)
    BY <1>3 DEF IInv
  <2>2. PICK k, D : k = q /\ D = Executing
    OBVIOUS
  <2>3. /\ k \in QType /\ k.map \in Maps /\ DOMAIN k.map \subseteq Pids
        /\ \A p \in DOMAIN k.map : k.map[p] \in Entry
        /\ Range(k.first) \subseteq DOMAIN k.map /\ Range(k.low) \subseteq DOMAIN k.map
        /\ Range(k.wait) \subseteq DOMAIN k.map /\ Range(k.sem) \subseteq DOMAIN k.map
        /\ k.queued \in [Objs -> Int] /\ k.count \in Int
    BY <2>1, <2>2, GoodFacts
  <2>4. k.map \in [DOMAIN k.map -> Entry]
    BY <2>3 DEF Maps
  <2>5. k.halted \subseteq Things /\ k.ub \in BOOLEAN
    BY <2>3 DEF QType
  <2> QED
    BY <1>1, <2>2, <2>3, <2>4, <2>5 DEF TypeOK
<1> QED
  BY <1>2, <1>3

(* Each field of the queues, and cur, holds a value of its type.           *)
THEOREM QueuesAreWellTyped == Spec => []TypeOK
<1>1. IInv => TypeOK
  BY TypeOKHolds
<1> QED
  BY <1>1, QueuesAreGood, PTL

(* All the queues in one sequence: no pid is in it twice.                  *)
LEMMA LinkedFacts ==
  ASSUME IInv, ~q.ub
  PROVE  IsInjective(Linked) /\ Range(Linked) = InQueues(q)
<1>1. PICK k, D : k = q /\ D = Executing
  OBVIOUS
<1>2. Good(k, {}, D)
  BY <1>1 DEF IInv
<1>3. /\ k.first \in Seq(Pids) /\ k.low \in Seq(Pids) /\ k.wait \in Seq(Pids) /\ k.sem \in Seq(Pids)
      /\ Apart(k)
  BY <1>2, GoodFacts, AtRest
<1>4. PICK a : a = k.first \o k.low
  OBVIOUS
<1>5. a \in Seq(Pids) /\ Range(a) = Range(k.first) \cup Range(k.low) /\ IsInjective(a)
  BY <1>3, <1>4, Joined DEF Apart
<1>6. PICK b : b = a \o k.wait
  OBVIOUS
<1>7. b \in Seq(Pids) /\ Range(b) = Range(a) \cup Range(k.wait) /\ IsInjective(b)
  <2>1. Range(a) \cap Range(k.wait) = {} /\ IsInjective(k.wait)
    BY <1>3, <1>5 DEF Apart
  <2> QED
    BY <1>3, <1>5, <1>6, <2>1, Joined
<1>8. PICK c : c = b \o k.sem
  OBVIOUS
<1>9. c \in Seq(Pids) /\ Range(c) = Range(b) \cup Range(k.sem) /\ IsInjective(c)
  <2>1. Range(b) \cap Range(k.sem) = {} /\ IsInjective(k.sem)
    BY <1>3, <1>5, <1>7 DEF Apart
  <2> QED
    BY <1>3, <1>7, <1>8, <2>1, Joined
<1>10. Linked = c
  BY <1>1, <1>4, <1>6, <1>8 DEF Linked
<1> QED
  BY <1>1, <1>5, <1>7, <1>9, <1>10 DEF InQueues

(* Every entry of queue_map is in one queue, once, or executing, and the   *)
(* queues hold nothing that was freed, whatever commands, timers and       *)
(* executions follow each other, until @halt/pid frees what was woken.     *)
THEOREM EntriesAreAccounted == Spec => []EntriesAccounted
<1>1. IInv => EntriesAccounted
  <2> SUFFICES ASSUME IInv, ~q.ub
               PROVE  /\ IsInjective(Linked) /\ cur \notin Range(Linked)
                      /\ DOMAIN q.map = Range(Linked) \cup ({cur} \ {Nothing})
    BY DEF EntriesAccounted
  <2>1. IsInjective(Linked) /\ Range(Linked) = InQueues(q)
    BY LinkedFacts
  <2>2. PICK k, D : k = q /\ D = Executing
    OBVIOUS
  <2>3. Held(k, D) /\ InQueues(k) \subseteq Pids
    <3>1. Good(k, {}, D)
      BY <2>2 DEF IInv
    <3> QED
      BY <3>1, GoodFacts, AtRest DEF InQueues
  <2>4. cur \notin InQueues(q)
    BY <2>2, <2>3, Basics DEF Held, Executing
  <2> QED
    BY <2>1, <2>2, <2>3, <2>4 DEF Held, Executing
<1> QED
  BY <1>1, QueuesAreGood, PTL

(* While anything waits on the semaphore, its attribute counts all of it.  *)
THEOREM WaitersAreCounted == Spec => []WaitersCounted
<1>1. IInv => WaitersCounted
  BY DEF IInv, Good, Sound, Counted, WaitersCounted
<1> QED
  BY <1>1, QueuesAreGood, PTL

(* The QUEUE counters grow no larger than QUEUE_QUOTA and do not fall      *)
(* behind the live entries they count.                                     *)
THEOREM QuotaIsSound == Spec => []QuotaSound
<1>1. IInv => QuotaSound
  <2> SUFFICES ASSUME IInv PROVE QuotaSound
    OBVIOUS
  <2>1. CASE q.ub
    <3>1. q = Undefined
      BY <2>1 DEF IInv
    <3>2. \A x \in Objs : q.queued[x] = 0 /\ 0 <= Quota
      BY <3>1, UndefinedFacts, Basics
    <3> QED
      BY <2>1, <3>2 DEF QuotaSound
  <2>2. CASE ~q.ub
    <3>1. Range(Linked) = InQueues(q)
      BY <2>2, LinkedFacts
    <3>2. Good(q, {}, Executing)
      BY <2>2 DEF IInv
    <3>3. Paid(q, Executing) /\ Held(q, {} \cup Executing)
      BY <3>2 DEF Good, Sound
    <3>4. \A S : LiveOf(S) = Alive(q, Executing, S)
      BY <3>1, <3>3 DEF LiveOf, Alive, Held
    <3> QED
      BY <3>3, <3>4 DEF QuotaSound, Paid
  <2> QED
    BY <2>1, <2>2
<1> QED
  BY <1>1, QueuesAreGood, PTL

(* The wait queue is sorted by due time, however entries get there and     *)
(* whatever @wait/pid does to their times.                                 *)
THEOREM WaitIsSorted == Spec => []WaitSorted
<1>1. IInv => WaitSorted
  <2> SUFFICES ASSUME IInv PROVE WaitSorted
    OBVIOUS
  <2>1. CASE q.ub
    <3>1. q.wait = <<>>
      BY <2>1, UndefinedFacts DEF IInv
    <3> QED
      BY <3>1 DEF WaitSorted
  <2>2. CASE ~q.ub
    BY <2>2 DEF IInv, Good, Sound, Ordered, InOrder, Later, WaitSorted
  <2> QED
    BY <2>1, <2>2
<1> QED
  BY <1>1, QueuesAreGood, PTL

-----------------------------------------------------------------------------
(* In the order they were added.                                           *)

(* The n waiters that came first are where the queue begins.               *)
LEMMA OldestFirst ==
  ASSUME NEW k, NEW D, Good(k, {}, D), NEW n \in Nat
  PROVE  Oldest(k, n) \in Seq(Pids) /\ BeginsWith(k.sem, Oldest(k, n))
<1>1. k.sem \in Seq(Pids) /\ Len(k.sem) \in Nat
  BY GoodFacts
<1>2. PICK m : m = Min({n, Len(k.sem)})
  OBVIOUS
<1>3. PICK u : u = k.sem
  OBVIOUS
<1>4. PICK s : s = SubSeq(u, 1, m)
  OBVIOUS
<1>5. s = Oldest(k, n)
  BY <1>2, <1>3, <1>4 DEF Oldest
<1>6. m \in Nat /\ m <= Len(u)
  <2>1. PICK T : T = {n, Len(k.sem)}
    OBVIOUS
  <2>2. T \subseteq Nat /\ T # {}
    BY <1>1, <2>1
  <2>3. Min(T) \in T /\ \A y \in T : Min(T) <= y
    BY <2>2, Smallest
  <2> QED
    BY <1>1, <1>2, <1>3, <2>1, <2>3
<1>7. s \in Seq(Pids) /\ Len(s) = m /\ \A i \in 1..m : s[i] = u[i]
  BY <1>1, <1>3, <1>4, <1>6
<1>8. DOMAIN s = 1..m
  BY <1>7
<1> QED
  BY <1>3, <1>5, <1>6, <1>7, <1>8 DEF BeginsWith

(* do_second() takes a front of the wait queue to the run queues.          *)
LEMMA WaitsOverRuns ==
  ASSUME NEW k, NEW D, Good(k, {}, D)
  PROVE  /\ Range(WaitsOver(k).first) \subseteq Range(k.first) \cup Range(k.wait)
         /\ Range(WaitsOver(k).low) \subseteq Range(k.low) \cup Range(k.wait)
         /\ WaitsOver(k).sem = k.sem
         /\ \A p \in Range(k.sem) : WaitsOver(k).map[p] = k.map[p]
<1>1. /\ k \in QType /\ k.wait \in Seq(Pids) /\ Apart(k)
      /\ Range(k.wait) \subseteq DOMAIN k.map /\ Range(k.sem) \subseteq DOMAIN k.map
  BY GoodFacts, AtRest
<1>2. PICK n \in 0..Len(k.wait) :
        WaitsOver(k) = Woken([k EXCEPT !.wait = SubSeq(k.wait, n + 1, Len(k.wait))],
                             SubSeq(k.wait, 1, n))
  BY WaitsOverParts
<1>3. PICK s, r : s = SubSeq(k.wait, 1, n) /\ r = SubSeq(k.wait, n + 1, Len(k.wait))
  OBVIOUS
<1>4. s \in Seq(Pids) /\ r \in Seq(Pids) /\ Range(k.wait) = Range(s) \cup Range(r)
  BY <1>1, <1>3, Cut DEF Apart
<1>5. PICK l : l = [k EXCEPT !.wait = r]
  OBVIOUS
<1>6. /\ l \in QType /\ l.first = k.first /\ l.low = k.low /\ l.map = k.map /\ l.sem = k.sem
  BY <1>1, <1>4, <1>5 DEF QType
<1>7. Range(s) \subseteq DOMAIN l.map
  BY <1>1, <1>4, <1>6
<1>8. PICK w : w = Woken(l, s)
  OBVIOUS
<1>9. WaitsOver(k) = w
  BY <1>2, <1>3, <1>5, <1>8
<1>10. Range(w.first) \subseteq Range(l.first) \cup Range(s) /\ Range(w.low) \subseteq Range(l.low) \cup Range(s)
  BY <1>4, <1>6, <1>7, <1>8, WokenRuns
<1>11. w.sem = l.sem /\ \A p \in DOMAIN l.map : p \notin Range(s) => w.map[p] = l.map[p]
  BY <1>4, <1>6, <1>7, <1>8, WokenFields
<1>12. \A p \in Range(k.sem) : p \in DOMAIN k.map /\ p \notin Range(s)
  BY <1>1, <1>4 DEF Apart
<1> QED
  BY <1>4, <1>6, <1>9, <1>10, <1>11, <1>12

(* do_second() takes those whose time has come off the semaphore.          *)
LEMMA TimedOutRuns ==
  ASSUME NEW k, NEW D, Good(k, {}, D)
  PROVE  /\ Range(TimedOut(k).first) \subseteq Range(k.first) \cup { p \in Range(k.sem) : k.map[p].due = 0 }
         /\ Range(TimedOut(k).low) \subseteq Range(k.low) \cup { p \in Range(k.sem) : k.map[p].due = 0 }
<1>1. /\ k \in QType /\ k.sem \in Seq(Pids) /\ Apart(k) /\ Range(k.sem) \subseteq DOMAIN k.map
  BY GoodFacts, AtRest
<1>2. PICK S : S = { p \in Range(k.sem) : k.map[p].due = 0 }
  OBVIOUS
<1>3. PICK s : s = Among(k.sem, S)
  OBVIOUS
<1>4. s \in Seq(Pids) /\ Range(s) = Range(k.sem) \cap S /\ IsInjective(s)
  BY <1>1, <1>3, AmongFacts DEF Apart
<1>5. PICK l : l = Unlinked(k, s)
  OBVIOUS
<1>6. l \in QType
  <2>1. Good(l, Range(s), D)
    BY <1>4, <1>5, UnlinkedGood
  <2> QED
    BY <2>1, GoodFacts
<1>7. l.first = k.first /\ l.low = k.low /\ l.map = k.map
  BY <1>1, <1>5, UnlinkedFields
<1>8. PICK w : w = Woken(l, s)
  OBVIOUS
<1>9. TimedOut(k) = w
  BY <1>2, <1>3, <1>5, <1>8 DEF TimedOut
<1>10. Range(s) \subseteq DOMAIN l.map
  BY <1>1, <1>4, <1>7
<1>11. Range(w.first) \subseteq Range(l.first) \cup Range(s) /\ Range(w.low) \subseteq Range(l.low) \cup Range(s)
  BY <1>4, <1>6, <1>8, <1>10, WokenRuns
<1> QED
  BY <1>2, <1>4, <1>7, <1>9, <1>11

(* Time passing makes no wait without a timeout a wait that is over.       *)
LEMMA ElapsedRuns ==
  ASSUME NEW k, NEW D, Good(k, {}, D), NEW n \in Nat
  PROVE  /\ Elapsed(k, n).first = k.first /\ Elapsed(k, n).low = k.low
         /\ Elapsed(k, n).wait = k.wait /\ Elapsed(k, n).sem = k.sem
         /\ \A p \in Range(k.sem) : k.map[p].due = NoTime => Elapsed(k, n).map[p].due # 0
<1>1. k \in QType /\ Range(k.sem) \subseteq DOMAIN k.map
  BY GoodFacts
<1> DEFINE mm == [p \in DOMAIN k.map |->
                   IF k.map[p].due <= 0 THEN k.map[p]
                   ELSE [k.map[p] EXCEPT !.due = Max({0, k.map[p].due - n})]]
<1>2. ASSUME NEW p \in Range(k.sem), k.map[p].due = NoTime PROVE mm[p].due # 0
  <2>1. mm[p] = k.map[p]
    BY <1>1, <1>2 DEF NoTime
  <2> QED
    BY <1>2, <2>1 DEF NoTime
<1>3. PICK m : m = mm
  OBVIOUS
<1>4. Elapsed(k, n) = [k EXCEPT !.map = m]
  BY <1>3 DEF Elapsed
<1> HIDE DEF mm
<1> QED
  BY <1>1, <1>2, <1>3, <1>4 DEF QType

(* do_second() wakes nothing that waits without a timeout.                 *)
LEMMA SecondWakes ==
  ASSUME NEW k, NEW D, Good(k, {}, D), NEW n \in Nat, NEW l, l = DoSecond(Elapsed(k, n))
  PROVE  Awoken(k, l) = {}
<1>1. PICK a : a = Elapsed(k, n)
  OBVIOUS
<1>2. /\ Good(a, {}, D) /\ a.first = k.first /\ a.low = k.low /\ a.wait = k.wait /\ a.sem = k.sem
      /\ \A p \in Range(k.sem) : k.map[p].due = NoTime => a.map[p].due # 0
  BY <1>1, ElapsedGood, ElapsedRuns
<1>3. PICK b : b = ObjectsMoved(a)
  OBVIOUS
<1>4. Good(b, {}, D)
  BY <1>2, <1>3, ObjectsMovedGood
<1>5. /\ Range(b.first) = Range(a.first) \cup Range(a.low) /\ Range(b.low) = {}
      /\ b.wait = a.wait /\ b.sem = a.sem /\ b.map = a.map
  <2>1. a \in QType /\ a.first \in Seq(Pids) /\ a.low \in Seq(Pids)
    BY <1>2, GoodFacts
  <2>2. PICK s, e : s = a.first \o a.low /\ e = <<>>
    OBVIOUS
  <2>3. Range(s) = Range(a.first) \cup Range(a.low) /\ Range(e) = {}
    <3>1. Range(e) = {}
      BY <2>2 DEF Range
    <3> QED
      BY <2>1, <2>2, <3>1, Joined
  <2>4. b = [a EXCEPT !.first = s, !.low = e]
    BY <1>3, <2>2 DEF ObjectsMoved
  <2>5. b.first = s /\ b.low = e /\ b.wait = a.wait /\ b.sem = a.sem /\ b.map = a.map
    BY <2>1, <2>4 DEF QType
  <2> QED
    BY <2>3, <2>5
<1>6. PICK c : c = WaitsOver(b)
  OBVIOUS
<1>7. Good(c, {}, D)
  BY <1>4, <1>6, WaitsOverGood
<1>8. /\ Range(c.first) \subseteq Range(b.first) \cup Range(b.wait)
      /\ Range(c.low) \subseteq Range(b.low) \cup Range(b.wait)
      /\ c.sem = b.sem /\ \A p \in Range(b.sem) : c.map[p] = b.map[p]
  BY <1>4, <1>6, WaitsOverRuns
<1>9. l = TimedOut(c)
  BY <1>1, <1>3, <1>6 DEF DoSecond
<1>10. /\ Range(l.first) \subseteq Range(c.first) \cup { p \in Range(c.sem) : c.map[p].due = 0 }
       /\ Range(l.low) \subseteq Range(c.low) \cup { p \in Range(c.sem) : c.map[p].due = 0 }
  BY <1>7, <1>9, TimedOutRuns
<1>11. Range(l.first \o l.low) = Range(l.first) \cup Range(l.low)
  <2>1. Good(l, {}, D)
    BY <1>7, <1>9, TimedOutGood
  <2> QED
    BY <2>1, GoodFacts, Joined
<1>12. Apart(k)
  BY AtRest
<1>13. ASSUME NEW p \in Awoken(k, l) PROVE FALSE
  <2>1. p \in Range(k.sem) /\ k.map[p].due = NoTime /\ p \in Range(l.first) \cup Range(l.low)
    BY <1>11 DEF Awoken
  <2>2. p \notin Range(k.first) /\ p \notin Range(k.low) /\ p \notin Range(k.wait)
    BY <1>12, <2>1 DEF Apart
  <2>3. p \notin Range(c.first) /\ p \notin Range(c.low)
    BY <1>2, <1>5, <1>8, <2>2
  <2>4. c.map[p].due = 0
    BY <1>10, <2>1, <2>3
  <2>5. c.map[p] = a.map[p]
    BY <1>2, <1>5, <1>8, <2>1
  <2> QED
    BY <1>2, <2>1, <2>4, <2>5
<1> QED
  BY <1>13

(* Whenever fewer wait on the semaphore, they left it in their order.      *)
InTurn(k, l) == Len(l.sem) < Len(k.sem) => OrderKept(k, l)

(* Where none is woken, and where none leaves.                             *)
LEMMA NoneLeaves ==
  ASSUME NEW k, NEW D, Good(k, {}, D), NEW l \in QType
  PROVE  /\ Awoken(k, l) = {} => InTurn(k, l)
         /\ Wakened(l) \subseteq Wakened(k) => InTurn(k, l)
         /\ l.sem = k.sem => InTurn(k, l)
<1>1. ASSUME l.sem = k.sem PROVE InTurn(k, l)
  <2>1. PICK n \in Nat : n = Len(k.sem)
    BY GoodFacts
  <2>2. ~(Len(l.sem) < Len(k.sem))
    BY <1>1, <2>1
  <2> QED
    BY <2>2 DEF InTurn
<1>2. ASSUME Awoken(k, l) = {} PROVE InTurn(k, l)
  BY <1>2, NoneAwoken DEF InTurn
<1>3. ASSUME Wakened(l) \subseteq Wakened(k) PROVE InTurn(k, l)
  BY <1>2, <1>3, NotAgain
<1> QED
  BY <1>1, <1>2, <1>3

(* No command wakes one that waits before one that waited longer.          *)
LEMMA CommandInTurn ==
  ASSUME IInv, Command, ~q.ub, ~q'.ub, NEW k, k = q, NEW l, l = q'
  PROVE  InTurn(k, l)
<1>1. PICK D : D = Executing
  OBVIOUS
<1>2. Good(k, {}, D) /\ l \in QType
  <2>1. IInv'
    BY CommandInv
  <2> QED
    BY <1>1, <2>1 DEF IInv, Good, Sound
<1>3. ASSUME NEW j, Effect(j) PROVE l = j
  <2>1. q' = IF j.ub THEN Undefined ELSE j
    BY <1>3 DEF Effect
  <2>2. Undefined.ub = TRUE
    BY DEF Undefined, Fresh
  <2> QED
    BY <2>1, <2>2
<1>4. ASSUME NEW j, Effect(j), Wakened(j) \subseteq Wakened(k) PROVE InTurn(k, l)
  BY <1>2, <1>3, <1>4, NoneLeaves
<1>5. ASSUME NEW j, Effect(j), j.sem = k.sem PROVE InTurn(k, l)
  BY <1>2, <1>3, <1>5, NoneLeaves
<1>6. \A x \in Objs : \A byPlayer \in EnactedBy(x) : byPlayer \in BOOLEAN
  BY DEF EnactedBy
<1>7. \A stray \in Stray(q) : stray \in BOOLEAN
  BY DEF Stray, ReadsOwnerOfNothing
<1>8. PICK onemore, back : onemore = [k EXCEPT !.count = @ + 1] /\ back = [onemore EXCEPT !.count = @ - 1]
  OBVIOUS
<1>9. /\ Good(onemore, {}, D) /\ Good(back, {}, D) /\ onemore.sem = k.sem
      /\ Wakened(onemore) = Wakened(k) /\ Wakened(back) = Wakened(k)
  BY <1>2, <1>8, OneMore
<1>10. PICK never, no, yes : never = NoTime /\ no = FALSE /\ yes = TRUE
  OBVIOUS
<1>11. never \in Due /\ no \in BOOLEAN /\ yes \in BOOLEAN
  BY <1>10, Basics
<1>12. ASSUME NEW x \in Objs, NEW byPlayer \in BOOLEAN, Queue(x, byPlayer) PROVE InTurn(k, l)
  <2>1. PICK stray \in BOOLEAN : Effect(InsertQue(k, x, byPlayer, stray))
    BY <1>7, <1>12 DEF Queue
  <2> QED
    BY <1>2, <1>4, <2>1, InsertWakes
<1>13. ASSUME NEW x \in Objs, NEW byPlayer \in BOOLEAN, WaitSemaphoreNoTime(x, byPlayer)
       PROVE  InTurn(k, l)
  <2>1. PICK stray \in BOOLEAN :
          Effect(IF onemore.count <= 0 THEN WaitQue(onemore, x, byPlayer, never, no, stray)
                 ELSE InsertQue(back, x, byPlayer, stray))
    BY <1>7, <1>8, <1>10, <1>13 DEF WaitSemaphoreNoTime
  <2>2. PICK a, b : a = WaitQue(onemore, x, byPlayer, never, no, stray) /\ b = InsertQue(back, x, byPlayer, stray)
    OBVIOUS
  <2>3. Wakened(a) \subseteq Wakened(k) /\ Wakened(b) \subseteq Wakened(k)
    BY <1>9, <1>11, <2>2, WaitQueWakes, InsertWakes
  <2> QED
    BY <1>4, <2>1, <2>2, <2>3
<1>14. ASSUME NEW x \in Objs, NEW byPlayer \in BOOLEAN, NEW due \in Due, Wait(x, byPlayer, due)
       PROVE  InTurn(k, l)
  <2>1. PICK stray \in BOOLEAN : Effect(WaitQue(k, x, byPlayer, due, no, stray))
    BY <1>7, <1>10, <1>14 DEF Wait
  <2> QED
    BY <1>2, <1>4, <1>11, <2>1, WaitQueWakes
<1>15. ASSUME NEW x \in Objs, NEW byPlayer \in BOOLEAN, NEW due \in Due, WaitSemaphore(x, byPlayer, due)
       PROVE  InTurn(k, l)
  <2>1. PICK stray \in BOOLEAN :
          Effect(IF onemore.count <= 0 THEN WaitQue(onemore, x, byPlayer, never, no, stray)
                 ELSE WaitQue(onemore, x, byPlayer, due, yes, stray))
    BY <1>7, <1>8, <1>10, <1>15 DEF WaitSemaphore
  <2>2. PICK a, b : /\ a = WaitQue(onemore, x, byPlayer, never, no, stray)
                    /\ b = WaitQue(onemore, x, byPlayer, due, yes, stray)
    OBVIOUS
  <2>3. Wakened(a) \subseteq Wakened(k) /\ Wakened(b) \subseteq Wakened(k)
    BY <1>9, <1>11, <2>2, WaitQueWakes
  <2> QED
    BY <1>4, <2>1, <2>2, <2>3
<1>16. ASSUME QueueEvent PROVE InTurn(k, l)
  <2>1. PICK x, byPlayer : x = EventHandler /\ byPlayer = TRUE
    OBVIOUS
  <2>2. PICK stray \in BOOLEAN :
          LET pay == PayQueue(k, x, stray) IN
          Effect(IF ~pay.ok \/ TableFull(pay.q) THEN pay.q
                 ELSE Enqueued(Mapped(pay.q, Queued(x, byPlayer)), NextPid(pay.q), byPlayer))
    BY <1>7, <1>16, <2>1 DEF QueueEvent
  <2>3. PICK pay, p : pay = PayQueue(k, x, stray) /\ p = pay.q
    OBVIOUS
  <2>4. PICK j : j = IF ~pay.ok \/ TableFull(p) THEN p
                     ELSE Enqueued(Mapped(p, Queued(x, byPlayer)), NextPid(p), byPlayer)
    OBVIOUS
  <2>5. Effect(j)
    BY <2>2, <2>3, <2>4
  <2>6. x \in Objs /\ byPlayer \in BOOLEAN
    BY <2>1, Basics
  <2>7. Good(p, {}, D) /\ Wakened(p) = Wakened(k)
    BY <1>2, <2>3, <2>6, PayGood, PayWakes
  <2>8. Wakened(j) \subseteq Wakened(k)
    BY <2>4, <2>6, <2>7, EnqueueWakes
  <2> QED
    BY <1>4, <2>5, <2>8
<1>17. ASSUME WaitUnpaid PROVE InTurn(k, l)
  <2>1. Effect(onemore)
    BY <1>8, <1>17 DEF WaitUnpaid
  <2> QED
    BY <1>5, <1>9, <2>1
<1>18. ASSUME NEW n \in Nat, Notify(n) \/ NotifyWaiting(n) PROVE InTurn(k, l)
  <2>1. PICK s : s = Oldest(k, n)
    OBVIOUS
  <2>2. s \in Seq(Pids) /\ BeginsWith(k.sem, s)
    BY <1>2, <2>1, OldestFirst
  <2>3. PICK w : w = Woken(Unlinked(k, s), s)
    OBVIOUS
  <2>4. l.map = w.map /\ l.first = w.first /\ l.low = w.low /\ l.sem = w.sem
    <3>1. CASE NotifyWaiting(n)
      <4>1. Effect(w)
        BY <2>1, <2>3, <3>1 DEF NotifyWaiting
      <4> QED
        BY <1>3, <4>1
    <3>2. CASE Notify(n)
      <4>1. PICK j : j = [w EXCEPT !.count = @ - (n - Len(s))]
        OBVIOUS
      <4>2. Effect(j)
        BY <2>1, <2>3, <3>2, <4>1 DEF Notify
      <4>3. j.map = w.map /\ j.first = w.first /\ j.low = w.low /\ j.sem = w.sem
        BY <4>1
      <4> QED
        BY <1>3, <4>2, <4>3
    <3> QED
      BY <1>18, <3>1, <3>2
  <2> QED
    BY <1>2, <2>2, <2>3, <2>4, FrontInOrder DEF InTurn
<1>19. ASSUME NotifyAll PROVE InTurn(k, l)
  <2>1. PICK s : s = k.sem
    OBVIOUS
  <2>2. s \in Seq(Pids) /\ BeginsWith(k.sem, s)
    <3>1. s \in Seq(Pids) /\ Len(s) \in Nat
      BY <1>2, <2>1, GoodFacts
    <3> QED
      BY <2>1, <3>1 DEF BeginsWith
  <2>3. PICK w : w = Woken(Unlinked(k, s), s)
    OBVIOUS
  <2>4. Effect(w)
    BY <1>19, <2>1, <2>3 DEF NotifyAll
  <2>5. l.map = w.map /\ l.first = w.first /\ l.low = w.low /\ l.sem = w.sem
    BY <1>3, <2>4
  <2> QED
    BY <1>2, <2>2, <2>3, <2>5, FrontInOrder DEF InTurn
<1>20. ASSUME NEW n \in Nat, Drain(n) PROVE InTurn(k, l)
  <2>1. PICK s : s = Oldest(k, n)
    OBVIOUS
  <2>2. s \in Seq(Pids) /\ IsInjective(s) /\ Range(s) \subseteq Range(k.sem)
    BY <1>2, <2>1, OldestFacts
  <2>3. Effect(Drained(k, s))
    BY <1>20, <2>1 DEF Drain
  <2> QED
    BY <1>2, <1>4, <2>2, <2>3, DrainedWakes
<1>21. ASSUME DrainAll PROVE InTurn(k, l)
  <2>1. PICK s : s = k.sem
    OBVIOUS
  <2>2. s \in Seq(Pids) /\ IsInjective(s) /\ Range(s) \subseteq Range(k.sem)
    BY <1>2, <2>1, GoodFacts, AtRest DEF Apart
  <2>3. PICK d : d = Drained(k, s)
    OBVIOUS
  <2>4. PICK j : j = [d EXCEPT !.count = 0]
    OBVIOUS
  <2>5. Effect(j)
    BY <1>21, <2>1, <2>3, <2>4 DEF DrainAll
  <2>6. Wakened(d) = Wakened(k)
    BY <1>2, <2>2, <2>3, DrainedWakes
  <2>7. j.first = d.first /\ j.low = d.low /\ j.map = d.map
    BY <2>4
  <2>8. Wakened(j) = Wakened(d)
    BY <2>7, RunsSame
  <2> QED
    BY <1>4, <2>5, <2>6, <2>8
<1>22. ASSUME NEW x \in Objs, Halt(x) PROVE InTurn(k, l)
  <2>1. PICK stray \in BOOLEAN : Effect(SetHalted(DoHalt(k, x, stray), x))
    BY <1>7, <1>22 DEF Halt
  <2>2. PICK h : h = DoHalt(k, x, stray)
    OBVIOUS
  <2>3. Wakened(h) = Wakened(k) /\ h \in QType
    BY <1>2, <2>2, HaltWakes, HaltParts
  <2>4. Wakened(SetHalted(h, x)) = Wakened(h)
    BY <2>3, SetHaltedWakes
  <2> QED
    BY <1>4, <2>1, <2>2, <2>3, <2>4
<1>23. ASSUME NEW x \in Objs, HaltCommand(x) PROVE InTurn(k, l)
  <2>1. PICK stray \in BOOLEAN : Effect(InsertQue(DoHalt(k, x, stray), x, x = Player, stray))
    BY <1>7, <1>23 DEF HaltCommand
  <2>2. PICK h, b : h = DoHalt(k, x, stray) /\ b = (x = Player)
    OBVIOUS
  <2>3. Good(h, {}, D) /\ Wakened(h) = Wakened(k) /\ b \in BOOLEAN
    BY <1>2, <2>2, HaltGood, HaltWakes
  <2>4. Wakened(InsertQue(h, x, b, stray)) \subseteq Wakened(h)
    BY <2>3, InsertWakes
  <2> QED
    BY <1>4, <2>1, <2>2, <2>3, <2>4
<1>24. ASSUME NEW x \in Objs, Restart(x) PROVE InTurn(k, l)
  <2>1. PICK stray \in BOOLEAN, started \in SUBSET Objs :
          Effect(FoldSet(LAMBDA o, j : InsertQue(j, o, o = Player, stray),
                         DoHalt(k, x, stray), started))
    BY <1>7, <1>24 DEF Restart
  <2>2. PICK h : h = DoHalt(k, x, stray)
    OBVIOUS
  <2>3. Good(h, {}, D) /\ Wakened(h) = Wakened(k)
    BY <1>2, <2>2, HaltGood, HaltWakes
  <2>4. PICK r : r = FoldSet(LAMBDA o, j : InsertQue(j, o, o = Player, stray), h, started)
    OBVIOUS
  <2>5. Wakened(r) \subseteq Wakened(h)
    BY <2>3, <2>4, RestartGood
  <2>6. Effect(r)
    BY <2>1, <2>2, <2>4
  <2> QED
    BY <1>4, <2>3, <2>5, <2>6
<1>25. ASSUME NEW x \in Things, SetHaltFlag(x) PROVE InTurn(k, l)
  <2>1. PICK H : H = (k.halted \ {x}) \cup ({x} \ k.halted)
    OBVIOUS
  <2>2. PICK j : j = [k EXCEPT !.halted = H]
    OBVIOUS
  <2>3. j = [q EXCEPT !.halted = (@ \ {x}) \cup ({x} \ @)]
    BY <2>1, <2>2
  <2>4. Effect(j) /\ j.sem = k.sem
    BY <1>25, <2>2, <2>3 DEF SetHaltFlag
  <2> QED
    BY <1>5, <2>4
<1>26. ASSUME NEW p \in Pids, HaltPid(p) PROVE InTurn(k, l)
  <2>1. PICK h : h = [k EXCEPT !.map[p].executor = Nothing]
    OBVIOUS
  <2>2. Effect(IF ~k.map[p].attr THEN h
               ELSE IF p \in Range(k.sem) THEN Freed(Unlinked(h, <<p>>), {p})
               ELSE [h EXCEPT !.ub = TRUE])
    BY <1>26, <2>1 DEF HaltPid
  <2>3. h.sem = k.sem
    BY <2>1
  <2>4. CASE ~k.map[p].attr
    BY <1>5, <2>2, <2>3, <2>4
  <2>5. CASE k.map[p].attr /\ p \in Range(k.sem)
    <3>1. PICK j : j = Freed(Unlinked(h, <<p>>), {p})
      OBVIOUS
    <3>2. Effect(j)
      BY <2>2, <2>5, <3>1
    <3>3. Wakened(j) = Wakened(k)
      BY <1>2, <2>1, <2>5, <3>1, HaltPidWakes
    <3> QED
      BY <1>4, <3>2, <3>3
  <2>6. CASE k.map[p].attr /\ p \notin Range(k.sem)
    <3>1. PICK j : j = [h EXCEPT !.ub = TRUE]
      OBVIOUS
    <3>2. Effect(j) /\ j.sem = k.sem
      BY <2>2, <2>3, <2>6, <3>1
    <3> QED
      BY <1>5, <3>2
  <2> QED
    BY <2>4, <2>5, <2>6
<1>27. ASSUME NEW p \in Pids, NEW due \in Due, WaitPid(p, due) PROVE InTurn(k, l)
  <2>1. PICK h : h = [k EXCEPT !.map[p].due = due]
    OBVIOUS
  <2>2. PICK w : w = SortedInto(h, Without(h.wait, {p}), p)
    OBVIOUS
  <2>3. PICK j : j = [h EXCEPT !.wait = w]
    OBVIOUS
  <2>4. j = [h EXCEPT !.wait = SortedInto(h, Without(@, {p}), p)]
    BY <2>2, <2>3
  <2>5. Effect(j) \/ Effect(h)
    BY <1>27, <2>1, <2>4 DEF WaitPid
  <2>6. h.sem = k.sem
    BY <2>1
  <2>7. j.sem = k.sem
    BY <2>3, <2>6
  <2> QED
    BY <1>5, <2>5, <2>6, <2>7
<1>28. ASSUME Reboot PROVE InTurn(k, l)
  <2>1. l.first = <<>> /\ l.low = <<>>
    BY <1>28 DEF Reboot, Fresh
  <2>2. PICK e : e = <<>>
    OBVIOUS
  <2>3. Range(e) = {} /\ l.first = e /\ l.low = e
    BY <2>1, <2>2 DEF Range
  <2>4. Wakened(l) \subseteq Wakened(k)
    BY <2>3 DEF Wakened
  <2> QED
    BY <1>2, <2>4, NoneLeaves
<1>29. 1..2 \subseteq Nat /\ Due \ {0} \subseteq Due
  OBVIOUS
<1> QED
  <2>1. CASE \E x \in Objs : \E byPlayer \in EnactedBy(x) :
               \/ Queue(x, byPlayer)
               \/ WaitSemaphoreNoTime(x, byPlayer)
               \/ \E due \in Due \ {0} : Wait(x, byPlayer, due)
               \/ \E due \in Due : WaitSemaphore(x, byPlayer, due)
    BY <1>6, <1>12, <1>13, <1>14, <1>15, <1>29, <2>1
  <2>2. CASE \E n \in 1..2 : Notify(n) \/ NotifyWaiting(n) \/ Drain(n)
    BY <1>18, <1>20, <1>29, <2>2
  <2>3. CASE \E x \in Objs : Halt(x) \/ HaltCommand(x) \/ Restart(x)
    BY <1>22, <1>23, <1>24, <2>3
  <2>4. CASE \E x \in Things : SetHaltFlag(x)
    BY <1>25, <2>4
  <2>5. CASE \E p \in Pids : HaltPid(p)
    BY <1>26, <2>5
  <2>6. CASE \E p \in Pids, due \in Due : WaitPid(p, due)
    BY <1>27, <2>6
  <2> QED
    BY <1>16, <1>17, <1>19, <1>21, <1>28, <2>1, <2>2, <2>3, <2>4, <2>5, <2>6 DEF Command

(* Nor does any other step.                                                *)
LEMMA NextInTurn ==
  ASSUME IInv, [Next]_vars, ~q.ub, ~q'.ub, NEW k, k = q, NEW l, l = q'
  PROVE  InTurn(k, l)
<1>1. PICK D : D = Executing
  OBVIOUS
<1>2. Good(k, {}, D) /\ l \in QType
  <2>1. IInv'
    BY NextInv
  <2> QED
    BY <1>1, <2>1 DEF IInv, Good, Sound
<1>3. ASSUME l.sem = k.sem PROVE InTurn(k, l)
  BY <1>2, <1>3, NoneLeaves
<1>4. CASE UNCHANGED vars
  BY <1>3, <1>4 DEF vars
<1>5. CASE Second
  <2>1. PICK n \in 1..MaxWait : OnEverySecond(n)
    BY <1>5 DEF Second
  <2>2. n \in Nat /\ l = DoSecond(Elapsed(k, n))
    BY <2>1, Basics DEF OnEverySecond
  <2> QED
    BY <1>2, <2>2, SecondWakes, NoneLeaves
<1>6. k \in QType
  BY <1>2, GoodFacts
<1>7. CASE DoTop
  <2>1. PICK t, p : t = Tail(k.first) /\ p = {Head(k.first)}
    OBVIOUS
  <2>2. PICK j, x : j = [k EXCEPT !.first = t] /\ x = k.map[Head(k.first)].executor
    OBVIOUS
  <2>3. j.sem = k.sem
    BY <2>2
  <2>4. \A n : AddTo(j, x, n).sem = j.sem
    BY <1>6, <2>2 DEF AddTo, QType
  <2>5. \A i : DOMAIN i = DOMAIN k => Freed(i, p).sem = i.sem
    BY <1>6 DEF Freed, QType
  <2>6. \A n : DOMAIN AddTo(j, x, n) = DOMAIN k /\ DOMAIN j = DOMAIN k
    BY <2>2 DEF AddTo
  <2>7. \/ l = Freed(j, p) \/ l = Freed(AddTo(j, x, -1), p) \/ l = AddTo(j, x, -1)
    BY <1>7, <2>1, <2>2 DEF DoTop
  <2>8. l.sem = k.sem
    BY <2>3, <2>4, <2>5, <2>6, <2>7
  <2> QED
    BY <1>3, <2>8
<1>8. CASE EndEntry
  <2>1. PICK F : F = {cur}
    OBVIOUS
  <2>2. l = Freed(k, F)
    BY <1>8, <2>1 DEF EndEntry
  <2>3. \A S : Freed(k, S).sem = k.sem
    BY <1>6 DEF Freed, QType
  <2>4. l.sem = k.sem
    BY <2>2, <2>3
  <2> QED
    BY <1>3, <2>4
<1> QED
  BY <1>4, <1>5, <1>7, <1>8, CommandInTurn DEF Next

(* "The actions occur in the order they were added" (penntop.hlp:1667): a  *)
(* semaphore's waiters without a timeout are woken and queued in the order *)
(* in which they came, by any sequence of commands and timers.             *)
THEOREM SemaphoreIsInOrder == Spec => InSemaphoreOrder
<1>1. ASSUME IInv, [Next]_vars
      PROVE  [Len(q'.sem) < Len(q.sem) /\ ~q'.ub =>
           LET woken == { p \in Range(q.sem) : /\ p \in Range(q'.first \o q'.low)
                                               /\ q.map[p].due = NoTime
                                               /\ q'.map[p].attr }
               caused(b) == { p \in woken : q.map[p].player = b }
           IN /\ \A i, j \in DOMAIN q.sem :
                   i < j /\ q.sem[j] \in woken => q.sem[i] \notin Range(q'.sem)
              /\ Among(q'.first, caused(TRUE)) = Among(q.sem, caused(TRUE))
              /\ Among(q'.low, caused(FALSE)) = Among(q.sem, caused(FALSE))]_vars
  <2> SUFFICES ASSUME Len(q'.sem) < Len(q.sem), ~q'.ub
               PROVE  LET woken == { p \in Range(q.sem) : /\ p \in Range(q'.first \o q'.low)
                                                       /\ q.map[p].due = NoTime
                                                       /\ q'.map[p].attr }
                       caused(b) == { p \in woken : q.map[p].player = b }
                   IN /\ \A i, j \in DOMAIN q.sem :
                           i < j /\ q.sem[j] \in woken => q.sem[i] \notin Range(q'.sem)
                      /\ Among(q'.first, caused(TRUE)) = Among(q.sem, caused(TRUE))
                      /\ Among(q'.low, caused(FALSE)) = Among(q.sem, caused(FALSE))
    OBVIOUS
  <2>1. PICK k, l : k = q /\ l = q'
    OBVIOUS
  <2>2. ~q.ub
    <3>1. CASE q.ub
      <4>1. q.sem = <<>> /\ IInv'
        BY <1>1, <3>1, NextInv, UndefinedFacts DEF IInv
      <4>2. l.sem \in Seq(Pids)
        <5>1. l \in QType
          BY <2>1, <4>1 DEF IInv, Good, Sound
        <5> QED
          BY <5>1 DEF QType
      <4>3. Len(q.sem) = 0 /\ Len(l.sem) \in Nat
        BY <4>1, <4>2
      <4> QED
        BY <2>1, <4>3
    <3> QED
      BY <3>1
  <2>3. InTurn(k, l)
    BY <1>1, <2>1, <2>2, NextInTurn
  <2>4. OrderKept(k, l)
    BY <2>1, <2>3 DEF InTurn
  <2> QED
    BY <2>1, <2>4 DEF OrderKept, Awoken, Caused
<1> QED
  BY <1>1, QueuesAreGood, PTL DEF Spec, InSemaphoreOrder
=============================================================================
