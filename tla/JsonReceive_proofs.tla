------------------------ MODULE JsonReceive_proofs ------------------------
(***************************************************************************)
(* The strings of a message stay where they are until it is cleared, for   *)
(* any depth of calls within one another and any number of servers that    *)
(* were stopped meanwhile.  The allocators are argued about by themselves: *)
(* H says which message, by its place on the stack, holds which of them.   *)
(*                                                                         *)
(* YAJL gets every object by itself and whole, for any well-formed objects *)
(* and however read() chunks them: the lexer's state is what the bytes of  *)
(* the object so far determine, and no byte is lost or read twice.         *)
(***************************************************************************)
EXTENDS JsonReceive, FoldTheorems, SequenceTheorems

Pool == [refs : Nat, available : Seq(Buffers)]

HeldBy(H, bs, p) == { i \in DOMAIN H : bs[H[i]] = p }

One(c) == IF c THEN 1 ELSE 0

HeapType(ps, bs) ==
  /\ DOMAIN ps \subseteq Pools
  /\ ps \in [DOMAIN ps -> Pool]
  /\ DOMAIN bs \subseteq Buffers
  /\ bs \in [DOMAIN bs -> DOMAIN ps]

(* What a free list holds is allocated, of this pool, and not in use.      *)
FreeInv(H, ps, bs) ==
  \A p \in DOMAIN ps :
    /\ IsInjective(ps[p].available)
    /\ \A b \in Range(ps[p].available) :
         /\ b \in DOMAIN bs /\ bs[b] = p
         /\ \A i \in DOMAIN H : H[i] # b

(* The allocators in use are allocated and differ.                         *)
UseInv(H, bs) ==
  /\ IsFiniteSet(DOMAIN H)
  /\ \A i \in DOMAIN H : H[i] \in DOMAIN bs
  /\ IsInjective(H)

(* Nothing is forgotten.                                                   *)
KeptInv(H, ps, bs) ==
  \A b \in DOMAIN bs :
    b \in Range(ps[bs[b]].available) \/ \E i \in DOMAIN H : H[i] = b

(* References are held by allocators in use, by the server, and by owed,   *)
(* which is the pool that is about to be released.                         *)
RefsInv(H, int, owed, ps, bs) ==
  \A p \in DOMAIN ps :
    /\ ps[p].refs = Cardinality(HeldBy(H, bs, p)) + One(int = p) + One(owed = p)
    /\ ps[p].refs > 0

HeapInv(H, int, owed, ps, bs) ==
  /\ HeapType(ps, bs)
  /\ int \in DOMAIN ps \cup {NULL}
  /\ owed \in DOMAIN ps \cup {NULL}
  /\ UseInv(H, bs)
  /\ FreeInv(H, ps, bs)
  /\ KeptInv(H, ps, bs)
  /\ RefsInv(H, int, owed, ps, bs)

Less(H, n) == [i \in DOMAIN H \ {n} |-> H[i]]
More(H, n, b) == [i \in DOMAIN H \cup {n} |-> IF i = n THEN b ELSE H[i]]

-----------------------------------------------------------------------------
(* What the assignments to the pool do.                                    *)

(* The count of references of a pool changes.                              *)
LEMMA WithRefs ==
  ASSUME NEW ps, ps \in [DOMAIN ps -> Pool], NEW p \in DOMAIN ps, NEW n \in Nat,
         NEW qs, qs = [ps EXCEPT ![p].refs = n]
  PROVE  /\ DOMAIN qs = DOMAIN ps
         /\ qs \in [DOMAIN ps -> Pool]
         /\ \A q \in DOMAIN ps :
              /\ qs[q].available = ps[q].available
              /\ qs[q].refs = IF q = p THEN n ELSE ps[q].refs
  BY DEF Pool

(* The free list of a pool changes.                                        *)
LEMMA WithAvailable ==
  ASSUME NEW ps, ps \in [DOMAIN ps -> Pool], NEW p \in DOMAIN ps, NEW s \in Seq(Buffers),
         NEW qs, qs = [ps EXCEPT ![p].available = s]
  PROVE  /\ DOMAIN qs = DOMAIN ps
         /\ qs \in [DOMAIN ps -> Pool]
         /\ \A q \in DOMAIN ps :
              /\ qs[q].refs = ps[q].refs
              /\ qs[q].available = IF q = p THEN s ELSE ps[q].available
  BY DEF Pool

(* What a free list holds after an allocator came back.                    *)
LEMMA Pushed ==
  ASSUME NEW s \in Seq(Buffers), NEW b \in Buffers, b \notin Range(s), IsInjective(s)
  PROVE  /\ <<b>> \o s \in Seq(Buffers)
         /\ IsInjective(<<b>> \o s)
         /\ Range(<<b>> \o s) = Range(s) \cup {b}
<1> DEFINE t == <<b>> \o s
<1>1. t \in Seq(Buffers) /\ Len(t) = Len(s) + 1
  BY ConcatProperties
<1>2. t[1] = b /\ \A i \in 1..Len(s) : t[i + 1] = s[i]
  BY ConcatProperties
<1> HIDE DEF t
<1>3. DOMAIN t = 1..(Len(s) + 1) /\ DOMAIN s = 1..Len(s) /\ Len(s) \in Nat
  BY <1>1
<1>4. \A i \in DOMAIN t : i = 1 \/ (i - 1 \in DOMAIN s /\ t[i] = s[i - 1])
  BY <1>2, <1>3
<1>5. \A i \in DOMAIN s : i + 1 \in DOMAIN t /\ t[i + 1] = s[i]
  BY <1>2, <1>3
<1>6. 1 \in DOMAIN t
  BY <1>3
<1>7. IsInjective(t)
  <2> SUFFICES ASSUME NEW i \in DOMAIN t, NEW j \in DOMAIN t, t[i] = t[j]
               PROVE  i = j
    BY DEF IsInjective
  <2>1. i \in Int /\ j \in Int
    BY <1>3
  <2>2. CASE i = 1 \/ j = 1
    BY <1>2, <1>4, <2>2 DEF Range
  <2>3. CASE i # 1 /\ j # 1
    BY <1>4, <2>1, <2>3 DEF IsInjective
  <2> QED
    BY <2>2, <2>3
<1>8. Range(t) = Range(s) \cup {b}
  BY <1>2, <1>4, <1>5, <1>6 DEF Range
<1> QED
  BY <1>1, <1>7, <1>8 DEF t

(* What a free list holds after an allocator was taken.                    *)
LEMMA Popped ==
  ASSUME NEW s \in Seq(Buffers), s # <<>>, IsInjective(s)
  PROVE  /\ Head(s) \in Range(s)
         /\ Tail(s) \in Seq(Buffers)
         /\ IsInjective(Tail(s))
         /\ Range(Tail(s)) = Range(s) \ {Head(s)}
<1> DEFINE t == Tail(s)
<1>1. t \in Seq(Buffers) /\ Len(t) = Len(s) - 1 /\ Len(s) \in Nat \ {0}
  BY HeadTailProperties, EmptySeq
<1>2. Head(s) = s[1] /\ \A i \in 1..Len(t) : t[i] = s[i + 1]
  BY HeadTailProperties, EmptySeq
<1> HIDE DEF t
<1>3. DOMAIN t = 1..(Len(s) - 1) /\ DOMAIN s = 1..Len(s)
  BY <1>1
<1>4. \A i \in DOMAIN t : i + 1 \in DOMAIN s /\ t[i] = s[i + 1] /\ i \in Int /\ i >= 1
  BY <1>1, <1>2, <1>3
<1>5. \A i \in DOMAIN s : i = 1 \/ (i - 1 \in DOMAIN t /\ t[i - 1] = s[i])
  BY <1>1, <1>2, <1>3
<1>6. 1 \in DOMAIN s
  BY <1>1, <1>3
<1>7. IsInjective(t)
  <2> SUFFICES ASSUME NEW i \in DOMAIN t, NEW j \in DOMAIN t, t[i] = t[j]
               PROVE  i = j
    BY DEF IsInjective
  <2>1. i + 1 = j + 1
    BY <1>4 DEF IsInjective
  <2> QED
    BY <1>4, <2>1
<1>8. ASSUME NEW i \in DOMAIN t
      PROVE  t[i] # s[1]
  <2>1. i + 1 # 1
    BY <1>4
  <2> QED
    BY <1>4, <1>6, <2>1 DEF IsInjective
<1>9. Range(t) = Range(s) \ {s[1]}
  BY <1>4, <1>5, <1>8 DEF Range
<1> QED
  BY <1>1, <1>2, <1>6, <1>7, <1>9 DEF t, Range

-----------------------------------------------------------------------------
(* What happens to the pool, each time.                                    *)

(* The count of references is a count.                                     *)
LEMMA HeldCount ==
  ASSUME NEW H, NEW bs, NEW p, IsFiniteSet(DOMAIN H)
  PROVE  /\ IsFiniteSet(HeldBy(H, bs, p))
         /\ Cardinality(HeldBy(H, bs, p)) \in Nat
         /\ Cardinality(HeldBy(H, bs, p)) = 0 => HeldBy(H, bs, p) = {}
<1>1. HeldBy(H, bs, p) \in SUBSET DOMAIN H
  BY DEF HeldBy
<1>2. IsFiniteSet(HeldBy(H, bs, p))
  BY <1>1, FS_Subset
<1> QED
  BY <1>2, FS_CardinalityType, FS_EmptySet

(* A reference is dropped, not the last one.                               *)
LEMMA ReleaseOne ==
  ASSUME NEW H, NEW int, NEW p, NEW ps, NEW bs, HeapInv(H, int, p, ps, bs),
         p \in DOMAIN ps, ps[p].refs > 1,
         NEW qs, qs = [ps EXCEPT ![p].refs = @ - 1]
  PROVE  HeapInv(H, int, NULL, qs, bs)
<1>1. /\ DOMAIN ps \subseteq Pools
      /\ ps \in [DOMAIN ps -> Pool]
      /\ DOMAIN bs \subseteq Buffers
      /\ bs \in [DOMAIN bs -> DOMAIN ps]
      /\ IsFiniteSet(DOMAIN H)
  BY DEF HeapInv, HeapType, UseInv
<1>2. ps[p].refs \in Nat /\ ps[p].refs - 1 \in Nat
  BY <1>1 DEF Pool
<1>3. /\ DOMAIN qs = DOMAIN ps
      /\ qs \in [DOMAIN ps -> Pool]
      /\ \A q \in DOMAIN ps :
           /\ qs[q].available = ps[q].available
           /\ qs[q].refs = IF q = p THEN ps[p].refs - 1 ELSE ps[q].refs
  BY <1>1, <1>2, WithRefs
<1>4. RefsInv(H, int, NULL, qs, bs)
  <2> SUFFICES ASSUME NEW q \in DOMAIN ps
               PROVE  /\ qs[q].refs = Cardinality(HeldBy(H, bs, q)) + One(int = q) + One(NULL = q)
                      /\ qs[q].refs > 0
    BY <1>3 DEF RefsInv
  <2>1. Cardinality(HeldBy(H, bs, q)) \in Nat
    BY <1>1, HeldCount
  <2>2. /\ ps[q].refs = Cardinality(HeldBy(H, bs, q)) + One(int = q) + One(p = q)
        /\ ps[q].refs > 0
    BY DEF HeapInv, RefsInv
  <2>3. NULL # q
    BY <1>1, ReceiveAssumption
  <2> QED
    BY <1>2, <1>3, <2>1, <2>2, <2>3 DEF One
<1>5. HeapType(qs, bs)
  BY <1>1, <1>3 DEF HeapType
<1>6. FreeInv(H, qs, bs)
  <2>1. FreeInv(H, ps, bs)
    BY DEF HeapInv
  <2> QED
    BY <1>3, <2>1 DEF FreeInv
<1>7. KeptInv(H, qs, bs)
  <2>1. KeptInv(H, ps, bs) /\ \A b \in DOMAIN bs : bs[b] \in DOMAIN ps
    BY <1>1 DEF HeapInv
  <2> QED
    BY <1>3, <2>1 DEF KeptInv
<1> QED
  BY <1>3, <1>4, <1>5, <1>6, <1>7 DEF HeapInv

(* The last reference is dropped.                                          *)
LEMMA ReleaseLast ==
  ASSUME NEW H, NEW int, NEW p, NEW ps, NEW bs, HeapInv(H, int, p, ps, bs),
         p \in DOMAIN ps, ~(ps[p].refs > 1),
         NEW qs, qs = Without(ps, {p}),
         NEW cs, cs = Without(bs, Range(ps[p].available))
  PROVE  HeapInv(H, int, NULL, qs, cs)
<1>1. /\ DOMAIN ps \subseteq Pools
      /\ ps \in [DOMAIN ps -> Pool]
      /\ DOMAIN bs \subseteq Buffers
      /\ bs \in [DOMAIN bs -> DOMAIN ps]
      /\ IsFiniteSet(DOMAIN H)
  BY DEF HeapInv, HeapType, UseInv
<1>2. HeldBy(H, bs, p) = {} /\ int # p
  <2>1. /\ ps[p].refs = Cardinality(HeldBy(H, bs, p)) + One(int = p) + One(p = p)
        /\ ps[p].refs > 0
    BY DEF HeapInv, RefsInv
  <2>2. Cardinality(HeldBy(H, bs, p)) \in Nat /\ ps[p].refs \in Nat
    BY <1>1, HeldCount DEF Pool
  <2>3. Cardinality(HeldBy(H, bs, p)) = 0 /\ int # p
    BY <2>1, <2>2 DEF One
  <2> QED
    BY <1>1, <2>3, HeldCount
<1>3. /\ DOMAIN qs = DOMAIN ps \ {p}
      /\ \A q \in DOMAIN qs : qs[q] = ps[q]
      /\ DOMAIN cs = DOMAIN bs \ Range(ps[p].available)
      /\ \A b \in DOMAIN cs : cs[b] = bs[b]
  BY DEF Without, Restrict
<1>4. \A i \in DOMAIN H : H[i] \in DOMAIN bs /\ bs[H[i]] # p
  BY <1>2 DEF HeldBy, HeapInv, UseInv
<1>5. \A i \in DOMAIN H : H[i] \in DOMAIN cs
  BY <1>3, <1>4 DEF HeapInv, FreeInv
<1>6. \A b \in DOMAIN cs : bs[b] \in DOMAIN qs
  <2> SUFFICES ASSUME NEW b \in DOMAIN cs, bs[b] = p PROVE FALSE
    BY <1>1, <1>3
  <2>1. b \in Range(ps[p].available) \/ \E i \in DOMAIN H : H[i] = b
    BY <1>3 DEF HeapInv, KeptInv
  <2> QED
    BY <1>3, <1>4, <2>1
<1>7. HeapType(qs, cs)
  <2>1. qs \in [DOMAIN qs -> Pool]
    <3>1. qs = [q \in DOMAIN qs |-> qs[q]]
      BY DEF Without, Restrict
    <3> QED
      BY <1>1, <1>3, <3>1
  <2>2. cs \in [DOMAIN cs -> DOMAIN qs]
    <3>1. cs = [b \in DOMAIN cs |-> cs[b]]
      BY DEF Without, Restrict
    <3> QED
      BY <1>3, <1>6, <3>1
  <2> QED
    BY <1>1, <1>3, <2>1, <2>2 DEF HeapType
<1>8. FreeInv(H, qs, cs)
  <2> SUFFICES ASSUME NEW q \in DOMAIN qs
               PROVE  /\ IsInjective(ps[q].available)
                      /\ \A b \in Range(ps[q].available) :
                           /\ b \in DOMAIN cs /\ cs[b] = q
                           /\ \A i \in DOMAIN H : H[i] # b
    BY <1>3 DEF FreeInv
  <2>1. q \in DOMAIN ps /\ q # p
    BY <1>3
  <2>2. /\ IsInjective(ps[q].available)
        /\ \A b \in Range(ps[q].available) :
             /\ b \in DOMAIN bs /\ bs[b] = q
             /\ \A i \in DOMAIN H : H[i] # b
    BY <2>1 DEF HeapInv, FreeInv
  <2>3. \A b \in Range(ps[p].available) : bs[b] = p
    BY DEF HeapInv, FreeInv
  <2> QED
    BY <1>3, <2>1, <2>2, <2>3
<1>9. KeptInv(H, qs, cs)
  <2>1. KeptInv(H, ps, bs)
    BY DEF HeapInv
  <2>2. \A b \in DOMAIN cs : b \in DOMAIN bs /\ cs[b] = bs[b] /\ qs[cs[b]] = ps[bs[b]]
    BY <1>3, <1>6
  <2> QED
    BY <2>1, <2>2 DEF KeptInv
<1>10. RefsInv(H, int, NULL, qs, cs)
  <2> SUFFICES ASSUME NEW q \in DOMAIN qs
               PROVE  /\ ps[q].refs = Cardinality(HeldBy(H, cs, q)) + One(int = q) + One(NULL = q)
                      /\ ps[q].refs > 0
    BY <1>3 DEF RefsInv
  <2>1. q \in DOMAIN ps /\ q # p /\ NULL # q
    BY <1>1, <1>3, ReceiveAssumption
  <2>2. HeldBy(H, cs, q) = HeldBy(H, bs, q)
    BY <1>3, <1>5 DEF HeldBy
  <2>3. /\ ps[q].refs = Cardinality(HeldBy(H, bs, q)) + One(int = q) + One(p = q)
        /\ ps[q].refs > 0
    BY <2>1 DEF HeapInv, RefsInv
  <2> QED
    BY <2>1, <2>2, <2>3 DEF One
<1>11. UseInv(H, cs)
  BY <1>5 DEF HeapInv, UseInv
<1>12. int \in DOMAIN qs \cup {NULL}
  BY <1>2, <1>3 DEF HeapInv
<1> QED
  BY <1>7, <1>8, <1>9, <1>10, <1>11, <1>12 DEF HeapInv

(* release_json_pool() keeps what is in use.                               *)
LEMMA ReleaseInv ==
  ASSUME NEW H, NEW int, NEW p, NEW ps, NEW bs, HeapInv(H, int, p, ps, bs),
         p \in DOMAIN ps
  PROVE  HeapInv(H, int, NULL, Released(ps, bs, p).pools, Released(ps, bs, p).poolOf)
<1>1. CASE ps[p].refs > 1
  BY <1>1, ReleaseOne DEF Released
<1>2. CASE ~(ps[p].refs > 1)
  BY <1>2, ReleaseLast DEF Released
<1> QED
  BY <1>1, <1>2

(* The allocator of a message goes back to its pool's free list.           *)
LEMMA GiveBack ==
  ASSUME NEW H, NEW int, NEW ps, NEW bs, HeapInv(H, int, NULL, ps, bs),
         NEW n \in DOMAIN H, NEW b, b = H[n], NEW p, p = bs[b],
         NEW s \in Seq(Buffers), IsInjective(s), Range(s) = Range(ps[p].available) \cup {b},
         NEW qs, qs = [ps EXCEPT ![p].available = s]
  PROVE  HeapInv(Less(H, n), int, p, qs, bs) /\ p \in DOMAIN qs
<1> DEFINE K == Less(H, n)
<1>1. /\ DOMAIN ps \subseteq Pools
      /\ ps \in [DOMAIN ps -> Pool]
      /\ DOMAIN bs \subseteq Buffers
      /\ bs \in [DOMAIN bs -> DOMAIN ps]
      /\ IsFiniteSet(DOMAIN H)
      /\ IsInjective(H)
      /\ \A i \in DOMAIN H : H[i] \in DOMAIN bs
  BY DEF HeapInv, HeapType, UseInv
<1>2. b \in DOMAIN bs /\ b \in Buffers /\ p \in DOMAIN ps
  BY <1>1
<1>3. FreeInv(H, ps, bs)
  BY DEF HeapInv
<1>4. DOMAIN K = DOMAIN H \ {n} /\ \A i \in DOMAIN K : K[i] = H[i] /\ K[i] # b
  BY <1>1 DEF Less, IsInjective
<1> HIDE DEF K
<1>5. /\ DOMAIN qs = DOMAIN ps
      /\ qs \in [DOMAIN ps -> Pool]
      /\ \A q \in DOMAIN ps :
           /\ qs[q].refs = ps[q].refs
           /\ qs[q].available = IF q = p THEN s ELSE ps[q].available
  BY <1>1, <1>2, WithAvailable
<1>6. \A q \in DOMAIN ps :
        Range(qs[q].available) = Range(ps[q].available) \cup (IF q = p THEN {b} ELSE {})
  BY <1>5
<1>7. HeapType(qs, bs)
  BY <1>1, <1>5 DEF HeapType
<1>8. UseInv(K, bs)
  <2>1. IsFiniteSet(DOMAIN K)
    BY <1>1, <1>4, FS_RemoveElement
  <2> QED
    BY <1>1, <1>4, <2>1 DEF UseInv, IsInjective
<1>9. FreeInv(K, qs, bs)
  <2> SUFFICES ASSUME NEW q \in DOMAIN ps
               PROVE  /\ IsInjective(qs[q].available)
                      /\ \A c \in Range(qs[q].available) :
                           /\ c \in DOMAIN bs /\ bs[c] = q
                           /\ \A i \in DOMAIN K : K[i] # c
    BY <1>5 DEF FreeInv
  <2>1. IsInjective(qs[q].available)
    BY <1>3, <1>5 DEF FreeInv
  <2>2. ASSUME NEW c \in Range(qs[q].available)
        PROVE  c \in DOMAIN bs /\ bs[c] = q /\ \A i \in DOMAIN K : K[i] # c
    <3>1. CASE c \in Range(ps[q].available)
      BY <1>3, <1>4, <3>1 DEF FreeInv
    <3>2. CASE q = p /\ c = b
      BY <1>2, <1>4, <3>2
    <3> QED
      BY <1>6, <2>2, <3>1, <3>2
  <2> QED
    BY <2>1, <2>2
<1>10. KeptInv(K, qs, bs)
  <2> SUFFICES ASSUME NEW c \in DOMAIN bs
               PROVE  c \in Range(qs[bs[c]].available) \/ \E i \in DOMAIN K : K[i] = c
    BY DEF KeptInv
  <2>1. c \in Range(ps[bs[c]].available) \/ \E i \in DOMAIN H : H[i] = c
    BY DEF HeapInv, KeptInv
  <2>2. bs[c] \in DOMAIN ps
    BY <1>1
  <2>3. CASE c = b
    BY <1>2, <1>6, <2>3
  <2>4. CASE c # b
    BY <1>4, <1>6, <2>1, <2>2, <2>4
  <2> QED
    BY <2>3, <2>4
<1>11. RefsInv(K, int, p, qs, bs)
  <2> SUFFICES ASSUME NEW q \in DOMAIN ps
               PROVE  /\ ps[q].refs = Cardinality(HeldBy(K, bs, q)) + One(int = q) + One(p = q)
                      /\ ps[q].refs > 0
    BY <1>5 DEF RefsInv
  <2>1. /\ ps[q].refs = Cardinality(HeldBy(H, bs, q)) + One(int = q) + One(NULL = q)
        /\ ps[q].refs > 0
    BY DEF HeapInv, RefsInv
  <2>2. NULL # q
    BY <1>1, ReceiveAssumption
  <2>3. HeldBy(K, bs, q) = HeldBy(H, bs, q) \ {n}
    BY <1>4 DEF HeldBy
  <2>4. IsFiniteSet(HeldBy(H, bs, q)) /\ Cardinality(HeldBy(H, bs, q)) \in Nat
    BY <1>1, HeldCount
  <2>5. n \in HeldBy(H, bs, q) <=> p = q
    BY DEF HeldBy
  <2>6. Cardinality(HeldBy(K, bs, q)) = Cardinality(HeldBy(H, bs, q)) - One(p = q)
    <3>1. Cardinality(HeldBy(H, bs, q) \ {n})
            = IF n \in HeldBy(H, bs, q) THEN Cardinality(HeldBy(H, bs, q)) - 1
              ELSE Cardinality(HeldBy(H, bs, q))
      BY <2>4, FS_RemoveElement
    <3> QED
      BY <2>3, <2>4, <2>5, <3>1 DEF One
  <2> QED
    BY <2>1, <2>2, <2>4, <2>6 DEF One
<1>12. int \in DOMAIN qs \cup {NULL} /\ p \in DOMAIN qs
  BY <1>2, <1>5 DEF HeapInv
<1> QED
  BY <1>7, <1>8, <1>9, <1>10, <1>11, <1>12 DEF HeapInv, K

(* json_server_message_clear() keeps what the other messages hold.         *)
LEMMA ClearedInv ==
  ASSUME NEW H, NEW int, NEW ps, NEW bs, HeapInv(H, int, NULL, ps, bs),
         NEW n \in DOMAIN H, NEW b, b = H[n]
  PROVE  HeapInv(Less(H, n), int, NULL, MessageCleared(ps, bs, b).pools,
                 MessageCleared(ps, bs, b).poolOf)
<1> DEFINE p == bs[b]
           s == <<b>> \o ps[p].available
           qs == [ps EXCEPT ![p].available = s]
<1>1. b \in DOMAIN bs /\ b \in Buffers /\ p \in DOMAIN ps /\ b # NULL
  BY ReceiveAssumption DEF HeapInv, HeapType, UseInv
<1>2. ps[p].available \in Seq(Buffers) /\ b \notin Range(ps[p].available)
      /\ IsInjective(ps[p].available)
  BY <1>1 DEF HeapInv, HeapType, Pool, FreeInv
<1>3. s \in Seq(Buffers) /\ IsInjective(s) /\ Range(s) = Range(ps[p].available) \cup {b}
  BY <1>1, <1>2, Pushed
<1>4. MessageCleared(ps, bs, b) = Released(qs, bs, p)
  BY <1>1 DEF MessageCleared
<1> HIDE DEF s, qs
<1>5. HeapInv(Less(H, n), int, p, qs, bs) /\ p \in DOMAIN qs
  BY <1>3, GiveBack DEF qs
<1> HIDE DEF p
<1> QED
  BY <1>4, <1>5, ReleaseInv

(* The server lets go of its pool.                                         *)
LEMMA StoppedInv ==
  ASSUME NEW H, NEW int, NEW ps, NEW bs, HeapInv(H, int, NULL, ps, bs), int # NULL
  PROVE  HeapInv(H, NULL, NULL, Released(ps, bs, int).pools, Released(ps, bs, int).poolOf)
<1>1. int \in DOMAIN ps
  BY DEF HeapInv
<1>2. RefsInv(H, NULL, int, ps, bs)
  <2> SUFFICES ASSUME NEW q \in DOMAIN ps
               PROVE  /\ ps[q].refs = Cardinality(HeldBy(H, bs, q)) + One(NULL = q) + One(int = q)
                      /\ ps[q].refs > 0
    BY DEF RefsInv
  <2>1. /\ ps[q].refs = Cardinality(HeldBy(H, bs, q)) + One(int = q) + One(NULL = q)
        /\ ps[q].refs > 0
    BY DEF HeapInv, RefsInv
  <2>2. Cardinality(HeldBy(H, bs, q)) \in Nat
    BY HeldCount DEF HeapInv, UseInv
  <2> QED
    BY <2>1, <2>2 DEF One
<1>3. HeapInv(H, NULL, int, ps, bs)
  BY <1>1, <1>2 DEF HeapInv
<1> QED
  BY <1>1, <1>3, ReleaseInv

(* A pool is made for the server.                                          *)
LEMMA NewPoolInv ==
  ASSUME NEW H, NEW ps, NEW bs, HeapInv(H, NULL, NULL, ps, bs),
         NEW p \in Pools \ DOMAIN ps,
         NEW qs, qs = With(ps, p, [refs |-> 1, available |-> <<>>])
  PROVE  HeapInv(H, p, NULL, qs, bs)
<1>1. /\ DOMAIN ps \subseteq Pools
      /\ ps \in [DOMAIN ps -> Pool]
      /\ DOMAIN bs \subseteq Buffers
      /\ bs \in [DOMAIN bs -> DOMAIN ps]
      /\ UseInv(H, bs)
  BY DEF HeapInv, HeapType
<1> DEFINE new == [refs |-> 1, available |-> <<>>]
<1>2. new \in Pool /\ new.refs = 1 /\ new.available = <<>>
  BY DEF Pool
<1>3. qs = [q \in DOMAIN ps \cup {p} |-> IF q = p THEN new ELSE ps[q]]
  BY DEF With
<1> HIDE DEF new
<1>4. /\ DOMAIN qs = DOMAIN ps \cup {p}
      /\ qs \in [DOMAIN qs -> Pool]
      /\ qs[p] = new
      /\ \A q \in DOMAIN ps : qs[q] = ps[q]
  BY <1>1, <1>2, <1>3
<1>5. Range(qs[p].available) = {} /\ IsInjective(qs[p].available)
  BY <1>2, <1>4 DEF Range, IsInjective
<1>6. HeapType(qs, bs)
  BY <1>1, <1>4 DEF HeapType
<1>7. FreeInv(H, qs, bs)
  <2>1. FreeInv(H, ps, bs)
    BY DEF HeapInv
  <2> QED
    BY <1>4, <1>5, <2>1 DEF FreeInv
<1>8. KeptInv(H, qs, bs)
  <2>1. KeptInv(H, ps, bs)
    BY DEF HeapInv
  <2>2. \A b \in DOMAIN bs : qs[bs[b]] = ps[bs[b]]
    BY <1>1, <1>4
  <2> QED
    BY <2>1, <2>2 DEF KeptInv
<1>9. RefsInv(H, p, NULL, qs, bs)
  <2> SUFFICES ASSUME NEW q \in DOMAIN qs
               PROVE  /\ qs[q].refs = Cardinality(HeldBy(H, bs, q)) + One(p = q) + One(NULL = q)
                      /\ qs[q].refs > 0
    BY DEF RefsInv
  <2>1. NULL # q
    BY <1>1, <1>4, ReceiveAssumption
  <2>2. CASE q = p
    <3>1. HeldBy(H, bs, q) = {}
      BY <1>1, <2>2 DEF HeldBy, UseInv
    <3> QED
      BY <1>2, <1>4, <2>1, <2>2, <3>1, FS_EmptySet DEF One
  <2>3. CASE q # p
    <3>1. q \in DOMAIN ps /\ qs[q] = ps[q]
      BY <1>4, <2>3
    <3>2. /\ ps[q].refs = Cardinality(HeldBy(H, bs, q)) + One(NULL = q) + One(NULL = q)
          /\ ps[q].refs > 0
      BY <3>1 DEF HeapInv, RefsInv
    <3> QED
      BY <2>1, <2>3, <3>1, <3>2 DEF One
  <2> QED
    BY <2>2, <2>3
<1> QED
  BY <1>1, <1>4, <1>6, <1>7, <1>8, <1>9 DEF HeapInv

(* An allocator of a pool is used by one more message: it was on the free  *)
(* list, or it is new.                                                     *)
LEMMA MoreRefs ==
  ASSUME NEW H, NEW int, NEW ps, NEW bs, HeapInv(H, int, NULL, ps, bs),
         NEW n, n \notin DOMAIN H, NEW p \in DOMAIN ps, NEW b,
         NEW qs, DOMAIN qs = DOMAIN ps,
         \A q \in DOMAIN ps : qs[q].refs = IF q = p THEN ps[p].refs + 1 ELSE ps[q].refs,
         NEW cs, cs[b] = p, \A c \in DOMAIN bs \ {b} : cs[c] = bs[c],
         \A i \in DOMAIN H : H[i] # b
  PROVE  RefsInv(More(H, n, b), int, NULL, qs, cs)
<1> DEFINE K == More(H, n, b)
<1>1. /\ ps \in [DOMAIN ps -> Pool]
      /\ IsFiniteSet(DOMAIN H)
      /\ \A i \in DOMAIN H : H[i] \in DOMAIN bs
  BY DEF HeapInv, HeapType, UseInv
<1>2. /\ DOMAIN K = DOMAIN H \cup {n}
      /\ K[n] = b
      /\ \A i \in DOMAIN H : K[i] = H[i]
  BY DEF More
<1> HIDE DEF K
<1> SUFFICES ASSUME NEW q \in DOMAIN ps
             PROVE  /\ qs[q].refs = Cardinality(HeldBy(K, cs, q)) + One(int = q) + One(NULL = q)
                    /\ qs[q].refs > 0
  BY DEF RefsInv, K
<1>3. /\ ps[q].refs = Cardinality(HeldBy(H, bs, q)) + One(int = q) + One(NULL = q)
      /\ ps[q].refs > 0
  BY DEF HeapInv, RefsInv
<1>4. IsFiniteSet(HeldBy(H, bs, q)) /\ Cardinality(HeldBy(H, bs, q)) \in Nat
  BY <1>1, HeldCount
<1>5. \A i \in DOMAIN H : cs[H[i]] = bs[H[i]]
  BY <1>1
<1>6. CASE q = p
  <2>1. HeldBy(K, cs, q) = HeldBy(H, bs, q) \cup {n} /\ n \notin HeldBy(H, bs, q)
    BY <1>2, <1>5, <1>6 DEF HeldBy
  <2>2. Cardinality(HeldBy(K, cs, q)) = Cardinality(HeldBy(H, bs, q)) + 1
    BY <1>4, <2>1, FS_AddElement
  <2> QED
    BY <1>3, <1>4, <1>6, <2>2 DEF One
<1>7. CASE q # p
  <2>1. HeldBy(K, cs, q) = HeldBy(H, bs, q)
    BY <1>2, <1>5, <1>7 DEF HeldBy
  <2> QED
    BY <1>3, <1>7, <2>1
<1> QED
  BY <1>6, <1>7

(* A free allocator is taken.                                              *)
LEMMA TakenInv ==
  ASSUME NEW H, NEW int, NEW ps, NEW bs, HeapInv(H, int, NULL, ps, bs),
         NEW n, n \notin DOMAIN H, NEW p \in DOMAIN ps,
         NEW b \in Range(ps[p].available),
         NEW s \in Seq(Buffers), IsInjective(s), Range(s) = Range(ps[p].available) \ {b},
         NEW qs, qs \in [DOMAIN ps -> Pool],
         \A q \in DOMAIN ps :
           /\ qs[q].refs = IF q = p THEN ps[p].refs + 1 ELSE ps[q].refs
           /\ qs[q].available = IF q = p THEN s ELSE ps[q].available
  PROVE  HeapInv(More(H, n, b), int, NULL, qs, bs)
<1> DEFINE K == More(H, n, b)
<1>1. /\ DOMAIN ps \subseteq Pools
      /\ ps \in [DOMAIN ps -> Pool]
      /\ DOMAIN bs \subseteq Buffers
      /\ bs \in [DOMAIN bs -> DOMAIN ps]
      /\ IsFiniteSet(DOMAIN H)
      /\ IsInjective(H)
      /\ \A i \in DOMAIN H : H[i] \in DOMAIN bs
  BY DEF HeapInv, HeapType, UseInv
<1>2. FreeInv(H, ps, bs)
  BY DEF HeapInv
<1>3. b \in DOMAIN bs /\ bs[b] = p /\ \A i \in DOMAIN H : H[i] # b
  BY <1>2 DEF FreeInv
<1>4. /\ DOMAIN K = DOMAIN H \cup {n}
      /\ K[n] = b
      /\ \A i \in DOMAIN H : K[i] = H[i]
  BY DEF More
<1>5. DOMAIN qs = DOMAIN ps
  OBVIOUS
<1> HIDE DEF K
<1>6. HeapType(qs, bs)
  BY <1>1, <1>5 DEF HeapType
<1>7. UseInv(K, bs)
  <2>1. IsFiniteSet(DOMAIN K)
    BY <1>1, <1>4, FS_AddElement
  <2>2. \A i, j \in DOMAIN K : K[i] = K[j] => i = j
    BY <1>1, <1>3, <1>4 DEF IsInjective
  <2> QED
    BY <1>1, <1>3, <1>4, <2>1, <2>2 DEF UseInv, IsInjective
<1>8. FreeInv(K, qs, bs)
  <2> SUFFICES ASSUME NEW q \in DOMAIN ps
               PROVE  /\ IsInjective(qs[q].available)
                      /\ \A c \in Range(qs[q].available) :
                           /\ c \in DOMAIN bs /\ bs[c] = q
                           /\ \A i \in DOMAIN K : K[i] # c
    BY <1>5 DEF FreeInv
  <2>1. IsInjective(qs[q].available)
    BY <1>2 DEF FreeInv
  <2>2. \A c \in Range(qs[q].available) : c \in Range(ps[q].available) /\ c # b
    <3>1. CASE q = p
      BY <3>1
    <3>2. CASE q # p
      BY <1>2, <1>3, <3>2 DEF FreeInv
    <3> QED
      BY <3>1, <3>2
  <2>3. \A c \in Range(ps[q].available) :
          c \in DOMAIN bs /\ bs[c] = q /\ \A i \in DOMAIN H : H[i] # c
    BY <1>2 DEF FreeInv
  <2> QED
    BY <1>4, <2>1, <2>2, <2>3
<1>9. KeptInv(K, qs, bs)
  <2> SUFFICES ASSUME NEW c \in DOMAIN bs
               PROVE  c \in Range(qs[bs[c]].available) \/ \E i \in DOMAIN K : K[i] = c
    BY DEF KeptInv
  <2>1. c \in Range(ps[bs[c]].available) \/ \E i \in DOMAIN H : H[i] = c
    BY DEF HeapInv, KeptInv
  <2>2. bs[c] \in DOMAIN ps
    BY <1>1
  <2> QED
    BY <1>4, <2>1, <2>2
<1>10. RefsInv(K, int, NULL, qs, bs)
  BY <1>3, <1>5, MoreRefs DEF K
<1> QED
  BY <1>5, <1>6, <1>7, <1>8, <1>9, <1>10 DEF HeapInv, K

(* A new allocator is taken.                                               *)
LEMMA AllocatedInv ==
  ASSUME NEW H, NEW int, NEW ps, NEW bs, HeapInv(H, int, NULL, ps, bs),
         NEW n, n \notin DOMAIN H, NEW p \in DOMAIN ps, NEW b \in Buffers \ DOMAIN bs,
         NEW cs, cs = With(bs, b, p),
         NEW qs, qs \in [DOMAIN ps -> Pool],
         \A q \in DOMAIN ps :
           /\ qs[q].refs = IF q = p THEN ps[p].refs + 1 ELSE ps[q].refs
           /\ qs[q].available = ps[q].available
  PROVE  HeapInv(More(H, n, b), int, NULL, qs, cs)
<1> DEFINE K == More(H, n, b)
<1>1. /\ DOMAIN ps \subseteq Pools
      /\ ps \in [DOMAIN ps -> Pool]
      /\ DOMAIN bs \subseteq Buffers
      /\ bs \in [DOMAIN bs -> DOMAIN ps]
      /\ IsFiniteSet(DOMAIN H)
      /\ IsInjective(H)
      /\ \A i \in DOMAIN H : H[i] \in DOMAIN bs
  BY DEF HeapInv, HeapType, UseInv
<1>2. FreeInv(H, ps, bs)
  BY DEF HeapInv
<1>3. cs = [c \in DOMAIN bs \cup {b} |-> IF c = b THEN p ELSE bs[c]]
  BY DEF With
<1>4. /\ DOMAIN cs = DOMAIN bs \cup {b}
      /\ cs[b] = p
      /\ \A c \in DOMAIN bs : cs[c] = bs[c]
      /\ cs \in [DOMAIN cs -> DOMAIN ps]
  BY <1>1, <1>3
<1>5. /\ DOMAIN K = DOMAIN H \cup {n}
      /\ K[n] = b
      /\ \A i \in DOMAIN H : K[i] = H[i] /\ H[i] # b
  BY <1>1 DEF More
<1>6. DOMAIN qs = DOMAIN ps
  OBVIOUS
<1> HIDE DEF K
<1>7. HeapType(qs, cs)
  BY <1>1, <1>4, <1>6 DEF HeapType
<1>8. UseInv(K, cs)
  <2>1. IsFiniteSet(DOMAIN K)
    BY <1>1, <1>5, FS_AddElement
  <2>2. \A i, j \in DOMAIN K : K[i] = K[j] => i = j
    BY <1>1, <1>5 DEF IsInjective
  <2> QED
    BY <1>1, <1>4, <1>5, <2>1, <2>2 DEF UseInv, IsInjective
<1>9. FreeInv(K, qs, cs)
  BY <1>2, <1>4, <1>5, <1>6 DEF FreeInv
<1>10. KeptInv(K, qs, cs)
  <2> SUFFICES ASSUME NEW c \in DOMAIN bs
               PROVE  c \in Range(qs[cs[c]].available) \/ \E i \in DOMAIN K : K[i] = c
    BY <1>4, <1>5 DEF KeptInv
  <2>1. c \in Range(ps[bs[c]].available) \/ \E i \in DOMAIN H : H[i] = c
    BY DEF HeapInv, KeptInv
  <2>2. bs[c] \in DOMAIN ps
    BY <1>1
  <2> QED
    BY <1>4, <1>5, <2>1, <2>2
<1>11. RefsInv(K, int, NULL, qs, cs)
  BY <1>4, <1>5, <1>6, MoreRefs DEF K
<1> QED
  BY <1>6, <1>7, <1>8, <1>9, <1>10, <1>11 DEF HeapInv, K

-----------------------------------------------------------------------------
(* The messages on the stack.                                              *)

Message ==
  [kind : {"call", "solicit"}, at : {"receiving", "parsed", "serving", "answered"},
   buf : Buffers \cup {NULL}, error : BOOLEAN]

(* Which message holds which allocator.                                    *)
Bufs(ms) == [i \in { k \in DOMAIN ms : ms[k].buf # NULL } |-> ms[i].buf]

IInv ==
  /\ msgs \in Seq(Message)
  /\ internal # NULL => up
  /\ HeapInv(Bufs(msgs), internal, NULL, pools, poolOf)

(* The invariant says of each pool what BuffersHeld says.                  *)
LEMMA IInvHolds == IInv => BuffersHeld
<1> SUFFICES ASSUME IInv PROVE BuffersHeld
  OBVIOUS
<1> DEFINE H == Bufs(msgs)
<1>1. HeapInv(H, internal, NULL, pools, poolOf)
  BY DEF IInv
<1>2. /\ \A i \in DOMAIN msgs : i \in DOMAIN H <=> msgs[i].buf # NULL
      /\ DOMAIN H \subseteq DOMAIN msgs
      /\ \A i \in DOMAIN H : H[i] = msgs[i].buf
  BY DEF Bufs
<1> HIDE DEF H
<1>3. /\ DOMAIN pools \subseteq Pools
      /\ \A b \in DOMAIN poolOf : poolOf[b] \in DOMAIN pools
      /\ IsInjective(H)
      /\ \A i \in DOMAIN H : H[i] \in DOMAIN poolOf
      /\ FreeInv(H, pools, poolOf)
      /\ KeptInv(H, pools, poolOf)
      /\ RefsInv(H, internal, NULL, pools, poolOf)
  BY <1>1 DEF HeapInv, HeapType, UseInv
<1>4. ASSUME NEW i \in DOMAIN msgs, msgs[i].buf # NULL
      PROVE  /\ msgs[i].buf \in DOMAIN poolOf
             /\ \A j \in DOMAIN msgs : msgs[j].buf = msgs[i].buf => i = j
             /\ msgs[i].buf \notin Range(pools[poolOf[msgs[i].buf]].available)
  <2>1. i \in DOMAIN H /\ H[i] = msgs[i].buf /\ H[i] \in DOMAIN poolOf
    BY <1>2, <1>3, <1>4
  <2>2. ASSUME NEW j \in DOMAIN msgs, msgs[j].buf = msgs[i].buf
        PROVE  i = j
    BY <1>2, <1>3, <1>4, <2>1, <2>2 DEF IsInjective
  <2>3. H[i] \notin Range(pools[poolOf[H[i]]].available)
    BY <1>3, <2>1 DEF FreeInv
  <2> QED
    BY <2>1, <2>2, <2>3
<1>5. internal # NULL => up /\ internal \in DOMAIN pools
  BY <1>1 DEF IInv, HeapInv
<1>6. ASSUME NEW p \in DOMAIN pools
      PROVE  /\ IsInjective(pools[p].available)
             /\ \A b \in Range(pools[p].available) : b \in DOMAIN poolOf /\ poolOf[b] = p
             /\ pools[p].refs = Cardinality(Holding(p)) + (IF internal = p THEN 1 ELSE 0)
             /\ pools[p].refs > 0
  <2>1. Holding(p) = HeldBy(H, poolOf, p)
    BY <1>2 DEF Holding, HeldBy
  <2>2. /\ pools[p].refs
             = Cardinality(HeldBy(H, poolOf, p)) + One(internal = p) + One(NULL = p)
        /\ pools[p].refs > 0
    BY <1>3 DEF RefsInv
  <2>3. NULL # p /\ Cardinality(HeldBy(H, poolOf, p)) \in Nat
    BY <1>1, <1>3, HeldCount, ReceiveAssumption DEF HeapInv, UseInv
  <2>4. pools[p].refs = Cardinality(Holding(p)) + (IF internal = p THEN 1 ELSE 0)
    BY <2>1, <2>2, <2>3 DEF One
  <2> QED
    BY <1>3, <2>2, <2>4 DEF FreeInv
<1>7. ASSUME NEW b \in DOMAIN poolOf
      PROVE  /\ poolOf[b] \in DOMAIN pools
             /\ \/ b \in Range(pools[poolOf[b]].available)
                \/ \E i \in DOMAIN msgs : msgs[i].buf = b
  BY <1>2, <1>3 DEF KeptInv
<1> QED
  BY <1>4, <1>5, <1>6, <1>7 DEF BuffersHeld

(* A message that holds nothing need not be left out.                      *)
LEMMA LessSame ==
  ASSUME NEW ms, NEW n, n \notin DOMAIN Bufs(ms)
  PROVE  Less(Bufs(ms), n) = Bufs(ms)
  BY DEF Less, Bufs

(* The top of the stack, and what is below it.                             *)
LEMMA TopMessage ==
  ASSUME NEW ms \in Seq(Message), ms # <<>>
  PROVE  /\ Len(ms) \in Nat \ {0} /\ DOMAIN ms = 1..Len(ms)
         /\ Last(ms) = ms[Len(ms)] /\ Last(ms) \in Message
         /\ Front(ms) \in Seq(Message)
         /\ Len(Front(ms)) = Len(ms) - 1
         /\ \A i \in 1..(Len(ms) - 1) : Front(ms)[i] = ms[i]
<1>1. Len(ms) \in Nat \ {0} /\ DOMAIN ms = 1..Len(ms)
  BY EmptySeq
<1> QED
  BY <1>1, SubSeqProperties DEF Last, Front

(* The message on top is left.                                             *)
LEMMA PopBufs ==
  ASSUME NEW ms \in Seq(Message), ms # <<>>
  PROVE  /\ Front(ms) \in Seq(Message)
         /\ Bufs(Front(ms)) = Less(Bufs(ms), Len(ms))
<1> DEFINE fs == Front(ms)
           n == Len(ms)
<1>1. /\ n \in Nat \ {0} /\ DOMAIN ms = 1..n
      /\ fs \in Seq(Message) /\ Len(fs) = n - 1
      /\ \A i \in 1..(n - 1) : fs[i] = ms[i]
  BY TopMessage
<1> HIDE DEF fs
<1>2. DOMAIN fs = 1..(n - 1)
  BY <1>1
<1> HIDE DEF n
<1>3. DOMAIN fs = DOMAIN ms \ {n} /\ \A i \in DOMAIN fs : fs[i] = ms[i]
  BY <1>1, <1>2
<1>4. Bufs(fs) = Less(Bufs(ms), n)
  BY <1>3 DEF Bufs, Less
<1> QED
  BY <1>1, <1>4 DEF fs, n

(* The message on top changes.                                             *)
LEMMA SetTopBufs ==
  ASSUME NEW ms \in Seq(Message), ms # <<>>, NEW m \in Message,
         NEW ns, ns = Append(Front(ms), m)
  PROVE  /\ ns \in Seq(Message)
         /\ m.buf = Last(ms).buf => Bufs(ns) = Bufs(ms)
         /\ m.buf = NULL => Bufs(ns) = Less(Bufs(ms), Len(ms))
         /\ Last(ms).buf = NULL => Len(ms) \notin DOMAIN Bufs(ms)
         /\ Last(ms).buf = NULL /\ m.buf # NULL
              => Bufs(ns) = More(Bufs(ms), Len(ms), m.buf)
<1> DEFINE n == Len(ms)
<1>1. /\ n \in Nat \ {0} /\ DOMAIN ms = 1..n
      /\ Front(ms) \in Seq(Message) /\ Len(Front(ms)) = n - 1
      /\ \A i \in 1..(n - 1) : Front(ms)[i] = ms[i]
      /\ Last(ms) = ms[n]
  BY TopMessage
<1>2. /\ ns \in Seq(Message) /\ Len(ns) = n /\ DOMAIN ns = 1..n
      /\ ns[n] = m
      /\ \A i \in 1..(n - 1) : ns[i] = ms[i]
  <2> DEFINE fs == Front(ms)
  <2>1. ns = Append(fs, m)
    OBVIOUS
  <2>2. fs \in Seq(Message) /\ Len(fs) = n - 1 /\ \A i \in 1..(n - 1) : fs[i] = ms[i]
    BY <1>1
  <2> HIDE DEF fs
  <2>3. /\ ns \in Seq(Message) /\ Len(ns) = Len(fs) + 1
        /\ \A i \in 1..Len(fs) : ns[i] = fs[i]
        /\ ns[Len(fs) + 1] = m
    BY <2>1, <2>2, AppendProperties
  <2>4. DOMAIN ns = 1..Len(ns)
    BY <2>3
  <2> HIDE DEF n
  <2> QED
    BY <1>1, <2>2, <2>3, <2>4
<1> HIDE DEF n
<1>3. /\ DOMAIN ns = DOMAIN ms /\ n \in DOMAIN ms
      /\ \A i \in DOMAIN ms : ns[i] = IF i = n THEN m ELSE ms[i]
  BY <1>1, <1>2
<1>4. m.buf = Last(ms).buf => Bufs(ns) = Bufs(ms)
  BY <1>1, <1>3 DEF Bufs
<1>5. m.buf = NULL => Bufs(ns) = Less(Bufs(ms), n)
  BY <1>3 DEF Bufs, Less
<1>6. Last(ms).buf = NULL => n \notin DOMAIN Bufs(ms)
  BY <1>1 DEF Bufs
<1>7. Last(ms).buf = NULL /\ m.buf # NULL => Bufs(ns) = More(Bufs(ms), n, m.buf)
  BY <1>1, <1>3 DEF Bufs, More
<1> QED
  BY <1>2, <1>4, <1>5, <1>6, <1>7 DEF n

(* A message that holds nothing comes on top.                              *)
LEMMA PushBufs ==
  ASSUME NEW ms \in Seq(Message), NEW m \in Message, m.buf = NULL,
         NEW ns, ns = Append(ms, m)
  PROVE  ns \in Seq(Message) /\ Bufs(ns) = Bufs(ms)
<1> DEFINE n == Len(ms)
<1>1. /\ n \in Nat /\ DOMAIN ms = 1..n
      /\ ns \in Seq(Message) /\ Len(ns) = n + 1 /\ DOMAIN ns = 1..(n + 1)
      /\ ns[n + 1] = m
      /\ \A i \in 1..n : ns[i] = ms[i]
  BY AppendProperties
<1>2. /\ DOMAIN ms \subseteq DOMAIN ns
      /\ \A i \in DOMAIN ns : i \notin DOMAIN ms => ns[i].buf = NULL
      /\ \A i \in DOMAIN ms : ns[i] = ms[i]
  BY <1>1
<1>3. Bufs(ns) = Bufs(ms)
  BY <1>2 DEF Bufs
<1> QED
  BY <1>1, <1>3

(* What is cleared is a message.                                           *)
LEMMA ClearedMessage ==
  \A kind \in {"call", "solicit"} : Cleared(kind) \in Message /\ Cleared(kind).buf = NULL
  BY DEF Cleared, Message

-----------------------------------------------------------------------------
(* The steps.                                                              *)

(* The top message is cleared.                                             *)
LEMMA TopCleared ==
  ASSUME IInv, msgs # <<>>, NEW h, h = MessageCleared(pools, poolOf, Top.buf)
  PROVE  HeapInv(Less(Bufs(msgs), Len(msgs)), internal, NULL, h.pools, h.poolOf)
<1> DEFINE n == Len(msgs)
<1>1. n \in DOMAIN msgs /\ Top = msgs[n]
  BY TopMessage DEF IInv, Top
<1>2. CASE Top.buf = NULL
  <2>1. n \notin DOMAIN Bufs(msgs)
    BY <1>1, <1>2 DEF Bufs
  <2>2. Less(Bufs(msgs), n) = Bufs(msgs)
    BY <2>1, LessSame
  <2>3. h.pools = pools /\ h.poolOf = poolOf
    BY <1>2 DEF MessageCleared
  <2> QED
    BY <2>2, <2>3 DEF IInv
<1>3. CASE Top.buf # NULL
  <2>1. n \in DOMAIN Bufs(msgs) /\ Bufs(msgs)[n] = Top.buf
    BY <1>1, <1>3 DEF Bufs
  <2> QED
    BY <2>1, ClearedInv DEF IInv
<1> QED
  BY <1>2, <1>3

(* The top message is cleared, and it or another is on top now.            *)
LEMMA ClearInv ==
  ASSUME IInv, msgs # <<>>, Clear, UNCHANGED up,
         msgs' \in Seq(Message), Bufs(msgs') = Less(Bufs(msgs), Len(msgs))
  PROVE  IInv'
  BY TopCleared DEF Clear, IInv

(* The top message is cleared and the server stopped.                      *)
LEMMA ClearAndStopInv ==
  ASSUME IInv, msgs # <<>>, ClearAndStop, Pop
  PROVE  IInv'
<1> DEFINE h == MessageCleared(pools, poolOf, Top.buf)
           H == Less(Bufs(msgs), Len(msgs))
<1>1. HeapInv(H, internal, NULL, h.pools, h.poolOf)
  BY TopCleared
<1>2. msgs' \in Seq(Message) /\ Bufs(msgs') = H
  BY PopBufs DEF Pop, IInv
<1>3. HeapInv(H, NULL, NULL, pools', poolOf')
  <2>1. CASE internal = NULL
    BY <1>1, <2>1 DEF ClearAndStop
  <2>2. CASE internal # NULL
    <3>1. /\ pools' = Released(h.pools, h.poolOf, internal).pools
          /\ poolOf' = Released(h.pools, h.poolOf, internal).poolOf
      BY <2>2 DEF ClearAndStop
    <3> HIDE DEF h, H
    <3> QED
      BY <1>1, <2>2, <3>1, StoppedInv
  <2> QED
    BY <2>1, <2>2
<1>4. internal' = NULL
  BY DEF ClearAndStop
<1> QED
  BY <1>2, <1>3, <1>4 DEF IInv

(* The top message goes on with what it holds.                             *)
LEMMA GoOn ==
  ASSUME IInv, msgs # <<>>, NEW m \in Message, m.buf = Top.buf, SetTop(m),
         UNCHANGED <<up, heap>>
  PROVE  IInv'
<1>1. msgs' \in Seq(Message) /\ Bufs(msgs') = Bufs(msgs)
  BY SetTopBufs DEF SetTop, IInv, Top
<1> QED
  BY <1>1 DEF IInv, heap

(* The top message, with one field changed, is a message that holds what   *)
(* it held.                                                                *)
LEMMA ChangedMessage ==
  ASSUME NEW m \in Message
  PROVE  /\ \A point \in {"receiving", "parsed", "serving", "answered"} :
              [m EXCEPT !.at = point] \in Message /\ [m EXCEPT !.at = point].buf = m.buf
         /\ [m EXCEPT !.error = TRUE] \in Message /\ [m EXCEPT !.error = TRUE].buf = m.buf
         /\ \A b \in Buffers : [m EXCEPT !.buf = b] \in Message /\ [m EXCEPT !.buf = b].buf = b
  BY DEF Message

(* A call begins, which may start the server.                              *)
LEMMA CallInv == IInv /\ Call => IInv'
<1> SUFFICES ASSUME IInv, Call PROVE IInv'
  OBVIOUS
<1>1. msgs' \in Seq(Message) /\ Bufs(msgs') = Bufs(msgs)
  BY ClearedMessage, PushBufs DEF Call, IInv
<1>2. internal' = internal
  BY DEF Call, IInv
<1> QED
  BY <1>1, <1>2 DEF Call, IInv

(* A notification is going to be received.                                 *)
LEMMA SolicitInv == IInv /\ Solicit => IInv'
<1> SUFFICES ASSUME IInv, Solicit PROVE IInv'
  OBVIOUS
<1>1. msgs' = Append(msgs, Cleared("solicit"))
  BY DEF Solicit
<1>2. msgs' \in Seq(Message) /\ Bufs(msgs') = Bufs(msgs)
  BY <1>1, ClearedMessage, PushBufs DEF IInv
<1> QED
  BY <1>2 DEF Solicit, IInv, heap

(* Bytes are parsed.                                                       *)
LEMMA AroundInv ==
  ASSUME IInv, msgs # <<>>, NEW buf, NEW off, NEW l, Around(buf, off, l), UNCHANGED <<up, heap>>
  PROVE  IInv'
<1>1. Top \in Message
  BY TopMessage DEF IInv, Top
<1>2. CASE UNCHANGED msgs
  BY <1>2 DEF IInv, heap
<1>3. CASE SetTop([Top EXCEPT !.at = "parsed"])
  BY <1>1, <1>3, ChangedMessage, GoOn
<1> QED
  BY <1>2, <1>3 DEF Around

(* The top message gets an allocator.                                      *)
LEMMA GotAllocator ==
  ASSUME IInv, msgs # <<>>, Top.buf = NULL, NEW b \in Buffers, SetTop([Top EXCEPT !.buf = b])
  PROVE  /\ msgs' \in Seq(Message)
         /\ Len(msgs) \notin DOMAIN Bufs(msgs)
         /\ Bufs(msgs') = More(Bufs(msgs), Len(msgs), b)
<1> DEFINE m == [Top EXCEPT !.buf = b]
<1>1. Top \in Message
  BY TopMessage DEF IInv, Top
<1>2. m \in Message /\ m.buf = b /\ m.buf # NULL
  BY <1>1, ChangedMessage, ReceiveAssumption
<1>3. msgs' = Append(Front(msgs), m)
  BY DEF SetTop
<1> HIDE DEF m
<1> QED
  BY <1>2, <1>3, SetTopBufs DEF IInv, Top

(* The first string of the message is stored.                              *)
LEMMA StoreStringInv == IInv /\ StoreString => IInv'
<1> SUFFICES ASSUME IInv, StoreString PROVE IInv'
  OBVIOUS
<1>1. /\ msgs # <<>> /\ up /\ Top.buf = NULL /\ up' = up
  BY DEF StoreString, On
<1> DEFINE H == Bufs(msgs)
           n == Len(msgs)
<1>2. PICK p \in IF internal = NULL THEN Pools \ DOMAIN pools ELSE {internal} :
        LET ps == IF internal = NULL
                    THEN With(pools, p, [refs |-> 1, available |-> <<>>])
                    ELSE pools
            free == ps[p].available
        IN /\ internal' = p
           /\ \/ /\ free # <<>>
                 /\ pools' = [ps EXCEPT ![p].refs = @ + 1, ![p].available = Tail(@)]
                 /\ SetTop([Top EXCEPT !.buf = Head(free)])
                 /\ UNCHANGED poolOf
              \/ /\ free = <<>>
                 /\ \E b \in Buffers \ DOMAIN poolOf :
                      /\ poolOf' = With(poolOf, b, p)
                      /\ SetTop([Top EXCEPT !.buf = b])
                 /\ pools' = [ps EXCEPT ![p].refs = @ + 1]
              \/ /\ free = <<>>
                 /\ pools' = ps
                 /\ SetTop([Top EXCEPT !.error = TRUE])
                 /\ UNCHANGED poolOf
  BY DEF StoreString
<1> DEFINE ps == IF internal = NULL
                   THEN With(pools, p, [refs |-> 1, available |-> <<>>])
                   ELSE pools
           free == ps[p].available
<1>3. HeapInv(H, p, NULL, ps, poolOf)
  <2>1. CASE internal = NULL
    BY <1>2, <2>1, NewPoolInv DEF IInv
  <2>2. CASE internal # NULL
    BY <1>2, <2>2 DEF IInv
  <2> QED
    BY <2>1, <2>2
<1>4. p \in DOMAIN ps
  BY <1>2, <1>3 DEF IInv, HeapInv, With
<1>5. internal' = p
  BY <1>2
<1>6. CASE /\ free # <<>>
           /\ pools' = [ps EXCEPT ![p].refs = @ + 1, ![p].available = Tail(@)]
           /\ SetTop([Top EXCEPT !.buf = Head(free)])
           /\ UNCHANGED poolOf
  <2> HIDE DEF ps
  <2>1. ps \in [DOMAIN ps -> Pool] /\ FreeInv(H, ps, poolOf)
    BY <1>3 DEF HeapInv, HeapType
  <2>2. free \in Seq(Buffers) /\ IsInjective(free) /\ ps[p].refs + 1 \in Nat
    BY <1>4, <2>1 DEF Pool, FreeInv
  <2> DEFINE b == Head(free)
             t == Tail(free)
             r == ps[p].refs + 1
  <2>3. /\ b \in Range(free) /\ b \in Buffers
        /\ t \in Seq(Buffers) /\ IsInjective(t) /\ Range(t) = Range(free) \ {b}
    BY <1>6, <2>2, Popped, HeadTailProperties
  <2>4. pools' = [[ps EXCEPT ![p].refs = r] EXCEPT ![p].available = t]
    BY <1>6, <1>4, <2>1 DEF Pool
  <2> HIDE DEF b, t, r
  <2> DEFINE rs == [ps EXCEPT ![p].refs = r]
  <2> HIDE DEF rs
  <2>5. /\ DOMAIN rs = DOMAIN ps
        /\ rs \in [DOMAIN ps -> Pool]
        /\ \A q \in DOMAIN ps :
             /\ rs[q].available = ps[q].available
             /\ rs[q].refs = IF q = p THEN r ELSE ps[q].refs
    <3>1. r \in Nat
      BY <2>2 DEF r
    <3>2. rs = [ps EXCEPT ![p].refs = r]
      BY DEF rs
    <3> QED
      BY <1>4, <2>1, <3>1, <3>2, WithRefs
  <2>6. /\ pools' \in [DOMAIN ps -> Pool]
        /\ \A q \in DOMAIN ps :
             /\ pools'[q].refs = IF q = p THEN ps[p].refs + 1 ELSE ps[q].refs
             /\ pools'[q].available = IF q = p THEN t ELSE ps[q].available
    <3>1. pools' = [rs EXCEPT ![p].available = t]
      BY <2>4 DEF rs
    <3>2. /\ DOMAIN pools' = DOMAIN rs
          /\ pools' \in [DOMAIN rs -> Pool]
          /\ \A q \in DOMAIN rs :
               /\ pools'[q].refs = rs[q].refs
               /\ pools'[q].available = IF q = p THEN t ELSE rs[q].available
      BY <1>4, <2>3, <2>5, <3>1, WithAvailable
    <3> QED
      BY <2>5, <3>2 DEF r
  <2>7. msgs' \in Seq(Message) /\ n \notin DOMAIN H /\ Bufs(msgs') = More(H, n, b)
    BY <1>1, <1>6, <2>3, GotAllocator DEF b
  <2> HIDE DEF H, n
  <2>8. HeapInv(More(H, n, b), p, NULL, pools', poolOf)
    BY <1>3, <1>4, <2>3, <2>6, <2>7, TakenInv
  <2> QED
    BY <1>1, <1>5, <1>6, <2>7, <2>8 DEF IInv
<1>7. CASE /\ free = <<>>
           /\ \E b \in Buffers \ DOMAIN poolOf :
                /\ poolOf' = With(poolOf, b, p)
                /\ SetTop([Top EXCEPT !.buf = b])
           /\ pools' = [ps EXCEPT ![p].refs = @ + 1]
  <2> HIDE DEF ps
  <2>1. PICK b \in Buffers \ DOMAIN poolOf :
          /\ poolOf' = With(poolOf, b, p)
          /\ SetTop([Top EXCEPT !.buf = b])
    BY <1>7
  <2>2. ps \in [DOMAIN ps -> Pool]
    BY <1>3 DEF HeapInv, HeapType
  <2>3. ps[p].refs + 1 \in Nat
    BY <1>4, <2>2 DEF Pool
  <2>4. /\ pools' \in [DOMAIN ps -> Pool]
        /\ \A q \in DOMAIN ps :
             /\ pools'[q].refs = IF q = p THEN ps[p].refs + 1 ELSE ps[q].refs
             /\ pools'[q].available = ps[q].available
    BY <1>4, <1>7, <2>2, <2>3, WithRefs
  <2>5. msgs' \in Seq(Message) /\ n \notin DOMAIN H /\ Bufs(msgs') = More(H, n, b)
    BY <1>1, <2>1, GotAllocator
  <2> HIDE DEF H, n
  <2>6. HeapInv(More(H, n, b), p, NULL, pools', poolOf')
    BY <1>3, <1>4, <2>1, <2>4, <2>5, AllocatedInv
  <2> QED
    BY <1>1, <1>5, <2>5, <2>6 DEF IInv
<1>8. CASE /\ free = <<>>
           /\ pools' = ps
           /\ SetTop([Top EXCEPT !.error = TRUE])
           /\ UNCHANGED poolOf
  <2>1. Top \in Message
    BY <1>1, TopMessage DEF IInv, Top
  <2>2. msgs' \in Seq(Message) /\ Bufs(msgs') = H
    BY <1>1, <1>8, <2>1, ChangedMessage, SetTopBufs DEF IInv, Top, SetTop
  <2> HIDE DEF ps, H
  <2> QED
    BY <1>1, <1>3, <1>5, <1>8, <2>2 DEF IInv
<1> QED
  BY <1>2, <1>6, <1>7, <1>8

(* The server is stopped.                                                  *)
LEMMA StopInv == IInv /\ Stop => IInv'
<1> SUFFICES ASSUME IInv, Stop PROVE IInv'
  OBVIOUS
<1>1. HeapInv(Bufs(msgs), NULL, NULL, pools', poolOf')
  <2>1. CASE internal = NULL
    BY <2>1 DEF Stop, IInv
  <2>2. CASE internal # NULL
    BY <2>2, StoppedInv DEF Stop, IInv
  <2> QED
    BY <2>1, <2>2
<1> QED
  BY <1>1 DEF Stop, IInv

(* A message is received, served, answered or fails.                       *)
LEMMA MessageInv ==
  ASSUME IInv,
         ReceiveFails \/ Received \/ Solicited \/ Serve \/ ServeFails \/ Answered
  PROVE  IInv'
<1>1. msgs # <<>>
  BY DEF ReceiveFails, Received, Solicited, Serve, ServeFails, Answered, On
<1>2. Top \in Message
  BY <1>1, TopMessage DEF IInv, Top
<1>3. ASSUME Pop, ClearAndStop PROVE IInv'
  BY <1>1, <1>3, ClearAndStopInv
<1>4. ASSUME Pop, Clear, UNCHANGED up PROVE IInv'
  <2>1. msgs' \in Seq(Message) /\ Bufs(msgs') = Less(Bufs(msgs), Len(msgs))
    BY <1>1, <1>4, PopBufs DEF Pop, IInv
  <2> QED
    BY <1>1, <1>4, <2>1, ClearInv
<1>5. CASE ReceiveFails
  BY <1>3, <1>5 DEF ReceiveFails
<1>6. CASE Received
  <2>1. PICK point \in {"serving", "answered"} : SetTop([Top EXCEPT !.at = point])
    BY <1>6 DEF Received
  <2> QED
    BY <1>1, <1>2, <1>6, <2>1, ChangedMessage, GoOn DEF Received
<1>7. CASE Solicited
  BY <1>3, <1>4, <1>7 DEF Solicited
<1>8. CASE Serve
  <2>1. msgs' \in Seq(Message) /\ Bufs(msgs') = Less(Bufs(msgs), Len(msgs))
    BY <1>1, <1>8, ClearedMessage, SetTopBufs DEF Serve, SetTop, IInv
  <2> QED
    BY <1>1, <1>8, <2>1, ClearInv DEF Serve
<1>9. CASE ServeFails
  BY <1>3, <1>9 DEF ServeFails
<1>10. CASE Answered
  BY <1>4, <1>10 DEF Answered
<1> QED
  BY <1>5, <1>6, <1>7, <1>8, <1>9, <1>10

(* At first nothing is allocated.                                          *)
LEMMA InitInv == Init => IInv
<1> SUFFICES ASSUME Init PROVE IInv
  OBVIOUS
<1>1. DOMAIN Bufs(msgs) = {} /\ DOMAIN pools = {} /\ DOMAIN poolOf = {}
  BY DEF Init, Bufs
<1>2. HeapType(pools, poolOf)
  BY <1>1 DEF Init, HeapType
<1>3. UseInv(Bufs(msgs), poolOf)
  BY <1>1, FS_EmptySet DEF UseInv, IsInjective
<1> QED
  BY <1>1, <1>2, <1>3
  DEF Init, IInv, HeapInv, FreeInv, KeptInv, RefsInv

(* Every step keeps the invariant.                                         *)
LEMMA NextInv == IInv /\ [Next]_vars => IInv'
<1> SUFFICES ASSUME IInv, [Next]_vars PROVE IInv'
  OBVIOUS
<1>1. ASSUME NEW o \in Objects, Send(o) PROVE IInv'
  BY <1>1 DEF Send, IInv, heap
<1>2. ASSUME NEW k \in 1..BufferSize, Read(k) PROVE IInv'
  BY <1>2, AroundInv DEF Read, On
<1>3. CASE MoreOfBuffer
  BY <1>3, AroundInv DEF MoreOfBuffer, On
<1>4. CASE NoPool
  <2>1. msgs # <<>> /\ Top \in Message
    BY <1>4, TopMessage DEF NoPool, On, IInv, Top
  <2> QED
    BY <1>4, <2>1, ChangedMessage, GoOn DEF NoPool
<1>5. CASE UNCHANGED vars
  BY <1>5 DEF vars, heap, IInv
<1> QED
  BY <1>1, <1>2, <1>3, <1>4, <1>5, CallInv, SolicitInv, StoreStringInv, MessageInv, StopInv
  DEF Next

(* The strings of a message stay where they are until it is cleared, and   *)
(* nothing is freed twice or forgotten, whatever is sent, however deep the *)
(* calls are nested, and whenever malloc() fails or a server is stopped:   *)
(* json_server_message_clear() and release_json_pool() of json.c.          *)
THEOREM StringsStay == Spec => []BuffersHeld
<1>1. IInv /\ [Next]_vars => IInv'
  BY NextInv
<1> QED
  BY <1>1, InitInv, IInvHolds, PTL DEF Spec

-----------------------------------------------------------------------------
(* The bytes of an object.                                                 *)

(* The backslashes right before a byte are so many, and no other number.   *)
LEMMA OneRun ==
  ASSUME NEW o, NEW i \in Nat \ {0}, NEW k \in 0..(i - 1), NEW m \in 0..(i - 1),
         Run(o, i, k), Run(o, i, m)
  PROVE  k = m
<1>1. ASSUME NEW a \in 0..(i - 1), NEW b \in 0..(i - 1), Run(o, i, a), Run(o, i, b), a < b
      PROVE  FALSE
  <2>1. a + 1 # i /\ i - a - 1 \in (i - b)..(i - 1)
    BY <1>1
  <2> QED
    BY <1>1, <2>1 DEF Run
<1>2. ~(k < m) /\ ~(m < k)
  BY <1>1
<1> QED
  BY <1>2

(* A backslash makes the run one longer; another byte ends it.             *)
LEMMA RunStep ==
  ASSUME NEW o, NEW i \in Nat \ {0}, NEW k \in 0..(i - 1), Run(o, i, k)
  PROVE  /\ o[i] = "backslash" => k + 1 \in 0..i /\ Run(o, i + 1, k + 1)
         /\ o[i] # "backslash" => Run(o, i + 1, 0)
<1>1. ASSUME o[i] = "backslash" PROVE Run(o, i + 1, k + 1)
  <2>1. ASSUME NEW j \in (i + 1 - (k + 1))..(i + 1 - 1) PROVE o[j] = "backslash"
    <3>1. j = i \/ j \in (i - k)..(i - 1)
      OBVIOUS
    <3> QED
      BY <1>1, <3>1 DEF Run
  <2>2. (k + 1) + 1 = i + 1 \/ o[(i + 1) - (k + 1) - 1] # "backslash"
    <3>1. (i + 1) - (k + 1) - 1 = i - k - 1
      OBVIOUS
    <3>2. k + 1 = i \/ o[i - k - 1] # "backslash"
      BY DEF Run
    <3> QED
      BY <3>1, <3>2
  <2> QED
    BY <2>1, <2>2 DEF Run
<1>2. ASSUME o[i] # "backslash" PROVE Run(o, i + 1, 0)
  <2>1. (i + 1) - 0 - 1 = i /\ ((i + 1) - 0)..((i + 1) - 1) = {}
    OBVIOUS
  <2> QED
    BY <1>2, <2>1 DEF Run
<1> QED
  BY <1>1, <1>2

(* Every byte has a run of backslashes before it, though it may be empty.  *)
LEMMA RunExists ==
  ASSUME NEW o, NEW i \in Nat \ {0}
  PROVE  \E k \in 0..(i - 1) : Run(o, i, k)
<1> DEFINE X == { n \in Nat : \E k \in 0..n : Run(o, n + 1, k) }
<1>1. 0 \in X
  <2>1. Run(o, 1, 0)
    <3>1. (1 - 0)..(1 - 1) = {} /\ 0 + 1 = 1
      OBVIOUS
    <3> QED
      BY <3>1 DEF Run
  <2>2. 0 \in 0..0 /\ 0 + 1 = 1 /\ 0 \in Nat
    OBVIOUS
  <2> QED
    BY <2>1, <2>2
<1>2. ASSUME NEW n \in Nat, n \in X PROVE n + 1 \in X
  <2>1. PICK k \in 0..n : Run(o, n + 1, k)
    BY <1>2
  <2>2. n + 1 \in Nat \ {0} /\ (n + 1) - 1 = n /\ k \in 0..((n + 1) - 1)
    OBVIOUS
  <2>3. /\ o[n + 1] = "backslash" => k + 1 \in 0..(n + 1) /\ Run(o, (n + 1) + 1, k + 1)
        /\ o[n + 1] # "backslash" => Run(o, (n + 1) + 1, 0)
    BY <2>1, <2>2, RunStep
  <2>4. \E m \in 0..(n + 1) : Run(o, (n + 1) + 1, m)
    <3>1. 0 \in 0..(n + 1)
      OBVIOUS
    <3> QED
      BY <2>3, <3>1
  <2> QED
    BY <2>2, <2>4
<1>3. \A n \in Nat : n \in X
  <2> HIDE DEF X
  <2> QED
    BY <1>1, <1>2, Numbers
<1>4. i - 1 \in X /\ (i - 1) + 1 = i
  BY <1>3
<1> QED
  BY <1>4

(* A byte is escaped if it follows a backslash that is not.                *)
LEMMA EscapedStep ==
  ASSUME NEW o, NEW i \in Nat \ {0}
  PROVE  /\ Escaped(o, i + 1) <=> o[i] = "backslash" /\ ~Escaped(o, i)
         /\ ~Escaped(o, 1)
<1>1. PICK k \in 0..(i - 1) : Run(o, i, k)
  BY RunExists
<1>2. Escaped(o, i) <=> k % 2 = 1
  BY <1>1, OneRun DEF Escaped
<1>3. ASSUME NEW n \in 0..i, Run(o, i + 1, n) PROVE Escaped(o, i + 1) <=> n % 2 = 1
  <2>1. i + 1 \in Nat \ {0} /\ (i + 1) - 1 = i
    OBVIOUS
  <2>2. \A m \in 0..i : Run(o, i + 1, m) => m = n
    BY <1>3, <2>1, OneRun
  <2> QED
    BY <1>3, <2>1, <2>2 DEF Escaped
<1>5. ~Escaped(o, 1)
  <2>1. 0..(1 - 1) = {0} /\ 0 % 2 = 0
    OBVIOUS
  <2> QED
    BY <2>1 DEF Escaped
<1>4. CASE o[i] = "backslash"
  <2>1. Escaped(o, i + 1) <=> (k + 1) % 2 = 1
    BY <1>1, <1>3, <1>4, RunStep
  <2>2. (k + 1) % 2 = 1 <=> k % 2 # 1
    OBVIOUS
  <2> QED
    BY <1>2, <1>4, <2>1, <2>2, <1>5
<1>6. CASE o[i] # "backslash"
  <2>1. Run(o, i + 1, 0) /\ 0 \in 0..i
    BY <1>1, <1>6, RunStep
  <2>2. Escaped(o, i + 1) <=> 0 % 2 = 1
    BY <1>3, <2>1
  <2> QED
    BY <1>5, <1>6, <2>2
<1> QED
  BY <1>4, <1>5, <1>6

(* A quote that is not escaped opens or closes a string.                   *)
LEMMA QuotedStep ==
  ASSUME NEW o, NEW i \in Nat \ {0}
  PROVE  /\ IsFiniteSet(Quotes(o, i))
         /\ Quoted(o, i + 1) <=> (Quoted(o, i) <=> ~(o[i] = "quote" /\ ~Escaped(o, i)))
         /\ ~Quoted(o, 1)
<1> DEFINE Q == Quotes(o, i)
           R == Quotes(o, i + 1)
<1>1. IsFiniteSet(Q) /\ Cardinality(Q) \in Nat /\ i \notin Q
  <2>1. IsFiniteSet(1..(i - 1)) /\ Q \subseteq 1..(i - 1)
    BY FS_Interval DEF Quotes
  <2> QED
    BY <2>1, FS_Subset, FS_CardinalityType
<1>2. (i + 1) - 1 = i /\ 1..i = 1..(i - 1) \cup {i} /\ i \notin 1..(i - 1)
  OBVIOUS
<1>3. R = IF o[i] = "quote" /\ ~Escaped(o, i) THEN Q \cup {i} ELSE Q
  BY <1>2 DEF Quotes
<1>4. ~Quoted(o, 1)
  <2>1. Quotes(o, 1) = {}
    <3>1. 1..(1 - 1) = {}
      OBVIOUS
    <3> QED
      BY <3>1 DEF Quotes
  <2>2. Cardinality({}) = 0 /\ 0 % 2 = 0
    BY FS_EmptySet
  <2> QED
    BY <2>1, <2>2 DEF Quoted
<1>5. Cardinality(Q \cup {i}) = Cardinality(Q) + 1
  BY <1>1, FS_AddElement
<1>6. PICK n \in Nat : n = Cardinality(Q)
  BY <1>1
<1>7. (n + 1) % 2 = 1 <=> n % 2 # 1
  OBVIOUS
<1> HIDE DEF Q, R
<1>8. Quoted(o, i) <=> n % 2 = 1
  BY <1>6 DEF Quoted, Q
<1>9. Quoted(o, i + 1) <=> Cardinality(R) % 2 = 1
  BY DEF Quoted, R
<1>10. CASE o[i] = "quote" /\ ~Escaped(o, i)
  BY <1>3, <1>4, <1>5, <1>6, <1>7, <1>8, <1>9, <1>10, <1>1 DEF Q
<1>11. CASE ~(o[i] = "quote" /\ ~Escaped(o, i))
  BY <1>3, <1>4, <1>6, <1>8, <1>9, <1>11, <1>1 DEF Q
<1> QED
  BY <1>10, <1>11

(* A brace that is in no string changes the level.                         *)
LEMMA LevelStep ==
  ASSUME NEW o, NEW i \in Nat
  PROVE  /\ Level(o, i) \in Int /\ Level(o, 0) = 0
         /\ Level(o, i + 1) = IF Quoted(o, i + 1) THEN Level(o, i)
                              ELSE IF o[i + 1] = "{" THEN Level(o, i) + 1
                              ELSE IF o[i + 1] = "}" THEN Level(o, i) - 1
                              ELSE Level(o, i)
<1>1. ASSUME NEW b
      PROVE  /\ IsFiniteSet(Braces(o, i, b)) /\ Cardinality(Braces(o, i, b)) \in Nat
             /\ Cardinality(Braces(o, i + 1, b)) =
                  IF o[i + 1] = b /\ ~Quoted(o, i + 1) THEN Cardinality(Braces(o, i, b)) + 1
                  ELSE Cardinality(Braces(o, i, b))
             /\ Cardinality(Braces(o, 0, b)) = 0
  <2> DEFINE B == Braces(o, i, b)
  <2>1. IsFiniteSet(B) /\ Cardinality(B) \in Nat /\ i + 1 \notin B
    <3>1. IsFiniteSet(1..i) /\ B \subseteq 1..i /\ i + 1 \notin 1..i
      BY FS_Interval DEF Braces
    <3> QED
      BY <3>1, FS_Subset, FS_CardinalityType
  <2>2. 1..(i + 1) = 1..i \cup {i + 1}
    OBVIOUS
  <2>3. Braces(o, i + 1, b) = IF o[i + 1] = b /\ ~Quoted(o, i + 1) THEN B \cup {i + 1} ELSE B
    BY <2>2 DEF Braces
  <2>4. Cardinality(B \cup {i + 1}) = Cardinality(B) + 1
    BY <2>1, FS_AddElement
  <2>5. Cardinality(Braces(o, 0, b)) = 0
    <3>1. Braces(o, 0, b) = {}
      <4>1. 1..0 = {}
        OBVIOUS
      <4> QED
        BY <4>1 DEF Braces
    <3> QED
      BY <3>1, FS_EmptySet
  <2> HIDE DEF B
  <2> QED
    BY <2>1, <2>3, <2>4, <2>5 DEF B
<1>2. PICK m \in Nat, n \in Nat :
        m = Cardinality(Braces(o, i, "{")) /\ n = Cardinality(Braces(o, i, "}"))
  BY <1>1
<1>3. /\ Cardinality(Braces(o, i + 1, "{")) =
           IF o[i + 1] = "{" /\ ~Quoted(o, i + 1) THEN m + 1 ELSE m
      /\ Cardinality(Braces(o, i + 1, "}")) =
           IF o[i + 1] = "}" /\ ~Quoted(o, i + 1) THEN n + 1 ELSE n
  BY <1>1, <1>2
<1>4. Level(o, i) = m - n
  BY <1>2 DEF Level
<1>6. Level(o, 0) = 0
  <2>1. Cardinality(Braces(o, 0, "{")) = 0 /\ Cardinality(Braces(o, 0, "}")) = 0
    BY <1>1
  <2>2. 0 - 0 = 0
    OBVIOUS
  <2> QED
    BY <2>1, <2>2 DEF Level
<1>5. Level(o, i + 1) =
        (IF o[i + 1] = "{" /\ ~Quoted(o, i + 1) THEN m + 1 ELSE m)
          - (IF o[i + 1] = "}" /\ ~Quoted(o, i + 1) THEN n + 1 ELSE n)
  BY <1>3 DEF Level
<1>7. Level(o, i) \in Int
  BY <1>4
<1>8. CASE Quoted(o, i + 1)
  <2>1. Level(o, i + 1) = m - n
    BY <1>3, <1>8 DEF Level
  <2> QED
    BY <2>1, <1>4, <1>6, <1>7, <1>8
<1>9. CASE ~Quoted(o, i + 1) /\ o[i + 1] = "{"
  <2>1. /\ Cardinality(Braces(o, i + 1, "{")) = m + 1
        /\ Cardinality(Braces(o, i + 1, "}")) = n
    BY <1>3, <1>9
  <2>2. Level(o, i + 1) = (m + 1) - n
    BY <2>1 DEF Level
  <2>3. Level(o, i + 1) = Level(o, i) + 1
    <3>1. (m + 1) - n = (m - n) + 1
      OBVIOUS
    <3> QED
      BY <2>2, <3>1, <1>4
  <2> QED
    BY <2>3, <1>6, <1>7, <1>9
<1>10. CASE ~Quoted(o, i + 1) /\ o[i + 1] = "}"
  <2>1. /\ Cardinality(Braces(o, i + 1, "{")) = m
        /\ Cardinality(Braces(o, i + 1, "}")) = n + 1
    BY <1>3, <1>10
  <2>2. Level(o, i + 1) = m - (n + 1)
    BY <2>1 DEF Level
  <2>3. Level(o, i + 1) = Level(o, i) - 1
    <3>1. m - (n + 1) = (m - n) - 1
      OBVIOUS
    <3> QED
      BY <2>2, <3>1, <1>4
  <2> QED
    BY <2>3, <1>6, <1>7, <1>10
<1>11. CASE ~Quoted(o, i + 1) /\ o[i + 1] # "{" /\ o[i + 1] # "}"
  <2>1. Level(o, i + 1) = m - n
    BY <1>3, <1>11 DEF Level
  <2> QED
    BY <2>1, <1>4, <1>6, <1>7, <1>11
<1> QED
  BY <1>8, <1>9, <1>10, <1>11

(* What an object is, for its first byte and for any other.                *)
LEMMA ObjectBytes ==
  ASSUME NEW o, IsObject(o)
  PROVE  /\ o \in Seq(Byte) /\ Len(o) \in Nat /\ Len(o) # 0
         /\ o[1] = "{"
         /\ \A i \in 1..Len(o) : Level(o, i) = 0 <=> i = Len(o)
         /\ \A i \in 1..Len(o) : o[i] = "backslash" => Quoted(o, i)
<1>1. o \in Seq(Byte) /\ o # <<>>
  BY DEF IsObject
<1>2. Len(o) \in Nat /\ Len(o) # 0
  BY <1>1, EmptySeq
<1> QED
  BY <1>1, <1>2 DEF IsObject

(* An object that is open and not yet closed is at a level above zero.     *)
LEMMA LevelPositive ==
  ASSUME NEW o, IsObject(o), NEW i \in Nat, i + 1 < Len(o)
  PROVE  Level(o, i + 1) >= 1
<1> DEFINE X == { n \in Nat : n + 1 < Len(o) => Level(o, n + 1) >= 1 }
<1>1. 0 \in X
  <2>1. 0 \in Nat /\ 0 + 1 = 1 /\ 1 \in Nat \ {0}
    OBVIOUS
  <2>2. ~Quoted(o, 1)
    BY <2>1, QuotedStep
  <2>3. Level(o, 0 + 1) = IF Quoted(o, 0 + 1) THEN Level(o, 0)
                          ELSE IF o[0 + 1] = "{" THEN Level(o, 0) + 1
                          ELSE IF o[0 + 1] = "}" THEN Level(o, 0) - 1
                          ELSE Level(o, 0)
    BY <2>1, LevelStep
  <2>4. Level(o, 0 + 1) = Level(o, 0) + 1 /\ Level(o, 0) = 0
    <3>1. Level(o, 0) = 0
      BY <2>1, LevelStep
    <3>2. o[1] = "{"
      BY ObjectBytes
    <3> QED
      BY <2>1, <2>2, <2>3, <3>1, <3>2
  <2>5. Level(o, 0 + 1) >= 1
    BY <2>4
  <2> QED
    BY <2>5
<1>2. ASSUME NEW n \in Nat, n \in X PROVE n + 1 \in X
  <2> SUFFICES ASSUME (n + 1) + 1 < Len(o) PROVE Level(o, (n + 1) + 1) >= 1
    OBVIOUS
  <2> DEFINE m == n + 1
  <2>1. m \in Nat /\ m < Len(o) /\ m + 1 \in 1..Len(o) /\ m + 1 # Len(o)
    <3>1. PICK l \in Nat : l = Len(o)
      BY ObjectBytes
    <3> QED
      BY <3>1
  <2>2. Level(o, m) >= 1
    BY <1>2, <2>1
  <2> HIDE DEF m
  <2>3. Level(o, m + 1) # 0
    BY <2>1, ObjectBytes
  <2>4. /\ Level(o, m) \in Int
        /\ Level(o, m + 1) = IF Quoted(o, m + 1) THEN Level(o, m)
                             ELSE IF o[m + 1] = "{" THEN Level(o, m) + 1
                             ELSE IF o[m + 1] = "}" THEN Level(o, m) - 1
                             ELSE Level(o, m)
    BY <2>1, LevelStep
  <2>5. PICK k \in Int : k = Level(o, m)
    BY <2>4
  <2>6. \/ Level(o, m + 1) = k
        \/ Level(o, m + 1) = k + 1
        \/ Level(o, m + 1) = k - 1
    BY <2>4, <2>5
  <2>7. k >= 1
    BY <2>2, <2>5
  <2>8. Level(o, m + 1) >= 1
    BY <2>3, <2>6, <2>7
  <2> QED
    BY <2>8 DEF m
<1>3. \A n \in Nat : n \in X
  <2> HIDE DEF X
  <2> QED
    BY <1>1, <1>2, Numbers
<1> QED
  BY <1>3

(* What the lexer makes of the first i bytes of an object.                 *)
Mode(o, i) ==
  IF ~Quoted(o, i + 1) THEN "text" ELSE IF Escaped(o, i + 1) THEN "escape" ELSE "string"

(* What is escaped is in a string.                                         *)
LEMMA EscapedQuoted ==
  ASSUME NEW o, IsObject(o), NEW i \in 0..Len(o), Escaped(o, i + 1)
  PROVE  Quoted(o, i + 1)
<1>1. i # 0
  <2>1. 0 + 1 = 1 /\ 1 \in Nat \ {0}
    OBVIOUS
  <2> QED
    BY <2>1, EscapedStep
<1>2. i \in Nat \ {0} /\ i \in 1..Len(o)
  <2>1. PICK l \in Nat : l = Len(o)
    BY ObjectBytes
  <2> QED
    BY <2>1, <1>1
<1>3. o[i] = "backslash"
  BY <1>2, EscapedStep
<1>4. Quoted(o, i) /\ o[i] # "quote"
  BY <1>2, <1>3, ObjectBytes
<1> QED
  BY <1>2, <1>4, QuotedStep

(* A byte more: the context and the depth of the lexer are those of the    *)
(* object, and it has found the end exactly if this is its last byte.      *)
LEMMA ByteStep ==
  ASSUME NEW o, IsObject(o), NEW i \in Nat, i < Len(o)
  PROVE  /\ Context(Mode(o, i), o[i + 1]) = Mode(o, i + 1)
         /\ Level(o, i + 1) = IF Mode(o, i) = "text" /\ o[i + 1] = "{" THEN Level(o, i) + 1
                              ELSE IF Mode(o, i) = "text" /\ o[i + 1] = "}" THEN Level(o, i) - 1
                              ELSE Level(o, i)
         /\ Mode(o, i) = "text" /\ o[i + 1] = "}" /\ Level(o, i) = 1 <=> i + 1 = Len(o)
<1> DEFINE j == i + 1
<1>1. /\ j \in Nat \ {0} /\ j \in 1..Len(o) /\ i \in 0..Len(o) /\ j + 1 = i + 1 + 1
      /\ Len(o) \in Nat
  <2>1. PICK l \in Nat : l = Len(o)
    BY ObjectBytes
  <2> QED
    BY <2>1
<1>2. /\ Escaped(o, j + 1) <=> o[j] = "backslash" /\ ~Escaped(o, j)
      /\ Quoted(o, j + 1) <=> (Quoted(o, j) <=> ~(o[j] = "quote" /\ ~Escaped(o, j)))
      /\ Escaped(o, j) => Quoted(o, j)
      /\ o[j] = "backslash" => Quoted(o, j)
  BY <1>1, EscapedStep, QuotedStep, EscapedQuoted, ObjectBytes
<1>3. Mode(o, i) = IF ~Quoted(o, j) THEN "text" ELSE IF Escaped(o, j) THEN "escape" ELSE "string"
  BY DEF Mode
<1>4. Mode(o, j) = IF ~Quoted(o, j + 1) THEN "text"
                   ELSE IF Escaped(o, j + 1) THEN "escape" ELSE "string"
  BY DEF Mode
<1>5. /\ Level(o, i) \in Int
      /\ Level(o, j) = IF Quoted(o, j) THEN Level(o, i)
                       ELSE IF o[j] = "{" THEN Level(o, i) + 1
                       ELSE IF o[j] = "}" THEN Level(o, i) - 1
                       ELSE Level(o, i)
  BY LevelStep
<1>6. Level(o, j) = 0 <=> j = Len(o)
  BY <1>1, ObjectBytes
<1>7. Mode(o, i) = "text" <=> ~Quoted(o, j)
  BY <1>3
<1>8. Level(o, i) = 0 => i = 0
  <2>1. i # 0 => i \in 1..Len(o) /\ i # Len(o)
    BY <1>1
  <2> QED
    BY <2>1, ObjectBytes
<1>9. i = 0 => Level(o, i) = 0 /\ o[j] = "{"
  <2>1. Level(o, 0) = 0
    BY LevelStep
  <2>2. o[1] = "{"
    BY ObjectBytes
  <2>3. 0 + 1 = 1
    OBVIOUS
  <2> QED
    BY <2>1, <2>2, <2>3
<1>10. Context(Mode(o, i), o[j]) = Mode(o, j)
  <2>1. CASE ~Quoted(o, j)
    BY <2>1, <1>2, <1>3, <1>4 DEF Context
  <2>2. CASE Quoted(o, j) /\ Escaped(o, j)
    BY <2>2, <1>2, <1>3, <1>4 DEF Context
  <2>3. CASE Quoted(o, j) /\ ~Escaped(o, j)
    BY <2>3, <1>2, <1>3, <1>4 DEF Context
  <2> QED
    BY <2>1, <2>2, <2>3
<1> HIDE DEF j
<1>12. i = 0 => ~Quoted(o, j)
  <2>1. i = 0 => j = 1
    BY DEF j
  <2>2. 1 \in Nat \ {0}
    OBVIOUS
  <2> QED
    BY <2>1, <2>2, QuotedStep
<1>11. Mode(o, i) = "text" /\ o[j] = "}" /\ Level(o, i) = 1 <=> j = Len(o)
  <2>1. ASSUME j = Len(o) PROVE Mode(o, i) = "text" /\ o[j] = "}" /\ Level(o, i) = 1
    <3>1. Level(o, j) = 0
      BY <1>6, <2>1
    <3>2. i # 0
      <4> SUFFICES ASSUME i = 0 PROVE FALSE
        OBVIOUS
      <4>1. Level(o, j) = Level(o, i) + 1 /\ Level(o, i) = 0
        BY <1>5, <1>9, <1>12
      <4>2. 0 + 1 # 0
        OBVIOUS
      <4> QED
        BY <3>1, <4>1, <4>2
    <3>3. Level(o, i) # 0
      BY <1>8, <3>2
    <3>4. Level(o, i) >= 1
      <4>1. i - 1 \in Nat /\ (i - 1) + 1 = i /\ i < Len(o)
        BY <3>2
      <4>2. i - 1 \in Nat => Level(o, (i - 1) + 1) >= 1
        BY <4>1, LevelPositive
      <4> QED
        BY <4>1, <4>2
    <3>5. PICK k \in Int : k = Level(o, i)
      BY <1>5
    <3>6. k >= 1 /\ k # 0
      BY <3>3, <3>4, <3>5
    <3>7. ~Quoted(o, j) /\ o[j] = "}" /\ Level(o, j) = k - 1
      <4>1. k + 1 # 0
        BY <3>6
      <4> QED
        BY <1>5, <3>1, <3>5, <3>6, <4>1
    <3>8. k = 1
      <4>1. k - 1 = 0
        BY <3>1, <3>7
      <4> QED
        BY <4>1
    <3> QED
      BY <1>7, <3>5, <3>7, <3>8
  <2>2. ASSUME Mode(o, i) = "text", o[j] = "}", Level(o, i) = 1 PROVE j = Len(o)
    <3>1. Level(o, j) = 1 - 1
      BY <1>5, <1>7, <2>2
    <3>2. 1 - 1 = 0
      OBVIOUS
    <3> QED
      BY <1>6, <3>1, <3>2
  <2> QED
    BY <2>1, <2>2
<1> QED
  BY <1>5, <1>7, <1>10, <1>11 DEF j

-----------------------------------------------------------------------------
(* The lexer.                                                              *)

Contexts == {"text", "string", "escape"}

LexState == [ctx : Contexts, depth : Int, off : Nat, done : BOOLEAN]

(* h[i] is the state of the lexer after i bytes of s.                      *)
LexedBy(s, base, h) ==
  /\ h[0] = base
  /\ \A i \in 0..(Len(s) - 1) : h[i + 1] = LexByte(h[i], s[i + 1])

(* A byte takes a state to a state.                                        *)
LEMMA LexByteType ==
  ASSUME NEW l \in LexState, NEW c
  PROVE  LexByte(l, c) \in LexState
<1>1. Context(l.ctx, c) \in Contexts
  BY DEF Context, Contexts, LexState
<1>2. l.depth \in Int /\ l.off + 1 \in Nat
  BY DEF LexState
<1> DEFINE d == CASE l.ctx = "text" /\ c = "{" -> l.depth + 1
                  [] l.ctx = "text" /\ c = "}" -> l.depth - 1
                  [] OTHER -> l.depth
<1>3. d \in Int
  <2>1. CASE l.ctx = "text" /\ c = "{"
    <3>1. d = l.depth + 1
      <4>1. ~(l.ctx = "text" /\ c = "}")
        BY <2>1
      <4> QED
        BY <2>1, <4>1
    <3> HIDE DEF d
    <3> QED
      BY <1>2, <3>1
  <2>2. CASE l.ctx = "text" /\ c = "}"
    <3>1. d = l.depth - 1
      <4>1. ~(l.ctx = "text" /\ c = "{")
        BY <2>2
      <4> QED
        BY <2>2, <4>1
    <3> HIDE DEF d
    <3> QED
      BY <1>2, <3>1
  <2>3. CASE ~(l.ctx = "text" /\ c = "{") /\ ~(l.ctx = "text" /\ c = "}")
    BY <1>2, <2>3
  <2> QED
    BY <2>1, <2>2, <2>3
<1>4. LexByte(l, c) = IF l.done THEN l
                      ELSE [ctx |-> Context(l.ctx, c), depth |-> d, off |-> l.off + 1,
                            done |-> (l.ctx = "text" /\ c = "}") /\ l.depth = 1]
  BY DEF LexByte
<1> HIDE DEF d
<1>5. PICK e \in BOOLEAN : e = ((l.ctx = "text" /\ c = "}") /\ l.depth = 1)
  OBVIOUS
<1>6. LexByte(l, c) = IF l.done THEN l
                      ELSE [ctx |-> Context(l.ctx, c), depth |-> d, off |-> l.off + 1, done |-> e]
  BY <1>4, <1>5
<1> QED
  BY <1>1, <1>2, <1>3, <1>6 DEF LexState

(* The equation of the fold in Lexed.                                      *)
LexBody(s, base, g) ==
  [T \in SUBSET DOMAIN s |->
     IF T = {} THEN base ELSE LexByte(g[T \ {Max(T)}], s[Max(T)])]

(* Lexed has a function that solves the equation of its fold.              *)
LEMMA LexedIsFold ==
  ASSUME NEW s \in Seq(Byte), NEW l,
         NEW base \in LexState,
         base = [ctx |-> l.ctx, depth |-> l.depth, off |-> l.off, done |-> FALSE]
  PROVE  \E h : LexedBy(s, base, h) /\ Lexed(l, s) = h[Len(s)]
<1> DEFINE I == DOMAIN s
           F == [i \in I |-> [v \in LexState |-> LexByte(v, s[i])]]
<1>1. Len(s) \in Nat /\ I = 1..Len(s)
  OBVIOUS
<1>2. Closed(1..Len(s), LexState, F)
  BY <1>1, LexByteType DEF Closed
<1>3. PICK g \in [SUBSET (1..Len(s)) -> LexState] : Stepwise(Len(s), base, F, g)
  <2> HIDE DEF F, I
  <2> QED
    BY <1>1, <1>2, StepwiseExists
<1>4. ASSUME NEW T \in SUBSET I, T # {}
      PROVE  g[T] = LexByte(g[T \ {Max(T)}], s[Max(T)])
  <2>1. g[T] = F[Max(T)][g[T \ {Max(T)}]]
    BY <1>1, <1>3, <1>4 DEF Stepwise
  <2>2. Max(T) \in I
    BY <1>1, <1>4, Greatest
  <2>3. g[T \ {Max(T)}] \in LexState
    BY <1>1, <1>3
  <2> QED
    BY <2>1, <2>2, <2>3
<1>5. g = LexBody(s, base, g)
  <2>1. g = [T \in SUBSET I |-> g[T]]
    BY <1>1, <1>3
  <2>2. \A T \in SUBSET I :
          g[T] = IF T = {} THEN base ELSE LexByte(g[T \ {Max(T)}], s[Max(T)])
    BY <1>3, <1>4 DEF Stepwise
  <2> QED
    BY <2>1, <2>2 DEF LexBody
<1> DEFINE f == CHOOSE f : f = LexBody(s, base, f)
<1>6. f = LexBody(s, base, f)
  <2> HIDE DEF I, F
  <2> QED
    BY <1>5
<1>7. Lexed(l, s) = f[DOMAIN s]
  BY DEF Lexed, FoldLeft, MapThenFoldSet, LexBody
<1> HIDE DEF f, F
<1>8. \A T \in SUBSET DOMAIN s :
        f[T] = IF T = {} THEN base ELSE LexByte(f[T \ {Max(T)}], s[Max(T)])
  BY <1>6 DEF LexBody
<1> DEFINE h == [i \in 0..Len(s) |-> f[1..i]]
<1>9. ASSUME NEW i \in 0..(Len(s) - 1) PROVE h[i + 1] = LexByte(h[i], s[i + 1])
  <2>1. i \in Nat /\ i \in 0..Len(s) /\ i + 1 \in 0..Len(s)
    BY <1>1
  <2>2. 1..(i + 1) \in SUBSET DOMAIN s /\ 1..(i + 1) # {}
    <3>1. i + 1 \in 1..(i + 1) /\ \A k \in 1..(i + 1) : k \in 1..Len(s)
      BY <1>1, <2>1
    <3> QED
      BY <1>1, <3>1
  <2>3. Max(1..(i + 1)) = i + 1 /\ (1..(i + 1)) \ {i + 1} = 1..i
    BY <2>1, LastOf
  <2>4. f[1..(i + 1)] = LexByte(f[1..i], s[i + 1])
    BY <1>8, <2>2, <2>3
  <2> QED
    BY <2>1, <2>4
<1>10. h[0] = base
  <2>1. 1..0 = {} /\ 0 \in 0..Len(s)
    BY <1>1
  <2>2. f[{}] = base
    BY <1>8
  <2> QED
    BY <2>1, <2>2
<1>11. h[Len(s)] = f[DOMAIN s]
  BY <1>1
<1> HIDE DEF h
<1> QED
  BY <1>7, <1>9, <1>10, <1>11 DEF LexedBy

(* The first n bytes of s are bytes of o, from i on: all of s, or all that *)
(* is left of o.                                                           *)
Common(o, i, s, n) ==
  /\ n = IF i + Len(s) <= Len(o) THEN Len(s) ELSE Len(o) - i
  /\ \A j \in 1..n : s[j] = o[i + j]

(* The lexer stops where the object ends, or where the bytes do; what it   *)
(* has seen of the object determines the state it is in.                   *)
LEMMA LexedState ==
  ASSUME NEW o, IsObject(o), NEW i \in Nat, i < Len(o),
         NEW s \in Seq(Byte), NEW n \in Nat, Common(o, i, s, n),
         NEW l, l.ctx = Mode(o, i), l.depth = Level(o, i), l.off \in Nat
  PROVE  /\ Lexed(l, s).ctx = Mode(o, i + n)
         /\ Lexed(l, s).depth = Level(o, i + n)
         /\ Lexed(l, s).off = l.off + n
<1> DEFINE base == [ctx |-> l.ctx, depth |-> l.depth, off |-> l.off, done |-> FALSE]
<1>1. base \in LexState
  BY LevelStep DEF LexState, Mode, Contexts
<1>2. PICK h : LexedBy(s, base, h) /\ Lexed(l, s) = h[Len(s)]
  <2> HIDE DEF base
  <2>1. base = [ctx |-> l.ctx, depth |-> l.depth, off |-> l.off, done |-> FALSE]
    BY DEF base
  <2> QED
    BY <1>1, <2>1, LexedIsFold
<1>3. PICK m \in Nat : m = Len(o)
  BY ObjectBytes
<1>4. PICK z \in Nat : z = Len(s)
  OBVIOUS
<1>5. PICK q \in Nat : q = l.off
  OBVIOUS
<1>6. i < m /\ n = (IF i + z <= m THEN z ELSE m - i) /\ n <= z /\ i + n <= m
  BY <1>3, <1>4 DEF Common
<1> DEFINE St(j) == [ctx |-> Mode(o, i + j), depth |-> Level(o, i + j), off |-> q + j,
                     done |-> i + j = m]
           X == { j \in Nat : j <= n => h[j] = St(j) }
           Y == { j \in Nat : n + j <= z => h[n + j] = h[n] }
<1>13. n <= z /\ i + n <= m /\ i < m
  BY <1>6
<1>7. h[0] = base /\ \A j \in Nat : j < z => h[j + 1] = LexByte(h[j], s[j + 1])
  BY <1>2, <1>4 DEF LexedBy
<1>8. 0 \in X
  <2>1. i + 0 = i /\ q + 0 = q /\ i # m
    BY <1>6
  <2> QED
    BY <1>5, <1>7, <2>1
<1>9. ASSUME NEW j \in Nat, j \in X PROVE j + 1 \in X
  <2> SUFFICES ASSUME j + 1 <= n PROVE h[j + 1] = St(j + 1)
    OBVIOUS
  <2>1. /\ j < z /\ j <= n /\ j + 1 \in 1..n /\ i + (j + 1) = (i + j) + 1 /\ i + j < m
        /\ q + (j + 1) = (q + j) + 1 /\ i + j \in Nat
    <3> HIDE DEF St, base
    <3> QED
      BY <1>13
  <2>2. h[j] = St(j) /\ s[j + 1] = o[(i + j) + 1]
    <3>1. h[j] = St(j)
      BY <1>9, <2>1
    <3>2. s[j + 1] = o[i + (j + 1)]
      BY <2>1 DEF Common
    <3> QED
      BY <2>1, <3>1, <3>2
  <2>3. h[j + 1] = LexByte(St(j), o[(i + j) + 1])
    BY <1>7, <2>1, <2>2
  <2> DEFINE k == i + j
             c == o[k + 1]
  <2>4. /\ Context(Mode(o, k), c) = Mode(o, k + 1)
        /\ Level(o, k + 1) = IF Mode(o, k) = "text" /\ c = "{" THEN Level(o, k) + 1
                             ELSE IF Mode(o, k) = "text" /\ c = "}" THEN Level(o, k) - 1
                             ELSE Level(o, k)
        /\ (Mode(o, k) = "text" /\ c = "}") /\ Level(o, k) = 1 <=> k + 1 = m
    BY <1>3, <2>1, ByteStep
  <2>5. St(j).done = FALSE
    <3>1. k # m
      BY <2>1
    <3> QED
      BY <3>1
  <2>6. St(j).ctx = Mode(o, k) /\ St(j).depth = Level(o, k) /\ St(j).off = q + j
    OBVIOUS
  <2>7. LexByte(St(j), c) =
          [ctx |-> Mode(o, k + 1), depth |-> Level(o, k + 1), off |-> (q + j) + 1,
           done |-> k + 1 = m]
    <3> HIDE DEF k, c
    <3>1. LexByte(St(j), c) =
            [ctx |-> Context(Mode(o, k), c),
             depth |-> CASE Mode(o, k) = "text" /\ c = "{" -> Level(o, k) + 1
                         [] Mode(o, k) = "text" /\ c = "}" -> Level(o, k) - 1
                         [] OTHER -> Level(o, k),
             off |-> (q + j) + 1,
             done |-> (Mode(o, k) = "text" /\ c = "}") /\ Level(o, k) = 1]
      <4> HIDE DEF St
      <4> QED
        BY <2>5, <2>6 DEF LexByte
    <3>2. (CASE Mode(o, k) = "text" /\ c = "{" -> Level(o, k) + 1
             [] Mode(o, k) = "text" /\ c = "}" -> Level(o, k) - 1
             [] OTHER -> Level(o, k)) = Level(o, k + 1)
      BY <2>4
    <3> QED
      BY <2>4, <3>1, <3>2
  <2> QED
    BY <2>1, <2>3, <2>7
<1>10. n \in X
  <2>1. \A j \in Nat : j \in X
    <3> HIDE DEF X
    <3> QED
      BY <1>8, <1>9, Numbers
  <2> QED
    BY <2>1
<1>11. h[n] = St(n)
  BY <1>10
<1>12. h[z] = h[n]
  <2>1. CASE n = z
    BY <2>1
  <2>2. CASE n # z
    <3>1. i + n = m
      BY <1>6, <2>2
    <3>2. h[n].done = TRUE
      <4>1. (i + n = m) = TRUE
        BY <3>1
      <4>2. St(n).done = (i + n = m)
        OBVIOUS
      <4> QED
        BY <1>11, <4>1, <4>2
    <3>3. 0 \in Y
      <4>1. n + 0 = n
        OBVIOUS
      <4> QED
        BY <4>1
    <3>4. ASSUME NEW j \in Nat, j \in Y PROVE j + 1 \in Y
      <4> SUFFICES ASSUME n + (j + 1) <= z PROVE h[n + (j + 1)] = h[n]
        OBVIOUS
      <4>1. n + (j + 1) = (n + j) + 1 /\ n + j \in Nat /\ n + j < z
        <5> HIDE DEF St, base, X
        <5> QED
          BY <1>13
      <4>2. h[n + j] = h[n]
        BY <3>4, <4>1
      <4>3. h[(n + j) + 1] = LexByte(h[n], s[(n + j) + 1])
        BY <1>7, <4>1, <4>2
      <4>4. LexByte(h[n], s[(n + j) + 1]) = h[n]
        BY <3>2 DEF LexByte
      <4> QED
        BY <4>1, <4>3, <4>4
    <3>5. \A j \in Nat : j \in Y
      <4> HIDE DEF Y
      <4> QED
        BY <3>3, <3>4, Numbers
    <3>6. z - n \in Nat /\ n + (z - n) = z /\ n + (z - n) <= z
      BY <1>13
    <3>7. z - n \in Y
      <4> HIDE DEF Y
      <4> QED
        BY <3>5, <3>6
    <3> QED
      BY <3>6, <3>7
  <2> QED
    BY <2>1, <2>2
<1> QED
  BY <1>2, <1>4, <1>5, <1>11, <1>12

-----------------------------------------------------------------------------
(* Sequences without their first bytes, and sequences of sequences.        *)

From(t, n) == SubSeq(t, n + 1, Len(t))

(* What is left of a sequence without its first n elements.                *)
LEMMA FromProperties ==
  ASSUME NEW A, NEW t \in Seq(A), NEW n \in 0..Len(t)
  PROVE  /\ From(t, n) \in Seq(A)
         /\ Len(From(t, n)) = Len(t) - n
         /\ \A i \in 1..(Len(t) - n) : From(t, n)[i] = t[n + i]
<1>1. PICK m \in Nat : m = Len(t)
  OBVIOUS
<1>2. n \in Nat /\ n <= m /\ n + 1 \in 1..(m + 1)
  BY <1>1
<1>3. SubSeq(t, n + 1, m) \in Seq(A) /\ Len(SubSeq(t, n + 1, m)) = m - n
  <2>1. IF n + 1 <= m + 1 THEN TRUE ELSE FALSE
    BY <1>2
  <2> QED
    BY <1>1, <1>2
<1>4. ASSUME NEW i \in 1..(m - n) PROVE SubSeq(t, n + 1, m)[i] = t[n + i]
  <2>1. n + i = (n + 1) + i - 1 /\ i \in 1..(m - n)
    BY <1>2
  <2> QED
    BY <1>1, <1>2, <2>1
<1> QED
  BY <1>1, <1>3, <1>4 DEF From

(* The same, with the lengths named.                                       *)
Cut(A, t, m, n, r) ==
  /\ t \in Seq(A) /\ m \in Nat /\ n \in Nat /\ r \in Nat
  /\ m = Len(t) /\ n <= m /\ r = m - n

(* What is left, with the lengths named.                                   *)
LEMMA FromLength ==
  ASSUME NEW A, NEW t, NEW m, NEW n, NEW r, Cut(A, t, m, n, r)
  PROVE  /\ From(t, n) \in Seq(A)
         /\ Len(From(t, n)) = r
         /\ \A i \in 1..r : From(t, n)[i] = t[n + i]
<1>1. t \in Seq(A) /\ n \in 0..Len(t)
  BY DEF Cut
<1>2. /\ From(t, n) \in Seq(A) /\ Len(From(t, n)) = Len(t) - n
      /\ \A i \in 1..(Len(t) - n) : From(t, n)[i] = t[n + i]
  BY <1>1, FromProperties
<1>3. Len(t) - n = r
  BY DEF Cut
<1> QED
  BY <1>2, <1>3

(* Two sequences with the same elements are one.                           *)
LEMMA SameElements ==
  ASSUME NEW A, NEW s \in Seq(A), NEW t \in Seq(A), NEW n \in Nat,
         Len(s) = n, Len(t) = n, \A i \in 1..n : s[i] = t[i]
  PROVE  s = t
  OBVIOUS

(* The elements of a concatenation.                                        *)
LEMMA Joined ==
  ASSUME NEW A, NEW s \in Seq(A), NEW t \in Seq(A)
  PROVE  /\ s \o t \in Seq(A)
         /\ Len(s \o t) = Len(s) + Len(t)
         /\ \A i \in 1..Len(s) : (s \o t)[i] = s[i]
         /\ \A i \in 1..Len(t) : (s \o t)[Len(s) + i] = t[i]
<1>1. PICK m \in Nat, n \in Nat : m = Len(s) /\ n = Len(t)
  OBVIOUS
<1>2. s \o t \in Seq(A) /\ Len(s \o t) = m + n
  BY <1>1
<1>3. \A i \in 1..m : (s \o t)[i] = s[i]
  BY <1>1
<1>4. ASSUME NEW i \in 1..n PROVE (s \o t)[m + i] = t[i]
  <2>1. m + i \in 1..(m + n) /\ m + i > m /\ (m + i) - m = i
    OBVIOUS
  <2> QED
    BY <1>1, <2>1
<1> QED
  BY <1>1, <1>2, <1>3, <1>4

Cat(s, t) == s \o t

(* The same, with the lengths named.                                       *)
Two(A, s, t, m, n, k) ==
  /\ s \in Seq(A) /\ t \in Seq(A) /\ m \in Nat /\ n \in Nat
  /\ m = Len(s) /\ n = Len(t) /\ k = m + n

(* A concatenation, with the lengths named.                                *)
LEMMA JoinedLength ==
  ASSUME NEW A, NEW s, NEW t, NEW m, NEW n, NEW k, Two(A, s, t, m, n, k)
  PROVE  /\ Cat(s, t) \in Seq(A)
         /\ Len(Cat(s, t)) = k
         /\ \A i \in 1..m : Cat(s, t)[i] = s[i]
         /\ \A i \in 1..n : Cat(s, t)[m + i] = t[i]
<1>1. s \in Seq(A) /\ t \in Seq(A) /\ m = Len(s) /\ n = Len(t) /\ k = m + n
  BY DEF Two
<1>2. /\ s \o t \in Seq(A) /\ Len(s \o t) = Len(s) + Len(t)
      /\ \A i \in 1..Len(s) : (s \o t)[i] = s[i]
      /\ \A i \in 1..Len(t) : (s \o t)[Len(s) + i] = t[i]
  BY <1>1, Joined
<1> QED
  BY <1>1, <1>2 DEF Cat

(* Concatenation is associative.                                           *)
LEMMA Regrouped ==
  ASSUME NEW A, NEW s \in Seq(A), NEW t \in Seq(A), NEW u \in Seq(A)
  PROVE  Cat(Cat(s, t), u) = Cat(s, Cat(t, u))
<1>1. PICK m \in Nat, n \in Nat, k \in Nat : m = Len(s) /\ n = Len(t) /\ k = Len(u)
  OBVIOUS
<1> DEFINE a == (s \o t) \o u
           b == s \o (t \o u)
<1>2. /\ a \in Seq(A) /\ Len(a) = (m + n) + k
      /\ b \in Seq(A) /\ Len(b) = m + (n + k)
  BY <1>1, Joined
<1>3. /\ \A i \in 1..m : a[i] = s[i] /\ b[i] = s[i]
      /\ \A i \in 1..n : a[m + i] = t[i] /\ b[m + i] = t[i]
      /\ \A i \in 1..k : a[(m + n) + i] = u[i] /\ b[m + (n + i)] = u[i]
  <2>1. /\ s \o t \in Seq(A) /\ Len(s \o t) = m + n
        /\ \A i \in 1..m : (s \o t)[i] = s[i]
        /\ \A i \in 1..n : (s \o t)[m + i] = t[i]
    BY <1>1, Joined
  <2>2. /\ t \o u \in Seq(A) /\ Len(t \o u) = n + k
        /\ \A i \in 1..n : (t \o u)[i] = t[i]
        /\ \A i \in 1..k : (t \o u)[n + i] = u[i]
    BY <1>1, Joined
  <2>3. /\ \A i \in 1..(m + n) : a[i] = (s \o t)[i]
        /\ \A i \in 1..k : a[(m + n) + i] = u[i]
    BY <1>1, <2>1, Joined
  <2>4. /\ \A i \in 1..m : b[i] = s[i]
        /\ \A i \in 1..(n + k) : b[m + i] = (t \o u)[i]
    BY <1>1, <2>2, Joined
  <2>5. /\ \A i \in 1..m : i \in 1..(m + n)
        /\ \A i \in 1..n : m + i \in 1..(m + n) /\ i \in 1..(n + k)
        /\ \A i \in 1..k : n + i \in 1..(n + k)
    OBVIOUS
  <2> HIDE DEF a, b
  <2> QED
    BY <2>1, <2>2, <2>3, <2>4, <2>5
<1>4. ASSUME NEW i \in 1..(m + (n + k)) PROVE a[i] = b[i]
  <2> HIDE DEF a, b
  <2>1. CASE i <= m
    BY <1>3, <2>1
  <2>2. CASE i > m /\ i <= m + n
    <3>1. i - m \in 1..n /\ m + (i - m) = i
      BY <2>2
    <3> QED
      BY <1>3, <3>1
  <2>3. CASE i > m + n
    <3>1. /\ i - (m + n) \in 1..k /\ (m + n) + (i - (m + n)) = i
          /\ m + (n + (i - (m + n))) = i
      BY <2>3
    <3> QED
      BY <1>3, <3>1
  <2> QED
    BY <2>1, <2>2, <2>3
<1>5. (m + n) + k = m + (n + k) /\ m + (n + k) \in Nat
  OBVIOUS
<1> HIDE DEF a, b
<1>6. a = b
  BY <1>2, <1>4, <1>5, SameElements
<1> QED
  BY <1>6 DEF a, b, Cat

(* What is left of what is left.                                           *)
LEMMA FromFrom ==
  ASSUME NEW A, NEW t, NEW m, NEW n, NEW p, Cut(A, t, m, n, p),
         NEW k \in Nat, k <= p
  PROVE  From(From(t, n), k) = From(t, n + k)
<1> DEFINE u == From(t, n)
           e == n + k
           r == p - k
<1>11. p \in Nat
  BY DEF Cut
<1>12. /\ u \in Seq(A) /\ Len(u) = p
       /\ \A i \in 1..p : u[i] = t[n + i]
  BY FromLength
<1>1. /\ u \in Seq(A) /\ Len(u) = p /\ p \in Nat
      /\ \A i \in 1..p : u[i] = t[n + i]
  <2> HIDE DEF u
  <2> QED
    BY <1>11, <1>12
<1>2. n \in Nat /\ m \in Nat /\ p = m - n /\ n <= m /\ t \in Seq(A) /\ m = Len(t)
  BY DEF Cut
<1>3. r \in Nat /\ e \in Nat /\ e <= m /\ r = m - e
  BY <1>1, <1>2
<1>4. \A i \in 1..r : k + i \in 1..p /\ n + (k + i) = e + i
  BY <1>1, <1>2
<1>5. r = p - k
  OBVIOUS
<1> HIDE DEF u, e, r
<1>6. Cut(A, u, p, k, r) /\ Cut(A, t, m, e, r)
  BY <1>1, <1>2, <1>3, <1>5 DEF Cut
<1>7. /\ From(u, k) \in Seq(A) /\ Len(From(u, k)) = r
      /\ \A i \in 1..r : From(u, k)[i] = u[k + i]
  BY <1>6, FromLength
<1>8. /\ From(t, e) \in Seq(A) /\ Len(From(t, e)) = r
      /\ \A i \in 1..r : From(t, e)[i] = t[e + i]
  BY <1>6, FromLength
<1>9. \A i \in 1..r : From(u, k)[i] = From(t, e)[i]
  BY <1>1, <1>4, <1>7, <1>8
<1>10. From(u, k) = From(t, e)
  BY <1>3, <1>7, <1>8, <1>9, SameElements
<1> QED
  BY <1>10 DEF u, e

(* What is left of a concatenation whose first part is not used up yet.    *)
LEMMA FromJoined ==
  ASSUME NEW A, NEW s, NEW m, NEW n, NEW q, Cut(A, s, m, n, q), NEW t \in Seq(A)
  PROVE  From(Cat(s, t), n) = Cat(From(s, n), t)
<1>1. PICK k \in Nat : k = Len(t)
  OBVIOUS
<1> DEFINE u == Cat(s, t)
           v == From(s, n)
           p == m + k
           r == q + k
<1>2. s \in Seq(A) /\ m = Len(s) /\ n \in Nat /\ m \in Nat /\ q \in Nat /\ n <= m /\ q = m - n
  BY DEF Cut
<1>3. p \in Nat /\ r \in Nat /\ n <= p /\ r = p - n /\ p = m + k /\ r = q + k
  BY <1>2
<1>4. v \in Seq(A) /\ Len(v) = q /\ \A i \in 1..q : v[i] = s[n + i]
  BY FromLength
<1> HIDE DEF p, r
<1>5. Two(A, s, t, m, k, p)
  BY <1>1, <1>2, <1>3 DEF Two
<1>6. /\ u \in Seq(A) /\ Len(u) = p
      /\ \A i \in 1..m : u[i] = s[i]
      /\ \A i \in 1..k : u[m + i] = t[i]
  BY <1>5, JoinedLength
<1> HIDE DEF u, v
<1>7. Cut(A, u, p, n, r) /\ Two(A, v, t, q, k, r)
  BY <1>1, <1>2, <1>3, <1>4, <1>6 DEF Cut, Two
<1>8. /\ From(u, n) \in Seq(A) /\ Len(From(u, n)) = r
      /\ \A i \in 1..r : From(u, n)[i] = u[n + i]
  BY <1>7, FromLength
<1>9. /\ Cat(v, t) \in Seq(A) /\ Len(Cat(v, t)) = r
      /\ \A i \in 1..q : Cat(v, t)[i] = v[i]
      /\ \A i \in 1..k : Cat(v, t)[q + i] = t[i]
  BY <1>7, JoinedLength
<1>10. ASSUME NEW i \in 1..r PROVE From(u, n)[i] = Cat(v, t)[i]
  <2>1. From(u, n)[i] = u[n + i]
    BY <1>8
  <2>2. CASE i <= q
    <3>1. i \in 1..q /\ n + i \in 1..m
      BY <1>2, <1>3, <2>2
    <3> QED
      BY <2>1, <1>4, <1>6, <1>9, <3>1
  <2>3. CASE i > q
    <3>1. PICK z \in 1..k : z = i - q
      BY <1>2, <1>3, <2>3
    <3>2. q + z = i /\ m + z = n + i
      BY <1>2, <1>3, <3>1
    <3>3. u[m + z] = t[z] /\ Cat(v, t)[q + z] = t[z]
      BY <1>6, <1>9
    <3> QED
      BY <2>1, <3>2, <3>3
  <2>4. q \in Nat /\ r \in Nat
    BY <1>2, <1>3
  <2> QED
    BY <2>2, <2>3, <2>4
<1>11. From(u, n) = Cat(v, t)
  BY <1>3, <1>8, <1>9, <1>10, SameElements
<1> QED
  BY <1>11 DEF u, v

(* Nothing taken, and all.                                                 *)
LEMMA FromEnds ==
  ASSUME NEW A, NEW t \in Seq(A)
  PROVE  From(t, 0) = t /\ From(t, Len(t)) = <<>>
<1>1. PICK m \in Nat : m = Len(t)
  OBVIOUS
<1>2. 0 \in 0..m /\ m \in 0..m /\ m - 0 = m /\ m - m = 0
  OBVIOUS
<1>3. From(t, 0) = t
  <2>1. /\ From(t, 0) \in Seq(A) /\ Len(From(t, 0)) = m
        /\ \A i \in 1..m : From(t, 0)[i] = t[0 + i]
    BY <1>1, <1>2, FromProperties
  <2>2. \A i \in 1..m : 0 + i = i
    OBVIOUS
  <2> QED
    BY <1>1, <2>1, <2>2, SameElements
<1>4. From(t, m) \in Seq(A) /\ Len(From(t, m)) = 0
  BY <1>1, <1>2, FromProperties
<1> QED
  BY <1>1, <1>3, <1>4, EmptySeq

(* A sequence is its first elements and the others.                        *)
LEMMA Parted ==
  ASSUME NEW A, NEW t, NEW m, NEW n, NEW p, Cut(A, t, m, n, p)
  PROVE  SubSeq(t, 1, n) \in Seq(A) /\ Len(SubSeq(t, 1, n)) = n
         /\ Cat(SubSeq(t, 1, n), From(t, n)) = t
<1> DEFINE s == SubSeq(t, 1, n)
           u == From(t, n)
<1>1. t \in Seq(A) /\ m = Len(t) /\ n \in Nat /\ m \in Nat /\ p \in Nat /\ n <= m /\ m = n + p
  BY DEF Cut
<1>2. s \in Seq(A) /\ Len(s) = n /\ \A i \in 1..n : s[i] = t[i]
  <2>1. t \in Seq(A) /\ n \in 0..Len(t)
    BY <1>1
  <2> QED
    BY <2>1
<1>3. u \in Seq(A) /\ Len(u) = p /\ \A i \in 1..p : u[i] = t[n + i]
  BY FromLength
<1> HIDE DEF s, u
<1>4. Two(A, s, u, n, p, m)
  BY <1>1, <1>2, <1>3 DEF Two
<1>5. /\ Cat(s, u) \in Seq(A) /\ Len(Cat(s, u)) = m
      /\ \A i \in 1..n : Cat(s, u)[i] = s[i]
      /\ \A i \in 1..p : Cat(s, u)[n + i] = u[i]
  BY <1>4, JoinedLength
<1>6. ASSUME NEW i \in 1..m PROVE Cat(s, u)[i] = t[i]
  <2>1. CASE i <= n
    BY <1>2, <1>5, <2>1
  <2>2. CASE i > n
    <3>1. PICK z \in 1..p : z = i - n
      BY <1>1, <2>2
    <3>2. n + z = i
      BY <1>1, <3>1
    <3> QED
      BY <1>3, <1>5, <3>2
  <2> QED
    <3>1. m \in Nat /\ n \in Nat
      BY <1>1
    <3> QED
      BY <2>1, <2>2, <3>1
<1>7. Cat(s, u) = t
  BY <1>1, <1>5, <1>6, SameElements
<1> QED
  BY <1>2, <1>7 DEF s, u

(* h[i] is the concatenation of the first i sequences of s.                *)
FlatBy(s, h) ==
  /\ h[0] = <<>>
  /\ \A i \in 0..(Len(s) - 1) : h[i + 1] = h[i] \o s[i + 1]

(* FlattenSeq has a function that solves its equation.                     *)
LEMMA FlattenIs ==
  ASSUME NEW A, NEW s \in Seq(Seq(A))
  PROVE  \E h \in [0..Len(s) -> Seq(A)] : FlatBy(s, h) /\ FlattenSeq(s) = h[Len(s)]
<1> DEFINE I == 1..Len(s)
           V == Seq(A)
           F == [i \in I |-> [v \in V |-> v \o s[i]]]
           FlattenBody(f) == [i \in 1..Len(s) |-> IF i = 1 THEN s[i] ELSE f[i - 1] \o s[i]]
<1>1. PICK n \in Nat : n = Len(s)
  OBVIOUS
<1>2. \A i \in I : s[i] \in V
  OBVIOUS
<1>3. Closed(1..n, V, F)
  BY <1>1, <1>2 DEF Closed
<1>4. PICK g \in [SUBSET (1..n) -> V] : Stepwise(n, <<>>, F, g)
  <2>1. <<>> \in V
    OBVIOUS
  <2> HIDE DEF F, V
  <2> QED
    BY <1>3, <2>1, StepwiseExists
<1> DEFINE h == [i \in 0..n |-> g[1..i]]
<1>5. h \in [0..n -> V]
  <2> HIDE DEF V
  <2>1. \A i \in 0..n : 1..i \in SUBSET (1..n)
    OBVIOUS
  <2> QED
    BY <1>4, <2>1
<1>6. h[0] = <<>>
  <2>1. 1..0 = {} /\ 0 \in 0..n
    OBVIOUS
  <2> QED
    BY <2>1, <1>4 DEF Stepwise
<1>7. ASSUME NEW i \in 0..(n - 1) PROVE h[i + 1] = h[i] \o s[i + 1]
  <2>1. i \in Nat /\ i \in 0..n /\ i + 1 \in 0..n /\ i + 1 \in 1..n
    OBVIOUS
  <2>2. 1..(i + 1) \in SUBSET (1..n) /\ 1..(i + 1) # {}
    <3>1. i + 1 \in 1..(i + 1) /\ \A k \in 1..(i + 1) : k \in 1..n
      BY <2>1
    <3> QED
      BY <3>1
  <2>3. Max(1..(i + 1)) = i + 1 /\ (1..(i + 1)) \ {i + 1} = 1..i
    BY <2>1, LastOf
  <2>4. g[1..(i + 1)] = F[i + 1][g[1..i]]
    <3> HIDE DEF F
    <3> QED
      BY <1>4, <2>2, <2>3 DEF Stepwise
  <2>5. g[1..i] \in V /\ h[i] = g[1..i] /\ h[i + 1] = g[1..(i + 1)]
    <3>1. h[i] \in V
      BY <1>5, <2>1
    <3> QED
      BY <3>1, <2>1
  <2>6. F[i + 1][g[1..i]] = g[1..i] \o s[i + 1]
    <3> HIDE DEF V
    <3> QED
      BY <1>1, <2>1, <2>5
  <2> QED
    BY <2>4, <2>5, <2>6
<1> HIDE DEF h
<1> DEFINE f == [i \in 1..n |-> h[i]]
<1>8. f = FlattenBody(f)
  <2>1. ASSUME NEW i \in 1..n PROVE h[i] = IF i = 1 THEN s[i] ELSE f[i - 1] \o s[i]
    <3>1. i - 1 \in 0..(n - 1) /\ (i - 1) + 1 = i
      OBVIOUS
    <3>2. h[i] = h[i - 1] \o s[i]
      BY <1>7, <3>1
    <3>3. CASE i = 1
      <4>1. h[1] = <<>> \o s[1]
        <5>1. 1 - 1 = 0
          OBVIOUS
        <5> QED
          BY <1>6, <3>2, <3>3, <5>1
      <4>2. <<>> \o s[1] = s[1]
        BY <1>1, <1>2, <3>3
      <4> QED
        BY <3>3, <4>1, <4>2
    <3>4. CASE i # 1
      <4>1. i - 1 \in 1..n
        BY <3>4
      <4> QED
        BY <3>2, <3>4, <4>1
    <3> QED
      BY <3>3, <3>4
  <2> HIDE DEF V, F, I
  <2> QED
    BY <1>1, <2>1
<1> DEFINE e == CHOOSE e : e = FlattenBody(e)
<1>9. e = FlattenBody(e)
  <2> HIDE DEF f, V, F, I, FlattenBody
  <2> QED
    BY <1>8
<1>10. FlattenSeq(s) = IF n = 0 THEN s ELSE e[n]
  BY <1>1 DEF FlattenSeq
<1> HIDE DEF e
<1>11. \A i \in 1..n : e[i] = IF i = 1 THEN s[i] ELSE e[i - 1] \o s[i]
  BY <1>1, <1>9
<1> DEFINE X == { i \in Nat : i + 1 <= n => e[i + 1] = h[i + 1] }
<1>12. 0 \in X
  <2> SUFFICES ASSUME 1 <= n PROVE e[1] = h[1]
    OBVIOUS
  <2>1. 1 \in 1..n /\ e[1] = s[1]
    BY <1>11
  <2>2. f[1] = s[1]
    BY <1>8, <1>1, <2>1
  <2> QED
    BY <2>1, <2>2
<1>13. ASSUME NEW i \in Nat, i \in X PROVE i + 1 \in X
  <2> SUFFICES ASSUME (i + 1) + 1 <= n PROVE e[(i + 1) + 1] = h[(i + 1) + 1]
    OBVIOUS
  <2>1. (i + 1) + 1 \in 1..n /\ (i + 1) + 1 # 1 /\ ((i + 1) + 1) - 1 = i + 1
        /\ i + 1 <= n /\ i + 1 \in 0..(n - 1)
    OBVIOUS
  <2>2. e[(i + 1) + 1] = e[i + 1] \o s[(i + 1) + 1]
    BY <1>11, <2>1
  <2>3. e[i + 1] = h[i + 1]
    BY <1>13, <2>1
  <2> QED
    BY <1>7, <2>1, <2>2, <2>3
<1>14. \A i \in Nat : i \in X
  <2> HIDE DEF X
  <2> QED
    BY <1>12, <1>13, Numbers
<1>15. FlattenSeq(s) = h[n]
  <2>1. CASE n = 0
    <3>1. s = <<>>
      BY <1>1, <2>1, EmptySeq
    <3> QED
      BY <3>1, <2>1, <1>6, <1>10
  <2>2. CASE n # 0
    <3>1. n - 1 \in Nat /\ (n - 1) + 1 = n
      BY <2>2
    <3>2. e[(n - 1) + 1] = h[(n - 1) + 1]
      <4>1. n - 1 \in X /\ (n - 1) + 1 <= n
        <5> HIDE DEF X
        <5> QED
          BY <1>14, <3>1
      <4> QED
        BY <4>1
    <3> QED
      BY <3>1, <3>2, <2>2, <1>10
  <2> QED
    BY <2>1, <2>2
<1> QED
  BY <1>1, <1>5, <1>6, <1>7, <1>15 DEF FlatBy

(* The first n elements of two sequences are the same.                     *)
Agree(s, t, n) ==
  /\ n \in Nat /\ Len(s) \in Nat /\ Len(t) \in Nat /\ n <= Len(s) /\ n <= Len(t)
  /\ \A i \in 1..n : s[i] = t[i]

(* Concatenations of sequences that agree agree.                           *)
LEMMA FlatAgree ==
  ASSUME NEW s, NEW t, NEW g, NEW h, FlatBy(s, g), FlatBy(t, h),
         NEW n, Agree(s, t, n)
  PROVE  g[n] = h[n]
<1> DEFINE X == { i \in Nat : i <= n => g[i] = h[i] }
<1>1. 0 \in X
  BY DEF FlatBy
<1>2. ASSUME NEW i \in Nat, i \in X PROVE i + 1 \in X
  <2> SUFFICES ASSUME i + 1 <= n PROVE g[i + 1] = h[i + 1]
    OBVIOUS
  <2>1. i \in 0..(Len(s) - 1) /\ i \in 0..(Len(t) - 1) /\ i + 1 \in 1..n /\ i <= n
        /\ s[i + 1] = t[i + 1]
    BY DEF Agree
  <2> QED
    BY <1>2, <2>1 DEF FlatBy
<1>3. \A i \in Nat : i \in X
  <2> HIDE DEF X
  <2> QED
    BY <1>1, <1>2, Numbers
<1> QED
  BY <1>3 DEF Agree

(* One more sequence is concatenated last.                                 *)
LEMMA FlattenAppend ==
  ASSUME NEW A, NEW s \in Seq(Seq(A)), NEW o \in Seq(A)
  PROVE  FlattenSeq(Append(s, o)) = Cat(FlattenSeq(s), o)
<1> DEFINE t == Append(s, o)
<1>1. PICK n \in Nat : n = Len(s)
  OBVIOUS
<1>2. t \in Seq(Seq(A)) /\ Len(t) = n + 1 /\ t[n + 1] = o /\ \A i \in 1..n : t[i] = s[i]
  BY <1>1
<1> HIDE DEF t
<1>3. PICK g : FlatBy(s, g) /\ FlattenSeq(s) = g[n]
  BY <1>1, FlattenIs
<1>4. PICK h : FlatBy(t, h) /\ FlattenSeq(t) = h[n + 1]
  BY <1>2, FlattenIs
<1>5. g[n] = h[n]
  <2>1. Agree(s, t, n)
    BY <1>1, <1>2 DEF Agree
  <2> QED
    BY <2>1, <1>3, <1>4, FlatAgree
<1>6. h[n + 1] = h[n] \o o
  <2>1. n \in 0..(Len(t) - 1)
    BY <1>2
  <2> QED
    BY <2>1, <1>2, <1>4 DEF FlatBy
<1> QED
  BY <1>3, <1>4, <1>5, <1>6 DEF t, Cat

(* A concatenation is the first sequence, and the others concatenated.     *)
LEMMA FlattenHead ==
  ASSUME NEW A, NEW s \in Seq(Seq(A)), s # <<>>
  PROVE  FlattenSeq(s) = Cat(Head(s), FlattenSeq(Tail(s)))
<1> DEFINE t == Tail(s)
           o == Head(s)
<1>1. PICK n \in Nat : n + 1 = Len(s)
  <2>1. Len(s) \in Nat /\ Len(s) # 0
    BY EmptySeq
  <2>2. Len(s) - 1 \in Nat /\ (Len(s) - 1) + 1 = Len(s)
    BY <2>1
  <2> QED
    BY <2>2
<1>2. t \in Seq(Seq(A)) /\ Len(t) = n /\ o \in Seq(A) /\ s[1] = o
      /\ \A i \in 1..n : t[i] = s[i + 1]
  BY <1>1
<1> HIDE DEF t, o
<1>3. PICK g \in [0..(n + 1) -> Seq(A)] : FlatBy(s, g) /\ FlattenSeq(s) = g[n + 1]
  BY <1>1, FlattenIs
<1>4. PICK h \in [0..n -> Seq(A)] : FlatBy(t, h) /\ FlattenSeq(t) = h[n]
  BY <1>2, FlattenIs
<1> DEFINE X == { i \in Nat : i <= n => g[i + 1] = Cat(o, h[i]) }
<1>5. 0 \in X
  <2> SUFFICES g[0 + 1] = Cat(o, h[0])
    OBVIOUS
  <2>1. 0 \in 0..(Len(s) - 1) /\ 0 + 1 = 1
    BY <1>1
  <2>2. g[0 + 1] = g[0] \o s[0 + 1] /\ g[0] = <<>> /\ h[0] = <<>>
    BY <1>3, <1>4, <2>1 DEF FlatBy
  <2>3. g[0 + 1] = <<>> \o o
    BY <1>2, <2>1, <2>2
  <2>4. <<>> \o o = o \o <<>>
    BY <1>2
  <2> QED
    BY <2>2, <2>3, <2>4 DEF Cat
<1>6. ASSUME NEW i \in Nat, i \in X PROVE i + 1 \in X
  <2> SUFFICES ASSUME i + 1 <= n PROVE g[(i + 1) + 1] = Cat(o, h[i + 1])
    OBVIOUS
  <2>1. i + 1 \in 0..(Len(s) - 1) /\ i \in 0..(Len(t) - 1) /\ i + 1 \in 1..n /\ i <= n
        /\ i \in 0..n
    BY <1>1, <1>2
  <2>2. g[(i + 1) + 1] = g[i + 1] \o s[(i + 1) + 1]
    BY <1>3, <2>1 DEF FlatBy
  <2>3. h[i + 1] = h[i] \o t[i + 1]
    BY <1>4, <2>1 DEF FlatBy
  <2>4. g[i + 1] = Cat(o, h[i]) /\ t[i + 1] = s[(i + 1) + 1]
    BY <1>2, <1>6, <2>1
  <2>5. Cat(Cat(o, h[i]), t[i + 1]) = Cat(o, Cat(h[i], t[i + 1]))
    <3>1. h[i] \in Seq(A)
      BY <1>4, <2>1
    <3>2. t[i + 1] \in Seq(A)
      <4>1. t \in Seq(Seq(A)) /\ i + 1 \in 1..Len(t)
        BY <1>2, <2>1
      <4> QED
        BY <4>1
    <3>3. o \in Seq(A)
      BY <1>2
    <3>4. PICK x \in Seq(A), y \in Seq(A) : x = h[i] /\ y = t[i + 1]
      BY <3>1, <3>2
    <3>5. Cat(Cat(o, x), y) = Cat(o, Cat(x, y))
      BY <3>3, Regrouped
    <3> QED
      BY <3>4, <3>5
  <2> QED
    BY <2>2, <2>3, <2>4, <2>5 DEF Cat
<1>7. \A i \in Nat : i \in X
  <2> HIDE DEF X
  <2> QED
    BY <1>5, <1>6, Numbers
<1>8. g[n + 1] = Cat(o, h[n])
  BY <1>7
<1> QED
  BY <1>3, <1>4, <1>8 DEF t, o, Cat

(* A concatenation of sequences is a sequence, and of none is empty.       *)
LEMMA FlattenType ==
  ASSUME NEW A, NEW s \in Seq(Seq(A))
  PROVE  FlattenSeq(s) \in Seq(A)
<1>1. PICK h \in [0..Len(s) -> Seq(A)] : FlattenSeq(s) = h[Len(s)]
  BY FlattenIs
<1> QED
  BY <1>1

(* Nothing concatenated is nothing.                                        *)
LEMMA FlattenNone == FlattenSeq(<<>>) = <<>>
  BY DEF FlattenSeq

-----------------------------------------------------------------------------
(* The stream.                                                             *)

(* At the first byte of an object and behind its last one the lexer is in  *)
(* no string and at no level.                                              *)
LEMMA ObjectEnds ==
  ASSUME NEW o, IsObject(o)
  PROVE  /\ Mode(o, 0) = "text" /\ Level(o, 0) = 0
         /\ Mode(o, Len(o)) = "text" /\ Level(o, Len(o)) = 0
<1>1. PICK i \in Nat : i + 1 = Len(o)
  <2>1. PICK m \in Nat : m = Len(o) /\ m # 0
    BY ObjectBytes
  <2>2. m - 1 \in Nat /\ (m - 1) + 1 = m
    BY <2>1
  <2> QED
    BY <2>1, <2>2
<1>2. Mode(o, 0) = "text"
  <2>1. 0 + 1 = 1 /\ 1 \in Nat \ {0}
    OBVIOUS
  <2>2. ~Quoted(o, 1)
    BY <2>1, QuotedStep
  <2> QED
    BY <2>1, <2>2 DEF Mode
<1>3. Level(o, 0) = 0
  BY LevelStep
<1>4. /\ Context(Mode(o, i), o[i + 1]) = Mode(o, i + 1)
      /\ Mode(o, i) = "text" /\ o[i + 1] = "}"
  <2>1. i < Len(o)
    BY <1>1
  <2> QED
    BY <1>1, <2>1, ByteStep
<1>5. Mode(o, i + 1) = "text"
  BY <1>4 DEF Context
<1>6. Level(o, Len(o)) = 0
  <2>1. PICK m \in Nat : m = Len(o) /\ m # 0
    BY ObjectBytes
  <2>2. m \in 1..Len(o)
    BY <2>1
  <2> QED
    BY <2>1, <2>2, ObjectBytes
<1> QED
  BY <1>1, <1>2, <1>3, <1>5, <1>6

LexType == [ctx : Contexts, depth : Int, off : Nat]

(* d is due, and f bytes of its first object are parsed: what is left of   *)
(* it is in the buffer b, from off on, and in the socket w, and the lexer  *)
(* is in the state that the f bytes determine.                             *)
Feed(d, f, w, b, off, l) ==
  /\ d \in Seq(Objects) /\ f \in Nat
  /\ w \in Seq(Byte) /\ b \in Seq(Byte)
  /\ off \in Nat /\ off <= Len(b)
  /\ d = <<>> => f = 0 /\ l.ctx = "text" /\ l.depth = 0
  /\ d # <<>> => /\ f < Len(Head(d))
                 /\ l.ctx = Mode(Head(d), f)
                 /\ l.depth = Level(Head(d), f)
  /\ off < Len(b) => l.off = off
  /\ Cat(From(b, off), w) = From(FlattenSeq(d), f)

(* Objects are sequences of bytes.                                         *)
LEMMA DueType ==
  ASSUME NEW d \in Seq(Objects)
  PROVE  d \in Seq(Seq(Byte))
<1>1. Objects \subseteq Seq(Byte)
  BY ReceiveAssumption, ObjectBytes
<1>2. \A i \in 1..Len(d) : d[i] \in Seq(Byte)
  <2>1. \A i \in 1..Len(d) : d[i] \in Objects
    OBVIOUS
  <2> QED
    BY <1>1, <2>1
<1>3. d = [i \in 1..Len(d) |-> d[i]] /\ Len(d) \in Nat
  OBVIOUS
<1> QED
  BY <1>2, <1>3, SeqDef

(* Bytes that are left are those of an object that is due.                 *)
LEMMA SomeDue ==
  ASSUME NEW d, NEW f, NEW w, NEW b, NEW off, NEW l, Feed(d, f, w, b, off, l), off < Len(b)
  PROVE  d # <<>>
<1>1. PICK m \in Nat, q \in Nat : m = Len(b) /\ q = m - off /\ q # 0
  <2>1. PICK m \in Nat : m = Len(b)
    BY DEF Feed
  <2>2. off \in Nat /\ off < m
    BY <2>1 DEF Feed
  <2>3. m - off \in Nat /\ m - off # 0
    BY <2>2
  <2> QED
    BY <2>1, <2>3
<1>2. Cut(Byte, b, m, off, q)
  BY <1>1 DEF Feed, Cut
<1>3. From(b, off) \in Seq(Byte) /\ Len(From(b, off)) = q
  BY <1>2, FromLength
<1>4. PICK k \in Nat : k = Len(w)
  BY DEF Feed
<1>5. Two(Byte, From(b, off), w, q, k, q + k)
  BY <1>3, <1>4 DEF Feed, Two
<1>6. Len(Cat(From(b, off), w)) = q + k
  BY <1>5, JoinedLength
<1> SUFFICES ASSUME d = <<>> PROVE FALSE
  OBVIOUS
<1>7. Cat(From(b, off), w) = From(<<>>, 0)
  BY FlattenNone DEF Feed
<1>8. From(<<>>, 0) = <<>>
  <2>1. <<>> \in Seq(Byte)
    OBVIOUS
  <2> QED
    BY <2>1, FromEnds
<1>9. q + k = 0
  BY <1>6, <1>7, <1>8
<1> QED
  BY <1>1, <1>9

(* lexer_prescan(): how far it comes, and what it leaves.                  *)
LEMMA PrescanFeed ==
  ASSUME NEW d, NEW f, NEW w, NEW b, NEW off, NEW l, Feed(d, f, w, b, off, l), off < Len(b)
  PROVE  \E n \in Nat : \E end \in LexType :
           /\ Prescan(b, off, l) = end
           /\ end.off = off + n
           /\ f + n = Len(Head(d)) => Feed(Tail(d), 0, w, b, off + n, end)
           /\ f + n # Len(Head(d)) => Feed(d, f + n, w, b, off + n, end)
<1> DEFINE o == Head(d)
           R == FlattenSeq(Tail(d))
           S == From(b, off)
           T == From(o, f)
<1>1. d # <<>>
  BY SomeDue
<1>2. o \in Objects /\ Tail(d) \in Seq(Objects) /\ d \in Seq(Objects)
  BY <1>1 DEF Feed
<1>3. IsObject(o)
  BY <1>2, ReceiveAssumption
<1>4. o \in Seq(Byte) /\ R \in Seq(Byte) /\ FlattenSeq(d) = Cat(o, R)
  <2>1. d \in Seq(Seq(Byte)) /\ Tail(d) \in Seq(Seq(Byte))
    BY <1>2, DueType
  <2>2. FlattenSeq(Tail(d)) \in Seq(Byte)
    BY <2>1, FlattenType
  <2>3. FlattenSeq(d) = Cat(Head(d), FlattenSeq(Tail(d)))
    BY <1>1, <2>1, FlattenHead
  <2>4. o \in Seq(Byte)
    BY <1>3, ObjectBytes
  <2> QED
    BY <2>2, <2>3, <2>4
<1>5. PICK m \in Nat, k \in Nat, u \in Nat : m = Len(b) /\ k = Len(o) /\ u = Len(w)
  BY <1>4 DEF Feed
<1>6. /\ f \in Nat /\ f < k /\ off \in Nat /\ off < m
      /\ w \in Seq(Byte) /\ b \in Seq(Byte)
      /\ l.ctx = Mode(o, f) /\ l.depth = Level(o, f) /\ l.off = off
      /\ Cat(S, w) = From(Cat(o, R), f)
  BY <1>1, <1>4, <1>5 DEF Feed
<1> HIDE DEF o, R
<1>7. PICK q \in Nat, p \in Nat : q = m - off /\ p = k - f
  <2>1. m - off \in Nat /\ k - f \in Nat
    BY <1>6
  <2> QED
    BY <2>1
<1>8. Cut(Byte, b, m, off, q) /\ Cut(Byte, o, k, f, p)
  BY <1>4, <1>5, <1>6, <1>7 DEF Cut
<1>9. /\ S \in Seq(Byte) /\ Len(S) = q
      /\ T \in Seq(Byte) /\ Len(T) = p /\ \A i \in 1..p : T[i] = o[f + i]
  BY <1>8, FromLength
<1>10. Cat(S, w) = Cat(T, R)
  <2>1. From(Cat(o, R), f) = Cat(From(o, f), R)
    BY <1>4, <1>8, FromJoined
  <2> QED
    BY <1>6, <2>1
<1>11. PICK n \in Nat : n = IF f + q <= k THEN q ELSE p
  OBVIOUS
<1>12. n <= q /\ n <= p /\ f + n <= k /\ off + n <= m /\ q - n \in Nat /\ p - n \in Nat
  BY <1>6, <1>7, <1>11
<1> HIDE DEF S, T
<1>13. Common(o, f, S, n)
  <2>1. PICK v \in Nat : v = Len(R)
    BY <1>4
  <2>2. Two(Byte, S, w, q, u, q + u) /\ Two(Byte, T, R, p, v, p + v)
    BY <1>4, <1>5, <1>6, <1>9, <2>1 DEF Two
  <2>3. /\ \A i \in 1..q : Cat(S, w)[i] = S[i]
        /\ \A i \in 1..p : Cat(T, R)[i] = T[i]
    BY <2>2, JoinedLength
  <2>4. ASSUME NEW j \in 1..n PROVE S[j] = o[f + j]
    <3>1. j \in 1..q /\ j \in 1..p
      BY <1>12
    <3> QED
      BY <1>9, <1>10, <2>3, <3>1
  <2>5. n = IF f + Len(S) <= Len(o) THEN Len(S) ELSE Len(o) - f
    BY <1>5, <1>7, <1>9, <1>11
  <2> QED
    BY <2>4, <2>5 DEF Common
<1> DEFINE end == [ctx |-> Mode(o, f + n), depth |-> Level(o, f + n), off |-> off + n]
<1>14. Prescan(b, off, l) = end
  <2>1. /\ Lexed(l, S).ctx = Mode(o, f + n) /\ Lexed(l, S).depth = Level(o, f + n)
        /\ Lexed(l, S).off = l.off + n
    <3>1. f < Len(o) /\ f \in Nat /\ l.off \in Nat /\ l.ctx = Mode(o, f) /\ l.depth = Level(o, f)
      BY <1>5, <1>6
    <3>2. S \in Seq(Byte)
      BY <1>9
    <3> QED
      BY <1>3, <1>13, <3>1, <3>2, LexedState
  <2>2. ~(off < l.off)
    BY <1>6
  <2>3. SubSeq(b, l.off + 1, Len(b)) = S
    BY <1>6 DEF S, From
  <2> QED
    BY <1>6, <2>1, <2>2, <2>3 DEF Prescan
<1>15. end \in LexType
  <2>1. f + n \in Nat /\ off + n \in Nat
    BY <1>6
  <2>2. Level(o, f + n) \in Int
    BY <2>1, LevelStep
  <2> QED
    BY <2>1, <2>2 DEF LexType, Contexts, Mode
<1>16. /\ Cut(Byte, S, q, n, q - n) /\ Cut(Byte, T, p, n, p - n)
  BY <1>9, <1>12 DEF Cut
<1>17. From(S, n) = From(b, off + n)
  BY <1>8, <1>12, FromFrom DEF S
<1>18. From(T, n) = From(o, f + n)
  BY <1>8, <1>12, FromFrom DEF T
<1>19. Cat(From(b, off + n), w) = Cat(From(o, f + n), R)
  <2>1. From(Cat(S, w), n) = Cat(From(S, n), w)
    BY <1>6, <1>16, FromJoined
  <2>2. From(Cat(T, R), n) = Cat(From(T, n), R)
    BY <1>4, <1>16, FromJoined
  <2> QED
    BY <1>10, <1>17, <1>18, <2>1, <2>2
<1>20. PICK e \in Nat, g \in Nat : e = off + n /\ g = f + n
  BY <1>6
<1>21. e <= Len(b)
  BY <1>5, <1>12, <1>20
<1>22. ASSUME g = k PROVE Feed(Tail(d), 0, w, b, e, end)
  <2>1. From(o, g) = <<>>
    BY <1>4, <1>5, <1>22, FromEnds
  <2>2. Cat(<<>>, R) = R /\ From(R, 0) = R
    BY <1>4, FromEnds DEF Cat
  <2>3. Cat(From(b, e), w) = From(R, 0)
    BY <1>19, <1>20, <2>1, <2>2
  <2>4. end.ctx = "text" /\ end.depth = 0 /\ end.off = e
    BY <1>3, <1>5, <1>20, <1>22, ObjectEnds
  <2>5. ASSUME Tail(d) # <<>>
        PROVE  /\ 0 < Len(Head(Tail(d)))
               /\ Mode(Head(Tail(d)), 0) = "text" /\ Level(Head(Tail(d)), 0) = 0
    <3>1. Head(Tail(d)) \in Objects
      BY <1>2, <2>5
    <3>2. IsObject(Head(Tail(d)))
      BY <3>1, ReceiveAssumption
    <3>3. PICK h : h = Head(Tail(d)) /\ IsObject(h)
      BY <3>2
    <3>4. PICK z \in Nat : z = Len(h) /\ z # 0
      BY <3>3, ObjectBytes
    <3>5. Mode(h, 0) = "text" /\ Level(h, 0) = 0
      BY <3>3, ObjectEnds
    <3>6. 0 < Len(h)
      BY <3>4
    <3> QED
      BY <3>3, <3>5, <3>6
  <2>6. 0 \in Nat
    OBVIOUS
  <2> HIDE DEF end
  <2> QED
    BY <1>2, <1>6, <1>21, <2>3, <2>4, <2>5, <2>6 DEF Feed, R
<1>23. ASSUME g # k PROVE Feed(d, g, w, b, e, end)
  <2>1. PICK r \in Nat : r = k - g
    BY <1>12, <1>20
  <2>2. g <= k
    BY <1>12, <1>20
  <2>3. Cut(Byte, o, k, g, r)
    BY <1>4, <1>5, <2>1, <2>2 DEF Cut
  <2>4. From(Cat(o, R), g) = Cat(From(o, g), R)
    BY <1>4, <2>3, FromJoined
  <2>5. Cat(From(b, e), w) = From(FlattenSeq(d), g)
    BY <1>4, <1>19, <1>20, <2>4
  <2>6. g < Len(Head(d))
    BY <1>5, <1>23, <2>2 DEF o
  <2>7. end.ctx = Mode(Head(d), g) /\ end.depth = Level(Head(d), g) /\ end.off = e
    BY <1>20 DEF o
  <2> HIDE DEF end
  <2> QED
    BY <1>1, <1>2, <1>6, <1>21, <2>5, <2>6, <2>7 DEF Feed
<1>24. end.off = off + n
  OBVIOUS
<1> HIDE DEF end
<1> QED
  BY <1>5, <1>14, <1>15, <1>20, <1>22, <1>23, <1>24 DEF o

(* The state of the stream; without a server there is none.                *)
CutInv ==
  /\ lex \in LexType
  /\ up => Feed(due, fed, toPenn, in_buf, in_off, lex)
  /\ ~up => due = <<>> /\ toPenn = <<>> /\ fed = 0
  /\ fed > 0 => On({"receiving"})
  /\ fed \in Nat

(* The invariant is stronger than the property.                            *)
LEMMA CutInvHolds == CutInv => ObjectsCut
  BY DEF CutInv, ObjectsCut, Feed, From, Cat

(* What is on top after a message was put there.                           *)
LEMMA NewTop ==
  ASSUME IInv, msgs # <<>>, NEW m \in Message, SetTop(m)
  PROVE  msgs' # <<>> /\ Top' = m
<1> DEFINE fs == Front(msgs)
<1>1. fs \in Seq(Message)
  BY TopMessage DEF IInv
<1>2. msgs' = Append(fs, m)
  BY DEF SetTop
<1> HIDE DEF fs
<1>3. /\ Append(fs, m) \in Seq(Message) /\ Len(Append(fs, m)) = Len(fs) + 1
      /\ Append(fs, m)[Len(fs) + 1] = m /\ Len(fs) \in Nat
  BY <1>1, AppendProperties
<1>4. msgs' # <<>>
  BY <1>2, <1>3
<1>5. Last(msgs') = m
  BY <1>2, <1>3 DEF Last
<1> QED
  BY <1>4, <1>5 DEF Top

(* The stream is left alone while no object is half parsed, or while one   *)
(* is and goes on to be.                                                   *)
LEMMA StreamKept ==
  ASSUME CutInv, UNCHANGED <<up, wire, input>>, fed = 0 \/ On({"receiving"})'
  PROVE  CutInv'
<1>1. /\ up' = up /\ toPenn' = toPenn /\ due' = due /\ fed' = fed
      /\ in_buf' = in_buf /\ in_off' = in_off /\ lex' = lex
  BY DEF wire, input
<1>2. fed' > 0 => On({"receiving"})'
  BY <1>1
<1> QED
  BY <1>1, <1>2 DEF CutInv

(* The server is stopped.                                                  *)
LEMMA StreamEnds ==
  ASSUME CutInv, up' = FALSE, toPenn' = <<>>, due' = <<>>, fed' = 0, UNCHANGED input
  PROVE  CutInv'
<1>1. ~(fed' > 0) /\ fed' \in Nat
  OBVIOUS
<1>2. lex' = lex
  BY DEF input
<1> QED
  BY <1>1, <1>2 DEF CutInv

(* No object is half parsed while a message is at another point.           *)
LEMMA NothingFed ==
  ASSUME CutInv, NEW points, On(points), "receiving" \notin points
  PROVE  fed = 0
<1>1. ~On({"receiving"})
  BY DEF On
<1>2. ~(fed > 0) /\ fed \in Nat
  BY <1>1 DEF CutInv
<1> QED
  BY <1>2

(* An object is sent.                                                      *)
LEMMA SendCut ==
  ASSUME CutInv, NEW o \in Objects, Send(o)
  PROVE  CutInv'
<1>1. /\ up /\ up' = up /\ toPenn' = Cat(toPenn, o) /\ due' = Append(due, o) /\ fed' = fed
      /\ in_buf' = in_buf /\ in_off' = in_off /\ lex' = lex /\ msgs' = msgs
  BY DEF Send, input, Cat
<1>2. PICK d \in Seq(Objects), f \in Nat, w \in Seq(Byte), b \in Seq(Byte), off \in Nat :
        d = due /\ f = fed /\ w = toPenn /\ b = in_buf /\ off = in_off
  BY <1>1 DEF CutInv, Feed
<1>3. Feed(d, f, w, b, off, lex)
  BY <1>1, <1>2 DEF CutInv
<1> DEFINE e == Append(d, o)
<1>4. IsObject(o) /\ o \in Seq(Byte)
  BY ReceiveAssumption, ObjectBytes
<1>5. e \in Seq(Objects) /\ e # <<>> /\ Head(e) = IF d = <<>> THEN o ELSE Head(d)
  <2>1. e \in Seq(Objects) /\ e # <<>>
    OBVIOUS
  <2>2. d = <<>> => e[1] = o
    OBVIOUS
  <2>3. d # <<>> => e[1] = d[1]
    OBVIOUS
  <2> QED
    BY <2>1, <2>2, <2>3
<1>6. FlattenSeq(e) = Cat(FlattenSeq(d), o) /\ FlattenSeq(d) \in Seq(Byte)
  <2>1. d \in Seq(Seq(Byte))
    BY DueType
  <2> QED
    BY <1>4, <2>1, FlattenAppend, FlattenType
<1> HIDE DEF e
<1>7. f < Len(Head(e)) /\ lex.ctx = Mode(Head(e), f) /\ lex.depth = Level(Head(e), f)
  <2>1. CASE d = <<>>
    <3>1. f = 0 /\ lex.ctx = "text" /\ lex.depth = 0
      BY <1>3, <2>1 DEF Feed
    <3>2. PICK z \in Nat : z = Len(o) /\ z # 0
      BY <1>4, ObjectBytes
    <3>3. 0 < Len(o)
      BY <3>2
    <3>4. Mode(o, 0) = "text" /\ Level(o, 0) = 0
      BY <1>4, ObjectEnds
    <3> QED
      BY <1>5, <2>1, <3>1, <3>3, <3>4
  <2>2. CASE d # <<>>
    BY <1>3, <1>5, <2>2 DEF Feed
  <2> QED
    BY <2>1, <2>2
<1>8. PICK g \in Seq(Byte), k \in Nat : g = FlattenSeq(d) /\ k = Len(g)
  BY <1>6
<1>9. f <= k
  <2>1. CASE d = <<>>
    <3>1. f = 0
      BY <1>3, <2>1 DEF Feed
    <3> QED
      BY <3>1
  <2>2. CASE d # <<>>
    <3>1. d \in Seq(Seq(Byte))
      BY DueType
    <3>2. g = Cat(Head(d), FlattenSeq(Tail(d)))
      BY <1>8, <2>2, <3>1, FlattenHead
    <3>3. Head(d) \in Seq(Byte) /\ Tail(d) \in Seq(Seq(Byte))
      BY <2>2, <3>1
    <3>4. PICK x \in Seq(Byte), y \in Seq(Byte) : x = Head(d) /\ y = FlattenSeq(Tail(d))
      BY <3>3, FlattenType
    <3>5. PICK i \in Nat, j \in Nat : i = Len(x) /\ j = Len(y)
      BY <3>4
    <3>6. Two(Byte, x, y, i, j, i + j)
      BY <3>5 DEF Two
    <3>7. k = i + j
      BY <1>8, <3>2, <3>4, <3>6, JoinedLength
    <3>8. f < i
      BY <1>3, <2>2, <3>4, <3>5 DEF Feed
    <3> QED
      BY <3>7, <3>8
  <2> QED
    BY <2>1, <2>2
<1>10. PICK q \in Nat, m \in Nat, p \in Nat : q = k - f /\ m = Len(b) /\ p = m - off
  <2>1. k - f \in Nat
    BY <1>9
  <2>2. PICK m \in Nat : m = Len(b)
    OBVIOUS
  <2>3. off <= m
    BY <1>3, <2>2 DEF Feed
  <2>4. m - off \in Nat
    BY <2>3
  <2> QED
    BY <2>1, <2>2, <2>4
<1>11. Cut(Byte, g, k, f, q)
  BY <1>8, <1>9, <1>10 DEF Cut
<1>12. From(Cat(g, o), f) = Cat(From(g, f), o)
  BY <1>4, <1>11, FromJoined
<1>13. Cat(From(b, off), Cat(w, o)) = From(FlattenSeq(e), f)
  <2>1. off <= m
    BY <1>3, <1>10 DEF Feed
  <2>2. Cut(Byte, b, m, off, p)
    BY <1>10, <2>1 DEF Cut
  <2>3. PICK x \in Seq(Byte) : x = From(b, off)
    BY <2>2, FromLength
  <2>4. Cat(Cat(x, w), o) = Cat(x, Cat(w, o))
    BY <1>4, Regrouped
  <2>5. Cat(x, w) = From(g, f)
    BY <1>3, <1>8, <2>3 DEF Feed
  <2> QED
    BY <1>6, <1>8, <1>12, <2>3, <2>4, <2>5
<1>14. Cat(w, o) \in Seq(Byte)
  BY <1>4 DEF Cat
<1>15. Feed(e, f, Cat(w, o), b, off, lex)
  BY <1>3, <1>5, <1>7, <1>13, <1>14 DEF Feed
<1>16. Feed(due, fed, toPenn, in_buf, in_off, lex)'
  BY <1>1, <1>2, <1>15 DEF e
<1>17. On({"receiving"})' = On({"receiving"})
  BY <1>1 DEF On, Top
<1> QED
  BY <1>1, <1>16, <1>17 DEF CutInv

(* Once around the loop: what is in the buffer is parsed up to the end of  *)
(* the object, or all of it.                                               *)
LEMMA AroundCut ==
  ASSUME CutInv, IInv, On({"receiving"}), up, up' = up,
         NEW b, NEW off, NEW l, Feed(due, fed, toPenn', b, off, l), off < Len(b), Around(b, off, l)
  PROVE  CutInv'
<1>1. PICK n \in Nat, end \in LexType :
        /\ Prescan(b, off, l) = end
        /\ end.off = off + n
        /\ fed + n = Len(Head(due)) => Feed(Tail(due), 0, toPenn', b, off + n, end)
        /\ fed + n # Len(Head(due)) => Feed(due, fed + n, toPenn', b, off + n, end)
  BY PrescanFeed
<1>2. off \in Nat /\ fed \in Nat
  BY DEF Feed
<1>3. PICK now \in Nat : now = fed + n
  BY <1>2
<1>4. fed + end.off - off = now
  <2>1. fed + (off + n) - off = fed + n
    BY <1>2
  <2> QED
    BY <1>1, <1>3, <2>1
<1>5. /\ in_buf' = b /\ in_off' = off + n /\ lex' = end
      /\ IF now = Len(Head(due))
           THEN fed' = 0 /\ due' = Tail(due) /\ SetTop([Top EXCEPT !.at = "parsed"])
           ELSE fed' = now /\ due' = due /\ msgs' = msgs
  BY <1>1, <1>4 DEF Around
<1>6. CASE now = Len(Head(due))
  <2>1. Feed(due', fed', toPenn', in_buf', in_off', lex')
    BY <1>1, <1>3, <1>5, <1>6
  <2>2. fed' = 0 /\ fed' \in Nat /\ ~(fed' > 0)
    BY <1>5, <1>6
  <2> QED
    BY <1>5, <2>1, <2>2 DEF CutInv
<1>7. CASE now # Len(Head(due))
  <2>1. Feed(due', fed', toPenn', in_buf', in_off', lex')
    BY <1>1, <1>3, <1>5, <1>7
  <2>2. On({"receiving"})'
    BY <1>5, <1>7 DEF On, Top
  <2>3. fed' \in Nat
    BY <1>5, <1>7
  <2> QED
    BY <1>5, <2>1, <2>2, <2>3 DEF CutInv
<1> QED
  BY <1>6, <1>7

(* What is left in the buffer is parsed.                                   *)
LEMMA MoreOfBufferCut == ASSUME CutInv, IInv, MoreOfBuffer PROVE CutInv'
<1>1. /\ On({"receiving"}) /\ up /\ up' = up /\ in_off < Len(in_buf)
      /\ Around(in_buf, in_off, lex) /\ toPenn' = toPenn
  BY DEF MoreOfBuffer
<1>2. Feed(due, fed, toPenn', in_buf, in_off, lex)
  BY <1>1 DEF CutInv
<1> QED
  BY <1>1, <1>2, AroundCut

(* read() gives some of the bytes in the socket, and they are parsed.      *)
LEMMA ReadCut == ASSUME CutInv, IInv, NEW n \in 1..BufferSize, n <= Len(toPenn), Read(n) PROVE CutInv'
<1> DEFINE b == SubSeq(toPenn, 1, n)
           l == [lex EXCEPT !.off = 0]
<1>1. /\ On({"receiving"}) /\ up /\ up' = up /\ in_off = Len(in_buf)
      /\ toPenn' = From(toPenn, n) /\ Around(b, 0, l)
  BY DEF Read, From
<1>2. Feed(due, fed, toPenn, in_buf, in_off, lex) /\ lex \in LexType
  BY <1>1 DEF CutInv
<1>3. PICK w \in Seq(Byte), m \in Nat : w = toPenn /\ m = Len(w)
  BY <1>2 DEF Feed
<1>4. n \in Nat /\ n # 0 /\ n <= m
  BY <1>3, ReceiveAssumption
<1>5. PICK p \in Nat : p = m - n
  <2>1. m - n \in Nat
    BY <1>4
  <2> QED
    BY <2>1
<1>6. Cut(Byte, w, m, n, p)
  BY <1>3, <1>4, <1>5 DEF Cut
<1>7. /\ b \in Seq(Byte) /\ Len(b) = n /\ Cat(b, From(w, n)) = w
      /\ From(w, n) \in Seq(Byte)
  BY <1>3, <1>6, Parted, FromLength
<1>8. From(b, 0) = b
  BY <1>7, FromEnds
<1>9. From(in_buf, in_off) = <<>>
  BY <1>1, <1>2, FromEnds DEF Feed
<1>10. w = From(FlattenSeq(due), fed)
  <2>1. Cat(<<>>, w) = From(FlattenSeq(due), fed)
    BY <1>2, <1>3, <1>9 DEF Feed
  <2>2. Cat(<<>>, w) = w
    BY DEF Cat
  <2> QED
    BY <2>1, <2>2
<1>11. l.ctx = lex.ctx /\ l.depth = lex.depth /\ l.off = 0
  BY <1>2 DEF LexType
<1>12. 0 \in Nat /\ 0 <= Len(b) /\ 0 < Len(b)
  BY <1>4, <1>7
<1> HIDE DEF b, l
<1>13. Feed(due, fed, toPenn', b, 0, l)
  BY <1>1, <1>2, <1>3, <1>7, <1>8, <1>10, <1>11, <1>12 DEF Feed
<1>14. PICK z : z = 0
  OBVIOUS
<1>15. Feed(due, fed, toPenn', b, z, l) /\ z < Len(b) /\ Around(b, z, l)
  BY <1>1, <1>12, <1>13, <1>14
<1> QED
  BY <1>1, <1>15, AroundCut

(* A string is stored, or cannot be, while the message is where it was.    *)
LEMMA StringCut ==
  ASSUME CutInv, IInv, On({"receiving", "parsed"}), UNCHANGED <<up, wire, input>>,
         NEW m \in Message, SetTop(m), m.at = Top.at
  PROVE  CutInv'
<1>1. msgs' # <<>> /\ Top' = m
  BY NewTop DEF On
<1>2. CASE Top.at = "receiving"
  <2>1. On({"receiving"})'
    BY <1>1, <1>2 DEF On
  <2> QED
    BY <2>1, StreamKept
<1>3. CASE Top.at # "receiving"
  <2>1. On({"parsed"})
    BY <1>3 DEF On
  <2>2. fed = 0
    BY <2>1, NothingFed
  <2> QED
    BY <2>2, StreamKept
<1> QED
  BY <1>2, <1>3

(* A call begins, which may start the server.                              *)
LEMMA CallCut == ASSUME CutInv, Call PROVE CutInv'
<1>1. fed = 0
  <2>1. ~On({"receiving"})
    BY DEF Call, On
  <2>2. ~(fed > 0) /\ fed \in Nat
    BY <2>1 DEF CutInv
  <2> QED
    BY <2>2
<1>2. CASE up
  <2>1. UNCHANGED <<up, wire, input>>
    BY <1>2 DEF Call, CutInv
  <2> QED
    BY <1>1, <2>1, StreamKept
<1>3. CASE ~up
  <2>1. /\ up' = TRUE /\ in_buf' = <<>> /\ in_off' = 0
        /\ lex' = [lex EXCEPT !.ctx = "text", !.depth = 0]
        /\ toPenn' = <<>> /\ due' = <<>> /\ fed' = 0
    BY <1>3 DEF Call, CutInv, wire
  <2>2. lex' \in LexType /\ lex'.ctx = "text" /\ lex'.depth = 0
    <3>1. PICK r \in LexType : r = lex
      BY DEF CutInv
    <3>2. PICK s \in LexType : s = [r EXCEPT !.ctx = "text"] /\ s.ctx = "text"
      <4>1. [r EXCEPT !.ctx = "text"] \in LexType /\ [r EXCEPT !.ctx = "text"].ctx = "text"
        BY DEF LexType, Contexts
      <4> QED
        BY <4>1
    <3>3. /\ [s EXCEPT !.depth = 0] \in LexType
          /\ [s EXCEPT !.depth = 0].ctx = s.ctx /\ [s EXCEPT !.depth = 0].depth = 0
      BY DEF LexType
    <3>4. lex' = [s EXCEPT !.depth = 0]
      <4>1. [r EXCEPT !.ctx = "text", !.depth = 0] = [[r EXCEPT !.ctx = "text"] EXCEPT !.depth = 0]
        BY DEF LexType
      <4> QED
        BY <2>1, <3>1, <3>2, <4>1
    <3> QED
      BY <3>2, <3>3, <3>4
  <2>3. <<>> \in Seq(Byte) /\ <<>> \in Seq(Objects) /\ Len(<<>>) = 0
    OBVIOUS
  <2>4. From(<<>>, 0) = <<>>
    BY <2>3, FromEnds
  <2>5. Cat(From(<<>>, 0), <<>>) = From(FlattenSeq(<<>>), 0)
    BY <2>4, FlattenNone DEF Cat
  <2>6. 0 \in Nat /\ 0 <= 0 /\ ~(0 < 0) /\ ~(0 > 0)
    OBVIOUS
  <2>7. Feed(<<>>, 0, <<>>, <<>>, 0, lex')
    BY <2>2, <2>3, <2>5, <2>6 DEF Feed
  <2> QED
    BY <2>1, <2>2, <2>6, <2>7 DEF CutInv
<1> QED
  BY <1>2, <1>3 DEF CutInv

(* What storing a string makes of the message on top.                      *)
LEMMA StoredTop ==
  ASSUME IInv, StoreString
  PROVE  \/ SetTop([Top EXCEPT !.error = TRUE])
         \/ \E b \in Buffers : SetTop([Top EXCEPT !.buf = b])
<1>1. PICK p \in IF internal = NULL THEN Pools \ DOMAIN pools ELSE {internal} :
        LET ps == IF internal = NULL
                    THEN With(pools, p, [refs |-> 1, available |-> <<>>])
                    ELSE pools
            free == ps[p].available
        IN \/ free # <<>> /\ SetTop([Top EXCEPT !.buf = Head(free)])
           \/ \E b \in Buffers \ DOMAIN poolOf : SetTop([Top EXCEPT !.buf = b])
           \/ SetTop([Top EXCEPT !.error = TRUE])
  BY DEF StoreString
<1>2. CASE internal = NULL
  <2>1. With(pools, p, [refs |-> 1, available |-> <<>>])[p].available = <<>>
    BY DEF With
  <2> QED
    BY <1>1, <1>2, <2>1
<1>3. CASE internal # NULL
  <2>1. p \in DOMAIN pools /\ pools \in [DOMAIN pools -> Pool]
    BY <1>1, <1>3 DEF IInv, HeapInv, HeapType
  <2>2. pools[p].available \in Seq(Buffers)
    BY <2>1 DEF Pool
  <2>3. pools[p].available # <<>> => Head(pools[p].available) \in Buffers
    BY <2>2, HeadTailProperties
  <2> QED
    BY <1>1, <1>3, <2>3
<1> QED
  BY <1>2, <1>3

(* Every step keeps the state of the stream.                               *)
LEMMA NextCut == IInv /\ CutInv /\ [Next]_vars => CutInv'
<1> SUFFICES ASSUME IInv, CutInv, [Next]_vars PROVE CutInv'
  OBVIOUS
<1>1. ASSUME NEW o \in Objects, Send(o) PROVE CutInv'
  BY <1>1, SendCut
<1>2. CASE Call
  BY <1>2, CallCut
<1>3. CASE Solicit
  <2>1. ~On({"receiving"})
    BY <1>3 DEF Solicit, On
  <2>2. ~(fed > 0) /\ fed \in Nat
    BY <2>1 DEF CutInv
  <2> QED
    BY <1>3, <2>2, StreamKept DEF Solicit
<1>4. ASSUME NEW n \in 1..BufferSize, n <= Len(toPenn), Read(n) PROVE CutInv'
  BY <1>4, ReadCut
<1>5. CASE MoreOfBuffer
  BY <1>5, MoreOfBufferCut
<1>6. CASE StoreString
  <2>1. msgs # <<>> /\ Top \in Message
    BY <1>6, TopMessage DEF StoreString, On, IInv, Top
  <2>2. \/ SetTop([Top EXCEPT !.error = TRUE])
        \/ \E b \in Buffers : SetTop([Top EXCEPT !.buf = b])
    BY <1>6, StoredTop
  <2>3. /\ [Top EXCEPT !.error = TRUE] \in Message /\ [Top EXCEPT !.error = TRUE].at = Top.at
        /\ \A b \in Buffers :
             [Top EXCEPT !.buf = b] \in Message /\ [Top EXCEPT !.buf = b].at = Top.at
    BY <2>1 DEF Message
  <2> QED
    BY <1>6, <2>2, <2>3, StringCut DEF StoreString
<1>7. CASE NoPool
  <2>1. msgs # <<>> /\ Top \in Message
    BY <1>7, TopMessage DEF NoPool, On, IInv, Top
  <2>2. [Top EXCEPT !.error = TRUE] \in Message /\ [Top EXCEPT !.error = TRUE].at = Top.at
    BY <2>1 DEF Message
  <2> QED
    BY <1>7, <2>2, StringCut DEF NoPool
<1>8. ASSUME ClearAndStop PROVE CutInv'
  BY <1>8, StreamEnds DEF ClearAndStop
<1>9. ASSUME UNCHANGED <<up, wire, input>>, NEW points, On(points), "receiving" \notin points
      PROVE  CutInv'
  <2>1. fed = 0
    BY <1>9, NothingFed
  <2> QED
    BY <1>9, <2>1, StreamKept
<1>10. CASE ReceiveFails
  BY <1>8, <1>10 DEF ReceiveFails
<1>11. CASE Received
  <2>1. On({"parsed"}) /\ UNCHANGED <<up, wire, input>> /\ "receiving" \notin {"parsed"}
    BY <1>11 DEF Received
  <2> QED
    BY <1>9, <2>1
<1>12. CASE Solicited
  <2>1. CASE ClearAndStop
    BY <1>8, <2>1
  <2>2. CASE UNCHANGED <<up, wire, input>>
    <3>1. On({"parsed"}) /\ "receiving" \notin {"parsed"}
      BY <1>12 DEF Solicited
    <3> QED
      BY <1>9, <2>2, <3>1
  <2> QED
    BY <1>12, <2>1, <2>2 DEF Solicited
<1>13. CASE Serve
  <2>1. On({"serving"}) /\ UNCHANGED <<up, wire, input>> /\ "receiving" \notin {"serving"}
    BY <1>13 DEF Serve
  <2> QED
    BY <1>9, <2>1
<1>14. CASE ServeFails
  BY <1>8, <1>14 DEF ServeFails
<1>15. CASE Answered
  <2>1. On({"answered"}) /\ UNCHANGED <<up, wire, input>> /\ "receiving" \notin {"answered"}
    BY <1>15 DEF Answered
  <2> QED
    BY <1>9, <2>1
<1>16. CASE Stop
  BY <1>16, StreamEnds DEF Stop
<1>17. CASE UNCHANGED vars
  <2>1. UNCHANGED <<up, wire, input>> /\ msgs' = msgs
    BY <1>17 DEF vars
  <2>2. fed = 0 \/ On({"receiving"})
    <3>1. fed \in Nat /\ (fed > 0 => On({"receiving"}))
      BY DEF CutInv
    <3> QED
      BY <3>1
  <2>3. On({"receiving"}) => On({"receiving"})'
    BY <2>1 DEF On, Top
  <2> QED
    BY <2>1, <2>2, <2>3, StreamKept
<1> QED
  BY <1>1, <1>2, <1>3, <1>4, <1>5, <1>6, <1>7, <1>10, <1>11, <1>12, <1>13, <1>14, <1>15, <1>16, <1>17
  DEF Next

(* At first there is no server.                                            *)
LEMMA InitCut == Init => CutInv
<1> SUFFICES ASSUME Init PROVE CutInv
  OBVIOUS
<1>1. 0 \in Nat /\ ~(0 > 0)
  OBVIOUS
<1> QED
  BY <1>1 DEF Init, CutInv, LexType, Contexts

(* However read() chunks the stream, and wherever calls are nested and     *)
(* servers stopped, YAJL gets each object by itself and up to its end, and *)
(* no byte is lost or parsed twice: lexer_prescan() and the loop of        *)
(* json_server_receive(), for all well-formed objects.                     *)
THEOREM ObjectsAreCut == Spec => []ObjectsCut
<1>1. IInv /\ CutInv /\ [Next]_vars => (IInv /\ CutInv)'
  BY NextInv, NextCut
<1>2. Init => IInv /\ CutInv
  BY InitInv, InitCut
<1>3. IInv /\ CutInv => ObjectsCut
  BY CutInvHolds
<1> QED
  BY <1>1, <1>2, <1>3, PTL DEF Spec
=============================================================================
