---------------------------- MODULE QueueLemmas -----------------------------
(***************************************************************************)
(* Lemmas about queues, for the proofs about the probes: the ring buffers  *)
(* of the eBPF programs and the channels of the observers; about induction *)
(* over numbers; and about the parts of a sequence.                        *)
(***************************************************************************)
EXTENDS Integers, Sequences, SequenceTheorems, WellFoundedInduction, TLAPS

(* What a queue holds.                                                     *)
Elements(s) == {s[n] : n \in DOMAIN s}

(* To append adds an element.                                              *)
LEMMA AppendElements ==
    ASSUME NEW S, NEW s \in Seq(S), NEW x \in S
    PROVE  /\ Append(s, x) \in Seq(S) /\ Len(Append(s, x)) = Len(s) + 1
           /\ Elements(Append(s, x)) = Elements(s) \cup {x}
<1> DEFINE a == Append(s, x)
<1>1. /\ a \in Seq(S) /\ Len(a) = Len(s) + 1 /\ Len(s) \in Nat
      /\ DOMAIN a = 1..Len(s) + 1 /\ DOMAIN s = 1..Len(s)
  OBVIOUS
<1>2. a[Len(s) + 1] = x /\ \A n \in 1..Len(s) : a[n] = s[n]
  OBVIOUS
<1>3. \A n \in DOMAIN a : n \in DOMAIN s \/ n = Len(s) + 1
  BY <1>1
<1> HIDE DEF a
<1>4. {a[n] : n \in DOMAIN a} = {s[n] : n \in DOMAIN s} \cup {x}
  BY <1>1, <1>2, <1>3
<1> QED BY <1>1, <1>4 DEF a, Elements

(* To take the head leaves the others.                                     *)
LEMMA TailElements ==
    ASSUME NEW S, NEW s \in Seq(S), s # <<>>
    PROVE  /\ Head(s) \in S /\ Tail(s) \in Seq(S) /\ Len(Tail(s)) = Len(s) - 1
           /\ Elements(s) = {Head(s)} \cup Elements(Tail(s)) /\ Len(s) \in Nat
<1> DEFINE u == Tail(s)
           h == Head(s)
<1>1. /\ h \in S /\ u \in Seq(S) /\ Len(u) = Len(s) - 1 /\ Len(s) \in Nat \ {0}
      /\ \A n \in 1..Len(u) : u[n] = s[n + 1]
      /\ DOMAIN s = 1..Len(s) /\ DOMAIN u = 1..Len(u)
  BY HeadTailProperties, EmptySeq, LenProperties
<1>2. h = s[1]
  OBVIOUS
<1> HIDE DEF u, h
<1>3. \A n \in DOMAIN s : s[n] = h \/ (n - 1 \in DOMAIN u /\ s[n] = u[n - 1])
  BY <1>1, <1>2
<1>4. \A n \in DOMAIN u : n + 1 \in DOMAIN s /\ u[n] = s[n + 1]
  BY <1>1
<1>5. 1 \in DOMAIN s
  BY <1>1
<1>6. \A x \in {s[n] : n \in DOMAIN s} : x \in {h} \cup {u[n] : n \in DOMAIN u}
  BY <1>3
<1>7. \A x \in {h} \cup {u[n] : n \in DOMAIN u} : x \in {s[n] : n \in DOMAIN s}
  BY <1>2, <1>4, <1>5
<1> QED BY <1>1, <1>6, <1>7 DEF u, h, Elements

(* What a queue holds is of its type.                                      *)
LEMMA ElementsType == ASSUME NEW S, NEW s \in Seq(S) PROVE Elements(s) \subseteq S
BY ElementOfSeq, LenProperties DEF Elements

(* What moves from the head of one queue to the end of another keeps its   *)
(* place.                                                                  *)
LEMMA MoveHead ==
    ASSUME NEW S, NEW s \in Seq(S), NEW u \in Seq(S), u # <<>>
    PROVE  Append(s, Head(u)) \o Tail(u) = s \o u
<1>1. /\ Head(u) \in S /\ Tail(u) \in Seq(S) /\ Len(Tail(u)) = Len(u) - 1
      /\ \A i \in 1..Len(Tail(u)) : Tail(u)[i] = u[i + 1]
      /\ Len(u) \in Nat \ {0} /\ Len(s) \in Nat
  BY HeadTailProperties, EmptySeq, LenProperties
<1>2. Head(u) = u[1]
  OBVIOUS
<1> DEFINE a == Append(s, Head(u))
           v == Tail(u)
<1>3. /\ a \in Seq(S) /\ Len(a) = Len(s) + 1 /\ a[Len(s) + 1] = u[1]
      /\ \A i \in 1..Len(s) : a[i] = s[i]
  BY <1>1, <1>2
<1>4. v \in Seq(S) /\ Len(v) = Len(u) - 1 /\ \A i \in 1..Len(v) : v[i] = u[i + 1]
  BY <1>1
<1> HIDE DEF a, v
<1>5. /\ a \o v \in Seq(S) /\ Len(a \o v) = Len(a) + Len(v)
      /\ \A i \in 1..(Len(a) + Len(v)) : (a \o v)[i] = IF i <= Len(a) THEN a[i] ELSE v[i - Len(a)]
  BY <1>3, <1>4, ConcatProperties
<1>6. /\ s \o u \in Seq(S) /\ Len(s \o u) = Len(s) + Len(u)
      /\ \A i \in 1..(Len(s) + Len(u)) : (s \o u)[i] = IF i <= Len(s) THEN s[i] ELSE u[i - Len(s)]
  BY ConcatProperties
<1>7. \A i \in 1..(Len(s) + Len(u)) : (a \o v)[i] = (s \o u)[i]
  <2> TAKE i \in 1..(Len(s) + Len(u))
  <2>1. (a \o v)[i] = IF i <= Len(s) + 1 THEN a[i] ELSE v[i - Len(s) - 1]
    BY <1>1, <1>3, <1>4, <1>5
  <2>2. (s \o u)[i] = IF i <= Len(s) THEN s[i] ELSE u[i - Len(s)]
    BY <1>6
  <2>3. CASE i <= Len(s)
    BY <1>1, <1>3, <2>1, <2>2, <2>3
  <2>4. CASE i = Len(s) + 1
    BY <1>1, <1>3, <2>1, <2>2, <2>4
  <2>5. CASE i > Len(s) + 1
    <3> DEFINE j == i - Len(s) - 1
    <3>1. i \in Int /\ i <= Len(s) + Len(u)
      BY <1>1
    <3>2. j \in 1..Len(v) /\ j + 1 = i - Len(s)
      BY <1>1, <1>4, <2>5, <3>1
    <3>3. v[j] = u[j + 1]
      BY <1>4, <3>2
    <3>4. (a \o v)[i] = v[j] /\ (s \o u)[i] = u[i - Len(s)]
      BY <1>1, <2>1, <2>2, <2>5, <3>1
    <3> QED BY <3>2, <3>3, <3>4
  <2>6. i <= Len(s) \/ i = Len(s) + 1 \/ i > Len(s) + 1
    <3>1. i \in Int /\ Len(s) \in Int
      BY <1>1
    <3> QED BY <3>1
  <2> QED BY <2>3, <2>4, <2>5, <2>6
<1>8. Len(a \o v) = Len(s \o u)
  BY <1>1, <1>3, <1>4, <1>5, <1>6
<1>9. a \o v = s \o u
  BY <1>1, <1>5, <1>6, <1>7, <1>8, SeqEqual
<1> QED BY <1>9 DEF a, v

(* Two queues in a row are appended to at the end, and taken from at the   *)
(* front.                                                                  *)
LEMMA ConcatAppend ==
    ASSUME NEW S, NEW s \in Seq(S), NEW u \in Seq(S), NEW x \in S
    PROVE  s \o Append(u, x) = Append(s \o u, x)
OBVIOUS

LEMMA ConcatHead ==
    ASSUME NEW S, NEW s \in Seq(S), NEW u \in Seq(S), s # <<>>
    PROVE  s \o u # <<>> /\ Head(s \o u) = Head(s) /\ Tail(s \o u) = Tail(s) \o u
OBVIOUS

LEMMA ConcatElements ==
    ASSUME NEW S, NEW s \in Seq(S), NEW u \in Seq(S)
    PROVE  Elements(s \o u) = Elements(s) \cup Elements(u)
<1> DEFINE w == s \o u
<1>1. /\ w \in Seq(S) /\ Len(w) = Len(s) + Len(u) /\ Len(s) \in Nat /\ Len(u) \in Nat
      /\ \A i \in 1..(Len(s) + Len(u)) : w[i] = IF i <= Len(s) THEN s[i] ELSE u[i - Len(s)]
      /\ DOMAIN w = 1..Len(w) /\ DOMAIN s = 1..Len(s) /\ DOMAIN u = 1..Len(u)
  BY ConcatProperties, LenProperties
<1> HIDE DEF w
<1>2. \A i \in DOMAIN w : (i \in DOMAIN s /\ w[i] = s[i])
                         \/ (i - Len(s) \in DOMAIN u /\ w[i] = u[i - Len(s)])
  BY <1>1
<1>3. /\ \A i \in DOMAIN s : i \in DOMAIN w /\ w[i] = s[i]
      /\ \A i \in DOMAIN u : i + Len(s) \in DOMAIN w /\ w[i + Len(s)] = u[i]
  BY <1>1
<1>4. \A x \in {w[n] : n \in DOMAIN w} : x \in {s[n] : n \in DOMAIN s} \cup {u[n] : n \in DOMAIN u}
  BY <1>2
<1>5. \A x \in {s[n] : n \in DOMAIN s} \cup {u[n] : n \in DOMAIN u} : x \in {w[n] : n \in DOMAIN w}
  BY <1>3
<1> QED BY <1>4, <1>5 DEF Elements, w

-----------------------------------------------------------------------------
(* Induction, by the least number that fails.                              *)

(* The order of the numbers.                                               *)
Below == {p \in Nat \X Nat : p[1] < p[2]}

(* Every set of numbers that is not empty has a least one.                 *)
LEMMA LeastNat ==
    ASSUME NEW T, T \subseteq Nat, T # {}
    PROVE  \E x \in T : \A y \in T : x <= y
<1>1. IsWellFoundedOn(Below, Nat)
  BY NatLessThanWellFounded DEF OpToRel, Below
<1>2. PICK x \in T : \A y \in T : ~(<<y, x>> \in Below)
  BY <1>1, WFMin
<1>3. ASSUME NEW y \in T PROVE x <= y
  <2>1. <<y, x>> \in Nat \X Nat /\ ~(<<y, x>> \in Below)
    BY <1>2
  <2>2. ~(<<y, x>>[1] < <<y, x>>[2])
    BY <2>1 DEF Below
  <2> QED BY <2>2
<1> QED BY <1>3

(* Induction: a set of numbers that has 0, and with each number the next,  *)
(* has all up to any bound.                                                *)
LEMMA InductionUpTo ==
    ASSUME NEW N \in Nat, NEW S, 0 \in S,
           \A n \in 0..(N - 1) : n \in S => n + 1 \in S
    PROVE  0..N \subseteq S
<1> DEFINE T == {n \in 0..N : n \notin S}
<1>1. SUFFICES ASSUME T # {} PROVE FALSE
  OBVIOUS
<1>2. T \subseteq Nat
  OBVIOUS
<1>3. PICK x \in T : \A y \in T : x <= y
  BY <1>1, <1>2, LeastNat
<1>4. x \in 0..N /\ x # 0
  OBVIOUS
<1>5. x - 1 \in 0..(N - 1) /\ x - 1 \notin T
  BY <1>3, <1>4
<1>6. x - 1 \in S
  BY <1>5
<1>7. (x - 1) + 1 \in S
  BY <1>5, <1>6
<1> QED BY <1>4, <1>7

(* Induction downwards: a set that has a number once it has those above    *)
(* it, up to a bound, has all up to the bound.                             *)
LEMMA InductionDown ==
    ASSUME NEW N \in Nat, NEW S, \A i \in 0..N : (\A j \in (i + 1)..N : j \in S) => i \in S
    PROVE  0..N \subseteq S
<1> DEFINE G == {n \in Nat : \A i \in 0..N : N - i <= n => i \in S}
<1>1. 0 \in G
  <2>1. ASSUME NEW i \in 0..N, N - i <= 0 PROVE i \in S
    <3>1. (i + 1)..N = {}
      BY <2>1
    <3> QED BY <3>1
  <2> QED BY <2>1
<1>2. ASSUME NEW n \in 0..(N - 1), n \in G PROVE n + 1 \in G
  <2>1. ASSUME NEW i \in 0..N, N - i <= n + 1 PROVE i \in S
    <3>1. \A j \in (i + 1)..N : j \in 0..N /\ N - j <= n
      BY <2>1
    <3> QED BY <1>2, <3>1
  <2> QED BY <2>1
<1> HIDE DEF G
<1>3. 0..N \subseteq G
  BY <1>1, <1>2, InductionUpTo
<1>4. N \in G
  BY <1>3
<1>5. \A i \in 0..N : N - i <= N
  OBVIOUS
<1> QED BY <1>4, <1>5 DEF G

-----------------------------------------------------------------------------
(* Sequences in a row, and parts of a sequence.                            *)

(* The elements of two sequences in a row.                                 *)
LEMMA ConcatAt ==
    ASSUME NEW S, NEW a \in Seq(S), NEW b \in Seq(S)
    PROVE  /\ a \o b \in Seq(S) /\ Len(a \o b) = Len(a) + Len(b) /\ Len(a) \in Nat /\ Len(b) \in Nat
           /\ \A i \in 1..Len(a) : (a \o b)[i] = a[i]
           /\ \A i \in 1..Len(b) : (a \o b)[Len(a) + i] = b[i]
<1> DEFINE w == a \o b
<1>1. /\ w \in Seq(S) /\ Len(w) = Len(a) + Len(b) /\ Len(a) \in Nat /\ Len(b) \in Nat
      /\ \A i \in 1..(Len(a) + Len(b)) : w[i] = IF i <= Len(a) THEN a[i] ELSE b[i - Len(a)]
  BY ConcatProperties
<1> HIDE DEF w
<1>2. \A i \in 1..Len(a) : w[i] = a[i]
  BY <1>1
<1>3. ASSUME NEW i \in 1..Len(b) PROVE w[Len(a) + i] = b[i]
  <2> DEFINE j == Len(a) + i
  <2>1. j \in 1..(Len(a) + Len(b)) /\ ~(j <= Len(a)) /\ j - Len(a) = i
    BY <1>1
  <2> HIDE DEF j
  <2>2. w[j] = b[j - Len(a)]
    BY <1>1, <2>1
  <2> QED BY <2>1, <2>2 DEF j
<1> QED BY <1>1, <1>2, <1>3 DEF w

(* A part of a sequence: what is behind a, up to e.                        *)

Part(w, a, e) == SubSeq(w, a + 1, e)

(* Its elements are those of the sequence.                                 *)
LEMMA PartIs ==
    ASSUME NEW S, NEW w \in Seq(S), NEW a \in Nat, NEW e \in a..Len(w)
    PROVE  /\ Part(w, a, e) \in Seq(S) /\ Len(Part(w, a, e)) = e - a
           /\ \A x \in 1..(e - a) : Part(w, a, e)[x] = w[a + x]
<1>1. a + 1 \in Int /\ e \in Int /\ e \in Nat /\ a <= e /\ Len(w) \in Nat /\ \A x \in (a + 1)..e : w[x] \in S
  OBVIOUS
<1>2. /\ Part(w, a, e) \in Seq(S)
      /\ Len(Part(w, a, e)) = IF a + 1 <= e THEN e - (a + 1) + 1 ELSE 0
      /\ \A x \in 1..(e - (a + 1) + 1) : Part(w, a, e)[x] = w[(a + 1) + x - 1]
  BY <1>1, SubSeqProperties DEF Part
<1>3. e - (a + 1) + 1 = e - a /\ \A x \in Int : (a + 1) + x - 1 = a + x
  BY <1>1
<1>4. ~(a + 1 <= e) => e - a = 0
  BY <1>1
<1>5. Len(Part(w, a, e)) = e - a
  BY <1>2, <1>3, <1>4
<1> QED BY <1>2, <1>3, <1>5

(* A part of a part is a part.                                             *)
LEMMA PartOfPart ==
    ASSUME NEW S, NEW w \in Seq(S), NEW a \in Nat, NEW e \in a..Len(w), NEW b \in a..e
    PROVE  Part(Part(w, a, e), b - a, e - a) = Part(w, b, e)
<1> DEFINE p == Part(w, a, e)
           q == Part(p, b - a, e - a)
           r == Part(w, b, e)
<1>1. p \in Seq(S) /\ Len(p) = e - a /\ \A x \in 1..(e - a) : p[x] = w[a + x]
  BY PartIs
<1>2. b \in Nat /\ e \in b..Len(w) /\ b - a \in Nat /\ e - a \in (b - a)..(e - a) /\ (e - a) - (b - a) = e - b
  OBVIOUS
<1>3. r \in Seq(S) /\ Len(r) = e - b /\ \A x \in 1..(e - b) : r[x] = w[b + x]
  BY <1>2, PartIs
<1> HIDE DEF p, r
<1>4. q \in Seq(S) /\ Len(q) = e - b /\ \A x \in 1..(e - b) : q[x] = p[(b - a) + x]
  <2> DEFINE l == b - a
             h == e - a
  <2>1. l \in Nat /\ h \in l..Len(p) /\ h - l = e - b
    BY <1>1, <1>2
  <2> HIDE DEF l, h
  <2>2. /\ Part(p, l, h) \in Seq(S) /\ Len(Part(p, l, h)) = h - l
        /\ \A x \in 1..(h - l) : Part(p, l, h)[x] = p[l + x]
    <3>1. p \in Seq(S) /\ l \in Nat /\ h \in l..Len(p)
      BY <1>1, <2>1
    <3> QED BY <3>1, PartIs
  <2>3. Part(p, l, h) \in Seq(S) /\ Len(Part(p, l, h)) = e - b /\ \A x \in 1..(e - b) : Part(p, l, h)[x] = p[l + x]
    BY <2>1, <2>2
  <2> QED BY <2>3 DEF l, h
<1> HIDE DEF q
<1>5. \A x \in 1..(e - b) : (b - a) + x \in 1..(e - a) /\ a + ((b - a) + x) = b + x
  BY <1>2
<1>6. \A x \in 1..(e - b) : q[x] = r[x]
  BY <1>1, <1>3, <1>4, <1>5
<1> QED BY <1>3, <1>4, <1>6, SeqEqual DEF p, q, r

(* Two parts that meet are one.                                            *)
LEMMA PartConcat ==
    ASSUME NEW S, NEW w \in Seq(S), NEW a \in Nat, NEW e \in a..Len(w), NEW b \in a..e
    PROVE  Part(w, a, b) \o Part(w, b, e) = Part(w, a, e)
<1> DEFINE p == Part(w, a, b)
           q == Part(w, b, e)
           r == Part(w, a, e)
           c == p \o q
<1>1. b \in Nat /\ b \in a..Len(w) /\ e \in b..Len(w) /\ (b - a) + (e - b) = e - a /\ b - a \in Nat
  OBVIOUS
<1>2. /\ p \in Seq(S) /\ Len(p) = b - a /\ \A x \in 1..(b - a) : p[x] = w[a + x]
      /\ q \in Seq(S) /\ Len(q) = e - b /\ \A x \in 1..(e - b) : q[x] = w[b + x]
      /\ r \in Seq(S) /\ Len(r) = e - a /\ \A x \in 1..(e - a) : r[x] = w[a + x]
  BY <1>1, PartIs
<1> HIDE DEF p, q, r
<1>3. /\ c \in Seq(S) /\ Len(c) = Len(p) + Len(q)
      /\ \A x \in 1..Len(p) : c[x] = p[x]
      /\ \A x \in 1..Len(q) : c[Len(p) + x] = q[x]
  <2>1. p \in Seq(S) /\ q \in Seq(S)
    BY <1>2
  <2> QED BY <2>1, ConcatAt
<1> HIDE DEF c
<1>4. Len(c) = Len(r)
  BY <1>1, <1>2, <1>3
<1>5. ASSUME NEW x \in 1..(e - a) PROVE c[x] = r[x]
  <2>1. CASE x <= b - a
    <3>1. x \in 1..(b - a)
      BY <1>1, <2>1
    <3> QED BY <1>2, <1>3, <3>1
  <2>2. CASE x > b - a
    <3> DEFINE y == x - (b - a)
    <3>1. y \in 1..(e - b) /\ (b - a) + y = x /\ b + y = a + x
      BY <1>1, <2>2
    <3> HIDE DEF y
    <3>2. c[(b - a) + y] = w[b + y]
      BY <1>2, <1>3, <3>1
    <3> QED BY <1>2, <3>1, <3>2
  <2> QED BY <1>1, <2>1, <2>2
<1> QED BY <1>2, <1>3, <1>4, <1>5, SeqEqual DEF p, q, r, c

=============================================================================
