-------------------------- MODULE TlsCaptureProofs --------------------------
(***************************************************************************)
(* Proofs about TlsCapture: that what correlate has handled of a task is   *)
(* what the task sent from some request on (StreamFaithful), that Stop     *)
(* leaves no uprobe behind, and the types; and of the parser, for any      *)
(* tokens, that more data do not change a verdict (ParseStable) and that   *)
(* it does not matter where a stream is cut (RequestsCut).                 *)
(*                                                                         *)
(* The recursive functions of the model (FlattenSeq, the chunks of a body, *)
(* the requests in a stream) are shown to exist, and induction is over the *)
(* least number that fails.  From the bottom up: what is flattened and     *)
(* captured; how far the parser reads; what it makes of the requests that  *)
(* clients send; the stream of a script, and what Requests takes from a    *)
(* part of it; any tokens; the invariant; its parts, step by step.         *)
(***************************************************************************)
EXTENDS TlsCapture, QueueLemmas


-----------------------------------------------------------------------------
(* FlattenSeq is a recursive function.                                     *)

FlatStep(q, f, i) == IF i = 1 THEN q[i] ELSE f[i - 1] \o q[i]
Flats(q) == CHOOSE f : f = [i \in 1..Len(q) |-> FlatStep(q, f, i)]

(* It exists.                                                              *)
LEMMA FlatsDef ==
    ASSUME NEW S, NEW q \in Seq(S)
    PROVE  Flats(q) = [i \in 1..Len(q) |-> FlatStep(q, Flats(q), i)]
<1> DEFINE G == {n \in Nat : \E f : f = [i \in 1..n |-> FlatStep(q, f, i)]}
<1>1. Len(q) \in Nat
  OBVIOUS
<1>2. 0 \in G
  <2> DEFINE e == [i \in 1..0 |-> i]
  <2>1. e = [i \in 1..0 |-> FlatStep(q, e, i)]
    OBVIOUS
  <2> QED BY <2>1
<1>3. ASSUME NEW n \in 0..(Len(q) - 1), n \in G PROVE n + 1 \in G
  <2>1. n \in Nat
    BY <1>1
  <2>2. PICK f : f = [i \in 1..n |-> FlatStep(q, f, i)]
    BY <1>3
  <2> DEFINE g == [i \in 1..(n + 1) |-> IF i = n + 1 THEN FlatStep(q, f, i) ELSE f[i]]
  <2>3. ASSUME NEW i \in 1..(n + 1) PROVE g[i] = FlatStep(q, g, i)
    <3>1. i = 1 \/ i - 1 \in 1..n
      BY <2>1
    <3>2. i # 1 => g[i - 1] = f[i - 1]
      BY <2>1, <3>1
    <3>3. FlatStep(q, g, i) = FlatStep(q, f, i)
      BY <3>2 DEF FlatStep
    <3>4. CASE i = n + 1
      BY <3>3, <3>4
    <3>5. CASE i # n + 1
      <4>1. i \in 1..n
        BY <2>1, <3>5
      <4>2. f[i] = FlatStep(q, f, i)
        BY <2>2, <4>1
      <4> QED BY <3>3, <3>5, <4>2
    <3> QED BY <3>4, <3>5
  <2> HIDE DEF g
  <2>4. g = [i \in 1..(n + 1) |-> g[i]]
    BY DEF g
  <2>5. g = [i \in 1..(n + 1) |-> FlatStep(q, g, i)]
    BY <2>3, <2>4
  <2> QED BY <2>1, <2>5
<1> HIDE DEF G
<1>4. 0..Len(q) \subseteq G
  BY <1>1, <1>2, <1>3, InductionUpTo
<1>5. Len(q) \in G
  BY <1>1, <1>4
<1>6. \E f : f = [i \in 1..Len(q) |-> FlatStep(q, f, i)]
  BY <1>5 DEF G
<1> QED BY <1>6 DEF Flats

(* Each of its values comes from the one before.                           *)
LEMMA FlatsAt ==
    ASSUME NEW S, NEW q \in Seq(Seq(S)), NEW i \in 1..Len(q)
    PROVE  Flats(q)[i] = IF i = 1 THEN q[1] ELSE Flats(q)[i - 1] \o q[i]
<1> DEFINE F == Flats(q)
<1>1. F = [j \in 1..Len(q) |-> FlatStep(q, F, j)]
  BY FlatsDef
<1> HIDE DEF F
<1>2. F[i] = FlatStep(q, F, i)
  BY <1>1
<1> QED BY <1>2 DEF FlatStep, F

(* And they are sequences.                                                 *)
LEMMA FlatsType ==
    ASSUME NEW S, NEW q \in Seq(Seq(S)), NEW i \in 1..Len(q)
    PROVE  Flats(q)[i] \in Seq(S)
<1> DEFINE G == {n \in Nat : n + 1 \in 1..Len(q) => Flats(q)[n + 1] \in Seq(S)}
<1>1. Len(q) \in Nat \ {0} /\ \A j \in 1..Len(q) : q[j] \in Seq(S)
  OBVIOUS
<1>2. 0 \in G
  <2>1. 1 \in 1..Len(q)
    BY <1>1
  <2>2. Flats(q)[1] = q[1]
    BY <2>1, FlatsAt
  <2> QED BY <1>1, <2>1, <2>2
<1>3. ASSUME NEW n \in 0..(Len(q) - 1), n \in G PROVE n + 1 \in G
  <2>1. CASE n + 2 \in 1..Len(q)
    <3>1. n + 1 \in 1..Len(q)
      BY <1>1, <2>1
    <3>2. Flats(q)[n + 1] \in Seq(S)
      BY <1>3, <3>1
    <3>3. Flats(q)[n + 2] = Flats(q)[n + 1] \o q[n + 2]
      <4>1. n + 2 # 1 /\ (n + 2) - 1 = n + 1
        BY <1>1
      <4> QED BY <2>1, <4>1, FlatsAt
    <3>4. q[n + 2] \in Seq(S)
      BY <1>1, <2>1
    <3>5. Flats(q)[n + 2] \in Seq(S)
      BY <3>2, <3>3, <3>4
    <3> QED BY <1>1, <3>5
  <2>2. CASE n + 2 \notin 1..Len(q)
    BY <1>1, <2>2
  <2> QED BY <2>1, <2>2
<1> HIDE DEF G
<1>4. 0..(Len(q) - 1) \subseteq G
  <2>1. Len(q) - 1 \in Nat
    BY <1>1
  <2>2. \A n \in 0..((Len(q) - 1) - 1) : n \in G => n + 1 \in G
    BY <1>1, <1>3
  <2> QED BY <1>2, <2>1, <2>2, InductionUpTo
<1>5. i - 1 \in G /\ (i - 1) + 1 = i
  BY <1>1, <1>4
<1> QED BY <1>5 DEF G

(* What it makes of the first sequences does not depend on the others.     *)
LEMMA FlatsSame ==
    ASSUME NEW S, NEW q \in Seq(Seq(S)), NEW r \in Seq(Seq(S)), NEW m \in 1..Len(q),
           Len(q) <= Len(r), \A i \in 1..Len(q) : q[i] = r[i]
    PROVE  Flats(q)[m] = Flats(r)[m]
<1> DEFINE G == {n \in Nat : n + 1 \in 1..Len(q) => Flats(q)[n + 1] = Flats(r)[n + 1]}
<1>1. Len(q) \in Nat \ {0} /\ Len(r) \in Nat
  OBVIOUS
<1>2. 0 \in G
  BY <1>1, FlatsAt
<1>3. ASSUME NEW n \in 0..(Len(q) - 1), n \in G PROVE n + 1 \in G
  <2>1. CASE n + 2 \in 1..Len(q)
    <3>1. n + 1 \in 1..Len(q) /\ n + 2 \in 1..Len(r) /\ n + 2 # 1 /\ (n + 2) - 1 = n + 1
      BY <1>1, <2>1
    <3>2. Flats(q)[n + 1] = Flats(r)[n + 1]
      BY <1>3, <3>1
    <3>3. Flats(q)[n + 2] = Flats(q)[n + 1] \o q[n + 2]
      BY <2>1, <3>1, FlatsAt
    <3>4. Flats(r)[n + 2] = Flats(r)[n + 1] \o r[n + 2]
      BY <2>1, <3>1, FlatsAt
    <3>5. Flats(q)[n + 2] = Flats(r)[n + 2]
      BY <2>1, <3>2, <3>3, <3>4
    <3> QED BY <1>1, <3>5
  <2>2. CASE n + 2 \notin 1..Len(q)
    BY <1>1, <2>2
  <2> QED BY <2>1, <2>2
<1> HIDE DEF G
<1>4. 0..(Len(q) - 1) \subseteq G
  <2>1. Len(q) - 1 \in Nat
    BY <1>1
  <2>2. \A n \in 0..((Len(q) - 1) - 1) : n \in G => n + 1 \in G
    BY <1>1, <1>3
  <2> QED BY <1>2, <2>1, <2>2, InductionUpTo
<1>5. m - 1 \in G /\ (m - 1) + 1 = m
  <2>1. m - 1 \in 0..(Len(q) - 1) /\ (m - 1) + 1 = m
    BY <1>1
  <2> QED BY <1>4, <2>1
<1> QED BY <1>5 DEF G

(* FlattenSeq is its last value.                                           *)
LEMMA FlattenIs ==
    ASSUME NEW S, NEW q \in Seq(Seq(S))
    PROVE  FlattenSeq(q) = IF q = <<>> THEN <<>> ELSE Flats(q)[Len(q)]
<1>1. CASE q = <<>>
  BY <1>1 DEF FlattenSeq
<1>2. CASE q # <<>>
  <2>1. Len(q) # 0
    BY <1>2
  <2>2. FlattenSeq(q) = Flats(q)[Len(q)]
    BY <2>1 DEF FlattenSeq, Flats, FlatStep
  <2> QED BY <1>2, <2>2
<1> QED BY <1>1, <1>2

(* What is flattened is a sequence of what the sequences have.             *)
LEMMA FlattenType ==
    ASSUME NEW S, NEW q \in Seq(Seq(S)) PROVE FlattenSeq(q) \in Seq(S)
<1>1. CASE q = <<>>
  <2>1. FlattenSeq(q) = <<>>
    BY <1>1, FlattenIs
  <2> QED BY <2>1
<1>2. CASE q # <<>>
  <2>1. Len(q) \in 1..Len(q)
    BY <1>2
  <2> QED BY <1>2, <2>1, FlatsType, FlattenIs
<1> QED BY <1>1, <1>2

(* To flatten one sequence more appends it.                                *)
LEMMA FlattenAppend ==
    ASSUME NEW S, NEW q \in Seq(Seq(S)), NEW x \in Seq(S)
    PROVE  FlattenSeq(Append(q, x)) = FlattenSeq(q) \o x
<1> DEFINE a == Append(q, x)
<1>1. /\ a \in Seq(Seq(S)) /\ a # <<>> /\ Len(a) = Len(q) + 1 /\ Len(q) \in Nat
      /\ a[Len(q) + 1] = x /\ \A i \in 1..Len(q) : a[i] = q[i]
  BY AppendProperties, LenProperties
<1> HIDE DEF a
<1>2. FlattenSeq(a) = Flats(a)[Len(q) + 1]
  BY <1>1, FlattenIs
<1>3. CASE q = <<>>
  <2>1. Len(q) = 0 /\ 1 \in 1..Len(a)
    BY <1>1, <1>3
  <2>2. Flats(a)[1] = a[1]
    BY <1>1, <2>1, FlatsAt
  <2>3. FlattenSeq(q) = <<>> /\ <<>> \o x = x
    BY <1>3, FlattenIs, ConcatEmptySeq
  <2> QED BY <1>1, <1>2, <2>1, <2>2, <2>3 DEF a
<1>4. CASE q # <<>>
  <2>1. Len(q) \in 1..Len(q) /\ Len(q) + 1 \in 1..Len(a) /\ Len(q) + 1 # 1 /\ (Len(q) + 1) - 1 = Len(q)
    BY <1>1, <1>4
  <2>2. Flats(a)[Len(q) + 1] = Flats(a)[Len(q)] \o a[Len(q) + 1]
    BY <1>1, <2>1, FlatsAt
  <2>3. Flats(q)[Len(q)] = Flats(a)[Len(q)]
    <3>1. Len(q) <= Len(a)
      BY <1>1
    <3> QED BY <1>1, <2>1, <3>1, FlatsSame
  <2>4. FlattenSeq(q) = Flats(q)[Len(q)]
    BY <1>4, FlattenIs
  <2> QED BY <1>1, <1>2, <2>2, <2>3, <2>4 DEF a
<1> QED BY <1>3, <1>4

-----------------------------------------------------------------------------
(* What the frames of a queue have of a task.                              *)

Own(f, t) == IF f.tid = t THEN f.toks ELSE <<>>
Owns(fs, t) == [i \in DOMAIN fs |-> Own(fs[i], t)]

(* These are tokens.                                                       *)
LEMMA OwnType == ASSUME NEW f \in Frames, NEW t PROVE Own(f, t) \in Seq(Tokens)
BY DEF Own, Frames

(* What a task has in a queue is its part of every frame, in a row.        *)
LEMMA OwnsType ==
    ASSUME NEW fs \in Seq(Frames), NEW t
    PROVE  /\ Owns(fs, t) \in Seq(Seq(Tokens)) /\ Len(Owns(fs, t)) = Len(fs)
           /\ Captured(fs, t) = FlattenSeq(Owns(fs, t))
<1>1. Len(fs) \in Nat /\ DOMAIN fs = 1..Len(fs) /\ \A i \in 1..Len(fs) : fs[i] \in Frames
  OBVIOUS
<1>2. Owns(fs, t) \in [1..Len(fs) -> Seq(Tokens)]
  BY <1>1, OwnType DEF Owns
<1>3. Owns(fs, t) \in Seq(Seq(Tokens)) /\ Len(Owns(fs, t)) = Len(fs)
  <2>1. \A g : g \in [1..Len(fs) -> Seq(Tokens)] => g \in Seq(Seq(Tokens)) /\ Len(g) = Len(fs)
    BY <1>1
  <2> QED BY <1>2, <2>1
<1>4. Captured(fs, t) = FlattenSeq(Owns(fs, t))
  BY DEF Captured, Owns, Own
<1> QED BY <1>3, <1>4

(* It is a sequence of tokens, and nothing in an empty queue.              *)
LEMMA CapturedType ==
    ASSUME NEW fs \in Seq(Frames), NEW t PROVE Captured(fs, t) \in Seq(Tokens)
BY OwnsType, FlattenType

LEMMA CapturedEmpty == ASSUME NEW t PROVE Captured(<<>>, t) = <<>>
<1>1. <<>> \in Seq(Frames) /\ Len(<<>>) = 0
  OBVIOUS
<1>2. Owns(<<>>, t) \in Seq(Seq(Tokens)) /\ Len(Owns(<<>>, t)) = 0
  BY <1>1, OwnsType
<1>3. Owns(<<>>, t) = <<>>
  BY <1>2
<1>4. FlattenSeq(Owns(<<>>, t)) = <<>>
  BY <1>2, <1>3, FlattenIs
<1> QED BY <1>1, <1>4, OwnsType

(* A frame at the end of a queue adds its tokens at the end.               *)
LEMMA CapturedAppend ==
    ASSUME NEW fs \in Seq(Frames), NEW f \in Frames, NEW t
    PROVE  Captured(Append(fs, f), t) = Captured(fs, t) \o Own(f, t)
<1> DEFINE a == Append(fs, f)
<1>1. /\ a \in Seq(Frames) /\ Len(a) = Len(fs) + 1 /\ Len(fs) \in Nat
      /\ a[Len(fs) + 1] = f /\ \A i \in 1..Len(fs) : a[i] = fs[i]
      /\ DOMAIN a = 1..(Len(fs) + 1) /\ DOMAIN fs = 1..Len(fs)
  BY AppendProperties, LenProperties
<1> HIDE DEF a
<1> DEFINE o == Owns(fs, t)
           b == Append(o, Own(f, t))
<1>2. /\ o \in Seq(Seq(Tokens)) /\ Len(o) = Len(fs) /\ Owns(a, t) \in Seq(Seq(Tokens))
      /\ Len(Owns(a, t)) = Len(fs) + 1
  BY <1>1, OwnsType
<1>3. Own(f, t) \in Seq(Tokens)
  BY OwnType
<1>4. \A i \in 1..Len(fs) : o[i] = Own(fs[i], t)
  BY <1>1 DEF Owns
<1>5. \A i \in 1..(Len(fs) + 1) : Owns(a, t)[i] = Own(a[i], t)
  BY <1>1 DEF Owns
<1> HIDE DEF o
<1>6. /\ b \in Seq(Seq(Tokens)) /\ Len(b) = Len(fs) + 1
      /\ b[Len(fs) + 1] = Own(f, t) /\ \A i \in 1..Len(fs) : b[i] = o[i]
  BY <1>2, <1>3, AppendProperties
<1> HIDE DEF b
<1>7. \A i \in 1..(Len(fs) + 1) : Owns(a, t)[i] = b[i]
  <2> TAKE i \in 1..(Len(fs) + 1)
  <2>1. CASE i = Len(fs) + 1
    BY <1>1, <1>5, <1>6, <2>1
  <2>2. CASE i # Len(fs) + 1
    <3>1. i \in 1..Len(fs)
      BY <1>1, <2>2
    <3> QED BY <1>1, <1>4, <1>5, <1>6, <3>1
  <2> QED BY <2>1, <2>2
<1>8. Owns(a, t) = b
  BY <1>2, <1>6, <1>7, SeqEqual
<1>9. FlattenSeq(b) = FlattenSeq(o) \o Own(f, t)
  BY <1>2, <1>3, FlattenAppend DEF b
<1>10. Captured(a, t) = FlattenSeq(Owns(a, t)) /\ Captured(fs, t) = FlattenSeq(o)
  BY <1>1, OwnsType DEF o
<1> QED BY <1>8, <1>9, <1>10 DEF a

(* Of two queues in a row a task has what it has in each, in a row.        *)
LEMMA CapturedConcat ==
    ASSUME NEW fs \in Seq(Frames), NEW gs \in Seq(Frames), NEW t
    PROVE  Captured(fs \o gs, t) = Captured(fs, t) \o Captured(gs, t)
<1> DEFINE P(n) == SubSeq(gs, 1, n)
           G == {n \in Nat : n <= Len(gs) =>
                    Captured(fs \o P(n), t) = Captured(fs, t) \o Captured(P(n), t)}
<1>1. Len(gs) \in Nat /\ Captured(fs, t) \in Seq(Tokens) /\ \A i \in 1..Len(gs) : gs[i] \in Frames
  BY CapturedType
<1>2. 0 \in G
  <2>1. P(0) = <<>> /\ fs \o <<>> = fs
    BY SubSeqEmpty, ConcatEmptySeq
  <2>2. Captured(P(0), t) = <<>>
    BY <2>1, CapturedEmpty
  <2>3. Captured(fs, t) \o <<>> = Captured(fs, t)
    BY <1>1, ConcatEmptySeq
  <2> QED BY <2>1, <2>2, <2>3
<1>3. ASSUME NEW n \in 0..(Len(gs) - 1), n \in G PROVE n + 1 \in G
  <2>1. n \in Nat /\ n + 1 \in 1..Len(gs) /\ n <= Len(gs)
    BY <1>1
  <2>2. P(n + 1) = Append(P(n), gs[n + 1]) /\ P(n) \in Seq(Frames) /\ gs[n + 1] \in Frames
    <3>1. \A i \in 1..n : gs[i] \in Frames
      BY <1>1, <2>1
    <3>2. \A i \in 1..(n + 1) : gs[i] \in Frames
      BY <1>1, <2>1
    <3>3. P(n) \in Seq(Frames) /\ Len(P(n)) = n /\ \A i \in 1..n : P(n)[i] = gs[i]
      <4>1. P(n) \in Seq(Frames) /\ Len(P(n)) = (IF 1 <= n THEN n - 1 + 1 ELSE 0) /\ \A i \in 1..(n - 1 + 1) : P(n)[i] = gs[1 + i - 1]
        BY <2>1, <3>1, SubSeqProperties
      <4> QED BY <2>1, <4>1
    <3>4. /\ P(n + 1) \in Seq(Frames) /\ Len(P(n + 1)) = n + 1 /\ \A i \in 1..(n + 1) : P(n + 1)[i] = gs[i]
      <4>1. P(n + 1) \in Seq(Frames) /\ Len(P(n + 1)) = (IF 1 <= n + 1 THEN (n + 1) - 1 + 1 ELSE 0) /\ \A i \in 1..((n + 1) - 1 + 1) : P(n + 1)[i] = gs[1 + i - 1]
        BY <2>1, <3>2, SubSeqProperties
      <4> QED BY <2>1, <4>1
    <3> DEFINE p == P(n)
               q == P(n + 1)
               a == Append(p, gs[n + 1])
    <3> HIDE DEF p, q
    <3>5. gs[n + 1] \in Frames
      BY <1>1, <2>1
    <3>6. /\ a \in Seq(Frames) /\ Len(a) = n + 1 /\ a[n + 1] = gs[n + 1]
          /\ \A i \in 1..n : a[i] = gs[i]
      BY <2>1, <3>3, <3>5, AppendProperties DEF p
    <3> HIDE DEF a
    <3>7. \A i \in 1..(n + 1) : q[i] = a[i]
      BY <2>1, <3>4, <3>6 DEF q
    <3>8. q = a
      BY <2>1, <3>4, <3>6, <3>7, SeqEqual DEF q
    <3> QED BY <3>3, <3>5, <3>8 DEF p, q, a
  <2> DEFINE p == P(n)
             f == gs[n + 1]
  <2>3. Captured(fs \o p, t) = Captured(fs, t) \o Captured(p, t)
    BY <1>3, <2>1
  <2>4. fs \o P(n + 1) = Append(fs \o p, f)
    BY <2>2, ConcatAppend
  <2>5. fs \o p \in Seq(Frames)
    BY <2>2, ConcatProperties
  <2> HIDE DEF P
  <2>6. Captured(Append(fs \o p, f), t) = Captured(fs \o p, t) \o Own(f, t)
    BY <2>2, <2>5, CapturedAppend
  <2>7. Captured(Append(p, f), t) = Captured(p, t) \o Own(f, t)
    BY <2>2, CapturedAppend
  <2>8. (Captured(fs, t) \o Captured(p, t)) \o Own(f, t) = Captured(fs, t) \o (Captured(p, t) \o Own(f, t))
    <3> DEFINE x == Captured(fs, t)
               y == Captured(p, t)
               z == Own(f, t)
    <3>1. x \in Seq(Tokens) /\ y \in Seq(Tokens) /\ z \in Seq(Tokens)
      BY <1>1, <2>2, CapturedType, OwnType
    <3> HIDE DEF x, y, z
    <3>2. (x \o y) \o z = x \o (y \o z)
      BY <3>1, ConcatAssociative
    <3> QED BY <3>2 DEF x, y, z
  <2>9. Captured(fs \o P(n + 1), t) = Captured(fs, t) \o Captured(P(n + 1), t)
    BY <2>2, <2>3, <2>4, <2>6, <2>7, <2>8
  <2>10. n + 1 \in Nat
    BY <2>1
  <2> QED BY <2>9, <2>10, Zenon
<1>4. P(Len(gs)) = gs
  BY SubSeqFull
<1> HIDE DEF G
<1>5. 0..Len(gs) \subseteq G
  BY <1>1, <1>2, <1>3, InductionUpTo
<1>6. Len(gs) \in G
  BY <1>1, <1>5
<1>7. Captured(fs \o P(Len(gs)), t) = Captured(fs, t) \o Captured(P(Len(gs)), t)
  BY <1>1, <1>6 DEF G
<1> QED BY <1>4, <1>7

(* A queue of one frame.                                                   *)
LEMMA CapturedOne ==
    ASSUME NEW f \in Frames, NEW t PROVE Captured(<<f>>, t) = Own(f, t)
<1>1. <<f>> = Append(<<>>, f) /\ <<>> \in Seq(Frames)
  OBVIOUS
<1>2. Captured(<<f>>, t) = <<>> \o Own(f, t)
  BY <1>1, CapturedAppend, CapturedEmpty
<1> QED BY <1>2, OwnType, ConcatEmptySeq

(* The head of a queue has the first of the tokens.                        *)
LEMMA CapturedHead ==
    ASSUME NEW fs \in Seq(Frames), fs # <<>>, NEW t
    PROVE  Captured(fs, t) = Own(Head(fs), t) \o Captured(Tail(fs), t)
<1>1. Head(fs) \in Frames /\ Tail(fs) \in Seq(Frames) /\ <<Head(fs)>> \in Seq(Frames)
  BY HeadTailProperties
<1>3. fs = <<Head(fs)>> \o Tail(fs)
  <2>1. <<>> \in Seq(Frames) /\ Append(<<>>, Head(fs)) = <<Head(fs)>>
    BY <1>1
  <2>2. Append(<<>>, Head(fs)) \o Tail(fs) = <<>> \o fs
    BY <2>1, MoveHead
  <2> QED BY <2>1, <2>2, ConcatEmptySeq
<1>2. Captured(<<Head(fs)>> \o Tail(fs), t) = Captured(<<Head(fs)>>, t) \o Captured(Tail(fs), t)
  BY <1>1, CapturedConcat
<1> QED BY <1>1, <1>2, <1>3, CapturedOne

-----------------------------------------------------------------------------
(* The parser takes at least one token, and no more than there are.        *)

LEMMA LeastOfIs ==
    ASSUME NEW T, T \subseteq Nat, T # {}
    PROVE  LeastOf(T) \in T /\ \A j \in T : LeastOf(T) <= j
BY LeastNat DEF LeastOf

(* Lines and blank lines are places of the sequence.                       *)
LEMMA LinesIn ==
    ASSUME NEW s \in Seq(Tokens)
    PROVE  Lines(s) \subseteq 1..Len(s) /\ Blanks(s) \subseteq Lines(s) /\ Lines(s) \subseteq Nat
<1>1. Lines(s) \subseteq 1..Len(s)
  BY DEF Lines
<1>2. Blanks(s) \subseteq Lines(s)
  BY DEF Lines, Blanks
<1>3. 1..Len(s) \subseteq Nat
  OBVIOUS
<1> QED BY <1>1, <1>2, <1>3

(* What is known of a token: a size is a number, and ends a line.          *)
LEMMA TokenIs ==
    ASSUME NEW s \in Seq(Tokens), NEW i \in 1..Len(s)
    PROVE  /\ s[i].n \in Int /\ (s[i].k = "size" => s[i].n \in Nat)
           /\ s[i].n # Chunked => s[i].n \in Nat
           /\ s[i].k = "size" => i \in Lines(s)
<1>1. s[i] \in Tokens
  OBVIOUS
<1>2. s[i].n \in Int /\ (s[i].k = "size" => s[i].n \in Nat) /\ (s[i].n # Chunked => s[i].n \in Nat)
  BY <1>1 DEF Tokens, Chunked
<1> QED BY <1>2 DEF Lines

(* The end of s behind i.                                                  *)
LEMMA BehindIs ==
    ASSUME NEW S, NEW s \in Seq(S), NEW i \in 0..Len(s)
    PROVE  /\ SubSeq(s, i + 1, Len(s)) \in Seq(S)
           /\ Len(SubSeq(s, i + 1, Len(s))) = Len(s) - i
           /\ \A x \in 1..(Len(s) - i) : SubSeq(s, i + 1, Len(s))[x] = s[i + x]
<1>1. Len(s) \in Nat /\ \A x \in (i + 1)..Len(s) : s[x] \in S
  OBVIOUS
<1>2. /\ SubSeq(s, i + 1, Len(s)) \in Seq(S)
      /\ Len(SubSeq(s, i + 1, Len(s))) = IF i + 1 <= Len(s) THEN Len(s) - (i + 1) + 1 ELSE 0
      /\ \A x \in 1..(Len(s) - (i + 1) + 1) : SubSeq(s, i + 1, Len(s))[x] = s[i + 1 + x - 1]
  <2>1. i + 1 \in Int /\ Len(s) \in Int
    BY <1>1
  <2> QED BY <1>1, <2>1, SubSeqProperties
<1>4. Len(SubSeq(s, i + 1, Len(s))) = Len(s) - i
  BY <1>1, <1>2
<1>5. ASSUME NEW x \in 1..(Len(s) - i) PROVE SubSeq(s, i + 1, Len(s))[x] = s[i + x]
  <2>1. x \in 1..(Len(s) - (i + 1) + 1) /\ i + 1 + x - 1 = i + x
    BY <1>1
  <2>2. SubSeq(s, i + 1, Len(s))[x] = s[i + 1 + x - 1]
    BY <1>2, <2>1
  <2> QED BY <2>1, <2>2
<1> QED BY <1>2, <1>4, <1>5

(* The last chunk ends behind its line, and within what there is.          *)
LEMMA LastChunkIs ==
    ASSUME NEW s \in Seq(Tokens), NEW at \in 1..Len(s)
    PROVE  LET l == LastChunk(s, at)
           IN  l = More \/ (l = [st |-> "ok", n |-> l.n] /\ l.n \in (at + 1)..Len(s))
<1> DEFINE rest == SubSeq(s, at + 1, Len(s))
           l == LastChunk(s, at)
           crlf == rest # <<>> /\ Head(rest).k = "crlf"
           trailers == rest # <<>> /\ Head(rest).k # "crlf" /\ Blanks(rest) # {}
<1>1. rest \in Seq(Tokens) /\ Len(rest) = Len(s) - at /\ Len(s) \in Nat
  BY BehindIs
<1>2. /\ crlf => l = [st |-> "ok", n |-> at + 1]
      /\ trailers => l = [st |-> "ok", n |-> at + LeastOf(Blanks(rest))]
      /\ ~crlf /\ ~trailers => l = More
  BY DEF LastChunk
<1> HIDE DEF rest, l
<1>3. crlf => at + 1 \in (at + 1)..Len(s)
  <2>1. crlf => Len(rest) # 0
    BY <1>1
  <2> QED BY <1>1, <2>1
<1>4. ASSUME trailers PROVE at + LeastOf(Blanks(rest)) \in (at + 1)..Len(s)
  <2>1. Blanks(rest) \subseteq 1..Len(rest) /\ Blanks(rest) \subseteq Nat
    BY <1>1, LinesIn
  <2>2. LeastOf(Blanks(rest)) \in 1..Len(rest)
    BY <1>4, <2>1, LeastOfIs
  <2> QED BY <1>1, <2>2
<1> HIDE DEF crlf, trailers
<1>5. l = More \/ (l = [st |-> "ok", n |-> l.n] /\ l.n \in (at + 1)..Len(s))
  BY <1>2, <1>3, <1>4
<1> QED BY <1>5 DEF l

ChunksOf(s) == CHOOSE f : f = [at \in 1..(Len(s) + 1) |-> Chunks(s, f, at)]

(* What Chunks returns, case by case.                                      *)
LEMMA ChunksIs ==
    ASSUME NEW s \in Seq(Tokens), NEW f, NEW at \in 1..(Len(s) + 1)
    PROVE  LET end == at + s[at].n + 1
           IN \/ /\ \A i \in Lines(s) : i < at
                 /\ Chunks(s, f, at) = More
              \/ /\ at \in 1..Len(s) /\ s[at].k # "size"
                 /\ Chunks(s, f, at) = Malformed
              \/ /\ at \in 1..Len(s) /\ s[at].k = "size" /\ s[at].n = 0
                 /\ Chunks(s, f, at) = IF LastChunk(s, at) = More THEN More
                                        ELSE Body(<<>>, LastChunk(s, at).n)
              \/ /\ at \in 1..Len(s) /\ s[at].k = "size" /\ s[at].n \in Nat \ {0}
                 /\ \/ Len(s) < end /\ Chunks(s, f, at) = More
                    \/ end <= Len(s) /\ s[end].k # "crlf" /\ Chunks(s, f, at) = Malformed
                    \/ /\ end <= Len(s) /\ s[end].k = "crlf" /\ end + 1 \in (at + 1)..(Len(s) + 1)
                       /\ Chunks(s, f, at) = IF f[end + 1].st # "ok" THEN f[end + 1]
                                              ELSE Body(SubSeq(s, at + 1, end - 1) \o f[end + 1].body, f[end + 1].n)
<1>1. Len(s) \in Nat /\ Lines(s) \subseteq 1..Len(s)
  BY LinesIn
<1>2. CASE \A i \in Lines(s) : i < at
  <2>1. at \in Int /\ at \notin Lines(s) /\ ~(\E i \in Lines(s) : i >= at)
    BY <1>1, <1>2
  <2>2. Chunks(s, f, at) = More
    BY <1>2, <2>1 DEF Chunks
  <2> QED BY <1>2, <2>2
<1>3. CASE ~(\A i \in Lines(s) : i < at) /\ s[at].k # "size"
  <2>1. \E i \in Lines(s) : i >= at
    BY <1>1, <1>3
  <2>2. at \in 1..Len(s)
    BY <1>1, <2>1
  <2>3. Chunks(s, f, at) = Malformed
    <3>1. at \notin Lines(s) \/ s[at].k # "size"
      BY <1>3
    <3> QED BY <1>3, <2>1, <3>1 DEF Chunks
  <2> QED BY <1>3, <2>2, <2>3
<1>4. CASE ~(\A i \in Lines(s) : i < at) /\ s[at].k = "size"
  <2>1. at \in 1..Len(s)
    BY <1>1, <1>4
  <2>2. s[at].n \in Nat /\ at \in Lines(s)
    BY <1>4, <2>1, TokenIs
  <2>3. CASE s[at].n = 0
    <3>1. Chunks(s, f, at) = IF LastChunk(s, at) = More THEN More ELSE Body(<<>>, LastChunk(s, at).n)
      BY <1>4, <2>2, <2>3 DEF Chunks
    <3> QED BY <1>4, <2>1, <2>3, <3>1
  <2>4. CASE s[at].n > 0
    <3> DEFINE end == at + s[at].n + 1
    <3>1. Chunks(s, f, at) = IF Len(s) < end THEN More
                              ELSE IF s[end].k # "crlf" THEN Malformed
                              ELSE IF f[end + 1].st # "ok" THEN f[end + 1]
                              ELSE Body(SubSeq(s, at + 1, end - 1) \o f[end + 1].body, f[end + 1].n)
      BY <1>4, <2>2, <2>4 DEF Chunks
    <3>2. end \in Nat /\ end > at
      BY <1>1, <2>1, <2>2
    <3> HIDE DEF end
    <3>3. CASE Len(s) < end
      BY <1>4, <2>1, <2>2, <2>4, <3>1, <3>3 DEF end
    <3>4. CASE ~(Len(s) < end)
      <4>1. end <= Len(s) /\ end + 1 \in (at + 1)..(Len(s) + 1)
        BY <1>1, <2>1, <3>2, <3>4
      <4> QED BY <1>4, <2>1, <2>2, <2>4, <3>1, <3>4, <4>1 DEF end
    <3> QED BY <3>3, <3>4
  <2> QED BY <2>2, <2>3, <2>4
<1> QED BY <1>2, <1>3, <1>4

(* Chunks asks its function only about places further on.                  *)
LEMMA ChunksAhead ==
    ASSUME NEW s \in Seq(Tokens), NEW f, NEW g, NEW at \in 1..(Len(s) + 1),
           \A i \in (at + 1)..(Len(s) + 1) : f[i] = g[i]
    PROVE  Chunks(s, f, at) = Chunks(s, g, at)
<1> DEFINE end == at + s[at].n + 1
<1>1. CASE \A i \in Lines(s) : i < at
  <2>1. at \in Int /\ at \notin Lines(s) /\ ~(\E i \in Lines(s) : i >= at)
    BY <1>1, LinesIn
  <2> QED BY <1>1, <2>1 DEF Chunks
<1>2. CASE ~(\A i \in Lines(s) : i < at)
  <2>1. at \in 1..Len(s) /\ (\E i \in Lines(s) : i >= at)
    BY <1>2, LinesIn
  <2>2. CASE s[at].k # "size"
    BY <1>2, <2>1, <2>2 DEF Chunks
  <2>3. CASE s[at].k = "size"
    <3>1. s[at].n \in Nat /\ at \in Lines(s) /\ Len(s) \in Nat
      BY <2>1, <2>3, TokenIs
    <3>2. CASE s[at].n = 0
      BY <1>2, <2>1, <2>3, <3>1, <3>2 DEF Chunks
    <3>3. CASE s[at].n > 0
      <4>1. \A h : Chunks(s, h, at) = IF Len(s) < end THEN More
                              ELSE IF s[end].k # "crlf" THEN Malformed
                              ELSE IF h[end + 1].st # "ok" THEN h[end + 1]
                              ELSE Body(SubSeq(s, at + 1, end - 1) \o h[end + 1].body, h[end + 1].n)
        BY <1>2, <2>1, <2>3, <3>1, <3>3 DEF Chunks
      <4>2. ~(Len(s) < end) => end + 1 \in (at + 1)..(Len(s) + 1)
        BY <2>1, <3>1
      <4> HIDE DEF end
      <4>3. ~(Len(s) < end) => f[end + 1] = g[end + 1]
        BY <4>2
      <4> QED BY <4>1, <4>3
    <3> QED BY <3>1, <3>2, <3>3
  <2> QED BY <2>2, <2>3
<1> QED BY <1>1, <1>2

(* The recursive function of readChunkedBody exists.                       *)
LEMMA ChunksOfDef ==
    ASSUME NEW s \in Seq(Tokens)
    PROVE  ChunksOf(s) = [at \in 1..(Len(s) + 1) |-> Chunks(s, ChunksOf(s), at)]
<1> DEFINE N == Len(s) + 1
           G == {n \in Nat : \E f : f = [at \in (N + 1 - n)..N |-> Chunks(s, f, at)]}
<1>1. N \in Nat /\ N = Len(s) + 1
  OBVIOUS
<1> HIDE DEF N
<1>2. 0 \in G
  <2> DEFINE e == [at \in (N + 1)..N |-> at]
  <2>1. e = [at \in (N + 1)..N |-> Chunks(s, e, at)]
    BY <1>1
  <2>2. N + 1 - 0 = N + 1
    BY <1>1
  <2> QED BY <2>1, <2>2
<1>3. ASSUME NEW n \in 0..(N - 1), n \in G PROVE n + 1 \in G
  <2> DEFINE m == N + 1 - n
  <2>1. m \in 2..(N + 1) /\ N + 1 - (n + 1) = m - 1 /\ n + 1 \in Nat /\ m \in Nat
    BY <1>1
  <2>2. PICK f : f = [at \in m..N |-> Chunks(s, f, at)]
    BY <1>3
  <2> HIDE DEF m
  <2> DEFINE g == [at \in (m - 1)..N |-> IF at = m - 1 THEN Chunks(s, f, at) ELSE f[at]]
  <2>3. ASSUME NEW at \in (m - 1)..N PROVE g[at] = Chunks(s, g, at)
    <3>1. at \in 1..N /\ \A i \in (at + 1)..N : i \in (m - 1)..N /\ i # m - 1
      BY <1>1, <2>1
    <3>2. \A i \in (at + 1)..N : g[i] = f[i]
      BY <3>1
    <3> HIDE DEF g
    <3>3. Chunks(s, g, at) = Chunks(s, f, at)
      BY <1>1, <3>1, <3>2, ChunksAhead
    <3>4. CASE at = m - 1
      BY <3>3, <3>4 DEF g
    <3>5. CASE at # m - 1
      <4>1. at \in m..N
        BY <1>1, <2>1, <3>5
      <4>2. f[at] = Chunks(s, f, at)
        BY <2>2, <4>1
      <4> QED BY <3>3, <3>5, <4>2 DEF g
    <3> QED BY <3>4, <3>5
  <2> HIDE DEF g
  <2>4. g = [at \in (m - 1)..N |-> g[at]]
    BY DEF g
  <2>5. g = [at \in (m - 1)..N |-> Chunks(s, g, at)]
    BY <2>3, <2>4
  <2>6. \E h : h = [at \in (N + 1 - (n + 1))..N |-> Chunks(s, h, at)]
    BY <2>1, <2>5
  <2> QED BY <2>1, <2>6
<1> HIDE DEF G
<1>4. 0..N \subseteq G
  BY <1>1, <1>2, <1>3, InductionUpTo
<1>5. N \in G /\ N + 1 - N = 1
  BY <1>1, <1>4
<1>6. \E f : f = [at \in 1..N |-> Chunks(s, f, at)]
  BY <1>5 DEF G
<1> QED BY <1>1, <1>6 DEF ChunksOf

(* The chunks from a place on, by those from the places behind it.         *)
LEMMA ChunksOfAt ==
    ASSUME NEW s \in Seq(Tokens), NEW at \in 1..(Len(s) + 1)
    PROVE  ChunksOf(s)[at] = Chunks(s, ChunksOf(s), at)
<1> DEFINE f == ChunksOf(s)
<1>1. f = [i \in 1..(Len(s) + 1) |-> Chunks(s, f, i)]
  BY ChunksOfDef
<1> HIDE DEF f
<1>2. f[at] = Chunks(s, f, at)
  BY <1>1
<1> QED BY <1>2 DEF f

(* A body that is complete ends within s.                                  *)
Fits(v, low, high) == v.st \in {"ok", "more", "malformed"} /\ (v.st = "ok" => v.n \in low..high)

(* What the chunks from a place on take ends behind it, and within what    *)
(* there is.                                                               *)
LEMMA ChunksOfFits ==
    ASSUME NEW s \in Seq(Tokens), NEW at \in 1..(Len(s) + 1)
    PROVE  Fits(ChunksOf(s)[at], at, Len(s))
<1> DEFINE f == ChunksOf(s)
           N == Len(s) + 1
           G == {n \in Nat : \A p \in 1..N : N - p <= n => Fits(f[p], p, Len(s))}
<1>1. Len(s) \in Nat /\ N \in Nat \ {0} /\ N = Len(s) + 1
  OBVIOUS
<1>2. ASSUME NEW p \in 1..N, \A q \in (p + 1)..N : Fits(f[q], q, Len(s))
      PROVE  Fits(f[p], p, Len(s))
  <2> DEFINE end == p + s[p].n + 1
             l == LastChunk(s, p)
  <2>1. f[p] = Chunks(s, f, p)
    BY ChunksOfAt
  <2> HIDE DEF f
  <2>2. CASE f[p] = More \/ f[p] = Malformed
    BY <2>2 DEF More, Malformed, Fits
  <2>3. CASE p \in 1..Len(s) /\ f[p] = IF l = More THEN More ELSE Body(<<>>, l.n)
    <3>1. l = More \/ l.n \in (p + 1)..Len(s)
      BY <2>3, LastChunkIs
    <3>2. f[p] = More \/ (f[p].st = "ok" /\ f[p].n \in (p + 1)..Len(s))
      BY <2>3, <3>1 DEF Body
    <3>3. CASE f[p] = More
      BY <3>3 DEF More, Fits
    <3>4. CASE f[p].st = "ok" /\ f[p].n \in (p + 1)..Len(s)
      <4>1. f[p].n \in p..Len(s)
        BY <1>1, <3>4
      <4> QED BY <3>4, <4>1 DEF Fits
    <3> QED BY <3>2, <3>3, <3>4
  <2>4. CASE /\ end + 1 \in (p + 1)..(Len(s) + 1)
             /\ f[p] = IF f[end + 1].st # "ok" THEN f[end + 1]
                       ELSE Body(SubSeq(s, p + 1, end - 1) \o f[end + 1].body, f[end + 1].n)
    <3>1. Fits(f[end + 1], end + 1, Len(s))
      BY <1>1, <1>2, <2>4
    <3> DEFINE e == end + 1
    <3>2. e \in (p + 1)..(Len(s) + 1)
      BY <2>4
    <3>3. f[p] = IF f[e].st # "ok" THEN f[e] ELSE Body(SubSeq(s, p + 1, end - 1) \o f[e].body, f[e].n)
      BY <2>4
    <3>4. Fits(f[e], e, Len(s))
      BY <3>1
    <3> HIDE DEF e, end
    <3>5. CASE f[e].st # "ok"
      BY <3>3, <3>4, <3>5 DEF Fits
    <3>6. CASE f[e].st = "ok"
      <4>1. f[p].st = "ok" /\ f[p].n = f[e].n
        BY <3>3, <3>6 DEF Body
      <4>2. f[e].n \in e..Len(s)
        BY <3>4, <3>6 DEF Fits
      <4>3. f[e].n \in p..Len(s)
        BY <1>1, <3>2, <4>2
      <4> QED BY <4>1, <4>3 DEF Fits
    <3> QED BY <3>5, <3>6
  <2>5. \/ Chunks(s, f, p) = More \/ Chunks(s, f, p) = Malformed
        \/ p \in 1..Len(s) /\ Chunks(s, f, p) = IF l = More THEN More ELSE Body(<<>>, l.n)
        \/ /\ end + 1 \in (p + 1)..(Len(s) + 1)
           /\ Chunks(s, f, p) = IF f[end + 1].st # "ok" THEN f[end + 1]
                       ELSE Body(SubSeq(s, p + 1, end - 1) \o f[end + 1].body, f[end + 1].n)
    <3>1. p \in 1..(Len(s) + 1)
      BY <1>1
    <3> HIDE DEF N
    <3> QED BY <3>1, ChunksIs
  <2> QED BY <2>1, <2>2, <2>3, <2>4, <2>5
<1> HIDE DEF f
<1>3. 0 \in G
  <2>1. \A p \in 1..N : N - p <= 0 => p = N
    BY <1>1
  <2>2. N \in 1..N /\ \A q \in (N + 1)..N : FALSE
    BY <1>1
  <2>3. Fits(f[N], N, Len(s))
    BY <1>2, <2>2
  <2> QED BY <2>1, <2>3
<1>4. ASSUME NEW n \in 0..(N - 1), n \in G PROVE n + 1 \in G
  <2>1. ASSUME NEW p \in 1..N, N - p <= n + 1 PROVE Fits(f[p], p, Len(s))
    <3>1. \A q \in (p + 1)..N : q \in 1..N /\ N - q <= n
      BY <1>1, <2>1
    <3>2. \A q \in (p + 1)..N : Fits(f[q], q, Len(s))
      BY <1>4, <3>1
    <3> QED BY <1>2, <3>2
  <2>2. n + 1 \in Nat
    BY <1>1
  <2> QED BY <2>1, <2>2
<1> HIDE DEF G
<1>5. 0..N \subseteq G
  BY <1>1, <1>3, <1>4, InductionUpTo
<1>6. N \in G /\ at \in 1..N /\ N - at <= N
  BY <1>1, <1>5
<1> QED BY <1>6 DEF G, f

(* No body takes more than there is.                                       *)
LEMMA ReadBodyFits ==
    ASSUME NEW s \in Seq(Tokens), NEW n \in Nat \cup {Chunked}
    PROVE  Fits(readBody(s, n), 0, Len(s))
<1>1. Len(s) \in Nat
  OBVIOUS
<1>2. CASE n = Chunked
  <2>1. readBody(s, n) = ChunksOf(s)[1]
    BY <1>2 DEF readBody, readChunkedBody, ChunksOf
  <2>2. Fits(ChunksOf(s)[1], 1, Len(s))
    <3>1. 1 \in 1..(Len(s) + 1)
      BY <1>1
    <3> QED BY <3>1, ChunksOfFits
  <2> QED BY <1>1, <2>1, <2>2 DEF Fits
<1>3. CASE n # Chunked /\ Len(s) >= n
  <2>1. readBody(s, n) = Body(SubSeq(s, 1, n), n) /\ n \in 0..Len(s)
    BY <1>1, <1>3 DEF readBody
  <2> QED BY <2>1 DEF Body, Fits
<1>4. CASE n # Chunked /\ ~(Len(s) >= n)
  <2>1. readBody(s, n) = More
    BY <1>4 DEF readBody
  <2> QED BY <2>1 DEF More, Fits
<1> QED BY <1>2, <1>3, <1>4

(* The parser's loop ends: every request takes something.                  *)
LEMMA ParseFits == ASSUME NEW s \in Seq(Tokens) PROVE Fits(ParseHTTP1(s), 1, Len(s))
<1> DEFINE e == LeastOf(Blanks(s))
           l == LeastOf(Lines(s))
           b == readBody(SubSeq(s, e + 1, Len(s)), s[e].n)
           req == [before |-> l - 2, line |-> s[l - 1].id, head |-> s[l].id, body |-> b.body]
<1>1. CASE Blanks(s) = {}
  <2>1. ParseHTTP1(s) = More
    BY <1>1 DEF ParseHTTP1
  <2> QED BY <2>1 DEF More, Fits
<1>2. CASE Blanks(s) # {} /\ ~parseRequestLine(s, l)
  <2>1. ParseHTTP1(s) = Malformed
    BY <1>2 DEF ParseHTTP1
  <2> QED BY <2>1 DEF Malformed, Fits
<1>3. CASE Blanks(s) # {} /\ parseRequestLine(s, l)
  <2>1. ParseHTTP1(s) = IF b.st # "ok" THEN b ELSE Parsed(req, e + b.n)
    BY <1>3 DEF ParseHTTP1
  <2>2. e \in Blanks(s) /\ e \in 1..Len(s) /\ Len(s) \in Nat
    BY <1>3, LinesIn, LeastOfIs
  <2>3. s[e].n \in Nat \cup {Chunked}
    BY <2>2 DEF Tokens
  <2>4. SubSeq(s, e + 1, Len(s)) \in Seq(Tokens) /\ Len(SubSeq(s, e + 1, Len(s))) = Len(s) - e
    <3>1. e \in 0..Len(s)
      BY <2>2
    <3> QED BY <3>1, BehindIs
  <2>5. Fits(b, 0, Len(s) - e)
    BY <2>3, <2>4, ReadBodyFits
  <2> HIDE DEF b, e, req
  <2>6. CASE b.st # "ok"
    BY <2>1, <2>5, <2>6 DEF Fits
  <2>7. CASE b.st = "ok"
    <3>1. ParseHTTP1(s).st = "ok" /\ ParseHTTP1(s).n = e + b.n
      BY <2>1, <2>7 DEF Parsed
    <3>2. b.n \in 0..(Len(s) - e)
      BY <2>5, <2>7 DEF Fits
    <3>3. e + b.n \in 1..Len(s)
      BY <2>2, <3>2
    <3> QED BY <3>1, <3>3 DEF Fits
  <2> QED BY <2>6, <2>7
<1> QED BY <1>1, <1>2, <1>3

RequestsOf(s) == CHOOSE f : f = [i \in 0..Len(s) |-> RequestsFrom(s, f, i)]

(* RequestsFrom asks its function only about places further on.            *)
LEMMA RequestsAhead ==
    ASSUME NEW s \in Seq(Tokens), NEW f, NEW g, NEW i \in 0..Len(s),
           \A j \in (i + 1)..Len(s) : f[j] = g[j]
    PROVE  RequestsFrom(s, f, i) = RequestsFrom(s, g, i)
<1> DEFINE u == SubSeq(s, i + 1, Len(s))
           p == ParseHTTP1(u)
<1>1. u \in Seq(Tokens) /\ Len(u) = Len(s) - i /\ Len(s) \in Nat
  BY BehindIs
<1>2. Fits(p, 1, Len(s) - i)
  BY <1>1, ParseFits
<1>3. CASE p.st = "ok"
  <2>1. p.n \in 1..(Len(s) - i)
    BY <1>2, <1>3 DEF Fits
  <2>2. i + p.n \in (i + 1)..Len(s)
    BY <1>1, <2>1
  <2>3. \A h : RequestsFrom(s, h, i) = [reqs |-> <<p.req>> \o h[i + p.n].reqs, rest |-> h[i + p.n].rest]
    BY <1>3 DEF RequestsFrom
  <2> HIDE DEF p
  <2> QED BY <2>2, <2>3
<1>4. CASE p.st # "ok"
  BY <1>4 DEF RequestsFrom
<1> QED BY <1>3, <1>4

(* So the recursive function of Requests exists.                           *)
LEMMA RequestsOfDef ==
    ASSUME NEW s \in Seq(Tokens)
    PROVE  RequestsOf(s) = [i \in 0..Len(s) |-> RequestsFrom(s, RequestsOf(s), i)]
<1> DEFINE N == Len(s)
           G == {n \in Nat : \E f : f = [i \in (N + 1 - n)..N |-> RequestsFrom(s, f, i)]}
<1>1. N \in Nat /\ N = Len(s)
  OBVIOUS
<1> HIDE DEF N
<1>2. 0 \in G
  <2> DEFINE e == [i \in (N + 1)..N |-> i]
  <2>1. e = [i \in (N + 1)..N |-> RequestsFrom(s, e, i)]
    BY <1>1
  <2>2. N + 1 - 0 = N + 1
    BY <1>1
  <2> QED BY <2>1, <2>2
<1>3. ASSUME NEW n \in 0..((N + 1) - 1), n \in G PROVE n + 1 \in G
  <2> DEFINE m == N + 1 - n
  <2>1. m \in 1..(N + 1) /\ N + 1 - (n + 1) = m - 1 /\ n + 1 \in Nat /\ m \in Nat
    BY <1>1
  <2>2. PICK f : f = [i \in m..N |-> RequestsFrom(s, f, i)]
    BY <1>3
  <2> HIDE DEF m
  <2> DEFINE g == [i \in (m - 1)..N |-> IF i = m - 1 THEN RequestsFrom(s, f, i) ELSE f[i]]
  <2>3. ASSUME NEW i \in (m - 1)..N PROVE g[i] = RequestsFrom(s, g, i)
    <3>1. i \in 0..N /\ \A j \in (i + 1)..N : j \in (m - 1)..N /\ j # m - 1
      BY <1>1, <2>1
    <3>2. \A j \in (i + 1)..N : g[j] = f[j]
      BY <3>1
    <3> HIDE DEF g
    <3>3. RequestsFrom(s, g, i) = RequestsFrom(s, f, i)
      BY <1>1, <3>1, <3>2, RequestsAhead
    <3>4. CASE i = m - 1
      BY <3>3, <3>4 DEF g
    <3>5. CASE i # m - 1
      <4>1. i \in m..N
        BY <1>1, <2>1, <3>5
      <4>2. f[i] = RequestsFrom(s, f, i)
        BY <2>2, <4>1
      <4> QED BY <3>3, <3>5, <4>2 DEF g
    <3> QED BY <3>4, <3>5
  <2> HIDE DEF g
  <2>4. g = [i \in (m - 1)..N |-> g[i]]
    BY DEF g
  <2>5. g = [i \in (m - 1)..N |-> RequestsFrom(s, g, i)]
    BY <2>3, <2>4
  <2>6. \E h : h = [i \in (N + 1 - (n + 1))..N |-> RequestsFrom(s, h, i)]
    BY <2>1, <2>5
  <2> QED BY <2>1, <2>6
<1> HIDE DEF G
<1>4. 0..(N + 1) \subseteq G
  <2>1. N + 1 \in Nat
    BY <1>1
  <2> QED BY <1>2, <1>3, <2>1, InductionUpTo
<1>5. N + 1 \in G /\ N + 1 - (N + 1) = 0
  BY <1>1, <1>4
<1>6. \E f : f = [i \in 0..N |-> RequestsFrom(s, f, i)]
  BY <1>5 DEF G
<1> QED BY <1>1, <1>6 DEF RequestsOf

(* The requests from a place on, by those from the places behind it.       *)
LEMMA RequestsOfAt ==
    ASSUME NEW s \in Seq(Tokens)
    PROVE  /\ Requests(s) = RequestsOf(s)[0]
           /\ \A i \in 0..Len(s) : RequestsOf(s)[i] = RequestsFrom(s, RequestsOf(s), i)
<1>1. Requests(s) = RequestsOf(s)[0]
  BY DEF Requests, RequestsOf
<1> DEFINE f == RequestsOf(s)
<1>2. f = [i \in 0..Len(s) |-> RequestsFrom(s, f, i)]
  BY RequestsOfDef
<1> HIDE DEF f
<1>3. \A i \in 0..Len(s) : f[i] = RequestsFrom(s, f, i)
  BY <1>2
<1> QED BY <1>1, <1>3 DEF f

-----------------------------------------------------------------------------
(* The parser on what a client sends.                                      *)

(* The letters of a body.                                                  *)
LEMMA BytesIs ==
    ASSUME NEW id \in Nat, NEW n \in Nat
    PROVE  /\ Bytes(id, n) \in Seq(Tokens) /\ Len(Bytes(id, n)) = n
           /\ \A i \in 1..n : Bytes(id, n)[i] = Token("byte", id, 1)
<1>1. Token("byte", id, 1) \in Tokens
  BY DEF Token, Tokens, Kinds
<1>2. Bytes(id, n) \in [1..n -> Tokens]
  BY <1>1 DEF Bytes
<1>3. \A g : g \in [1..n -> Tokens] => g \in Seq(Tokens) /\ Len(g) = n
  OBVIOUS
<1> QED BY <1>2, <1>3 DEF Bytes

(* The tokens that a client sends.                                         *)
LEMMA TokensOf ==
    ASSUME NEW id \in Nat, NEW n \in Nat
    PROVE  /\ \A k \in Kinds : Token(k, id, n) \in Tokens
           /\ Token("head", id, Chunked) \in Tokens
BY DEF Token, Tokens, Kinds, Chunked

(* A request with Content-Length, or without a body.                       *)
LEMMA WireLength ==
    ASSUME NEW r \in HttpRequests, r.shape = "length"
    PROVE  /\ Wire(r) \in Seq(Tokens) /\ Len(Wire(r)) = r.n + 2 /\ r.n \in Nat /\ r.id \in Nat
           /\ Wire(r)[1] = Token("start", r.id, 0) /\ Wire(r)[2] = Token("head", r.id, r.n)
           /\ \A i \in 1..r.n : Wire(r)[i + 2] = Token("byte", r.id, 1)
<1>1. r.id \in Nat /\ r.n \in Nat
  BY DEF HttpRequests
<1> DEFINE a == <<Token("start", r.id, 0), Token("head", r.id, r.n)>>
           b == Bytes(r.id, r.n)
<1>2. Wire(r) = a \o b
  BY DEF Wire
<1>3. a \in Seq(Tokens) /\ Len(a) = 2 /\ a[1] = Token("start", r.id, 0) /\ a[2] = Token("head", r.id, r.n)
  BY <1>1, TokensOf DEF Kinds
<1>4. b \in Seq(Tokens) /\ Len(b) = r.n /\ \A i \in 1..r.n : b[i] = Token("byte", r.id, 1)
  BY <1>1, BytesIs
<1> HIDE DEF a, b
<1> DEFINE w == a \o b
           n == r.n
<1>5. /\ w \in Seq(Tokens) /\ Len(w) = 2 + n /\ \A i \in 1..2 : w[i] = a[i]
      /\ \A i \in 1..n : w[2 + i] = b[i]
  <2>1. /\ w \in Seq(Tokens) /\ Len(w) = Len(a) + Len(b)
        /\ \A i \in 1..Len(a) : w[i] = a[i]
        /\ \A i \in 1..Len(b) : w[Len(a) + i] = b[i]
    <3>1. a \in Seq(Tokens) /\ b \in Seq(Tokens)
      BY <1>3, <1>4
    <3> QED BY <3>1, ConcatAt
  <2> HIDE DEF w
  <2> QED BY <1>3, <1>4, <2>1
<1> HIDE DEF w, n
<1>6. n \in Nat /\ \A i \in 1..n : 2 + i = i + 2
  BY <1>1 DEF n
<1>7. w[1] = a[1] /\ w[2] = a[2] /\ Len(w) = n + 2 /\ \A i \in 1..n : w[i + 2] = b[i]
  BY <1>5, <1>6
<1> QED BY <1>1, <1>2, <1>3, <1>4, <1>5, <1>7 DEF w, n

(* A chunked one.                                                          *)
LEMMA WireChunked ==
    ASSUME NEW r \in HttpRequests, r.shape = "chunked"
    PROVE  /\ Wire(r) \in Seq(Tokens) /\ Len(Wire(r)) = r.n + 6 /\ r.n \in Nat \ {0} /\ r.id \in Nat
           /\ Wire(r)[1] = Token("start", r.id, 0) /\ Wire(r)[2] = Token("head", r.id, Chunked)
           /\ Wire(r)[3] = Token("size", r.id, r.n)
           /\ \A i \in 1..r.n : Wire(r)[i + 3] = Token("byte", r.id, 1)
           /\ Wire(r)[r.n + 4] = Token("crlf", r.id, 0)
           /\ Wire(r)[r.n + 5] = Token("size", r.id, 0)
           /\ Wire(r)[r.n + 6] = Token("crlf", r.id, 0)
<1>1. r.id \in Nat /\ r.n \in Nat \ {0}
  BY DEF HttpRequests
<1> DEFINE a == <<Token("start", r.id, 0), Token("head", r.id, Chunked)>>
           c == <<Token("size", r.id, r.n)>>
           b == Bytes(r.id, r.n)
           d == <<Token("crlf", r.id, 0), Token("size", r.id, 0), Token("crlf", r.id, 0)>>
<1>2. Wire(r) = a \o (c \o b \o d)
  BY DEF Wire
<1>3. a \in Seq(Tokens) /\ Len(a) = 2 /\ a[1] = Token("start", r.id, 0) /\ a[2] = Token("head", r.id, Chunked)
  BY <1>1, TokensOf DEF Kinds
<1>4. b \in Seq(Tokens) /\ Len(b) = r.n /\ \A i \in 1..r.n : b[i] = Token("byte", r.id, 1)
  BY <1>1, BytesIs
<1>5. c \in Seq(Tokens) /\ Len(c) = 1 /\ c[1] = Token("size", r.id, r.n)
  BY <1>1, TokensOf DEF Kinds
<1>6. d \in Seq(Tokens) /\ Len(d) = 3 /\ d[1] = Token("crlf", r.id, 0) /\ d[2] = Token("size", r.id, 0)
      /\ d[3] = Token("crlf", r.id, 0)
  BY <1>1, TokensOf DEF Kinds
<1> DEFINE n == r.n
<1>7. n \in Nat \ {0} /\ Len(b) = n
  BY <1>1, <1>4
<1> HIDE DEF a, b, c, d, n
<1> DEFINE v == c \o b
<1>8. v \in Seq(Tokens) /\ Len(v) = 1 + n /\ v[1] = c[1] /\ \A i \in 1..n : v[1 + i] = b[i]
  <2>1. /\ v \in Seq(Tokens) /\ Len(v) = Len(c) + Len(b)
        /\ \A i \in 1..Len(c) : v[i] = c[i]
        /\ \A i \in 1..Len(b) : v[Len(c) + i] = b[i]
    <3>1. c \in Seq(Tokens) /\ b \in Seq(Tokens)
      BY <1>4, <1>5, <1>7
    <3> QED BY <3>1, ConcatAt
  <2> HIDE DEF v
  <2> QED BY <1>4, <1>5, <1>7, <2>1
<1> HIDE DEF v
<1> DEFINE u == v \o d
<1>9. /\ u \in Seq(Tokens) /\ Len(u) = (1 + n) + 3 /\ \A i \in 1..(1 + n) : u[i] = v[i]
      /\ u[(1 + n) + 1] = d[1] /\ u[(1 + n) + 2] = d[2] /\ u[(1 + n) + 3] = d[3]
  <2>1. /\ u \in Seq(Tokens) /\ Len(u) = Len(v) + Len(d)
        /\ \A i \in 1..Len(v) : u[i] = v[i]
        /\ \A i \in 1..Len(d) : u[Len(v) + i] = d[i]
    <3>1. v \in Seq(Tokens) /\ d \in Seq(Tokens)
      BY <1>6, <1>7, <1>8
    <3> QED BY <3>1, ConcatAt
  <2> HIDE DEF u
  <2> QED BY <1>6, <1>7, <1>8, <2>1
<1> HIDE DEF u
<1> DEFINE w == a \o u
<1>10. /\ w \in Seq(Tokens) /\ Len(w) = 2 + Len(u) /\ w[1] = a[1] /\ w[2] = a[2]
       /\ \A i \in 1..Len(u) : w[2 + i] = u[i]
  <2>1. /\ w \in Seq(Tokens) /\ Len(w) = Len(a) + Len(u)
        /\ \A i \in 1..Len(a) : w[i] = a[i]
        /\ \A i \in 1..Len(u) : w[Len(a) + i] = u[i]
    <3>1. a \in Seq(Tokens) /\ u \in Seq(Tokens)
      BY <1>3, <1>9
    <3> QED BY <3>1, ConcatAt
  <2> HIDE DEF w
  <2> QED BY <1>3, <1>9, <2>1
<1> HIDE DEF w
<1>11. w[3] = c[1]
  <2>1. 1 \in 1..Len(u) /\ 1 \in 1..(1 + n) /\ 2 + 1 = 3
    BY <1>7, <1>9
  <2> QED BY <1>8, <1>9, <1>10, <2>1
<1>12. ASSUME NEW i \in 1..n PROVE w[i + 3] = b[i]
  <2>1. 1 + i \in 1..Len(u) /\ 1 + i \in 1..(1 + n) /\ 2 + (1 + i) = i + 3
    BY <1>7, <1>9
  <2> QED BY <1>8, <1>9, <1>10, <2>1
<1>13. w[n + 4] = d[1] /\ w[n + 5] = d[2] /\ w[n + 6] = d[3] /\ Len(w) = n + 6
  <2>1. \A i \in {1, 2, 3} : (1 + n) + i \in 1..Len(u) /\ 2 + ((1 + n) + i) = n + (3 + i)
    BY <1>7, <1>9
  <2>2. \A i \in {1, 2, 3} : w[n + (3 + i)] = u[(1 + n) + i]
    BY <1>10, <2>1
  <2>3. w[n + (3 + 1)] = u[(1 + n) + 1] /\ w[n + (3 + 2)] = u[(1 + n) + 2] /\ w[n + (3 + 3)] = u[(1 + n) + 3]
    BY <2>2
  <2>4. 3 + 1 = 4 /\ 3 + 2 = 5 /\ 3 + 3 = 6 /\ Len(w) = n + 6
    BY <1>7, <1>9, <1>10
  <2> QED BY <1>9, <2>3, <2>4
<1>14. Wire(r) = w
  BY <1>2 DEF w, u, v
<1>15. w[1] = Token("start", r.id, 0) /\ w[2] = Token("head", r.id, Chunked) /\ w[3] = Token("size", r.id, n)
  BY <1>3, <1>5, <1>10, <1>11 DEF n
<1>16. \A i \in 1..n : w[i + 3] = Token("byte", r.id, 1)
  BY <1>4, <1>12 DEF n
<1>17. w[n + 4] = Token("crlf", r.id, 0) /\ w[n + 5] = Token("size", r.id, 0) /\ w[n + 6] = Token("crlf", r.id, 0)
  BY <1>6, <1>13
<1> QED BY <1>1, <1>10, <1>13, <1>14, <1>15, <1>16, <1>17 DEF n

(* One whose last chunk, its only one, has trailers.                       *)
LEMMA WireTrailers ==
    ASSUME NEW r \in HttpRequests, r.shape = "trailers"
    PROVE  /\ Wire(r) \in Seq(Tokens) /\ Len(Wire(r)) = 4 /\ r.id \in Nat
           /\ Wire(r)[1] = Token("start", r.id, 0) /\ Wire(r)[2] = Token("head", r.id, Chunked)
           /\ Wire(r)[3] = Token("size", r.id, 0) /\ Wire(r)[4] = Token("trailer", r.id, 0)
<1>1. r.id \in Nat
  BY DEF HttpRequests
<1>2. Wire(r) = <<Token("start", r.id, 0), Token("head", r.id, Chunked)>>
                  \o <<Token("size", r.id, 0), Token("trailer", r.id, 0)>>
  BY DEF Wire
<1> DEFINE a == <<Token("start", r.id, 0), Token("head", r.id, Chunked)>>
           b == <<Token("size", r.id, 0), Token("trailer", r.id, 0)>>
<1>3. a \in Seq(Tokens) /\ Len(a) = 2 /\ a[1] = Token("start", r.id, 0) /\ a[2] = Token("head", r.id, Chunked)
  BY <1>1, TokensOf DEF Kinds
<1>4. b \in Seq(Tokens) /\ Len(b) = 2 /\ b[1] = Token("size", r.id, 0) /\ b[2] = Token("trailer", r.id, 0)
  BY <1>1, TokensOf DEF Kinds
<1>5. Wire(r) = a \o b
  BY <1>2
<1> HIDE DEF a, b
<1> DEFINE w == a \o b
<1>6. w \in Seq(Tokens) /\ Len(w) = 4 /\ w[1] = a[1] /\ w[2] = a[2] /\ w[2 + 1] = b[1] /\ w[2 + 2] = b[2]
  BY <1>3, <1>4, ConcatAt
<1> HIDE DEF w
<1>7. w[3] = b[1] /\ w[4] = b[2]
  BY <1>6
<1> QED BY <1>1, <1>3, <1>4, <1>5, <1>6, <1>7 DEF w

(* As far as both go, s and w are the same.                                *)
Agrees(s, w) == \A i \in 1..Len(s) : i <= Len(w) => s[i] = w[i]

(* A start line alone is not a request yet.                                *)
LEMMA ParseShort ==
    ASSUME NEW s \in Seq(Tokens), NEW id \in Nat, Len(s) < 2, Len(s) >= 1 => s[1] = Token("start", id, 0)
    PROVE  ParseHTTP1(s) = More
<1>1. Len(s) \in Nat /\ \A i \in 1..Len(s) : i = 1 /\ s[i].k = "start"
  BY DEF Token
<1>2. Blanks(s) = {}
  BY <1>1 DEF Blanks
<1> QED BY <1>2 DEF ParseHTTP1

(* With the head it is one once the body is there.                         *)
LEMMA ParseHead ==
    ASSUME NEW s \in Seq(Tokens), NEW id \in Nat, NEW n \in Nat \cup {Chunked}, Len(s) >= 2,
           s[1] = Token("start", id, 0), s[2] = Token("head", id, n)
    PROVE  LET b == readBody(SubSeq(s, 3, Len(s)), n)
           IN  ParseHTTP1(s) = IF b.st # "ok" THEN b
                               ELSE Parsed([before |-> 0, line |-> id, head |-> id, body |-> b.body], 2 + b.n)
<1>1. Len(s) \in Nat /\ 1 \in DOMAIN s /\ 2 \in DOMAIN s /\ DOMAIN s = 1..Len(s)
  OBVIOUS
<1>2. s[1].k = "start" /\ s[1].id = id /\ s[2].k = "head" /\ s[2].id = id /\ s[2].n = n
  BY DEF Token
<1>3. 1 \notin Lines(s) /\ 2 \in Lines(s)
  BY <1>1, <1>2 DEF Lines
<1>4. 1 \notin Blanks(s) /\ 2 \in Blanks(s)
  BY <1>1, <1>2 DEF Blanks
<1>5. Blanks(s) \subseteq Lines(s) /\ Lines(s) \subseteq 1..Len(s) /\ Lines(s) \subseteq Nat /\ Blanks(s) \subseteq Nat
  BY LinesIn
<1>6. LeastOf(Lines(s)) = 2
  <2>1. LeastOf(Lines(s)) \in Lines(s) /\ \A j \in Lines(s) : LeastOf(Lines(s)) <= j
    BY <1>3, <1>5, LeastOfIs
  <2>2. LeastOf(Lines(s)) \in 1..Len(s) /\ LeastOf(Lines(s)) <= 2 /\ LeastOf(Lines(s)) # 1
    BY <1>3, <1>5, <2>1
  <2> QED BY <1>1, <2>2
<1>7. LeastOf(Blanks(s)) = 2
  <2>1. LeastOf(Blanks(s)) \in Blanks(s) /\ \A j \in Blanks(s) : LeastOf(Blanks(s)) <= j
    BY <1>4, <1>5, LeastOfIs
  <2>2. LeastOf(Blanks(s)) \in 1..Len(s) /\ LeastOf(Blanks(s)) <= 2 /\ LeastOf(Blanks(s)) # 1
    BY <1>4, <1>5, <2>1
  <2> QED BY <1>1, <2>2
<1>8. parseRequestLine(s, 2)
  <2>1. 2 - 1 = 1 /\ \A j \in 1..(2 - 2) : FALSE
    OBVIOUS
  <2> QED BY <1>2, <2>1 DEF parseRequestLine
<1> DEFINE b == readBody(SubSeq(s, 2 + 1, Len(s)), s[2].n)
<1>9. ParseHTTP1(s) = IF b.st # "ok" THEN b
                      ELSE Parsed([before |-> 2 - 2, line |-> s[2 - 1].id, head |-> s[2].id, body |-> b.body], 2 + b.n)
  BY <1>4, <1>6, <1>7, <1>8 DEF ParseHTTP1
<1>10. 2 - 2 = 0 /\ 2 - 1 = 1 /\ 2 + 1 = 3
  OBVIOUS
<1> QED BY <1>2, <1>9, <1>10

(* The verdicts are told apart.                                            *)
LEMMA MoreIs == More.st # "ok"
BY DEF More

(* A body that is there.                                                   *)
LEMMA BodyIs == ASSUME NEW b, NEW n PROVE Body(b, n).st = "ok" /\ Body(b, n).body = b /\ Body(b, n).n = n
BY DEF Body

(* A body of one chunk and the last.                                       *)
LEMMA ReadChunk ==
    ASSUME NEW s \in Seq(Tokens), NEW id \in Nat, NEW n \in Nat \ {0},
           Len(s) >= 1 => s[1] = Token("size", id, n),
           \A i \in 1..n : i + 1 <= Len(s) => s[i + 1] = Token("byte", id, 1),
           Len(s) >= n + 2 => s[n + 2] = Token("crlf", id, 0),
           Len(s) >= n + 3 => s[n + 3] = Token("size", id, 0),
           Len(s) >= n + 4 => s[n + 4] = Token("crlf", id, 0)
    PROVE  readBody(s, Chunked) = IF Len(s) < n + 4 THEN More ELSE Body(Bytes(id, n), n + 4)
<1> DEFINE f == ChunksOf(s)
<1>1. Len(s) \in Nat /\ readBody(s, Chunked) = f[1]
  BY DEF readBody, readChunkedBody, ChunksOf
<1>2. \A at \in 1..(Len(s) + 1) : f[at] = Chunks(s, f, at)
  BY ChunksOfAt
<1> HIDE DEF f
<1>3. Lines(s) \subseteq 1..Len(s) /\ \A at \in Int : at > Len(s) => \A i \in Lines(s) : i < at
  BY <1>1, LinesIn
<1>4. ASSUME NEW at \in 1..(Len(s) + 1), \A i \in Lines(s) : i < at PROVE f[at] = More
  <2>1. at \in Int /\ at \notin Lines(s) /\ ~(\E i \in Lines(s) : i >= at)
    BY <1>3, <1>4
  <2>2. Chunks(s, f, at) = More
    BY <1>4, <2>1 DEF Chunks
  <2> QED BY <1>2, <2>2
<1>5. CASE Len(s) = 0
  <2>1. 1 \in 1..(Len(s) + 1) /\ \A i \in Lines(s) : i < 1
    BY <1>3, <1>5
  <2>2. Len(s) < n + 4
    BY <1>5
  <2> QED BY <1>1, <1>4, <2>1, <2>2
<1>6. CASE Len(s) >= 1
  <2>1. s[1].k = "size" /\ s[1].n = n /\ 1 \in 1..Len(s) /\ 1 + n + 1 = n + 2 /\ (n + 2) + 1 = n + 3
    BY <1>1, <1>6 DEF Token
  <2>2. 1 \in Lines(s)
    BY <2>1, TokenIs
  <2>3. Chunks(s, f, 1) = IF Len(s) < n + 2 THEN More
                          ELSE IF s[n + 2].k # "crlf" THEN Malformed
                          ELSE IF f[n + 3].st # "ok" THEN f[n + 3]
                          ELSE Body(SubSeq(s, 1 + 1, (n + 2) - 1) \o f[n + 3].body, f[n + 3].n)
    <3>1. /\ ~(\A i \in Lines(s) : i < 1) /\ ~((\E i \in Lines(s) : i >= 1) /\ s[1].k # "size")
          /\ s[1].n # 0 /\ s[1].n > 0
      BY <2>1, <2>2
    <3>2. Chunks(s, f, 1) = IF Len(s) < 1 + s[1].n + 1 THEN More
                            ELSE IF s[1 + s[1].n + 1].k # "crlf" THEN Malformed
                            ELSE IF f[1 + s[1].n + 1 + 1].st # "ok" THEN f[1 + s[1].n + 1 + 1]
                            ELSE Body(SubSeq(s, 1 + 1, 1 + s[1].n + 1 - 1) \o f[1 + s[1].n + 1 + 1].body, f[1 + s[1].n + 1 + 1].n)
      BY <2>1, <2>2, <3>1 DEF Chunks
    <3> QED BY <2>1, <3>2
  <2>4. f[1] = Chunks(s, f, 1)
    BY <1>1, <1>2
  <2>5. CASE Len(s) < n + 2
    <3>1. Len(s) < n + 4
      BY <1>1, <2>5
    <3> QED BY <1>1, <2>3, <2>4, <2>5, <3>1
  <2>6. CASE Len(s) >= n + 2
    <3>1. s[n + 2].k = "crlf" /\ ~(Len(s) < n + 2)
      BY <1>1, <2>6 DEF Token
    <3>2. CASE Len(s) = n + 2
      <4>1. n + 3 \in 1..(Len(s) + 1) /\ \A i \in Lines(s) : i < n + 3
        BY <1>1, <1>3, <3>2
      <4>2. f[n + 3] = More
        BY <1>4, <4>1
      <4>3. Len(s) < n + 4
        BY <1>1, <3>2
      <4> QED BY <1>1, <2>3, <2>4, <3>1, <4>2, <4>3, MoreIs
    <3>3. CASE Len(s) >= n + 3
      <4>1. n + 3 \in 1..Len(s) /\ n + 3 \in 1..(Len(s) + 1) /\ (n + 3) + 1 = n + 4
        BY <1>1, <3>3
      <4>2. s[n + 3].k = "size" /\ s[n + 3].n = 0
        BY <3>3 DEF Token
      <4>3. n + 3 \in Lines(s)
        BY <4>1, <4>2, TokenIs
      <4>4. Chunks(s, f, n + 3) = IF LastChunk(s, n + 3) = More THEN More ELSE Body(<<>>, LastChunk(s, n + 3).n)
        <5>1. ~(\A i \in Lines(s) : i < n + 3) /\ ~(s[n + 3].n > 0)
          BY <4>2, <4>3
        <5> QED BY <4>2, <4>3, <5>1 DEF Chunks
      <4>5. f[n + 3] = Chunks(s, f, n + 3)
        BY <1>2, <4>1
      <4> DEFINE rest == SubSeq(s, (n + 3) + 1, Len(s))
      <4>6. rest \in Seq(Tokens) /\ Len(rest) = Len(s) - (n + 3) /\ \A x \in 1..(Len(s) - (n + 3)) : rest[x] = s[(n + 3) + x]
        <5>1. n + 3 \in 0..Len(s)
          BY <4>1
        <5> QED BY <5>1, BehindIs
      <4> HIDE DEF rest
      <4>7. CASE Len(s) = n + 3
        <5>1. rest = <<>> /\ Len(s) < n + 4
          BY <4>6, <4>7
        <5>2. LastChunk(s, n + 3) = More
          BY <5>1 DEF LastChunk, rest
        <5>3. f[n + 3] = More
          BY <4>4, <4>5, <5>2
        <5> QED BY <1>1, <2>3, <2>4, <3>1, <5>1, <5>3, MoreIs
      <4>8. CASE Len(s) >= n + 4
        <5>1. Len(rest) >= 1 /\ rest # <<>> /\ 1 \in 1..(Len(s) - (n + 3)) /\ ~(Len(s) < n + 4)
          BY <1>1, <4>6, <4>8
        <5>2. rest[1] = s[n + 4]
          BY <4>1, <4>6, <5>1
        <5>3. Head(rest).k = "crlf"
          BY <4>8, <5>1, <5>2 DEF Token
        <5>4. LastChunk(s, n + 3) = [st |-> "ok", n |-> (n + 3) + 1]
          BY <5>1, <5>3 DEF LastChunk, rest
        <5>5. LastChunk(s, n + 3) # More /\ LastChunk(s, n + 3).n = n + 4
          BY <4>1, <5>4 DEF More
        <5>6. f[n + 3] = Body(<<>>, n + 4)
          BY <4>4, <4>5, <5>5
        <5>7. f[1] = Body(SubSeq(s, 1 + 1, (n + 2) - 1) \o <<>>, n + 4)
          <6>1. f[n + 3].st = "ok" /\ f[n + 3].body = <<>> /\ f[n + 3].n = n + 4
            BY <5>6, BodyIs
          <6>2. ~(Len(s) < n + 2) /\ ~(s[n + 2].k # "crlf")
            BY <3>1
          <6>3. f[1] = Body(SubSeq(s, 1 + 1, (n + 2) - 1) \o f[n + 3].body, f[n + 3].n)
            BY <2>3, <2>4, <6>1, <6>2
          <6> QED BY <6>1, <6>3
        <5>8. SubSeq(s, 1 + 1, (n + 2) - 1) \o <<>> = Bytes(id, n)
          <6> DEFINE c == SubSeq(s, 2, n + 1)
          <6>1. \A i \in 2..(n + 1) : s[i] \in Tokens
            BY <1>1, <4>8
          <6>2. /\ c \in Seq(Tokens) /\ Len(c) = IF 2 <= n + 1 THEN (n + 1) - 2 + 1 ELSE 0
                /\ \A i \in 1..((n + 1) - 2 + 1) : c[i] = s[2 + i - 1]
            BY <6>1, SubSeqProperties
          <6> HIDE DEF c
          <6>3. Len(c) = n /\ (n + 1) - 2 + 1 = n /\ 1 + 1 = 2 /\ (n + 2) - 1 = n + 1
            <7>1. 2 <= n + 1
              OBVIOUS
            <7> QED BY <6>2, <7>1
          <6>4. ASSUME NEW i \in 1..n PROVE c[i] = Token("byte", id, 1)
            <7>1. i + 1 <= Len(s) /\ 2 + i - 1 = i + 1
              BY <1>1, <4>8
            <7> QED BY <6>2, <6>3, <7>1
          <6>5. c = Bytes(id, n)
            BY <6>2, <6>3, <6>4, BytesIs, SeqEqual
          <6>6. c \o <<>> = c
            BY <6>2, ConcatEmptySeq
          <6> QED BY <6>3, <6>5, <6>6 DEF c
        <5> QED BY <1>1, <5>1, <5>7, <5>8
      <4> QED BY <1>1, <3>3, <4>7, <4>8
    <3> QED BY <1>1, <2>6, <3>2, <3>3
  <2> QED BY <1>1, <2>5, <2>6
<1> QED BY <1>1, <1>5, <1>6

(* A body without letters, but with trailers.                              *)
LEMMA ReadTrailers ==
    ASSUME NEW s \in Seq(Tokens), NEW id \in Nat,
           Len(s) >= 1 => s[1] = Token("size", id, 0),
           Len(s) >= 2 => s[2] = Token("trailer", id, 0)
    PROVE  readBody(s, Chunked) = IF Len(s) < 2 THEN More ELSE Body(<<>>, 2)
<1> DEFINE f == ChunksOf(s)
           rest == SubSeq(s, 1 + 1, Len(s))
<1>1. Len(s) \in Nat /\ readBody(s, Chunked) = f[1] /\ 1 \in 1..(Len(s) + 1)
  BY DEF readBody, readChunkedBody, ChunksOf
<1>2. f[1] = Chunks(s, f, 1)
  BY <1>1, ChunksOfAt
<1> HIDE DEF f
<1>3. Lines(s) \subseteq 1..Len(s)
  BY LinesIn
<1>4. CASE Len(s) = 0
  <2>1. 1 \notin Lines(s) /\ (\A i \in Lines(s) : i < 1) /\ ~(\E i \in Lines(s) : i >= 1)
    BY <1>3, <1>4
  <2>2. Chunks(s, f, 1) = More
    BY <2>1 DEF Chunks
  <2>3. Len(s) < 2
    BY <1>4
  <2> QED BY <1>1, <1>2, <2>2, <2>3
<1>5. CASE Len(s) >= 1
  <2>1. s[1].k = "size" /\ s[1].n = 0 /\ 1 \in 1..Len(s) /\ 1 \in 0..Len(s)
    BY <1>1, <1>5 DEF Token
  <2>2. 1 \in Lines(s)
    BY <2>1, TokenIs
  <2>3. Chunks(s, f, 1) = IF LastChunk(s, 1) = More THEN More ELSE Body(<<>>, LastChunk(s, 1).n)
    <3>1. ~(\A i \in Lines(s) : i < 1) /\ ~(s[1].n > 0)
      BY <2>1, <2>2
    <3> QED BY <2>1, <2>2, <3>1 DEF Chunks
  <2>4. rest \in Seq(Tokens) /\ Len(rest) = Len(s) - 1 /\ \A x \in 1..(Len(s) - 1) : rest[x] = s[1 + x]
    BY <2>1, BehindIs
  <2> HIDE DEF rest
  <2>5. CASE Len(s) = 1
    <3>1. rest = <<>> /\ Len(s) < 2
      BY <2>4, <2>5
    <3>2. LastChunk(s, 1) = More
      BY <3>1 DEF LastChunk, rest
    <3> QED BY <1>1, <1>2, <2>3, <3>1, <3>2
  <2>6. CASE Len(s) >= 2
    <3>1. rest # <<>> /\ 1 \in 1..(Len(s) - 1) /\ ~(Len(s) < 2) /\ 1 + 1 = 2 /\ 1 \in DOMAIN rest
      BY <1>1, <2>4, <2>6
    <3>2. rest[1].k = "trailer"
      BY <2>4, <2>6, <3>1 DEF Token
    <3>3. Head(rest).k # "crlf"
      BY <3>1, <3>2
    <3>4. 1 \in Blanks(rest)
      BY <3>1, <3>2 DEF Blanks
    <3>5. LeastOf(Blanks(rest)) = 1
      <4>1. Blanks(rest) \subseteq 1..Len(rest) /\ Blanks(rest) \subseteq Nat
        BY <2>4, LinesIn
      <4>2. LeastOf(Blanks(rest)) \in Blanks(rest) /\ LeastOf(Blanks(rest)) <= 1
        BY <3>4, <4>1, LeastOfIs
      <4>3. LeastOf(Blanks(rest)) \in 1..Len(rest)
        BY <4>1, <4>2
      <4> QED BY <2>4, <4>2, <4>3
    <3>6. LastChunk(s, 1) = [st |-> "ok", n |-> 1 + LeastOf(Blanks(rest))]
      BY <3>1, <3>3, <3>4 DEF LastChunk, rest
    <3>7. LastChunk(s, 1) # More /\ LastChunk(s, 1).n = 2
      BY <3>1, <3>5, <3>6 DEF More
    <3> QED BY <1>1, <1>2, <2>3, <3>1, <3>7
  <2>7. Len(s) = 1 \/ Len(s) >= 2
    <3>1. \A k \in Nat : k >= 1 => k = 1 \/ k >= 2
      OBVIOUS
    <3> QED BY <1>1, <1>5, <3>1
  <2> QED BY <2>5, <2>6, <2>7
<1> QED BY <1>1, <1>4, <1>5

(* A body that Content-Length delimits is there once its letters are.      *)
LEMMA ReadLength ==
    ASSUME NEW s \in Seq(Tokens), NEW id \in Nat, NEW n \in Nat,
           \A i \in 1..n : i <= Len(s) => s[i] = Token("byte", id, 1)
    PROVE  readBody(s, n) = IF Len(s) < n THEN More ELSE Body(Bytes(id, n), n)
<1>1. Len(s) \in Nat /\ n # Chunked
  BY DEF Chunked
<1>2. CASE Len(s) < n
  BY <1>1, <1>2 DEF readBody
<1>3. CASE Len(s) >= n
  <2> DEFINE c == SubSeq(s, 1, n)
  <2>1. readBody(s, n) = Body(c, n)
    BY <1>1, <1>3 DEF readBody
  <2>2. \A i \in 1..n : s[i] \in Tokens
    BY <1>1, <1>3
  <2>3. c \in Seq(Tokens) /\ Len(c) = (IF 1 <= n THEN n - 1 + 1 ELSE 0) /\ \A i \in 1..(n - 1 + 1) : c[i] = s[1 + i - 1]
    BY <2>2, SubSeqProperties
  <2> HIDE DEF c
  <2>4. Len(c) = n /\ n - 1 + 1 = n /\ \A i \in 1..n : 1 + i - 1 = i /\ i <= Len(s)
    <3>1. ~(1 <= n) => n = 0
      OBVIOUS
    <3> QED BY <1>1, <1>3, <2>3, <3>1
  <2>5. \A i \in 1..n : c[i] = Token("byte", id, 1)
    BY <2>3, <2>4
  <2>6. c = Bytes(id, n)
    BY <2>3, <2>4, <2>5, BytesIs, SeqEqual
  <2>7. ~(Len(s) < n)
    BY <1>1, <1>3
  <2> QED BY <2>1, <2>6, <2>7
<1> QED BY <1>1, <1>2, <1>3

(* However the stream goes on: a request of which everything is there is   *)
(* taken as it was made, and one that is cut off is waited for.            *)
LEMMA ParseWire ==
    ASSUME NEW r \in HttpRequests, NEW s \in Seq(Tokens), Agrees(s, Wire(r))
    PROVE  ParseHTTP1(s) = IF Len(s) < Len(Wire(r)) THEN More ELSE Parsed(Reference(r), Len(Wire(r)))
<1> DEFINE w == Wire(r)
           id == r.id
           after == SubSeq(s, 2 + 1, Len(s))
           body == Reference(r).body
<1>1. r.shape \in {"length", "chunked", "trailers"}
  BY DEF HttpRequests
<1>2. /\ w \in Seq(Tokens) /\ Len(w) \in Nat /\ Len(w) >= 2 /\ Len(s) \in Nat /\ id \in Nat
      /\ w[1] = Token("start", id, 0)
      /\ w[2] = Token("head", id, IF r.shape = "length" THEN r.n ELSE Chunked)
      /\ r.shape = "length" => r.n \in Nat
  <2>1. CASE r.shape = "length"
    BY <2>1, WireLength
  <2>2. CASE r.shape = "chunked"
    BY <2>2, WireChunked
  <2>3. CASE r.shape = "trailers"
    BY <2>3, WireTrailers
  <2> QED BY <1>1, <2>1, <2>2, <2>3
<1>3. \A i \in 1..Len(s) : i <= Len(w) => s[i] = w[i]
  BY DEF Agrees
<1>4. Reference(r) = [before |-> 0, line |-> id, head |-> id, body |-> body]
  BY DEF Reference
<1>5. CASE Len(s) < 2
  <2>1. Len(s) >= 1 => s[1] = Token("start", id, 0)
    BY <1>2, <1>3
  <2>2. ParseHTTP1(s) = More
    BY <1>2, <1>5, <2>1, ParseShort
  <2>3. Len(s) < Len(w)
    BY <1>2, <1>5
  <2> QED BY <2>2, <2>3
<1>6. CASE Len(s) >= 2
  <2> DEFINE m == IF r.shape = "length" THEN r.n ELSE Chunked
             b == readBody(SubSeq(s, 3, Len(s)), m)
  <2>1. s[1] = Token("start", id, 0) /\ s[2] = Token("head", id, m) /\ m \in Nat \cup {Chunked} /\ 2 + 1 = 3
    BY <1>2, <1>3, <1>6
  <2>2. ParseHTTP1(s) = IF b.st # "ok" THEN b
                        ELSE Parsed([before |-> 0, line |-> id, head |-> id, body |-> b.body], 2 + b.n)
    <3> HIDE DEF m
    <3> QED BY <1>2, <1>6, <2>1, ParseHead
  <2>3. after \in Seq(Tokens) /\ Len(after) = Len(s) - 2 /\ \A x \in 1..(Len(s) - 2) : after[x] = s[2 + x]
    <3>1. 2 \in 0..Len(s)
      BY <1>2, <1>6
    <3> QED BY <3>1, BehindIs
  <2>4. \A x \in 1..Len(after) : 2 + x <= Len(w) => after[x] = w[2 + x]
    BY <1>2, <1>3, <2>3
  <2>5. b = readBody(after, m)
    BY <2>1
  <2>6. Len(after) \in Nat
    BY <2>3
  <2> HIDE DEF after, b
  <2>7. b = IF Len(after) < Len(w) - 2 THEN More ELSE Body(body, Len(w) - 2)
    <3>1. CASE r.shape = "length"
      <4>1. /\ Len(w) = r.n + 2 /\ r.n \in Nat /\ \A i \in 1..r.n : w[i + 2] = Token("byte", id, 1)
            /\ Len(w) - 2 = r.n
        BY <3>1, WireLength
      <4>2. \A i \in 1..r.n : i <= Len(after) => after[i] = Token("byte", id, 1)
        <5>1. \A i \in 1..r.n : i + 2 = 2 + i /\ 2 + i <= Len(w) /\ (i <= Len(after) => i \in 1..Len(after))
          BY <2>6, <4>1
        <5> QED BY <2>4, <4>1, <5>1
      <4>3. body = Bytes(id, r.n)
        BY <3>1 DEF Reference
      <4>4. m = r.n
        BY <3>1
      <4>5. readBody(after, r.n) = IF Len(after) < r.n THEN More ELSE Body(Bytes(id, r.n), r.n)
        BY <1>2, <2>3, <4>1, <4>2, ReadLength
      <4> QED BY <2>5, <4>1, <4>3, <4>4, <4>5
    <3>2. CASE r.shape = "chunked"
      <4> DEFINE n == r.n
      <4>1. /\ Len(w) = n + 6 /\ n \in Nat \ {0} /\ w[3] = Token("size", id, n)
            /\ \A i \in 1..n : w[i + 3] = Token("byte", id, 1)
            /\ w[n + 4] = Token("crlf", id, 0) /\ w[n + 5] = Token("size", id, 0) /\ w[n + 6] = Token("crlf", id, 0)
        BY <3>2, WireChunked
      <4>2. body = Bytes(id, n)
        BY <3>2 DEF Reference
      <4>3. m = Chunked
        BY <3>2
      <4> HIDE DEF n, w
      <4>4. Len(w) - 2 = n + 4
        BY <4>1
      <4>5. Len(after) >= 1 => after[1] = Token("size", id, n)
        <5>1. 2 + 1 = 3 /\ 3 <= Len(w)
          BY <4>1
        <5> QED BY <2>4, <2>6, <4>1, <5>1
      <4>6. \A i \in 1..n : i + 1 <= Len(after) => after[i + 1] = Token("byte", id, 1)
        <5> TAKE i \in 1..n
        <5>1. 2 + (i + 1) = i + 3 /\ i + 3 <= Len(w)
          BY <4>1
        <5>2. i + 1 <= Len(after) => i + 1 \in 1..Len(after)
          BY <2>6, <4>1
        <5> QED BY <2>4, <4>1, <5>1, <5>2
      <4>7. Len(after) >= n + 2 => after[n + 2] = Token("crlf", id, 0)
        <5>1. 2 + (n + 2) = n + 4 /\ n + 4 <= Len(w) /\ (Len(after) >= n + 2 => n + 2 \in 1..Len(after))
          BY <2>6, <4>1
        <5> QED BY <2>4, <4>1, <5>1
      <4>8. Len(after) >= n + 3 => after[n + 3] = Token("size", id, 0)
        <5>1. 2 + (n + 3) = n + 5 /\ n + 5 <= Len(w) /\ (Len(after) >= n + 3 => n + 3 \in 1..Len(after))
          BY <2>6, <4>1
        <5> QED BY <2>4, <4>1, <5>1
      <4>9. Len(after) >= n + 4 => after[n + 4] = Token("crlf", id, 0)
        <5>1. 2 + (n + 4) = n + 6 /\ n + 6 <= Len(w) /\ (Len(after) >= n + 4 => n + 4 \in 1..Len(after))
          BY <2>6, <4>1
        <5> QED BY <2>4, <4>1, <5>1
      <4>10. readBody(after, Chunked) = IF Len(after) < n + 4 THEN More ELSE Body(Bytes(id, n), n + 4)
        BY <1>2, <2>3, <4>1, <4>5, <4>6, <4>7, <4>8, <4>9, ReadChunk
      <4> QED BY <2>5, <4>2, <4>3, <4>4, <4>10
    <3>3. CASE r.shape = "trailers"
      <4>1. Len(w) = 4 /\ w[3] = Token("size", id, 0) /\ w[4] = Token("trailer", id, 0)
        BY <3>3, WireTrailers
      <4>2. body = <<>>
        BY <3>3 DEF Reference
      <4>3. m = Chunked
        BY <3>3
      <4>4. /\ Len(after) >= 1 => after[1] = Token("size", id, 0)
            /\ Len(after) >= 2 => after[2] = Token("trailer", id, 0)
        <5>1. 2 + 1 = 3 /\ 2 + 2 = 4 /\ (Len(after) >= 1 => 1 \in 1..Len(after)) /\ (Len(after) >= 2 => 2 \in 1..Len(after))
          BY <2>6
        <5>2. 3 <= Len(w) /\ 4 <= Len(w) /\ Len(w) - 2 = 2
          BY <4>1
        <5> HIDE DEF w
        <5> QED BY <2>4, <4>1, <5>1, <5>2
      <4>5. readBody(after, Chunked) = IF Len(after) < 2 THEN More ELSE Body(<<>>, 2)
        BY <1>2, <2>3, <4>4, ReadTrailers
      <4>6. Len(w) - 2 = 2
        BY <4>1
      <4> QED BY <2>5, <4>2, <4>3, <4>5, <4>6
    <3> QED BY <1>1, <3>1, <3>2, <3>3
  <2>8. CASE Len(s) < Len(w)
    <3>1. Len(after) < Len(w) - 2
      BY <1>2, <2>3, <2>8
    <3>2. b = More
      BY <2>7, <3>1
    <3> QED BY <2>2, <2>8, <3>2, MoreIs
  <2>9. CASE ~(Len(s) < Len(w))
    <3>1. ~(Len(after) < Len(w) - 2) /\ 2 + (Len(w) - 2) = Len(w)
      BY <1>2, <2>3, <2>9
    <3>2. b = Body(body, Len(w) - 2)
      BY <2>7, <3>1
    <3> HIDE DEF w
    <3>3. b.st = "ok" /\ b.body = body /\ b.n = Len(w) - 2
      BY <3>2, BodyIs
    <3>4. ParseHTTP1(s) = Parsed(Reference(r), Len(w))
      BY <1>4, <2>2, <3>1, <3>3
    <3> QED BY <2>9, <3>4 DEF w
  <2> QED BY <2>8, <2>9
<1> QED BY <1>2, <1>5, <1>6

-----------------------------------------------------------------------------
(* The stream of a script, up to its i-th request.                         *)

Stream(sc, i) == FlattenSeq([j \in 1..i |-> Wire(sc[j])])
Mark(sc, i) == Len(Stream(sc, i - 1))
All(sc) == Stream(sc, Len(sc))

(* A request is sent as at least two tokens.                               *)
LEMMA WireType ==
    ASSUME NEW r \in HttpRequests
    PROVE  Wire(r) \in Seq(Tokens) /\ Len(Wire(r)) \in Nat /\ Len(Wire(r)) >= 2
<1>1. r.shape \in {"length", "chunked", "trailers"}
  BY DEF HttpRequests
<1>2. CASE r.shape = "length"
  BY <1>2, WireLength
<1>3. CASE r.shape = "chunked"
  BY <1>3, WireChunked
<1>4. CASE r.shape = "trailers"
  BY <1>4, WireTrailers
<1> QED BY <1>1, <1>2, <1>3, <1>4

(* A stream is a sequence of tokens.                                       *)
LEMMA StreamType ==
    ASSUME NEW sc \in Seq(HttpRequests), NEW i \in 0..Len(sc)
    PROVE  Stream(sc, i) \in Seq(Tokens) /\ Len(Stream(sc, i)) \in Nat
<1> DEFINE q == [j \in 1..i |-> Wire(sc[j])]
<1>1. \A j \in 1..i : sc[j] \in HttpRequests
  <2>1. \A j \in 1..i : j \in 1..Len(sc)
    OBVIOUS
  <2> QED BY <2>1
<1>2. q \in [1..i -> Seq(Tokens)]
  BY <1>1, WireType
<1>3. q \in Seq(Seq(Tokens))
  <2>1. \A n \in Nat : \A g : g \in [1..n -> Seq(Tokens)] => g \in Seq(Seq(Tokens))
    OBVIOUS
  <2>2. i \in Nat
    OBVIOUS
  <2> HIDE DEF q
  <2> QED BY <1>2, <2>1, <2>2
<1>4. FlattenSeq(q) \in Seq(Tokens)
  <2> HIDE DEF q
  <2> QED BY <1>3, FlattenType
<1>5. \A u \in Seq(Tokens) : Len(u) \in Nat
  OBVIOUS
<1>6. Stream(sc, i) = FlattenSeq(q)
  BY DEF Stream
<1> QED BY <1>4, <1>5, <1>6

(* With one more request it goes on with that one.                         *)
LEMMA StreamStep ==
    ASSUME NEW sc \in Seq(HttpRequests), NEW i \in 0..(Len(sc) - 1)
    PROVE  Stream(sc, i + 1) = Stream(sc, i) \o Wire(sc[i + 1])
<1> DEFINE q == [j \in 1..i |-> Wire(sc[j])]
           r == [j \in 1..(i + 1) |-> Wire(sc[j])]
<1>1. \A j \in 1..(i + 1) : sc[j] \in HttpRequests /\ Wire(sc[j]) \in Seq(Tokens)
  <2>1. \A j \in 1..(i + 1) : j \in 1..Len(sc)
    OBVIOUS
  <2>2. \A j \in 1..(i + 1) : sc[j] \in HttpRequests
    BY <2>1
  <2> QED BY <2>2, WireType
<1>2. q \in [1..i -> Seq(Tokens)] /\ r \in [1..(i + 1) -> Seq(Tokens)]
  BY <1>1
<1>3. q \in Seq(Seq(Tokens)) /\ Len(q) = i /\ r \in Seq(Seq(Tokens)) /\ Len(r) = i + 1
  <2>1. \A n \in Nat : \A g : g \in [1..n -> Seq(Tokens)] => g \in Seq(Seq(Tokens)) /\ Len(g) = n
    OBVIOUS
  <2>2. i \in Nat /\ i + 1 \in Nat
    OBVIOUS
  <2> HIDE DEF q, r
  <2> QED BY <1>2, <2>1, <2>2
<1>4. \A j \in 1..i : q[j] = r[j]
  OBVIOUS
<1>5. r[i + 1] = Wire(sc[i + 1]) /\ r[i + 1] \in Seq(Tokens)
  BY <1>1
<1> HIDE DEF q, r
<1> DEFINE a == Append(q, r[i + 1])
<1>6. a \in Seq(Seq(Tokens)) /\ Len(a) = i + 1 /\ \A j \in 1..(i + 1) : a[j] = IF j <= i THEN q[j] ELSE r[i + 1]
  BY <1>3, <1>5, AppendProperties
<1>7. \A j \in 1..(i + 1) : a[j] = r[j]
  <2> TAKE j \in 1..(i + 1)
  <2>1. CASE j <= i
    BY <1>4, <1>6, <2>1
  <2>2. CASE j = i + 1
    BY <1>6, <2>2
  <2>3. j <= i \/ j = i + 1
    OBVIOUS
  <2> QED BY <2>1, <2>2, <2>3
<1> HIDE DEF a
<1>8. a = r
  BY <1>3, <1>6, <1>7, SeqEqual
<1>9. FlattenSeq(Append(q, r[i + 1])) = FlattenSeq(q) \o r[i + 1]
  BY <1>3, <1>5, FlattenAppend
<1>10. FlattenSeq(r) = FlattenSeq(q) \o Wire(sc[i + 1])
  BY <1>5, <1>8, <1>9 DEF a
<1> QED BY <1>10 DEF Stream, q, r

(* Without requests it is empty.                                           *)
LEMMA StreamEmpty == ASSUME NEW sc PROVE Stream(sc, 0) = <<>>
<1> DEFINE q == [j \in 1..0 |-> Wire(sc[j])]
<1>1. q = <<>>
  OBVIOUS
<1>2. q \in Seq(Seq(Tokens))
  BY <1>1
<1> QED BY <1>1, <1>2, FlattenIs DEF Stream

(* What follows in a stream does not change what is there.                 *)
LEMMA StreamPrefix ==
    ASSUME NEW sc \in Seq(HttpRequests), NEW i \in 0..Len(sc), NEW j \in i..Len(sc)
    PROVE  /\ Len(Stream(sc, i)) + (j - i) <= Len(Stream(sc, j))
           /\ \A x \in 1..Len(Stream(sc, i)) : Stream(sc, j)[x] = Stream(sc, i)[x]
<1> DEFINE P(n) == /\ Len(Stream(sc, i)) + n <= Len(Stream(sc, i + n))
                   /\ \A x \in 1..Len(Stream(sc, i)) : Stream(sc, i + n)[x] = Stream(sc, i)[x]
           G == {n \in Nat : P(n)}
<1>1. Len(sc) \in Nat /\ i \in Nat /\ Len(Stream(sc, i)) \in Nat /\ i + 0 = i
  BY StreamType
<1>2. 0 \in G
  BY <1>1
<1>3. ASSUME NEW n \in 0..(Len(sc) - i - 1), n \in G PROVE n + 1 \in G
  <2> DEFINE k == i + n
  <2>1. k \in 0..(Len(sc) - 1) /\ k \in 0..Len(sc) /\ k + 1 \in 0..Len(sc) /\ k + 1 \in 1..Len(sc) /\ i + (n + 1) = k + 1 /\ n + 1 \in Nat
    BY <1>1
  <2>2. Len(Stream(sc, i)) + n <= Len(Stream(sc, k)) /\ \A x \in 1..Len(Stream(sc, i)) : Stream(sc, k)[x] = Stream(sc, i)[x]
    BY <1>3
  <2> HIDE DEF k
  <2>3. Stream(sc, k + 1) = Stream(sc, k) \o Wire(sc[k + 1])
    BY <2>1, StreamStep
  <2>4. Stream(sc, k) \in Seq(Tokens) /\ Len(Stream(sc, k)) \in Nat
    BY <2>1, StreamType
  <2>5. Wire(sc[k + 1]) \in Seq(Tokens) /\ Len(Wire(sc[k + 1])) \in Nat /\ Len(Wire(sc[k + 1])) >= 2
    <3>1. sc[k + 1] \in HttpRequests
      BY <2>1
    <3> QED BY <3>1, WireType
  <2>6. /\ Len(Stream(sc, k + 1)) = Len(Stream(sc, k)) + Len(Wire(sc[k + 1]))
        /\ \A x \in 1..Len(Stream(sc, k)) : Stream(sc, k + 1)[x] = Stream(sc, k)[x]
    BY <2>3, <2>4, <2>5, ConcatAt
  <2>7. Len(Stream(sc, i)) + (n + 1) <= Len(Stream(sc, k + 1))
    BY <1>1, <2>2, <2>4, <2>5, <2>6
  <2>8. \A x \in 1..Len(Stream(sc, i)) : Stream(sc, k + 1)[x] = Stream(sc, i)[x]
    <3>1. \A x \in 1..Len(Stream(sc, i)) : x \in 1..Len(Stream(sc, k))
      BY <1>1, <2>2, <2>4
    <3> QED BY <2>2, <2>6, <3>1
  <2>9. P(n + 1)
    BY <2>1, <2>7, <2>8
  <2> QED BY <2>1, <2>9
<1> HIDE DEF G
<1>4. 0..(Len(sc) - i) \subseteq G
  <2>1. Len(sc) - i \in Nat /\ Len(sc) - i - 1 = (Len(sc) - i) - 1
    BY <1>1
  <2> QED BY <1>2, <1>3, <2>1, InductionUpTo
<1>5. j - i \in G /\ i + (j - i) = j
  BY <1>1, <1>4
<1>6. P(j - i)
  BY <1>5 DEF G
<1> QED BY <1>5, <1>6

(* The places where the requests begin.                                    *)
LEMMA MarkIs ==
    ASSUME NEW sc \in Seq(HttpRequests), NEW i \in 1..(Len(sc) + 1)
    PROVE  /\ Mark(sc, i) \in 0..Len(All(sc)) /\ Len(All(sc)) \in Nat /\ All(sc) \in Seq(Tokens)
           /\ Mark(sc, 1) = 0 /\ Mark(sc, Len(sc) + 1) = Len(All(sc))
           /\ \A j \in (i + 1)..(Len(sc) + 1) : Mark(sc, i) < Mark(sc, j)
<1>1. Len(sc) \in Nat /\ i - 1 \in 0..Len(sc) /\ Len(sc) \in (i - 1)..Len(sc) /\ Len(sc) \in 0..Len(sc) /\ 1 - 1 = 0
      /\ (Len(sc) + 1) - 1 = Len(sc)
  OBVIOUS
<1>2. Stream(sc, i - 1) \in Seq(Tokens) /\ Mark(sc, i) \in Nat /\ All(sc) \in Seq(Tokens) /\ Len(All(sc)) \in Nat
  BY <1>1, StreamType DEF Mark, All
<1>3. Mark(sc, i) + (Len(sc) - (i - 1)) <= Len(All(sc))
  BY <1>1, StreamPrefix DEF Mark, All
<1>4. Mark(sc, i) <= Len(All(sc))
  BY <1>1, <1>2, <1>3
<1>5. Mark(sc, 1) = 0
  BY <1>1, StreamEmpty DEF Mark
<1>6. Mark(sc, Len(sc) + 1) = Len(All(sc))
  BY <1>1 DEF Mark, All
<1>7. ASSUME NEW j \in (i + 1)..(Len(sc) + 1) PROVE Mark(sc, i) < Mark(sc, j)
  <2>1. j - 1 \in (i - 1)..Len(sc) /\ j - 1 \in 0..Len(sc) /\ (j - 1) - (i - 1) >= 1 /\ (j - 1) - (i - 1) \in Nat
    BY <1>1
  <2>2. Mark(sc, i) + ((j - 1) - (i - 1)) <= Mark(sc, j)
    BY <1>1, <2>1, StreamPrefix DEF Mark
  <2>3. Mark(sc, j) \in Nat
    BY <2>1, StreamType DEF Mark
  <2> QED BY <1>2, <2>1, <2>2, <2>3
<1> QED BY <1>2, <1>4, <1>5, <1>6, <1>7

(* The i-th request lies between its mark and the next.                    *)
LEMMA MarkStep ==
    ASSUME NEW sc \in Seq(HttpRequests), NEW i \in 1..Len(sc)
    PROVE  /\ Mark(sc, i + 1) = Mark(sc, i) + Len(Wire(sc[i]))
           /\ \A x \in 1..Len(Wire(sc[i])) : All(sc)[Mark(sc, i) + x] = Wire(sc[i])[x]
<1>1. /\ i - 1 \in 0..(Len(sc) - 1) /\ i - 1 \in 0..Len(sc) /\ i \in 0..Len(sc) /\ (i - 1) + 1 = i
      /\ (i + 1) - 1 = i /\ Len(sc) \in i..Len(sc) /\ sc[i] \in HttpRequests
  OBVIOUS
<1>2. Stream(sc, i) = Stream(sc, i - 1) \o Wire(sc[i])
  BY <1>1, StreamStep
<1>3. Stream(sc, i - 1) \in Seq(Tokens) /\ Wire(sc[i]) \in Seq(Tokens)
  BY <1>1, StreamType, WireType
<1>4. /\ Len(Stream(sc, i)) = Len(Stream(sc, i - 1)) + Len(Wire(sc[i]))
      /\ Len(Stream(sc, i - 1)) \in Nat /\ Len(Wire(sc[i])) \in Nat
      /\ \A x \in 1..Len(Wire(sc[i])) : Stream(sc, i)[Len(Stream(sc, i - 1)) + x] = Wire(sc[i])[x]
  BY <1>2, <1>3, ConcatAt
<1>5. \A x \in 1..Len(Stream(sc, i)) : All(sc)[x] = Stream(sc, i)[x]
  BY <1>1, StreamPrefix DEF All
<1>6. \A x \in 1..Len(Wire(sc[i])) : Mark(sc, i) + x \in 1..Len(Stream(sc, i))
  BY <1>4 DEF Mark
<1>7. Mark(sc, i + 1) = Len(Stream(sc, i)) /\ Mark(sc, i) = Len(Stream(sc, i - 1))
  BY <1>1 DEF Mark
<1> QED BY <1>4, <1>5, <1>6, <1>7

(* What is left over after the requests are tokens.                        *)
LEMMA RequestsType == ASSUME NEW s \in Seq(Tokens) PROVE Requests(s).rest \in Seq(Tokens)
<1> DEFINE f == RequestsOf(s)
           N == Len(s)
           G == {n \in Nat : \A i \in (N - n)..N : i \in Nat => f[i].rest \in Seq(Tokens)}
<1>1. Len(s) \in Nat
  OBVIOUS
<1>2. \A i \in 0..N : f[i] = RequestsFrom(s, f, i)
  BY RequestsOfAt
<1> HIDE DEF f
<1>3. ASSUME NEW i \in 0..N, \A j \in (i + 1)..N : f[j].rest \in Seq(Tokens)
      PROVE  f[i].rest \in Seq(Tokens)
  <2> DEFINE u == SubSeq(s, i + 1, Len(s))
             p == ParseHTTP1(u)
  <2>1. u \in Seq(Tokens) /\ Len(u) = N - i
    BY BehindIs
  <2>2. Fits(p, 1, N - i)
    <3> HIDE DEF u
    <3> QED BY <2>1, ParseFits
  <2> HIDE DEF p, u
  <2>3. f[i] = CASE p.st = "more" -> [reqs |-> <<>>, rest |-> u]
                 [] p.st = "malformed" -> [reqs |-> <<>>, rest |-> <<>>]
                 [] p.st = "ok" -> [reqs |-> <<p.req>> \o f[i + p.n].reqs, rest |-> f[i + p.n].rest]
    BY <1>2 DEF RequestsFrom, p, u
  <2>4. CASE p.st = "more"
    BY <2>1, <2>3, <2>4
  <2>5. CASE p.st = "malformed"
    <3>1. f[i].rest = <<>> /\ <<>> \in Seq(Tokens)
      BY <2>3, <2>5
    <3> QED BY <3>1
  <2>6. CASE p.st = "ok"
    <3>1. p.n \in 1..(N - i)
      BY <2>2, <2>6 DEF Fits
    <3>2. i + p.n \in (i + 1)..N
      BY <1>1, <3>1
    <3> QED BY <1>3, <2>3, <2>6, <3>2
  <2> QED BY <2>2, <2>4, <2>5, <2>6 DEF Fits
<1> HIDE DEF N
<1>4. N \in Nat
  BY <1>1 DEF N
<1>5. 0 \in G
  <2>1. ASSUME NEW i \in (N - 0)..N PROVE f[i].rest \in Seq(Tokens)
    <3>1. i \in 0..N /\ (i + 1)..N = {}
      BY <1>4
    <3> QED BY <1>3, <3>1
  <2> QED BY <2>1
<1>6. ASSUME NEW n \in 0..(N - 1), n \in G PROVE n + 1 \in G
  <2>1. n + 1 \in Nat
    OBVIOUS
  <2>2. ASSUME NEW i \in (N - (n + 1))..N PROVE f[i].rest \in Seq(Tokens)
    <3>1. i \in 0..N /\ \A j \in (i + 1)..N : j \in (N - n)..N /\ j \in Nat
      BY <1>4
    <3>2. \A j \in (i + 1)..N : f[j].rest \in Seq(Tokens)
      BY <1>6, <3>1
    <3> QED BY <1>3, <3>1, <3>2
  <2> QED BY <2>1, <2>2
<1> HIDE DEF G
<1>7. 0..N \subseteq G
  BY <1>4, <1>5, <1>6, InductionUpTo
<1>8. N \in G
  BY <1>4, <1>7
<1>9. 0 \in (N - N)..N
  BY <1>4
<1>10. f[0].rest \in Seq(Tokens)
  BY <1>8, <1>9 DEF G
<1> QED BY <1>10, RequestsOfAt DEF f

(* There are no requests behind the end.                                   *)
LEMMA RequestsNone ==
    ASSUME NEW s \in Seq(Tokens), NEW k \in Nat, k = Len(s)
    PROVE  LET v == RequestsOf(s)[k] IN v.reqs = <<>> /\ v.rest = <<>>
<1> DEFINE f == RequestsOf(s)
           u == SubSeq(s, k + 1, Len(s))
<1>1. k \in 0..Len(s) /\ u \in Seq(Tokens) /\ Len(u) = 0
  <2>1. k \in 0..Len(s)
    OBVIOUS
  <2>2. u \in Seq(Tokens) /\ Len(u) = Len(s) - k
    BY <2>1, BehindIs
  <2> QED BY <2>1, <2>2
<1> HIDE DEF u
<1>2. u = <<>>
  BY <1>1
<1>3. ParseHTTP1(u) = More
  <2>1. Len(u) < 2 /\ (Len(u) >= 1 => u[1] = Token("start", 0, 0)) /\ 0 \in Nat
    BY <1>1
  <2> QED BY <1>1, <2>1, ParseShort
<1>4. f[k] = RequestsFrom(s, f, k)
  BY <1>1, RequestsOfAt
<1> HIDE DEF f
<1>5. RequestsFrom(s, f, k) = [reqs |-> <<>>, rest |-> u]
  BY <1>3 DEF RequestsFrom, More, u
<1> QED BY <1>2, <1>4, <1>5 DEF f

(* And none in nothing.                                                    *)
LEMMA RequestsEmpty == Requests(<<>>).reqs = <<>> /\ Requests(<<>>).rest = <<>>
<1>1. ASSUME NEW s \in Seq(Tokens), Len(s) = 0 PROVE Requests(s).reqs = <<>> /\ Requests(s).rest = <<>>
  <2>1. 0 \in Nat /\ 0 = Len(s)
    BY <1>1
  <2> QED BY <2>1, RequestsNone, RequestsOfAt
<1>2. <<>> \in Seq(Tokens) /\ Len(<<>>) = 0
  OBVIOUS
<1> QED BY <1>1, <1>2

-----------------------------------------------------------------------------
(* A part cut in two at b.                                                 *)
CutAt(w, a, e, b, p, q) == b \in a..e /\ p = Part(w, a, b) /\ q = Part(w, b, e)

(* If a part is two sequences in a row, each of them is a part.            *)
LEMMA PartCut ==
    ASSUME NEW w \in Seq(Tokens), NEW a \in Nat, NEW e \in a..Len(w),
           NEW p \in Seq(Tokens), NEW q \in Seq(Tokens), p \o q = Part(w, a, e)
    PROVE  CutAt(w, a, e, a + Len(p), p, q)
<1> DEFINE r == Part(w, a, e)
           b == a + Len(p)
           c == Part(w, a, b)
           d == Part(w, b, e)
<1>1. r \in Seq(Tokens) /\ Len(r) = e - a /\ \A x \in 1..(e - a) : r[x] = w[a + x]
  BY PartIs
<1> HIDE DEF r
<1>2. /\ Len(r) = Len(p) + Len(q) /\ Len(p) \in Nat /\ Len(q) \in Nat
      /\ \A x \in 1..Len(p) : r[x] = p[x]
      /\ \A x \in 1..Len(q) : r[Len(p) + x] = q[x]
  BY ConcatAt DEF r
<1>3. b \in a..e /\ b \in Nat /\ e \in b..Len(w) /\ b \in a..Len(w) /\ b - a = Len(p) /\ e - b = Len(q)
  <2>1. e \in Nat /\ Len(w) \in Nat /\ e <= Len(w) /\ e - a = Len(p) + Len(q)
    BY <1>1, <1>2
  <2> QED BY <1>2, <2>1
<1>4. b = a + Len(p)
  OBVIOUS
<1> HIDE DEF b
<1>5. /\ c \in Seq(Tokens) /\ Len(c) = b - a /\ \A x \in 1..(b - a) : c[x] = w[a + x]
      /\ d \in Seq(Tokens) /\ Len(d) = e - b /\ \A x \in 1..(e - b) : d[x] = w[b + x]
  BY <1>3, PartIs
<1> HIDE DEF c, d
<1>6. \A x \in 1..Len(p) : p[x] = c[x]
  <2>1. \A x \in 1..Len(p) : x \in 1..(e - a)
    BY <1>1, <1>2
  <2> QED BY <1>1, <1>2, <1>3, <1>5, <2>1
<1>7. \A x \in 1..Len(q) : q[x] = d[x]
  <2>1. \A x \in 1..Len(q) : Len(p) + x \in 1..(e - a) /\ a + (Len(p) + x) = b + x
    BY <1>1, <1>2, <1>4
  <2> QED BY <1>1, <1>2, <1>3, <1>5, <2>1
<1>8. p = c
  BY <1>3, <1>5, <1>6, SeqEqual
<1>9. q = d
  BY <1>3, <1>5, <1>7, SeqEqual
<1> QED BY <1>3, <1>4, <1>8, <1>9 DEF b, c, d, CutAt

-----------------------------------------------------------------------------
(* What is left over is less than the i-th request.                        *)
Short(sc, i, rest) == i <= Len(sc) => Len(rest) < Mark(sc, i + 1) - Mark(sc, i)

(* What is taken from the part of a stream that begins with its i-th       *)
(* request and ends at e: the requests up to the j-th, which is the first  *)
(* that is not whole.                                                      *)
Taken(sc, i, j, e, v) ==
    /\ j \in i..(Len(sc) + 1) /\ Mark(sc, j) <= e
    /\ v.reqs = [x \in 1..(j - i) |-> Reference(sc[i + x - 1])]
    /\ v.rest = Part(All(sc), Mark(sc, j), e) /\ Short(sc, j, v.rest)

(* One request more at the front.                                          *)
LEMMA TakenMore ==
    ASSUME NEW sc \in Seq(HttpRequests), NEW i \in 1..Len(sc), NEW j \in (i + 1)..(Len(sc) + 1),
           NEW e, NEW v, Taken(sc, i + 1, j, e, v),
           NEW u, u.reqs = <<Reference(sc[i])>> \o v.reqs, u.rest = v.rest
    PROVE  Taken(sc, i, j, e, u)
<1> DEFINE R == {Reference(sc[x]) : x \in 1..Len(sc)}
           a == <<Reference(sc[i])>>
           b == [x \in 1..(j - (i + 1)) |-> Reference(sc[(i + 1) + x - 1])]
           c == [x \in 1..(j - i) |-> Reference(sc[i + x - 1])]
<1>1. j \in Nat /\ j - (i + 1) \in Nat /\ j - i \in Nat /\ j - i = 1 + (j - (i + 1)) /\ j \in i..(Len(sc) + 1)
  OBVIOUS
<1>2. a \in Seq(R) /\ Len(a) = 1 /\ a[1] = Reference(sc[i])
  OBVIOUS
<1>3. \A n \in Nat : \A g : g \in [1..n -> R] => g \in Seq(R) /\ Len(g) = n
  OBVIOUS
<1>4. \A x \in 1..(j - (i + 1)) : (i + 1) + x - 1 \in 1..Len(sc) /\ (i + 1) + x - 1 = i + x
  BY <1>1
<1>5. \A x \in 1..(j - i) : i + x - 1 \in 1..Len(sc)
  BY <1>1
<1>6. b \in [1..(j - (i + 1)) -> R] /\ c \in [1..(j - i) -> R]
  BY <1>4, <1>5
<1>7. /\ \A x \in 1..(j - (i + 1)) : b[x] = Reference(sc[i + x])
      /\ \A x \in 1..(j - i) : c[x] = Reference(sc[i + x - 1])
  BY <1>4
<1> HIDE DEF R, a, b, c
<1>8. b \in Seq(R) /\ Len(b) = j - (i + 1) /\ c \in Seq(R) /\ Len(c) = j - i
  BY <1>1, <1>3, <1>6
<1>9. /\ a \o b \in Seq(R) /\ Len(a \o b) = Len(a) + Len(b)
      /\ \A x \in 1..Len(a) : (a \o b)[x] = a[x]
      /\ \A x \in 1..Len(b) : (a \o b)[Len(a) + x] = b[x]
  <2>1. a \in Seq(R) /\ b \in Seq(R)
    BY <1>2, <1>8
  <2> QED BY <2>1, ConcatAt
<1> DEFINE d == a \o b
<1> HIDE DEF d
<1>10. d \in Seq(R) /\ Len(d) = j - i /\ d[1] = a[1] /\ \A x \in 1..(j - (i + 1)) : d[1 + x] = b[x]
  <2>1. 1 \in 1..Len(a)
    BY <1>2
  <2> QED BY <1>1, <1>2, <1>8, <1>9, <2>1 DEF d
<1>11. ASSUME NEW x \in 1..(j - i) PROVE d[x] = c[x]
  <2>1. CASE x = 1
    <3>1. i + x - 1 = i
      BY <2>1
    <3> QED BY <1>2, <1>7, <1>10, <2>1, <3>1
  <2>2. CASE x # 1
    <3>1. x - 1 \in 1..(j - (i + 1)) /\ 1 + (x - 1) = x /\ i + (x - 1) = i + x - 1
      BY <1>1, <2>2
    <3>2. d[1 + (x - 1)] = b[x - 1] /\ b[x - 1] = Reference(sc[i + (x - 1)])
      BY <1>7, <1>10, <3>1
    <3> QED BY <1>7, <3>1, <3>2
  <2> QED BY <2>1, <2>2
<1>12. d = c
  BY <1>8, <1>10, <1>11, SeqEqual
<1>13. v.reqs = b /\ v.rest = Part(All(sc), Mark(sc, j), e) /\ Mark(sc, j) <= e /\ Short(sc, j, v.rest)
  BY DEF Taken, b
<1> QED BY <1>1, <1>12, <1>13 DEF Taken, a, c, d

(* Of a part that begins with a request, Requests takes as many requests   *)
(* as are complete, and leaves what there is of the next.                  *)
LEMMA RequestsTaken ==
    ASSUME NEW sc \in Seq(HttpRequests), NEW k \in 1..(Len(sc) + 1), NEW e \in Mark(sc, k)..Len(All(sc))
    PROVE  \E j \in k..(Len(sc) + 1) : Taken(sc, k, j, e, Requests(Part(All(sc), Mark(sc, k), e)))
<1> DEFINE w == All(sc)
           m(i) == Mark(sc, i)
           N == Len(sc) + 1
           s == Part(w, m(k), e)
           f == RequestsOf(s)
           P(i) == \E j \in i..N : Taken(sc, i, j, e, f[m(i) - m(k)])
           G == {n \in Nat : \A i \in k..N : N - i <= n /\ m(i) <= e => P(i)}
<1>1. /\ Len(sc) \in Nat /\ N \in Nat \ {0} /\ k \in 1..N /\ N = Len(sc) + 1
      /\ \A i \in k..N : i \in 1..N /\ i \in 1..(Len(sc) + 1) /\ i \in Nat
  OBVIOUS
<1>2. /\ w \in Seq(Tokens) /\ Len(w) \in Nat /\ \A i \in 1..N : m(i) \in 0..Len(w)
      /\ m(N) = Len(w) /\ \A i, j \in 1..N : i < j => m(i) < m(j)
  <2>1. 1 \in 1..(Len(sc) + 1)
    BY <1>1
  <2>2. w \in Seq(Tokens) /\ Len(w) \in Nat /\ m(N) = Len(w)
    BY <2>1, MarkIs
  <2>3. \A i \in 1..(Len(sc) + 1) : m(i) \in 0..Len(w)
    BY MarkIs
  <2>4. ASSUME NEW i \in 1..(Len(sc) + 1), NEW j \in 1..(Len(sc) + 1), i < j PROVE m(i) < m(j)
    <3>1. j \in (i + 1)..(Len(sc) + 1)
      BY <1>1, <2>4
    <3> QED BY <3>1, MarkIs
  <2> QED BY <2>2, <2>3, <2>4
<1>3. e \in Nat /\ m(k) \in Nat /\ e <= Len(w) /\ m(k) <= e /\ e \in m(k)..Len(w)
  BY <1>1, <1>2
<1> HIDE DEF w, m, N
<1>4. s \in Seq(Tokens) /\ Len(s) = e - m(k)
  BY <1>2, <1>3, PartIs
<1> HIDE DEF s
<1>5. \A i \in k..N : m(k) <= m(i) /\ m(i) \in Nat
  <2> TAKE i \in k..N
  <2>1. i = k \/ k < i
    BY <1>1
  <2> QED BY <1>1, <1>2, <2>1
<1>6. ASSUME NEW i \in k..N, m(i) <= e, \A q \in (i + 1)..N : m(q) <= e => P(q)
      PROVE  P(i)
  <2> DEFINE o == m(i) - m(k)
             u == Part(s, o, Len(s))
  <2>1. o \in 0..Len(s) /\ o \in Nat /\ m(i) \in m(k)..e /\ m(i) \in Nat /\ e \in m(i)..Len(w) /\ i \in 1..N
    BY <1>1, <1>3, <1>4, <1>5, <1>6
  <2>2. u = Part(w, m(i), e)
    <3>1. Part(Part(w, m(k), e), m(i) - m(k), e - m(k)) = Part(w, m(i), e)
      BY <1>2, <1>3, <2>1, PartOfPart
    <3> QED BY <1>4, <3>1 DEF s
  <2>3. u \in Seq(Tokens) /\ Len(u) = e - m(i) /\ \A x \in 1..(e - m(i)) : u[x] = w[m(i) + x]
    <3>1. w \in Seq(Tokens)
      BY <1>2
    <3> DEFINE b == m(i)
    <3>2. b \in Nat /\ e \in b..Len(w)
      BY <2>1
    <3> HIDE DEF b
    <3>3. /\ Part(w, b, e) \in Seq(Tokens) /\ Len(Part(w, b, e)) = e - b
          /\ \A x \in 1..(e - b) : Part(w, b, e)[x] = w[b + x]
      BY <3>1, <3>2, PartIs
    <3> QED BY <2>2, <3>3 DEF b
  <2>4. f[o] = RequestsFrom(s, f, o)
    BY <1>4, <2>1, RequestsOfAt
  <2> HIDE DEF o, f
  <2>5. CASE i = N
    <3>1. o = Len(s)
      BY <1>2, <1>3, <1>4, <1>6, <2>5 DEF o
    <3>2. f[o].reqs = <<>>
      BY <1>4, <2>1, <3>1, RequestsNone DEF f
    <3>3. f[o].rest = u
      <4>1. f[o].rest = <<>>
        BY <1>4, <2>1, <3>1, RequestsNone DEF f
      <4>2. Len(u) = 0
        BY <1>2, <1>3, <1>6, <2>3, <2>5
      <4> HIDE DEF u
      <4> QED BY <2>3, <4>1, <4>2
    <3>4. [x \in 1..(i - i) |-> Reference(sc[i + x - 1])] = <<>>
      <4>1. 1..(i - i) = {}
        BY <2>1
      <4> QED BY <4>1
    <3>5. i \in i..(Len(sc) + 1)
      BY <1>1, <2>1
    <3>6. Short(sc, i, f[o].rest)
      BY <1>1, <2>5 DEF Short
    <3>7. Taken(sc, i, i, e, f[o])
      BY <1>6, <2>2, <3>2, <3>3, <3>4, <3>5, <3>6 DEF Taken, w, m
    <3> QED BY <1>1, <3>5, <3>7 DEF o
  <2>6. CASE i # N
    <3> DEFINE r == sc[i]
               p == ParseHTTP1(u)
    <3>1. i \in 1..Len(sc) /\ i + 1 \in k..N /\ i + 1 \in (i + 1)..N /\ r \in HttpRequests
      BY <1>1, <2>1, <2>6
    <3>2. m(i + 1) = m(i) + Len(Wire(r)) /\ \A x \in 1..Len(Wire(r)) : w[m(i) + x] = Wire(r)[x]
      BY <3>1, MarkStep DEF m, w
    <3>3. Wire(r) \in Seq(Tokens) /\ Len(Wire(r)) \in Nat /\ Len(Wire(r)) >= 2
      BY <3>1, WireType
    <3> HIDE DEF r, u
    <3>4. Agrees(u, Wire(r))
      <4>1. \A x \in 1..Len(u) : x <= Len(Wire(r)) => x \in 1..Len(Wire(r)) /\ x \in 1..(e - m(i))
        BY <2>3, <3>3
      <4> QED BY <2>3, <3>2, <4>1 DEF Agrees
    <3>5. p = IF Len(u) < Len(Wire(r)) THEN More ELSE Parsed(Reference(r), Len(Wire(r)))
      BY <2>3, <3>1, <3>4, ParseWire DEF r
    <3> HIDE DEF p
    <3>6. f[o] = CASE p.st = "more" -> [reqs |-> <<>>, rest |-> u]
                   [] p.st = "malformed" -> [reqs |-> <<>>, rest |-> <<>>]
                   [] p.st = "ok" -> [reqs |-> <<p.req>> \o f[o + p.n].reqs, rest |-> f[o + p.n].rest]
      BY <2>4 DEF RequestsFrom, p, u, Part
    <3>7. CASE Len(u) < Len(Wire(r))
      <4>1. p.st = "more"
        BY <3>5, <3>7 DEF More
      <4>2. f[o].reqs = <<>> /\ f[o].rest = u
        BY <3>6, <4>1
      <4>3. [x \in 1..(i - i) |-> Reference(sc[i + x - 1])] = <<>>
        <5>1. 1..(i - i) = {}
          BY <2>1
        <5> QED BY <5>1
      <4>4. i \in i..(Len(sc) + 1)
        BY <1>1, <2>1
      <4>5. Short(sc, i, f[o].rest)
        <5>1. m(i + 1) - m(i) = Len(Wire(r))
          BY <2>1, <3>2, <3>3
        <5> QED BY <3>7, <4>2, <5>1 DEF Short, m
      <4>6. Taken(sc, i, i, e, f[o])
        BY <1>6, <2>2, <4>2, <4>3, <4>4, <4>5 DEF Taken, w, m
      <4> QED BY <1>1, <4>4, <4>6 DEF o
    <3>8. CASE ~(Len(u) < Len(Wire(r)))
      <4>1. p = Parsed(Reference(r), Len(Wire(r)))
        BY <3>5, <3>8
      <4>2. p.st = "ok" /\ p.req = Reference(r) /\ p.n = Len(Wire(r))
        BY <4>1 DEF Parsed
      <4>3. f[o].reqs = <<Reference(r)>> \o f[o + p.n].reqs /\ f[o].rest = f[o + p.n].rest
        BY <3>6, <4>2
      <4>4. m(i + 1) <= e /\ o + p.n = m(i + 1) - m(k)
        <5>1. e - m(i) >= Len(Wire(r)) /\ m(i) \in Nat /\ e \in Nat
          BY <1>3, <2>1, <2>3, <3>3, <3>8
        <5>2. m(i + 1) = m(i) + Len(Wire(r)) /\ Len(Wire(r)) \in Nat /\ p.n = Len(Wire(r))
          BY <3>2, <3>3, <4>2
        <5>3. o = m(i) - m(k) /\ m(k) \in Nat
          BY <1>3 DEF o
        <5>4. m(i + 1) <= e
          BY <5>1, <5>2
        <5> QED BY <5>1, <5>2, <5>3, <5>4
      <4>5. P(i + 1)
        BY <1>6, <3>1, <4>4
      <4>6. PICK j \in (i + 1)..N : Taken(sc, i + 1, j, e, f[m(i + 1) - m(k)])
        BY <4>5
      <4>7. Taken(sc, i, j, e, f[o])
        <5>1. f[o].reqs = <<Reference(sc[i])>> \o f[m(i + 1) - m(k)].reqs /\ f[o].rest = f[m(i + 1) - m(k)].rest
          BY <4>3, <4>4 DEF r
        <5>2. j \in (i + 1)..(Len(sc) + 1)
          BY <1>1
        <5> QED BY <3>1, <4>6, <5>1, <5>2, TakenMore
      <4>8. j \in i..N
        BY <1>1, <2>1
      <4> QED BY <4>7, <4>8 DEF o
    <3> QED BY <3>7, <3>8
  <2> QED BY <2>5, <2>6
<1> HIDE DEF f
<1>7. 0 \in G
  <2>1. ASSUME NEW i \in k..N, N - i <= 0, m(i) <= e PROVE P(i)
    <3>1. (i + 1)..N = {}
      BY <1>1, <2>1
    <3> HIDE DEF P
    <3> QED BY <1>6, <2>1, <3>1
  <2> HIDE DEF P
  <2> QED BY <2>1
<1>8. ASSUME NEW n \in 0..(N - 1), n \in G PROVE n + 1 \in G
  <2>1. ASSUME NEW i \in k..N, N - i <= n + 1, m(i) <= e PROVE P(i)
    <3>1. \A q \in (i + 1)..N : q \in k..N /\ N - q <= n
      BY <1>1, <2>1
    <3> HIDE DEF P
    <3>2. \A q \in (i + 1)..N : m(q) <= e => P(q)
      BY <1>8, <3>1
    <3> QED BY <1>6, <2>1, <3>2
  <2>2. n + 1 \in Nat
    BY <1>1
  <2> HIDE DEF P
  <2> QED BY <2>1, <2>2
<1> HIDE DEF G
<1>9. 0..N \subseteq G
  BY <1>1, <1>7, <1>8, InductionUpTo
<1>10. N \in G /\ k \in k..N /\ N - k <= N
  BY <1>1, <1>9
<1>11. P(k)
  <2> HIDE DEF P
  <2> QED BY <1>3, <1>10 DEF G
<1>12. m(k) - m(k) = 0
  BY <1>3
<1>13. Requests(s) = f[0]
  BY <1>4, RequestsOfAt DEF f
<1> QED BY <1>1, <1>11, <1>12, <1>13 DEF s, w, m

-----------------------------------------------------------------------------
(* Any stream, whoever sent it and wherever its capture began.             *)

(* w begins with s.                                                        *)
Leads(s, w) == Len(s) <= Len(w) /\ \A i \in 1..Len(s) : w[i] = s[i]

(* So do their ends behind a place of s.                                   *)
LEMMA LeadsBehind ==
    ASSUME NEW s \in Seq(Tokens), NEW w \in Seq(Tokens), Leads(s, w), NEW i \in 0..Len(s)
    PROVE  Leads(SubSeq(s, i + 1, Len(s)), SubSeq(w, i + 1, Len(w)))
<1> DEFINE p == SubSeq(s, i + 1, Len(s))
           q == SubSeq(w, i + 1, Len(w))
<1>1. Len(s) \in Nat /\ Len(w) \in Nat /\ Len(s) <= Len(w) /\ i \in 0..Len(w)
  BY DEF Leads
<1>2. Len(p) = Len(s) - i /\ \A x \in 1..(Len(s) - i) : p[x] = s[i + x]
  BY BehindIs
<1>3. Len(q) = Len(w) - i /\ \A x \in 1..(Len(w) - i) : q[x] = w[i + x]
  BY <1>1, BehindIs
<1> HIDE DEF p, q
<1>4. ASSUME NEW x \in 1..Len(p) PROVE q[x] = p[x]
  <2>1. x \in 1..(Len(s) - i) /\ x \in 1..(Len(w) - i) /\ i + x \in 1..Len(s)
    BY <1>1, <1>2
  <2> QED BY <1>2, <1>3, <2>1 DEF Leads
<1>5. Len(p) <= Len(q)
  BY <1>1, <1>2, <1>3
<1> QED BY <1>4, <1>5 DEF Leads, p, q

(* A part of s is that part of w.                                          *)
LEMMA LeadsPart ==
    ASSUME NEW s \in Seq(Tokens), NEW w \in Seq(Tokens), Leads(s, w), NEW e \in 0..Len(s), NEW a \in 0..e
    PROVE  Part(w, a, e) = Part(s, a, e)
<1>1. Len(s) \in Nat /\ Len(w) \in Nat /\ Len(s) <= Len(w) /\ a \in Nat /\ e \in a..Len(s) /\ e \in a..Len(w) /\ e \in Nat
  BY DEF Leads
<1> DEFINE p == Part(s, a, e)
           q == Part(w, a, e)
<1>2. p \in Seq(Tokens) /\ Len(p) = e - a /\ \A x \in 1..(e - a) : p[x] = s[a + x]
  BY <1>1, PartIs
<1>3. q \in Seq(Tokens) /\ Len(q) = e - a /\ \A x \in 1..(e - a) : q[x] = w[a + x]
  BY <1>1, PartIs
<1> HIDE DEF p, q
<1>4. ASSUME NEW x \in 1..Len(q) PROVE q[x] = p[x]
  <2>1. x \in 1..(e - a) /\ a + x \in 1..Len(s)
    BY <1>1, <1>3
  <2> QED BY <1>2, <1>3, <2>1 DEF Leads
<1>5. q = p
  BY <1>2, <1>3, <1>4, SeqEqual
<1> QED BY <1>5 DEF p, q

(* Its lines and blank lines are those of w.                               *)
LEMMA LeadsLines ==
    ASSUME NEW s \in Seq(Tokens), NEW w \in Seq(Tokens), Leads(s, w)
    PROVE  Lines(s) = Lines(w) \cap (1..Len(s)) /\ Blanks(s) = Blanks(w) \cap (1..Len(s))
<1>1. Len(s) \in Nat /\ Len(w) \in Nat /\ Len(s) <= Len(w) /\ DOMAIN s = 1..Len(s) /\ DOMAIN w = 1..Len(w)
  BY DEF Leads
<1>2. \A i \in 1..Len(s) : w[i] = s[i] /\ i \in 1..Len(w) /\ (i > 1 => w[i - 1] = s[i - 1])
  <2> TAKE i \in 1..Len(s)
  <2>1. i > 1 => i - 1 \in 1..Len(s)
    BY <1>1
  <2> QED BY <1>1, <2>1 DEF Leads
<1>3. Lines(s) = Lines(w) \cap (1..Len(s))
  BY <1>1, <1>2 DEF Lines
<1>4. Blanks(s) = Blanks(w) \cap (1..Len(s))
  BY <1>1, <1>2 DEF Blanks
<1> QED BY <1>3, <1>4

(* The least of some numbers is the least of those up to a bound.          *)
LEMMA LeastUpTo ==
    ASSUME NEW T, T \subseteq Nat \ {0}, NEW N \in Nat, NEW U, U = T \cap (1..N), U # {}
    PROVE  LeastOf(T) = LeastOf(U) /\ LeastOf(T) \in U
<1>1. T \subseteq Nat /\ U \subseteq Nat /\ T # {}
  OBVIOUS
<1>2. LeastOf(T) \in T /\ \A j \in T : LeastOf(T) <= j
  BY <1>1, LeastOfIs
<1>3. LeastOf(U) \in U /\ \A j \in U : LeastOf(U) <= j
  BY <1>1, LeastOfIs
<1> DEFINE t == LeastOf(T)
           u == LeastOf(U)
<1>4. t \in T /\ u \in U /\ u \in T /\ (\A j \in T : t <= j) /\ (\A j \in U : u <= j)
  BY <1>2, <1>3
<1> HIDE DEF t, u
<1>5. t <= u /\ t \in U
  BY <1>1, <1>4
<1>6. t = u
  BY <1>1, <1>4, <1>5
<1> QED BY <1>5, <1>6 DEF t, u

(* The last chunk, once it is there.                                       *)
LEMMA LeadsLastChunk ==
    ASSUME NEW s \in Seq(Tokens), NEW w \in Seq(Tokens), Leads(s, w), NEW at \in 1..Len(s),
           LastChunk(s, at) # More
    PROVE  LastChunk(w, at) = LastChunk(s, at)
<1> DEFINE p == SubSeq(s, at + 1, Len(s))
           q == SubSeq(w, at + 1, Len(w))
<1>1. Len(s) \in Nat /\ at \in 0..Len(s) /\ at \in 0..Len(w)
  BY DEF Leads
<1>2. p \in Seq(Tokens) /\ q \in Seq(Tokens) /\ Leads(p, q)
  BY <1>1, BehindIs, LeadsBehind
<1>3. /\ LastChunk(s, at) = CASE p # <<>> /\ Head(p).k = "crlf" -> [st |-> "ok", n |-> at + 1]
                              [] p # <<>> /\ Head(p).k # "crlf" /\ Blanks(p) # {} ->
                                   [st |-> "ok", n |-> at + LeastOf(Blanks(p))]
                              [] OTHER -> More
      /\ LastChunk(w, at) = CASE q # <<>> /\ Head(q).k = "crlf" -> [st |-> "ok", n |-> at + 1]
                              [] q # <<>> /\ Head(q).k # "crlf" /\ Blanks(q) # {} ->
                                   [st |-> "ok", n |-> at + LeastOf(Blanks(q))]
                              [] OTHER -> More
  BY DEF LastChunk
<1> HIDE DEF p, q
<1>4. p # <<>>
  BY <1>3
<1>5. q # <<>> /\ Head(q) = Head(p)
  <2>1. Len(p) \in Nat /\ Len(p) # 0 /\ Len(q) \in Nat /\ Len(p) <= Len(q)
    BY <1>2, <1>4 DEF Leads
  <2>2. 1 \in 1..Len(p) /\ Len(q) # 0
    BY <2>1
  <2>3. q[1] = p[1]
    BY <1>2, <2>2 DEF Leads
  <2> QED BY <1>2, <1>4, <2>2, <2>3
<1>6. CASE Head(p).k = "crlf"
  BY <1>3, <1>4, <1>5, <1>6
<1>7. CASE Head(p).k # "crlf"
  <2>1. Blanks(p) # {}
    BY <1>3, <1>4, <1>7
  <2>2. Blanks(p) = Blanks(q) \cap (1..Len(p)) /\ Blanks(q) \subseteq 1..Len(q)
    BY <1>2, LeadsLines, LinesIn
  <2>3. Blanks(q) \subseteq Nat \ {0} /\ Len(p) \in Nat
    BY <1>2, <2>2
  <2>4. LeastOf(Blanks(q)) = LeastOf(Blanks(p)) /\ Blanks(q) # {}
    BY <2>1, <2>2, <2>3, LeastUpTo
  <2> QED BY <1>3, <1>4, <1>5, <1>7, <2>1, <2>4
<1> QED BY <1>6, <1>7

(* What the chunks from a place on are, once it is known, they remain.     *)
LEMMA LeadsChunk ==
    ASSUME NEW s \in Seq(Tokens), NEW w \in Seq(Tokens), Leads(s, w), NEW f, NEW g, NEW at \in 1..(Len(s) + 1),
           \A i \in (at + 1)..(Len(s) + 1) : f[i].st # "more" => g[i] = f[i],
           Chunks(s, f, at).st # "more"
    PROVE  Chunks(w, g, at) = Chunks(s, f, at)
<1> DEFINE end == at + s[at].n + 1
           c == Chunks(s, f, at)
           d == Chunks(w, g, at)
<1> SUFFICES d = c
  OBVIOUS
<1>1. Len(s) \in Nat /\ Len(w) \in Nat /\ Len(s) <= Len(w) /\ at \in 1..(Len(w) + 1)
  BY DEF Leads
<1>2. c # More
  BY DEF More
<1>3. ~(\A i \in Lines(s) : i < at)
  <2>1. ASSUME \A i \in Lines(s) : i < at PROVE c = More
    <3>1. at \in Int /\ at \notin Lines(s) /\ ~(\E i \in Lines(s) : i >= at)
      BY <1>1, <2>1, LinesIn
    <3> QED BY <2>1, <3>1 DEF Chunks
  <2> QED BY <1>2, <2>1
<1>4. ~(\A i \in Lines(w) : i < at) /\ at \in 1..Len(s) /\ at \in 1..Len(w) /\ w[at] = s[at]
  <2>1. Lines(s) \subseteq Lines(w) /\ Lines(s) \subseteq 1..Len(s)
    BY LeadsLines
  <2>2. at \in 1..Len(s)
    BY <1>1, <1>3, <2>1
  <2> QED BY <1>1, <1>3, <2>1, <2>2 DEF Leads
<1>5. (\E i \in Lines(s) : i >= at) /\ (\E i \in Lines(w) : i >= at)
  <2>1. Lines(s) \subseteq Nat /\ Lines(w) \subseteq Nat /\ at \in Nat
    BY <1>1, LinesIn
  <2> QED BY <1>3, <1>4, <2>1
<1>6. s[at].k = "size" => s[at].n \in Nat /\ at \in Lines(s) /\ at \in Lines(w)
  BY <1>4, TokenIs
<1>7. c.st # "more"
  OBVIOUS
<1>8. CASE s[at].k # "size"
  <2>1. c = Malformed /\ d = Malformed
    BY <1>3, <1>4, <1>5, <1>8 DEF Chunks
  <2> QED BY <2>1
<1>9. CASE s[at].k = "size" /\ s[at].n = 0
  <2>1. /\ c = IF LastChunk(s, at) = More THEN More ELSE Body(<<>>, LastChunk(s, at).n)
        /\ d = IF LastChunk(w, at) = More THEN More ELSE Body(<<>>, LastChunk(w, at).n)
    BY <1>3, <1>4, <1>6, <1>9 DEF Chunks
  <2>2. LastChunk(s, at) # More
    BY <1>2, <2>1
  <2>3. LastChunk(w, at) = LastChunk(s, at)
    BY <1>4, <2>2, LeadsLastChunk
  <2> QED BY <2>1, <2>3
<1>10. CASE s[at].k = "size" /\ s[at].n \in Nat \ {0}
  <2>1. c = IF Len(s) < end THEN More
            ELSE IF s[end].k # "crlf" THEN Malformed
            ELSE IF f[end + 1].st # "ok" THEN f[end + 1]
            ELSE Body(SubSeq(s, at + 1, end - 1) \o f[end + 1].body, f[end + 1].n)
    BY <1>3, <1>6, <1>10 DEF Chunks
  <2>2. d = IF Len(w) < end THEN More
            ELSE IF w[end].k # "crlf" THEN Malformed
            ELSE IF g[end + 1].st # "ok" THEN g[end + 1]
            ELSE Body(SubSeq(w, at + 1, end - 1) \o g[end + 1].body, g[end + 1].n)
    BY <1>4, <1>6, <1>10 DEF Chunks
  <2>3. end \in Nat /\ end > at
    BY <1>1, <1>4, <1>10
  <2> HIDE DEF c, d
  <2>4. ~(Len(s) < end)
    BY <1>2, <2>1
  <2>5. end <= Len(s) /\ end \in 1..Len(s) /\ ~(Len(w) < end)
    BY <1>1, <1>4, <2>3, <2>4
  <2>6. w[end] = s[end]
    BY <2>5 DEF Leads
  <2>7. CASE s[end].k # "crlf"
    BY <2>1, <2>2, <2>4, <2>5, <2>6, <2>7
  <2>8. CASE s[end].k = "crlf"
    <3> DEFINE y == f[end + 1]
               z == g[end + 1]
               b == SubSeq(s, at + 1, end - 1)
               v == SubSeq(w, at + 1, end - 1)
    <3>1. c = IF y.st # "ok" THEN y ELSE Body(b \o y.body, y.n)
      BY <2>1, <2>4, <2>8
    <3>2. d = IF z.st # "ok" THEN z ELSE Body(v \o z.body, z.n)
      BY <2>2, <2>5, <2>6, <2>8
    <3>3. v = b
      <4>1. end - 1 \in 0..Len(s) /\ at \in 0..(end - 1)
        BY <1>1, <1>4, <2>3, <2>5
      <4> QED BY <4>1, LeadsPart DEF Part
    <3>4. y.st # "more" => z = y
      <4>1. end + 1 \in (at + 1)..(Len(s) + 1)
        BY <1>1, <1>4, <2>3, <2>5
      <4> QED BY <4>1
    <3> HIDE DEF y, z, b, v, end
    <3>5. y.st # "more"
      BY <1>7, <3>1
    <3> QED BY <3>1, <3>2, <3>3, <3>4, <3>5
  <2> QED BY <2>7, <2>8
<1> QED BY <1>6, <1>8, <1>9, <1>10

(* And so from the last place down to the first.                           *)
LEMMA LeadsChunks ==
    ASSUME NEW s \in Seq(Tokens), NEW w \in Seq(Tokens), Leads(s, w), NEW at \in 1..(Len(s) + 1),
           ChunksOf(s)[at].st # "more"
    PROVE  ChunksOf(w)[at] = ChunksOf(s)[at]
<1> DEFINE f == ChunksOf(s)
           g == ChunksOf(w)
           N == Len(s) + 1
           G == {n \in Nat : \A i \in 1..N : N - i <= n /\ f[i].st # "more" => g[i] = f[i]}
<1>1. N \in Nat \ {0} /\ \A i \in 1..N : i \in 1..(Len(s) + 1) /\ i \in 1..(Len(w) + 1)
  BY DEF Leads
<1>2. /\ \A i \in 1..(Len(s) + 1) : f[i] = Chunks(s, f, i)
      /\ \A i \in 1..(Len(w) + 1) : g[i] = Chunks(w, g, i)
  BY ChunksOfAt
<1> HIDE DEF f, g
<1>3. ASSUME NEW i \in 1..N, f[i].st # "more", \A j \in (i + 1)..N : f[j].st # "more" => g[j] = f[j]
      PROVE  g[i] = f[i]
  <2>1. f[i] = Chunks(s, f, i) /\ g[i] = Chunks(w, g, i)
    BY <1>1, <1>2
  <2>2. Chunks(s, f, i).st # "more"
    BY <1>3, <2>1
  <2>3. Chunks(w, g, i) = Chunks(s, f, i)
    BY <1>3, <2>2, LeadsChunk
  <2> QED BY <2>1, <2>3
<1> HIDE DEF N
<1>4. 0 \in G
  <2>1. ASSUME NEW i \in 1..N, N - i <= 0, f[i].st # "more" PROVE g[i] = f[i]
    <3>1. (i + 1)..N = {}
      BY <1>1, <2>1
    <3> QED BY <1>3, <2>1, <3>1
  <2> QED BY <2>1
<1>5. ASSUME NEW n \in 0..(N - 1), n \in G PROVE n + 1 \in G
  <2>1. ASSUME NEW i \in 1..N, N - i <= n + 1, f[i].st # "more" PROVE g[i] = f[i]
    <3>1. \A j \in (i + 1)..N : j \in 1..N /\ N - j <= n
      BY <1>1, <2>1
    <3>2. \A j \in (i + 1)..N : f[j].st # "more" => g[j] = f[j]
      BY <1>5, <3>1
    <3> QED BY <1>3, <2>1, <3>2
  <2>2. n + 1 \in Nat
    BY <1>1
  <2> QED BY <2>1, <2>2
<1> HIDE DEF G
<1>6. 0..N \subseteq G
  BY <1>1, <1>4, <1>5, InductionUpTo
<1>7. N \in G /\ at \in 1..N /\ N - at <= N
  BY <1>1, <1>6 DEF N
<1> QED BY <1>7 DEF G, f, g

(* A body, once it is there.                                               *)
LEMMA LeadsBody ==
    ASSUME NEW s \in Seq(Tokens), NEW w \in Seq(Tokens), Leads(s, w), NEW n \in Nat \cup {Chunked},
           readBody(s, n).st # "more"
    PROVE  readBody(w, n) = readBody(s, n)
<1>1. Len(s) \in Nat /\ Len(w) \in Nat /\ Len(s) <= Len(w)
  BY DEF Leads
<1>2. CASE n = Chunked
  <2>1. readBody(s, n) = ChunksOf(s)[1] /\ readBody(w, n) = ChunksOf(w)[1]
    BY <1>2 DEF readBody, readChunkedBody, ChunksOf
  <2>2. 1 \in 1..(Len(s) + 1)
    BY <1>1
  <2> QED BY <2>1, <2>2, LeadsChunks
<1>3. CASE n # Chunked
  <2>1. Len(s) >= n /\ Len(w) >= n /\ n \in 0..Len(s) /\ 0 \in 0..n
    BY <1>1, <1>3 DEF readBody, More
  <2>2. readBody(s, n) = Body(SubSeq(s, 1, n), n) /\ readBody(w, n) = Body(SubSeq(w, 1, n), n)
    BY <1>3, <2>1 DEF readBody
  <2>3. Part(w, 0, n) = Part(s, 0, n)
    BY <2>1, LeadsPart
  <2>4. SubSeq(w, 1, n) = SubSeq(s, 1, n)
    <3>1. 0 + 1 = 1
      OBVIOUS
    <3> QED BY <2>3, <3>1 DEF Part
  <2> QED BY <2>2, <2>4
<1> QED BY <1>2, <1>3

(* ParseHTTP1's comment: it asks for more, and what it says once there is  *)
(* enough, be it a request or that the bytes are malformed, no further     *)
(* bytes change: where the plaintext is cut has no significance.           *)
THEOREM ParseStable ==
    ASSUME NEW s \in Seq(Tokens), NEW w \in Seq(Tokens), Leads(s, w), ParseHTTP1(s).st # "more"
    PROVE  ParseHTTP1(w) = ParseHTTP1(s)
<1> DEFINE e == LeastOf(Blanks(s))
           l == LeastOf(Lines(s))
           b(u) == readBody(SubSeq(u, e + 1, Len(u)), s[e].n)
           parsed(c) == Parsed([before |-> l - 2, line |-> s[l - 1].id, head |-> s[l].id, body |-> c.body], e + c.n)
<1>1. Len(s) \in Nat /\ Len(w) \in Nat /\ Len(s) <= Len(w)
  BY DEF Leads
<1>2. Blanks(s) # {} /\ Lines(s) # {}
  BY LinesIn DEF ParseHTTP1, More
<1>3. /\ LeastOf(Blanks(w)) = e /\ e \in Blanks(s) /\ Blanks(w) # {}
      /\ LeastOf(Lines(w)) = l /\ l \in Lines(s)
  <2>1. /\ Lines(w) \subseteq Nat \ {0} /\ Blanks(w) \subseteq Nat \ {0}
        /\ Lines(s) = Lines(w) \cap (1..Len(s)) /\ Blanks(s) = Blanks(w) \cap (1..Len(s))
    <3>1. Lines(w) \subseteq 1..Len(w) /\ Blanks(w) \subseteq Lines(w)
      BY LinesIn
    <3>2. 1..Len(w) \subseteq Nat \ {0}
      OBVIOUS
    <3> QED BY <3>1, <3>2, LeadsLines
  <2>2. LeastOf(Blanks(w)) = e /\ e \in Blanks(s)
    BY <1>1, <1>2, <2>1, LeastUpTo
  <2>3. LeastOf(Lines(w)) = l /\ l \in Lines(s)
    BY <1>1, <1>2, <2>1, LeastUpTo
  <2> QED BY <1>2, <2>1, <2>2, <2>3
<1>4. /\ ParseHTTP1(s) = CASE Blanks(s) = {} -> More
                           [] Blanks(s) # {} /\ ~parseRequestLine(s, l) -> Malformed
                           [] OTHER -> IF b(s).st # "ok" THEN b(s) ELSE parsed(b(s))
      /\ ParseHTTP1(w) = CASE Blanks(w) = {} -> More
                           [] Blanks(w) # {} /\ ~parseRequestLine(w, l) -> Malformed
                           [] OTHER -> IF readBody(SubSeq(w, e + 1, Len(w)), w[e].n).st # "ok"
                                       THEN readBody(SubSeq(w, e + 1, Len(w)), w[e].n)
                                       ELSE Parsed([before |-> l - 2, line |-> w[l - 1].id, head |-> w[l].id,
                                                    body |-> readBody(SubSeq(w, e + 1, Len(w)), w[e].n).body],
                                                   e + readBody(SubSeq(w, e + 1, Len(w)), w[e].n).n)
  BY <1>3 DEF ParseHTTP1
<1> HIDE DEF e, l
<1>5. e \in 1..Len(s) /\ l \in 1..Len(s) /\ w[e] = s[e] /\ w[l] = s[l] /\ (l > 1 => w[l - 1] = s[l - 1])
  <2>1. e \in 1..Len(s) /\ l \in 1..Len(s)
    BY <1>3, LinesIn
  <2>2. l > 1 => l - 1 \in 1..Len(s)
    BY <1>1, <2>1
  <2> QED BY <2>1, <2>2 DEF Leads
<1>6. parseRequestLine(w, l) <=> parseRequestLine(s, l)
  <2>1. \A j \in 1..(l - 2) : w[j] = s[j]
    <3>1. \A j \in 1..(l - 2) : j \in 1..Len(s)
      BY <1>1, <1>5
    <3> QED BY <3>1 DEF Leads
  <2> QED BY <1>5, <2>1 DEF parseRequestLine
<1>7. CASE ~parseRequestLine(s, l)
  BY <1>2, <1>3, <1>4, <1>6, <1>7
<1>8. CASE parseRequestLine(s, l)
  <2>1. /\ ParseHTTP1(s) = IF b(s).st # "ok" THEN b(s) ELSE parsed(b(s))
        /\ ParseHTTP1(w) = IF b(w).st # "ok" THEN b(w) ELSE parsed(b(w))
    <3>1. l > 1
      BY <1>8 DEF parseRequestLine
    <3> QED BY <1>2, <1>3, <1>4, <1>5, <1>6, <1>8, <3>1
  <2>2. b(s).st # "more"
    <3> HIDE DEF b, parsed
    <3> QED BY <2>1
  <2>3. b(w) = b(s)
    <3> DEFINE p == SubSeq(s, e + 1, Len(s))
               q == SubSeq(w, e + 1, Len(w))
               n == s[e].n
    <3>1. e \in 0..Len(s) /\ e \in 0..Len(w)
      BY <1>1, <1>5
    <3>2. p \in Seq(Tokens) /\ q \in Seq(Tokens) /\ Leads(p, q)
      BY <3>1, BehindIs, LeadsBehind
    <3>3. n \in Nat \cup {Chunked}
      BY <1>5 DEF Tokens
    <3>4. readBody(p, n).st # "more"
      BY <2>2
    <3> HIDE DEF p, q, n
    <3>5. readBody(q, n) = readBody(p, n)
      BY <3>2, <3>3, <3>4, LeadsBody
    <3> QED BY <3>5 DEF p, q, n
  <2> HIDE DEF b, parsed
  <2> QED BY <2>1, <2>3
<1> QED BY <1>7, <1>8

(* The requests behind a place of a stream are those of the stream there.  *)
LEMMA RequestsBehind ==
    ASSUME NEW s \in Seq(Tokens), NEW i \in 0..Len(s)
    PROVE  Requests(Part(s, i, Len(s))) = RequestsOf(s)[i]
<1> DEFINE N == Len(s)
           v == Part(s, i, N)
           M == N - i
           f == RequestsOf(s)
           h == RequestsOf(v)
           S == {j \in 0..M : h[j] = f[i + j]}
<1>1. N \in Nat /\ i \in Nat /\ M \in Nat /\ N \in i..Len(s) /\ i \in 0..N /\ N = Len(s)
  OBVIOUS
<1>2. v \in Seq(Tokens) /\ Len(v) = M
  BY <1>1, PartIs
<1>3. \A j \in 0..N : f[j] = RequestsFrom(s, f, j)
  BY RequestsOfAt
<1> HIDE DEF N, v, f
<1>4. Requests(v) = h[0] /\ \A j \in 0..M : h[j] = RequestsFrom(v, h, j)
  BY <1>2, RequestsOfAt
<1> HIDE DEF h
<1>5. ASSUME NEW j \in 0..M, \A y \in (j + 1)..M : h[y] = f[i + y] PROVE h[j] = f[i + j]
  <2> DEFINE u == SubSeq(v, j + 1, Len(v))
             p == ParseHTTP1(u)
  <2>1. i + j \in 0..N /\ i + j \in i..N /\ (i + j) - i = j /\ j \in 0..Len(v)
    BY <1>1, <1>2
  <2>2. u = SubSeq(s, (i + j) + 1, Len(s))
    <3>1. Part(Part(s, i, N), (i + j) - i, N - i) = Part(s, i + j, N)
      BY <1>1, <2>1, PartOfPart
    <3> QED BY <1>1, <1>2, <2>1, <3>1 DEF Part, v
  <2>3. u \in Seq(Tokens) /\ Len(u) = M - j
    BY <1>2, <2>1, BehindIs
  <2>4. h[j] = CASE p.st = "more" -> [reqs |-> <<>>, rest |-> u]
                 [] p.st = "malformed" -> [reqs |-> <<>>, rest |-> <<>>]
                 [] p.st = "ok" -> [reqs |-> <<p.req>> \o h[j + p.n].reqs, rest |-> h[j + p.n].rest]
    BY <1>4 DEF RequestsFrom
  <2>5. f[i + j] = CASE p.st = "more" -> [reqs |-> <<>>, rest |-> u]
                     [] p.st = "malformed" -> [reqs |-> <<>>, rest |-> <<>>]
                     [] p.st = "ok" -> [reqs |-> <<p.req>> \o f[(i + j) + p.n].reqs, rest |-> f[(i + j) + p.n].rest]
    BY <1>3, <2>1, <2>2 DEF RequestsFrom
  <2> HIDE DEF u
  <2>6. Fits(p, 1, M - j)
    BY <2>3, ParseFits
  <2> HIDE DEF p
  <2>7. p.st = "ok" => h[j + p.n] = f[(i + j) + p.n]
    <3>1. p.st = "ok" => p.n \in 1..(M - j)
      BY <2>6 DEF Fits
    <3>2. p.st = "ok" => j + p.n \in (j + 1)..M /\ i + (j + p.n) = (i + j) + p.n
      BY <1>1, <3>1
    <3> QED BY <1>5, <3>2
  <2> QED BY <2>4, <2>5, <2>6, <2>7 DEF Fits
<1>6. \A j \in 0..M : (\A y \in (j + 1)..M : y \in S) => j \in S
  BY <1>5
<1> HIDE DEF M, S
<1>7. 0..M \subseteq S
  BY <1>1, <1>6, InductionDown
<1>8. 0 \in S /\ i + 0 = i
  BY <1>1, <1>7
<1> QED BY <1>4, <1>8 DEF S, v, N, f

(* Every request is one that ParseHTTP1 returns somewhere.                 *)
Parses(s) == {ParseHTTP1(SubSeq(s, i + 1, Len(s))).req : i \in 0..Len(s)}

LEMMA RequestsReqs ==
    ASSUME NEW s \in Seq(Tokens), NEW i \in 0..Len(s)
    PROVE  RequestsOf(s)[i].reqs \in Seq(Parses(s))
<1> DEFINE N == Len(s)
           f == RequestsOf(s)
           S == {j \in 0..N : f[j].reqs \in Seq(Parses(s))}
<1>1. N \in Nat
  OBVIOUS
<1>2. \A j \in 0..N : f[j] = RequestsFrom(s, f, j)
  BY RequestsOfAt
<1> HIDE DEF f
<1>3. ASSUME NEW j \in 0..N, \A y \in (j + 1)..N : f[y].reqs \in Seq(Parses(s)) PROVE f[j].reqs \in Seq(Parses(s))
  <2> DEFINE u == SubSeq(s, j + 1, Len(s))
             p == ParseHTTP1(u)
             R == Parses(s)
  <2>1. u \in Seq(Tokens) /\ Len(u) = N - j
    BY BehindIs
  <2>2. f[j] = CASE p.st = "more" -> [reqs |-> <<>>, rest |-> u]
                 [] p.st = "malformed" -> [reqs |-> <<>>, rest |-> <<>>]
                 [] p.st = "ok" -> [reqs |-> <<p.req>> \o f[j + p.n].reqs, rest |-> f[j + p.n].rest]
    BY <1>2 DEF RequestsFrom
  <2>3. p.req \in R
    BY DEF Parses
  <2> HIDE DEF u, R
  <2>4. Fits(p, 1, N - j)
    BY <2>1, ParseFits
  <2> HIDE DEF p
  <2>5. CASE p.st = "ok"
    <3> DEFINE r == f[j + p.n].reqs
    <3>1. j + p.n \in (j + 1)..N
      BY <1>1, <2>4, <2>5 DEF Fits
    <3>2. r \in Seq(R)
      BY <1>3, <3>1 DEF R
    <3>3. f[j].reqs = <<p.req>> \o r
      BY <2>2, <2>5
    <3> HIDE DEF r
    <3>4. <<p.req>> \in Seq(R)
      BY <2>3
    <3>5. <<p.req>> \o r \in Seq(R)
      BY <3>2, <3>4, ConcatProperties
    <3> QED BY <3>3, <3>5 DEF R
  <2>6. CASE p.st # "ok"
    <3>1. f[j].reqs = <<>>
      BY <2>2, <2>4, <2>6 DEF Fits
    <3> QED BY <3>1
  <2> QED BY <2>5, <2>6
<1>4. \A j \in 0..N : (\A y \in (j + 1)..N : y \in S) => j \in S
  BY <1>3
<1> HIDE DEF S
<1>5. 0..N \subseteq S
  BY <1>1, <1>4, InductionDown
<1> QED BY <1>5 DEF S, f

(* What the requests of w from i on are, by those of s: the same, and then *)
(* those that what s leaves over begins; or s is given up, and so is w.    *)
GoesOn(s, w, i) ==
    LET a == RequestsOf(s)[i]
        c == RequestsOf(w)[i]
    IN \/ /\ a.reqs \in Seq(Parses(w))
          /\ \E j \in i..Len(s) : /\ a.rest = Part(s, j, Len(s))
                                  /\ c.reqs = a.reqs \o RequestsOf(w)[j].reqs
                                  /\ c.rest = RequestsOf(w)[j].rest
       \/ a.rest = <<>> /\ c.reqs = a.reqs /\ c.rest = <<>>

(* One element before a sequence.                                          *)
Before(r, a) == <<r>> \o a

(* It is before two sequences in a row what it is before the first.        *)
LEMMA AnyAssociative ==
    ASSUME NEW R, NEW r \in R, NEW a \in Seq(R), NEW b \in Seq(R)
    PROVE  Before(r, a) \in Seq(R) /\ Before(r, a \o b) = Before(r, a) \o b
<1> DEFINE one == <<r>>
<1>1. one \in Seq(R)
  OBVIOUS
<1> HIDE DEF one
<1>2. one \o a \in Seq(R)
  BY <1>1, ConcatProperties
<1>3. (one \o a) \o b = one \o (a \o b)
  BY <1>1, ConcatAssociative
<1> QED BY <1>2, <1>3 DEF one, Before

(* The requests of s from i on are r and those from k on.                  *)
OneMore(s, i, r, k) ==
    /\ RequestsOf(s)[i].reqs = Before(r, RequestsOf(s)[k].reqs)
    /\ RequestsOf(s)[i].rest = RequestsOf(s)[k].rest

(* One request more at the front.                                          *)
LEMMA GoesOnMore ==
    ASSUME NEW s \in Seq(Tokens), NEW w \in Seq(Tokens), Leads(s, w), NEW i \in 0..Len(s), NEW k \in (i + 1)..Len(s),
           GoesOn(s, w, k), NEW r \in Parses(w), OneMore(s, i, r, k), OneMore(w, i, r, k)
    PROVE  GoesOn(s, w, i)
<1> DEFINE f == RequestsOf(s)
           g == RequestsOf(w)
           R == Parses(w)
<1>1. Len(s) \in Nat /\ Len(w) \in Nat /\ Len(s) <= Len(w)
  BY DEF Leads
<1>2. \A j \in 0..Len(w) : g[j].reqs \in Seq(R)
  BY RequestsReqs
<1>3. r \in R
  OBVIOUS
<1> HIDE DEF R
<1>4. CASE f[k].rest = <<>> /\ g[k].reqs = f[k].reqs /\ g[k].rest = <<>>
  BY <1>4 DEF GoesOn, OneMore
<1>5. ASSUME f[k].reqs \in Seq(R),
             NEW j \in k..Len(s), f[k].rest = Part(s, j, Len(s)), g[k].reqs = f[k].reqs \o g[j].reqs, g[k].rest = g[j].rest
      PROVE  GoesOn(s, w, i)
  <2>1. j \in 0..Len(w) /\ j \in i..Len(s)
    BY <1>1
  <2>2. g[j].reqs \in Seq(R)
    BY <1>2, <2>1
  <2> DEFINE a == f[k].reqs
             b == g[j].reqs
  <2>3. Before(r, a) \in Seq(R) /\ Before(r, a \o b) = Before(r, a) \o b
    <3>1. a \in Seq(R) /\ b \in Seq(R)
      BY <1>5, <2>2
    <3> HIDE DEF a, b
    <3> QED BY <1>3, <3>1, AnyAssociative
  <2>4. f[i].reqs = Before(r, f[k].reqs) /\ f[i].rest = f[k].rest /\ g[i].reqs = Before(r, g[k].reqs) /\ g[i].rest = g[k].rest
    BY DEF OneMore
  <2> HIDE DEF f, g
  <2>5. f[i].reqs \in Seq(R) /\ g[i].reqs = f[i].reqs \o g[j].reqs /\ f[i].rest = Part(s, j, Len(s)) /\ g[i].rest = g[j].rest
    BY <1>5, <2>3, <2>4, Zenon
  <2> QED BY <2>1, <2>5 DEF GoesOn, f, g, R
<1> QED BY <1>4, <1>5 DEF GoesOn, R

(* So it is from the last place down to the first.                         *)
LEMMA GoesOnAll ==
    ASSUME NEW s \in Seq(Tokens), NEW w \in Seq(Tokens), Leads(s, w)
    PROVE  GoesOn(s, w, 0)
<1> DEFINE N == Len(s)
           f == RequestsOf(s)
           g == RequestsOf(w)
           S == {i \in 0..N : GoesOn(s, w, i)}
<1>1. N \in Nat /\ Len(w) \in Nat /\ N <= Len(w) /\ N = Len(s) /\ \A i \in 0..N : i \in 0..Len(w)
  BY DEF Leads
<1>2. /\ \A i \in 0..N : f[i] = RequestsFrom(s, f, i)
      /\ \A i \in 0..Len(w) : g[i] = RequestsFrom(w, g, i)
  BY RequestsOfAt
<1>3. ASSUME NEW i \in 0..N, \A k \in (i + 1)..N : GoesOn(s, w, k) PROVE GoesOn(s, w, i)
  <2> DEFINE u == SubSeq(s, i + 1, Len(s))
             v == SubSeq(w, i + 1, Len(w))
             p == ParseHTTP1(u)
             q == ParseHTTP1(v)
  <2>1. u \in Seq(Tokens) /\ v \in Seq(Tokens) /\ Len(u) = N - i /\ Leads(u, v)
    BY <1>1, BehindIs, LeadsBehind
  <2> HIDE DEF f, g
  <2>2. f[i] = CASE p.st = "more" -> [reqs |-> <<>>, rest |-> u]
                 [] p.st = "malformed" -> [reqs |-> <<>>, rest |-> <<>>]
                 [] p.st = "ok" -> [reqs |-> <<p.req>> \o f[i + p.n].reqs, rest |-> f[i + p.n].rest]
    BY <1>2 DEF RequestsFrom
  <2>3. g[i] = CASE q.st = "more" -> [reqs |-> <<>>, rest |-> v]
                 [] q.st = "malformed" -> [reqs |-> <<>>, rest |-> <<>>]
                 [] q.st = "ok" -> [reqs |-> <<q.req>> \o g[i + q.n].reqs, rest |-> g[i + q.n].rest]
    BY <1>1, <1>2 DEF RequestsFrom
  <2>4. q.req \in Parses(w)
    BY <1>1 DEF Parses
  <2>5. u = Part(s, i, Len(s))
    BY DEF Part
  <2> HIDE DEF u, v
  <2>6. Fits(p, 1, N - i)
    BY <2>1, ParseFits
  <2>7. p.st # "more" => q = p
    BY <2>1, ParseStable
  <2> HIDE DEF p, q
  <2>8. CASE p.st = "more"
    <3>1. f[i].reqs = <<>> /\ f[i].rest = u
      BY <2>2, <2>8
    <3>2. g[i].reqs \in Seq(Parses(w)) /\ <<>> \in Seq(Parses(w))
      BY <1>1, RequestsReqs DEF g
    <3>3. g[i].reqs = <<>> \o g[i].reqs
      BY <3>2, ConcatEmptySeq
    <3>4. i \in i..Len(s)
      BY <1>1
    <3> QED BY <2>5, <3>1, <3>2, <3>3, <3>4 DEF GoesOn, f, g
  <2>9. CASE p.st = "malformed"
    <3>1. f[i].rest = <<>> /\ f[i].reqs = <<>> /\ g[i].rest = <<>> /\ g[i].reqs = <<>>
      BY <2>2, <2>3, <2>7, <2>9
    <3> QED BY <3>1 DEF GoesOn, f, g
  <2>10. CASE p.st = "ok"
    <3> DEFINE k == i + p.n
    <3>1. k \in (i + 1)..N
      BY <1>1, <2>6, <2>10 DEF Fits
    <3>2. /\ f[i].reqs = <<p.req>> \o f[k].reqs /\ f[i].rest = f[k].rest
          /\ g[i].reqs = <<p.req>> \o g[k].reqs /\ g[i].rest = g[k].rest
      BY <2>2, <2>3, <2>7, <2>10
    <3>3. p.req \in Parses(w) /\ GoesOn(s, w, k)
      BY <1>3, <2>4, <2>7, <2>10, <3>1
    <3>4. OneMore(s, i, p.req, k) /\ OneMore(w, i, p.req, k)
      BY <3>2 DEF OneMore, Before, f, g
    <3> HIDE DEF k
    <3> QED BY <1>1, <3>1, <3>3, <3>4, GoesOnMore
  <2> QED BY <2>6, <2>8, <2>9, <2>10 DEF Fits
<1>4. \A i \in 0..N : (\A k \in (i + 1)..N : k \in S) => i \in S
  BY <1>3
<1> HIDE DEF S
<1>5. 0..N \subseteq S
  BY <1>1, <1>4, InductionDown
<1>6. 0 \in S
  BY <1>1, <1>5
<1> QED BY <1>6 DEF S

(* The stream's comment: where a capture is cut has no significance, also  *)
(* for streams that are captured from their middle on, or with gaps.  To   *)
(* handle s and then x gives the requests of both at once, unless s has to *)
(* be given up: then s \o x is, after the same requests.                   *)
THEOREM RequestsCut ==
    ASSUME NEW s \in Seq(Tokens), NEW x \in Seq(Tokens)
    PROVE  LET a == Requests(s)
               b == Requests(a.rest \o x)
               c == Requests(s \o x)
           IN \/ c.reqs = a.reqs \o b.reqs /\ c.rest = b.rest
              \/ a.rest = <<>> /\ c.reqs = a.reqs /\ c.rest = <<>>
<1> DEFINE w == s \o x
           N == Len(s)
           L == Len(w)
           f == RequestsOf(s)
           g == RequestsOf(w)
<1>1. /\ w \in Seq(Tokens) /\ L = N + Len(x) /\ N \in Nat /\ Len(x) \in Nat
      /\ \A i \in 1..N : w[i] = s[i]
      /\ \A i \in 1..Len(x) : w[N + i] = x[i]
  BY ConcatAt
<1> HIDE DEF w
<1>2. Leads(s, w) /\ L \in Nat /\ N <= L
  BY <1>1 DEF Leads
<1>3. Requests(s) = f[0] /\ Requests(w) = g[0]
  BY <1>1, RequestsOfAt
<1>4. ASSUME NEW j \in 0..N PROVE Requests(Part(s, j, N) \o x) = g[j]
  <2>1. N \in 0..N /\ j \in 0..N /\ N \in j..L /\ j \in Nat /\ L \in j..L /\ L \in N..L /\ j \in 0..L
    BY <1>1, <1>2
  <2>2. Part(w, j, N) = Part(s, j, N)
    BY <1>1, <1>2, <2>1, LeadsPart
  <2>3. Part(w, N, L) = x
    <3> DEFINE p == Part(w, N, L)
    <3>1. p \in Seq(Tokens) /\ Len(p) = L - N /\ \A i \in 1..(L - N) : p[i] = w[N + i]
      BY <1>1, <2>1, PartIs
    <3> HIDE DEF p
    <3>2. Len(p) = Len(x) /\ \A i \in 1..Len(p) : p[i] = x[i]
      BY <1>1, <3>1
    <3>3. p = x
      BY <3>1, <3>2, SeqEqual
    <3> QED BY <3>3 DEF p
  <2>4. Part(w, j, N) \o Part(w, N, L) = Part(w, j, L)
    BY <1>1, <2>1, PartConcat
  <2>5. Requests(Part(w, j, L)) = g[j]
    BY <1>1, <2>1, RequestsBehind
  <2> QED BY <2>2, <2>3, <2>4, <2>5
<1>5. GoesOn(s, w, 0)
  BY <1>1, <1>2, GoesOnAll
<1> HIDE DEF N, L, f, g
<1>6. CASE f[0].rest = <<>> /\ g[0].reqs = f[0].reqs /\ g[0].rest = <<>>
  BY <1>3, <1>6 DEF w
<1>7. CASE \E j \in 0..N : f[0].rest = Part(s, j, N) /\ g[0].reqs = f[0].reqs \o g[j].reqs /\ g[0].rest = g[j].rest
  <2>1. PICK j \in 0..N : f[0].rest = Part(s, j, N) /\ g[0].reqs = f[0].reqs \o g[j].reqs /\ g[0].rest = g[j].rest
    BY <1>7
  <2>2. Requests(f[0].rest \o x) = g[j]
    BY <1>4, <2>1
  <2> QED BY <1>3, <2>1, <2>2 DEF w
<1> QED BY <1>5, <1>6, <1>7 DEF GoesOn, f, g, N

-----------------------------------------------------------------------------
(* Start has not begun, or it is done once sslFeed may go on.              *)
Sequenced ==
    /\ phase = "launched" => vpc = "off" /\ feed = "wait"
    /\ vpc = "off" => phase = "launched"
    /\ tlsReady => vpc = "done"
    /\ feed # "wait" => tlsReady

(* While the search goes on a uprobe is attached only between Attach and   *)
(* Detach; one that outlives the search is held in sslWriteLink.           *)
Held ==
    /\ vpc \in {"off", "next"} => attached = 0
    /\ vpc \in {"store", "done"} => attached = 0 \/ sslWriteLink
    /\ phase = "stopped" => feed = "ended" /\ attached = 0

(* The frame that the search has read is there when sslFeed replays it,    *)
(* and only then: it goes to sslCh once.                                   *)
Kept ==
    /\ validationFrame # None => vpc \in {"store", "done"} /\ feed # "read"
    /\ vpc = "store" => validationFrame # None
    /\ tlsActive => vpc = "done"
    /\ tlsActive /\ feed = "wait" => validationFrame # None
    /\ feed = "replay" => validationFrame # None

(* The types of the variables, with those that TypeOK leaves out: what is  *)
(* known of the tasks, where the frames are, and the control.              *)
WorldTypes ==
    /\ setup \in DOMAIN Setups /\ gap \subseteq Tids
    /\ pos \in [Tids -> Nat] /\ begin \in [Tids -> Int] /\ handled = [t \in Tids |-> handled[t]]
    /\ \A t \in Tids : pos[t] \in 0..Len(Sent(t)) /\ begin[t] \in -1..pos[t]

PipeTypes ==
    /\ ssl_events \in Seq(Frames) /\ Len(ssl_events) <= RingMax
    /\ sslCh \in Seq(Frames) /\ Len(sslCh) <= ChanMax
    /\ validationFrame \in Frames \cup {None}
    /\ pending \in [Tids -> Seq(Tokens)]

ControlTypes ==
    /\ alive \subseteq Tids /\ tracked_pids \subseteq Tids
    /\ phase \in {"launched", "running", "stopping", "stopped"}
    /\ vpc \in {"off", "next", "read", "detach", "store", "done"}
    /\ feed \in {"wait", "replay", "read", "ended"}
    /\ vi \in Nat /\ attached \in {0, vi}
    /\ closed \in BOOLEAN /\ tlsActive \in BOOLEAN /\ tlsReady \in BOOLEAN /\ sslWriteLink \in BOOLEAN

Inv == Sequenced /\ Held /\ Kept /\ WorldTypes /\ PipeTypes /\ ControlTypes

(* From its first-th request on k requests of the task were handled, and   *)
(* what is kept of it, or still underway, is the rest of what it has sent; *)
(* what is kept is less than a request.                                    *)
Follows(t, first, k) ==
    LET sc == Script(t)
    IN /\ first \in 1..(Len(sc) + 1) /\ Mark(sc, first) = begin[t]
       /\ first + k \in first..(Len(sc) + 1) /\ k \in Nat
       /\ handled[t] = [i \in 1..k |-> Reference(sc[first + i - 1])]
       /\ Mark(sc, first + k) <= pos[t]
       /\ pending[t] \o Underway(t) = Part(All(sc), Mark(sc, first + k), pos[t])
       /\ Short(sc, first + k, pending[t])

(* Of a task of which nothing was captured yet there is nothing anywhere.  *)
Untouched(t) == handled[t] = <<>> /\ pending[t] = <<>> /\ Underway(t) = <<>>

Streams ==
    \A t \in Tids \ gap : IF begin[t] = -1 THEN Untouched(t)
                          ELSE \E first, k \in Nat : Follows(t, first, k)

-----------------------------------------------------------------------------
(* The scripts of a setup.                                                 *)
LEMMA ScriptOf ==
    ASSUME NEW n \in DOMAIN Setups, NEW t \in Tids
    PROVE  LET sc == Setups[n].script[t]
           IN /\ sc \in Seq(HttpRequests) /\ SentBy[n][t] = All(sc)
              /\ MarksOf[n][t] = [i \in 1..(Len(sc) + 1) |-> Mark(sc, i)]
<1>1. Setups[n] \in Range(Setups)
  BY DEF Range
<1>2. Setups[n].script \in [Tids -> Seq(HttpRequests)]
  BY <1>1, TlsAssumption
<1>3. Setups[n].script[t] \in Seq(HttpRequests)
  BY <1>2
<1>4. SentBy[n][t] = All(Setups[n].script[t])
  BY DEF SentBy, Wires, All, Stream
<1>5. MarksOf[n][t] = [i \in 1..(Len(Setups[n].script[t]) + 1) |-> Mark(Setups[n].script[t], i)]
  BY DEF MarksOf, Wires, Mark, Stream
<1> QED BY <1>3, <1>4, <1>5

(* A whole stream is a sequence of tokens.                                 *)
LEMMA AllTyped == ASSUME NEW sc \in Seq(HttpRequests) PROVE All(sc) \in Seq(Tokens) /\ Len(All(sc)) \in Nat
<1>1. Len(sc) \in 0..Len(sc)
  OBVIOUS
<1> QED BY <1>1, StreamType DEF All

(* What a task sends is the stream of its script.                          *)
LEMMA SentTyped ==
    ASSUME WorldTypes, NEW t \in Tids
    PROVE  /\ Script(t) \in Seq(HttpRequests) /\ Sent(t) = All(Script(t))
           /\ Sent(t) \in Seq(Tokens) /\ Len(Sent(t)) \in Nat
           /\ Marks(t) = [i \in 1..(Len(Script(t)) + 1) |-> Mark(Script(t), i)]
<1>1. setup \in DOMAIN Setups
  BY DEF WorldTypes
<1>2. Script(t) \in Seq(HttpRequests) /\ Sent(t) = All(Script(t))
      /\ Marks(t) = [i \in 1..(Len(Script(t)) + 1) |-> Mark(Script(t), i)]
  BY <1>1, ScriptOf DEF Script, Sent, Marks
<1>3. All(Script(t)) \in Seq(Tokens) /\ Len(All(Script(t))) \in Nat
  <2> HIDE DEF Script
  <2> QED BY <1>2, AllTyped
<1> QED BY <1>2, <1>3

(* The types of the variables are those that TypeOK states, and more.      *)
LEMMA TypesImplyTypeOK == WorldTypes /\ PipeTypes /\ ControlTypes => TypeOK
BY DEF WorldTypes, PipeTypes, ControlTypes, TypeOK

(* The bounds are numbers.                                                 *)
LEMMA BoundsAre == RingMax \in Nat /\ ChanMax \in Nat /\ SSL_CAP_LEN \in Nat
                   /\ MaxOther \in Nat /\ MaxWrite \in Nat /\ MaxFaults \in Nat
BY TlsAssumption

(* A frame of a task is a frame.                                           *)
LEMMA FrameTyped ==
    ASSUME ControlTypes, NEW t \in Tids, NEW toks \in Seq(Tokens)
    PROVE  Frame(t, toks) \in Frames
BY DEF ControlTypes, Frame, Frames

(* What is cut at the size of the buffer stays a sequence of tokens.       *)
LEMMA CappedTyped == ASSUME NEW toks \in Seq(Tokens) PROVE Capped(toks) \in Seq(Tokens)
<1>1. CASE Len(toks) > SSL_CAP_LEN
  <2>1. SSL_CAP_LEN \in Nat /\ SSL_CAP_LEN \in 0..Len(toks)
    BY <1>1, BoundsAre
  <2>2. SubSeq(toks, 1, SSL_CAP_LEN) \in Seq(Tokens)
    <3>1. 0 + 1 = 1 /\ 0 \in Nat /\ SSL_CAP_LEN \in 0..Len(toks)
      BY <2>1
    <3>2. Part(toks, 0, SSL_CAP_LEN) \in Seq(Tokens)
      BY <3>1, PartIs
    <3> QED BY <3>1, <3>2 DEF Part
  <2> QED BY <1>1, <2>2 DEF Capped
<1>2. CASE ~(Len(toks) > SSL_CAP_LEN)
  BY <1>2 DEF Capped
<1> QED BY <1>1, <1>2

(* A frame more in ssl_events, if there is room.                           *)
LEMMA OutputTyped ==
    ASSUME ssl_events \in Seq(Frames), Len(ssl_events) <= RingMax, NEW f \in Frames, Output(f)
    PROVE  ssl_events' \in Seq(Frames) /\ Len(ssl_events') <= RingMax
<1>1. CASE Len(ssl_events) < RingMax
  <2>1. ssl_events' = Append(ssl_events, f)
    BY <1>1 DEF Output
  <2>2. ssl_events' \in Seq(Frames) /\ Len(ssl_events') = Len(ssl_events) + 1 /\ Len(ssl_events) \in Nat
    BY <2>1, AppendProperties
  <2> QED BY <1>1, <2>2, BoundsAre
<1>2. CASE ~(Len(ssl_events) < RingMax)
  BY <1>2 DEF Output
<1> QED BY <1>1, <1>2

(* The uprobe keeps the types.                                             *)
LEMMA ProbeTyped ==
    ASSUME PipeTypes, ControlTypes, NEW t \in Tids, NEW toks \in Seq(Tokens), NEW ok \in BOOLEAN,
           probe_ssl_write(t, toks, ok), UNCHANGED <<sslCh, validationFrame, pending>>
    PROVE  PipeTypes'
<1>1. ssl_events \in Seq(Frames) /\ Len(ssl_events) <= RingMax
  BY DEF PipeTypes
<1>2. UNCHANGED ssl_events \/ Output(Frame(t, Capped(toks)))
  BY DEF probe_ssl_write
<1>3. Frame(t, Capped(toks)) \in Frames
  BY CappedTyped, FrameTyped
<1>4. ssl_events' \in Seq(Frames) /\ Len(ssl_events') <= RingMax
  <2>1. CASE UNCHANGED ssl_events
    BY <1>1, <2>1
  <2>2. CASE Output(Frame(t, Capped(toks)))
    BY <1>1, <1>3, <2>2, OutputTyped
  <2> QED BY <1>2, <2>1, <2>2
<1> QED BY <1>4 DEF PipeTypes

(* The control alone: the part of the invariant that does not speak of the *)
(* streams.                                                                *)
Control == Sequenced /\ Held /\ Kept /\ ControlTypes

(* The frame at the head of a queue.                                       *)
LEMMA HeadTyped ==
    ASSUME NEW fs \in Seq(Frames), fs # <<>>
    PROVE  /\ Head(fs) \in Frames /\ Tail(fs) \in Seq(Frames) /\ Len(Tail(fs)) <= Len(fs)
           /\ Head(fs).tid \in Tids /\ Head(fs).toks \in Seq(Tokens) /\ Head(fs) # None
<1>1. Head(fs) \in Frames /\ Tail(fs) \in Seq(Frames) /\ Len(Tail(fs)) = Len(fs) - 1 /\ Len(fs) \in Nat
  BY HeadTailProperties, EmptySeq, LenProperties
<1>2. Head(fs).tid \in Tids /\ Head(fs).toks \in Seq(Tokens)
  BY <1>1 DEF Frames
<1>3. Head(fs) # None
  BY <1>1, TlsAssumption
<1> QED BY <1>1, <1>2, <1>3

(* The agent keeps the control.                                            *)
LEMMA AgentControl == ASSUME Inv, Agent PROVE Control'
<1> USE DEF ControlTypes
<1>1. UNCHANGED <<startVars, feed, phase, closed>> /\ alive' \subseteq Tids /\ tracked_pids' \subseteq Tids
  <2>1. ASSUME NEW t \in Tids, NEW n \in 1..MaxWrite, NEW ok \in BOOLEAN, SslWrite(t, n, ok)
        PROVE  UNCHANGED <<startVars, feed, phase, closed, alive, tracked_pids>>
    BY <2>1 DEF SslWrite
  <2>2. ASSUME NEW t \in Tids, OtherCall(t) PROVE UNCHANGED <<startVars, feed, phase, closed, alive, tracked_pids>>
    BY <2>2 DEF OtherCall
  <2>3. ASSUME NEW t \in Tids, NEW c \in Tids, Fork(t, c)
        PROVE  UNCHANGED <<startVars, feed, phase, closed>> /\ alive' = alive \cup {c}
               /\ tracked_pids' \subseteq tracked_pids \cup {c}
    BY <2>3 DEF Fork, goVars, handle_fork
  <2>4. ASSUME NEW t \in Tids, TaskExit(t)
        PROVE  UNCHANGED <<startVars, feed, phase, closed>> /\ alive' \subseteq alive /\ tracked_pids' \subseteq tracked_pids
    BY <2>4 DEF TaskExit, goVars, handle_exit
  <2> QED BY <2>1, <2>2, <2>3, <2>4 DEF Agent, Inv
<1> QED BY <1>1 DEF Inv, Control, Sequenced, Held, Kept, startVars

(* So does the start of the network probe.                                 *)
LEMMA StartNetControl == ASSUME Inv, NEW ok \in BOOLEAN, StartNet(ok) PROVE Control'
<1>1. Root \in Tids
  BY TlsAssumption
<1>2. (Sequenced /\ Held /\ Kept)'
  BY DEF Inv, Sequenced, Held, Kept, StartNet, goVars
<1>3. ControlTypes'
  BY <1>1 DEF Inv, ControlTypes, StartNet, goVars, worldVars
<1> QED BY <1>2, <1>3 DEF Control

(* So does every step of the search for SSL_write.                         *)
LEMMA StartControl == ASSUME Inv, Start PROVE Control'
<1> USE DEF Inv, Control, Sequenced, Held, Kept, ControlTypes, goVars, worldVars, probeVars
<1>1. CASE Attach
  BY <1>1 DEF Attach
<1>2. CASE Judge
  <2>1. Head(ssl_events) # None
    BY <1>2, HeadTyped DEF Judge, PipeTypes
  <2> DEFINE ok == LooksLikeRequest(Head(ssl_events).toks)
  <2>2. /\ vpc = "read" /\ vpc' = (IF ok THEN "store" ELSE "detach") /\ sslWriteLink' = ok
        /\ validationFrame' = (IF ok THEN Head(ssl_events) ELSE None)
        /\ UNCHANGED <<alive, tracked_pids, vi, attached, tlsActive, tlsReady, feed, phase, closed>>
    BY <1>2 DEF Judge
  <2>3. ok \in BOOLEAN
    BY DEF LooksLikeRequest
  <2> HIDE DEF ok
  <2>4. CASE ok
    BY <2>1, <2>2, <2>4
  <2>5. CASE ~ok
    BY <2>2, <2>3, <2>5
  <2> QED BY <2>4, <2>5
<1>3. CASE NoFrame
  BY <1>3 DEF NoFrame
<1>4. CASE Detach
  BY <1>4 DEF Detach
<1>5. CASE Fail
  BY <1>5 DEF Fail
<1>6. CASE Store
  BY <1>6 DEF Store
<1>7. CASE Ready
  BY <1>7 DEF Ready
<1> QED BY <1>1, <1>2, <1>3, <1>4, <1>5, <1>6, <1>7 DEF Start

(* So do sslFeed and correlate.                                            *)
LEMMA FeedControl == ASSUME Inv, Feed \/ HandleFrame PROVE Control'
<1> USE DEF Inv, Control, Sequenced, Held, Kept, ControlTypes, startVars, worldVars, probeVars
<1>1. CASE FeedStarts
  BY <1>1 DEF FeedStarts, ReadyClosed
<1>2. CASE FeedReplays
  BY <1>2 DEF FeedReplays
<1>3. CASE FeedReads
  BY <1>3 DEF FeedReads
<1>4. CASE FeedEnds
  BY <1>4 DEF FeedEnds
<1>5. CASE HandleFrame
  BY <1>5 DEF HandleFrame
<1> QED BY <1>1, <1>2, <1>3, <1>4, <1>5 DEF Feed

(* So does Stop.                                                           *)
LEMMA StopControl == ASSUME Inv, StopReader \/ Stopped PROVE Control'
<1> USE DEF Inv, startVars, goVars, worldVars, probeVars
<1>1. CASE StopReader
  <2>1. (Sequenced /\ Held /\ Kept)'
    BY <1>1 DEF StopReader, Sequenced, Held, Kept
  <2>2. ControlTypes'
    BY <1>1 DEF StopReader, ControlTypes
  <2> QED BY <2>1, <2>2 DEF Control
<1>2. CASE Stopped
  <2>1. (Sequenced /\ Kept)'
    BY <1>2 DEF Stopped, Sequenced, Kept
  <2>2. Held'
    BY <1>2 DEF Stopped, Sequenced, Held
  <2>3. ControlTypes'
    BY <1>2 DEF Stopped, ControlTypes
  <2> QED BY <2>1, <2>2, <2>3 DEF Control
<1> QED BY <1>1, <1>2

-----------------------------------------------------------------------------
(* The agent only appends to the ring buffer.                              *)
LEMMA AgentPipe == ASSUME Inv, Agent PROVE PipeTypes'
<1> USE DEF Inv
<1>1. ASSUME NEW t \in Tids, NEW n \in 1..MaxWrite, NEW ok \in BOOLEAN, SslWrite(t, n, ok) PROVE PipeTypes'
  <2> DEFINE toks == SubSeq(Sent(t), pos[t] + 1, pos[t] + n)
  <2>1. UNCHANGED <<sslCh, validationFrame, pending>>
    BY <1>1 DEF SslWrite, startVars
  <2>2. toks \in Seq(Tokens)
    <3>1. Sent(t) \in Seq(Tokens) /\ Len(Sent(t)) \in Nat
      BY SentTyped
    <3>2. pos[t] \in Nat /\ n \in Nat /\ pos[t] + n <= Len(Sent(t))
      BY <1>1 DEF SslWrite, WorldTypes
    <3>3. pos[t] + n \in pos[t]..Len(Sent(t))
      BY <3>1, <3>2
    <3> DEFINE a == pos[t]
               e == pos[t] + n
    <3> HIDE DEF a, e
    <3>4. a \in Nat /\ e \in a..Len(Sent(t))
      BY <3>2, <3>3 DEF a, e
    <3>5. Part(Sent(t), a, e) \in Seq(Tokens)
      BY <3>1, <3>4, PartIs
    <3> QED BY <3>5 DEF Part, a, e
  <2>3. CASE Kind(attached) = "right"
    <3> HIDE DEF toks
    <3>1. probe_ssl_write(t, toks, ok)
      BY <1>1, <2>3 DEF SslWrite, toks
    <3> QED BY <2>1, <2>2, <3>1, ProbeTyped
  <2>4. CASE Kind(attached) # "right"
    BY <1>1, <2>1, <2>4 DEF SslWrite, PipeTypes
  <2> QED BY <2>3, <2>4
<1>2. ASSUME NEW t \in Tids, OtherCall(t) PROVE PipeTypes'
  <2> DEFINE toks == <<Token("junk", 0, 0)>>
  <2>1. toks \in Seq(Tokens)
    BY TokensOf DEF Kinds
  <2> HIDE DEF toks
  <2>2. probe_ssl_write(t, toks, TRUE) /\ UNCHANGED <<sslCh, validationFrame, pending>>
    BY <1>2 DEF OtherCall, toks, startVars
  <2> QED BY <2>1, <2>2, ProbeTyped
<1>3. ASSUME NEW t \in Tids, NEW c \in Tids, Fork(t, c) PROVE PipeTypes'
  BY <1>3 DEF Fork, goVars, startVars, PipeTypes
<1>4. ASSUME NEW t \in Tids, TaskExit(t) PROVE PipeTypes'
  BY <1>4 DEF TaskExit, goVars, startVars, PipeTypes
<1> QED BY <1>1, <1>2, <1>3, <1>4 DEF Agent

(* The other steps move frames, or drop them.                              *)
LEMMA OtherPipe ==
    ASSUME Inv, (\E ok \in BOOLEAN : StartNet(ok)) \/ Start \/ Feed \/ HandleFrame \/ StopReader \/ Stopped
    PROVE  PipeTypes'
<1> USE DEF Inv
<1>1. CASE Judge
  <2>1. ssl_events \in Seq(Frames) /\ ssl_events # <<>> /\ Len(ssl_events) <= RingMax /\ Len(ssl_events) \in Nat
    BY <1>1 DEF Judge, PipeTypes
  <2>2. Head(ssl_events) \in Frames /\ Tail(ssl_events) \in Seq(Frames) /\ Len(Tail(ssl_events)) <= Len(ssl_events)
    BY <2>1, HeadTyped
  <2>3. Len(Tail(ssl_events)) \in Nat /\ RingMax \in Nat
    BY <2>2, BoundsAre
  <2>4. Len(Tail(ssl_events)) <= RingMax
    BY <2>1, <2>2, <2>3
  <2>5. ssl_events' = Tail(ssl_events) /\ UNCHANGED <<sslCh, pending>>
        /\ validationFrame' \in {Head(ssl_events), None}
    BY <1>1 DEF Judge
  <2> QED BY <2>2, <2>4, <2>5 DEF PipeTypes
<1>2. CASE FeedReplays
  <2>1. sslCh \in Seq(Frames) /\ Len(sslCh) < ChanMax /\ Len(sslCh) \in Nat /\ ChanMax \in Nat
    BY <1>2, BoundsAre DEF FeedReplays, PipeTypes
  <2>2. validationFrame \in Frames
    BY <1>2 DEF FeedReplays, PipeTypes, Kept
  <2>3. sslCh' = Append(sslCh, validationFrame) /\ validationFrame' = None /\ UNCHANGED <<ssl_events, pending>>
    BY <1>2 DEF FeedReplays, probeVars
  <2>4. sslCh' \in Seq(Frames) /\ Len(sslCh') = Len(sslCh) + 1
    BY <2>1, <2>2, <2>3, AppendProperties
  <2>5. Len(sslCh') <= ChanMax
    BY <2>1, <2>4
  <2> QED BY <2>3, <2>4, <2>5 DEF PipeTypes
<1>3. CASE FeedReads
  <2>1. ssl_events \in Seq(Frames) /\ ssl_events # <<>> /\ Len(ssl_events) <= RingMax /\ Len(ssl_events) \in Nat
    BY <1>3 DEF FeedReads, PipeTypes
  <2>2. Head(ssl_events) \in Frames /\ Tail(ssl_events) \in Seq(Frames) /\ Len(Tail(ssl_events)) <= Len(ssl_events)
    BY <2>1, HeadTyped
  <2>3. Len(Tail(ssl_events)) \in Nat /\ RingMax \in Nat
    BY <2>2, BoundsAre
  <2>4. Len(Tail(ssl_events)) <= RingMax
    BY <2>1, <2>2, <2>3
  <2>5. sslCh \in Seq(Frames) /\ Len(sslCh) < ChanMax /\ Len(sslCh) \in Nat /\ ChanMax \in Nat
    BY <1>3, BoundsAre DEF FeedReads, PipeTypes
  <2>6. /\ sslCh' = Append(sslCh, Head(ssl_events)) /\ ssl_events' = Tail(ssl_events)
        /\ UNCHANGED <<validationFrame, pending>>
    BY <1>3 DEF FeedReads, startVars
  <2>7. sslCh' \in Seq(Frames) /\ Len(sslCh') = Len(sslCh) + 1
    BY <2>2, <2>5, <2>6, AppendProperties
  <2>8. Len(sslCh') <= ChanMax
    BY <2>5, <2>7
  <2> QED BY <2>2, <2>4, <2>6, <2>7, <2>8 DEF PipeTypes
<1>4. CASE HandleFrame
  <2> DEFINE t == Head(sslCh).tid
             s == pending[t] \o Head(sslCh).toks
  <2>1. sslCh \in Seq(Frames) /\ sslCh # <<>> /\ Len(sslCh) <= ChanMax /\ Len(sslCh) \in Nat
    BY <1>4 DEF HandleFrame, PipeTypes
  <2>2. /\ Tail(sslCh) \in Seq(Frames) /\ Len(Tail(sslCh)) <= Len(sslCh)
        /\ t \in Tids /\ Head(sslCh).toks \in Seq(Tokens)
    BY <2>1, HeadTyped
  <2>3. Len(Tail(sslCh)) \in Nat /\ ChanMax \in Nat
    BY <2>2, BoundsAre
  <2>4. Len(Tail(sslCh)) <= ChanMax
    BY <2>1, <2>2, <2>3
  <2>5. s \in Seq(Tokens)
    <3>1. pending[t] \in Seq(Tokens)
      BY <2>2 DEF PipeTypes
    <3> QED BY <2>2, <3>1, ConcatAt
  <2>6. /\ sslCh' = Tail(sslCh) /\ UNCHANGED <<ssl_events, validationFrame>>
        /\ pending' = [pending EXCEPT ![t] = Requests(s).rest]
    BY <1>4 DEF HandleFrame, probeVars, startVars
  <2> HIDE DEF s, t
  <2>7. Requests(s).rest \in Seq(Tokens)
    BY <2>5, RequestsType
  <2>8. pending' \in [Tids -> Seq(Tokens)]
    BY <2>2, <2>6, <2>7 DEF PipeTypes
  <2> QED BY <2>2, <2>4, <2>6, <2>8 DEF PipeTypes
<1>5. CASE UNCHANGED <<ssl_events, sslCh, validationFrame, pending>>
  BY <1>5 DEF PipeTypes
<1>6. CASE \E ok \in BOOLEAN : StartNet(ok)
  BY <1>5, <1>6 DEF StartNet, goVars
<1>7. CASE Start /\ ~Judge
  BY <1>5, <1>7 DEF Start, Attach, NoFrame, Detach, Fail, Store, Ready, goVars, probeVars
<1>8. CASE FeedStarts \/ FeedEnds
  BY <1>5, <1>8 DEF FeedStarts, FeedEnds, startVars, probeVars
<1>9. CASE StopReader \/ Stopped
  BY <1>5, <1>9 DEF StopReader, Stopped, startVars, goVars, probeVars
<1> QED BY <1>1, <1>2, <1>3, <1>4, <1>6, <1>7, <1>8, <1>9 DEF Feed

-----------------------------------------------------------------------------
(* The frames that correlate has not seen yet, in order.                   *)

MaybeFrames == Frames \cup {None}
Queue(c, v, e) == c \o (IF v = None THEN <<>> ELSE <<v>>) \o e

(* It is a queue of frames.                                                *)
LEMMA QueueTyped ==
    ASSUME NEW c \in Seq(Frames), NEW v \in MaybeFrames, NEW e \in Seq(Frames)
    PROVE  Queue(c, v, e) \in Seq(Frames)
<1> DEFINE V == IF v = None THEN <<>> ELSE <<v>>
<1>1. V \in Seq(Frames)
  <2>1. <<>> \in Seq(Frames) /\ \A f \in Frames : <<f>> \in Seq(Frames)
    OBVIOUS
  <2> QED BY <2>1 DEF MaybeFrames
<1> HIDE DEF V
<1>2. c \o V \in Seq(Frames)
  BY <1>1, ConcatAt
<1>3. (c \o V) \o e \in Seq(Frames)
  BY <1>2, ConcatAt
<1> QED BY <1>3 DEF Queue, V

(* Without a frame of the search it is the channel and the ring buffer.    *)
LEMMA QueueNone ==
    ASSUME NEW c \in Seq(Frames), NEW e \in Seq(Frames)
    PROVE  Queue(c, None, e) = c \o e
<1>1. c \o <<>> = c
  BY ConcatEmptySeq
<1> QED BY <1>1 DEF Queue

(* A frame is captured.                                                    *)
LEMMA QueueOutput ==
    ASSUME NEW c \in Seq(Frames), NEW v \in MaybeFrames, NEW e \in Seq(Frames), NEW f \in Frames,
           NEW t
    PROVE  Captured(Queue(c, v, Append(e, f)), t) = Captured(Queue(c, v, e), t) \o Own(f, t)
<1> DEFINE V == IF v = None THEN <<>> ELSE <<v>>
<1>1. V \in Seq(Frames)
  <2>1. <<>> \in Seq(Frames) /\ \A g \in Frames : <<g>> \in Seq(Frames)
    OBVIOUS
  <2> QED BY <2>1 DEF MaybeFrames
<1> HIDE DEF V
<1>2. c \o V \in Seq(Frames)
  BY <1>1, ConcatAt
<1>3. (c \o V) \o Append(e, f) = Append((c \o V) \o e, f)
  BY <1>2, ConcatAppend
<1>4. Queue(c, v, Append(e, f)) = Append(Queue(c, v, e), f)
  BY <1>3 DEF Queue, V
<1>5. Queue(c, v, e) \in Seq(Frames)
  BY QueueTyped
<1>6. Captured(Append(Queue(c, v, e), f), t) = Captured(Queue(c, v, e), t) \o Own(f, t)
  BY <1>5, CapturedAppend
<1> QED BY <1>4, <1>6

(* correlate takes a frame.                                                *)
LEMMA QueueHead ==
    ASSUME NEW c \in Seq(Frames), NEW v \in MaybeFrames, NEW e \in Seq(Frames), c # <<>>,
           NEW t
    PROVE  Captured(Queue(c, v, e), t) = Own(Head(c), t) \o Captured(Queue(Tail(c), v, e), t)
<1> DEFINE V == IF v = None THEN <<>> ELSE <<v>>
<1>1. V \in Seq(Frames)
  <2>1. <<>> \in Seq(Frames) /\ \A g \in Frames : <<g>> \in Seq(Frames)
    OBVIOUS
  <2> QED BY <2>1 DEF MaybeFrames
<1> HIDE DEF V
<1> DEFINE a == c \o V
<1>2. a # <<>> /\ Head(a) = Head(c) /\ Tail(a) = Tail(c) \o V
  BY <1>1, ConcatHead
<1>3. a \in Seq(Frames)
  BY <1>1, ConcatAt
<1> HIDE DEF a
<1>4. a \o e # <<>> /\ Head(a \o e) = Head(a) /\ Tail(a \o e) = Tail(a) \o e
  BY <1>2, <1>3, ConcatHead
<1>5. a \o e \in Seq(Frames)
  BY <1>3, ConcatAt
<1>6. Captured(a \o e, t) = Own(Head(a \o e), t) \o Captured(Tail(a \o e), t)
  BY <1>4, <1>5, CapturedHead
<1>7. Captured(a \o e, t) = Own(Head(c), t) \o Captured((Tail(c) \o V) \o e, t)
  BY <1>2, <1>4, <1>6
<1> QED BY <1>7 DEF Queue, V, a

(* sslFeed replays the frame that the search has read.                     *)
LEMMA QueueReplay ==
    ASSUME NEW c \in Seq(Frames), NEW v \in Frames, NEW e \in Seq(Frames)
    PROVE  Queue(Append(c, v), None, e) = Queue(c, v, e)
<1>1. v # None
  BY TlsAssumption
<1>2. Append(c, v) \in Seq(Frames) /\ Append(c, v) = c \o <<v>>
  OBVIOUS
<1>3. Queue(Append(c, v), None, e) = Append(c, v) \o e
  BY <1>2, QueueNone
<1> QED BY <1>1, <1>2, <1>3 DEF Queue

(* sslFeed hands a frame on.                                               *)
LEMMA QueueRead ==
    ASSUME NEW c \in Seq(Frames), NEW e \in Seq(Frames), e # <<>>
    PROVE  /\ Queue(Append(c, Head(e)), None, Tail(e)) = Queue(c, None, e)
           /\ Queue(c, Head(e), Tail(e)) = Queue(c, None, e)
<1>1. Head(e) \in Frames /\ Tail(e) \in Seq(Frames)
  BY HeadTyped
<1>2. Append(c, Head(e)) \o Tail(e) = c \o e
  BY MoveHead
<1>3. Append(c, Head(e)) \in Seq(Frames)
  BY <1>1, AppendProperties
<1>4. Queue(Append(c, Head(e)), None, Tail(e)) = Queue(c, None, e)
  BY <1>1, <1>2, <1>3, QueueNone
<1>5. Queue(Append(c, Head(e)), None, Tail(e)) = Queue(c, Head(e), Tail(e))
  BY <1>1, QueueReplay
<1> QED BY <1>4, <1>5

(* The frame that the search has read does not look like a request.        *)
LEMMA QueueDrop ==
    ASSUME NEW c \in Seq(Frames), NEW e \in Seq(Frames), e # <<>>, NEW t, Head(e).tid # t
    PROVE  Captured(Queue(c, None, Tail(e)), t) = Captured(Queue(c, None, e), t)
<1>1. Head(e) \in Frames /\ Tail(e) \in Seq(Frames)
  BY HeadTyped
<1>2. Captured(e, t) = Own(Head(e), t) \o Captured(Tail(e), t)
  BY CapturedHead
<1>3. Own(Head(e), t) = <<>> /\ Captured(Tail(e), t) \in Seq(Tokens)
  BY <1>1, CapturedType DEF Own
<1>4. Captured(e, t) = Captured(Tail(e), t)
  BY <1>2, <1>3, ConcatEmptySeq
<1>5. /\ Captured(c \o e, t) = Captured(c, t) \o Captured(e, t)
      /\ Captured(c \o Tail(e), t) = Captured(c, t) \o Captured(Tail(e), t)
  BY <1>1, CapturedConcat
<1> QED BY <1>1, <1>4, <1>5, QueueNone

-----------------------------------------------------------------------------
(* What is known of the tasks has the right types.                         *)

LEMMA MissedWorld ==
    ASSUME WorldTypes, NEW ts \in SUBSET Tids, Missed(ts), UNCHANGED setup,
           pos' \in [Tids -> Nat], \A t \in Tids : pos[t] <= pos'[t] /\ pos'[t] <= Len(Sent(t))
    PROVE  WorldTypes'
<1>1. /\ gap' \subseteq Tids
      /\ begin' = [t \in Tids |-> IF t \in ts THEN -1 ELSE begin[t]]
      /\ handled' = [t \in Tids |-> handled'[t]]
  BY DEF WorldTypes, Missed
<1>2. ASSUME NEW t \in Tids PROVE pos'[t] \in 0..Len(Sent(t)) /\ begin'[t] \in -1..pos'[t]
  <2>1. begin[t] \in -1..pos[t] /\ pos[t] \in Nat /\ pos'[t] \in Nat /\ Len(Sent(t)) \in Nat
    BY SentTyped DEF WorldTypes
  <2>2. begin'[t] \in {-1, begin[t]}
    BY <1>1
  <2> QED BY <2>1, <2>2
<1>3. begin' \in [Tids -> Int]
  BY <1>1 DEF WorldTypes
<1>4. \A t \in Tids : Sent(t)' = Sent(t)
  BY DEF Sent
<1> QED BY <1>1, <1>2, <1>3, <1>4 DEF WorldTypes

(* What a task sends does not change.                                      *)
LEMMA SentSame == ASSUME UNCHANGED setup PROVE \A t : Sent(t)' = Sent(t) /\ Script(t)' = Script(t) /\ Marks(t)' = Marks(t)
BY DEF Sent, Script, Marks

(* The agent keeps what is known of the tasks.                             *)
LEMMA AgentWorld == ASSUME Inv, Agent PROVE WorldTypes'
<1> USE DEF Inv
<1>1. ASSUME NEW t \in Tids, NEW n \in 1..MaxWrite, NEW ok \in BOOLEAN, SslWrite(t, n, ok) PROVE WorldTypes'
  <2>1. UNCHANGED setup /\ pos' = [pos EXCEPT ![t] = @ + n] /\ pos[t] + n <= Len(Sent(t))
    BY <1>1 DEF SslWrite, startVars
  <2>2. n \in Nat /\ pos \in [Tids -> Nat] /\ Len(Sent(t)) \in Nat /\ \A u \in Tids : pos[u] <= Len(Sent(u)) /\ pos[u] \in Nat
    BY SentTyped DEF WorldTypes
  <2>3. pos' \in [Tids -> Nat]
    BY <2>1, <2>2
  <2>4. \A u \in Tids : pos[u] <= pos'[u] /\ pos'[u] <= Len(Sent(u))
    BY <2>1, <2>2
  <2>5. CASE \E ts \in SUBSET Tids : Missed(ts)
    BY <2>1, <2>3, <2>4, <2>5, MissedWorld
  <2>6. CASE Begins(t)
    <3>1. /\ UNCHANGED <<gap, handled>> /\ begin \in [Tids -> Int]
          /\ begin' = [begin EXCEPT ![t] = IF begin[t] = -1 /\ t \notin gap THEN pos[t] ELSE begin[t]]
      BY <2>6 DEF Begins, WorldTypes
    <3>2. begin' \in [Tids -> Int]
      BY <2>2, <3>1
    <3>3. ASSUME NEW u \in Tids PROVE pos'[u] \in 0..Len(Sent(u)) /\ begin'[u] \in -1..pos'[u]
      <4>1. begin[u] \in -1..pos[u] /\ pos[u] \in Nat /\ pos'[u] \in Nat /\ Len(Sent(u)) \in Nat /\ pos[u] <= pos'[u] /\ pos'[u] <= Len(Sent(u))
        BY <2>3, <2>4, SentTyped DEF WorldTypes
      <4>2. begin'[u] \in {pos[u], begin[u]}
        BY <3>1
      <4> QED BY <4>1, <4>2
    <3> QED BY <2>1, <2>3, <3>1, <3>2, <3>3, SentSame DEF WorldTypes
  <2>7. Begins(t) \/ \E ts \in SUBSET Tids : Missed(ts)
    <3>1. Begins(t) \/ Missed({t}) \/ Missed({})
      BY <1>1 DEF SslWrite
    <3> QED BY <3>1
  <2> QED BY <2>5, <2>6, <2>7
<1>2. ASSUME NEW t \in Tids, OtherCall(t) PROVE WorldTypes'
  <2>1. Missed({t}) /\ UNCHANGED <<setup, pos>>
    BY <1>2 DEF OtherCall, startVars
  <2>2. pos' \in [Tids -> Nat] /\ \A u \in Tids : pos[u] <= pos'[u] /\ pos'[u] <= Len(Sent(u))
    BY <2>1, SentTyped DEF WorldTypes
  <2> QED BY <2>1, <2>2, MissedWorld
<1>3. ASSUME NEW t \in Tids, NEW c \in Tids, Fork(t, c) PROVE WorldTypes'
  BY <1>3, SentSame DEF Fork, goVars, startVars, WorldTypes
<1>4. ASSUME NEW t \in Tids, TaskExit(t) PROVE WorldTypes'
  BY <1>4, SentSame DEF TaskExit, goVars, startVars, WorldTypes
<1> QED BY <1>1, <1>2, <1>3, <1>4 DEF Agent

(* And so do the other steps.                                              *)
LEMMA OtherWorld ==
    ASSUME Inv, (\E ok \in BOOLEAN : StartNet(ok)) \/ Start \/ Feed \/ HandleFrame \/ StopReader \/ Stopped
    PROVE  WorldTypes'
<1> USE DEF Inv
<1>1. CASE Judge
  <2>1. ssl_events \in Seq(Frames) /\ ssl_events # <<>>
    BY <1>1 DEF Judge, PipeTypes
  <2>2. Head(ssl_events).tid \in Tids
    BY <2>1, HeadTyped
  <2>3. UNCHANGED <<setup, pos>> /\ (Missed({}) \/ Missed({Head(ssl_events).tid}))
    BY <1>1 DEF Judge
  <2>4. pos' \in [Tids -> Nat] /\ \A u \in Tids : pos[u] <= pos'[u] /\ pos'[u] <= Len(Sent(u))
    BY <2>3, SentTyped DEF WorldTypes
  <2> QED BY <2>2, <2>3, <2>4, MissedWorld
<1>2. CASE HandleFrame
  <2>1. UNCHANGED <<setup, pos, begin, gap>> /\ (UNCHANGED handled \/ \E t, v : handled' = [handled EXCEPT ![t] = v])
    BY <1>2 DEF HandleFrame, worldVars, startVars
  <2>2. handled' = [t \in Tids |-> handled'[t]]
    BY <2>1 DEF WorldTypes
  <2> QED BY <2>1, <2>2, SentSame DEF WorldTypes
<1>3. CASE UNCHANGED <<setup, pos, begin, gap, handled>>
  BY <1>3, SentSame DEF WorldTypes
<1>4. CASE \E ok \in BOOLEAN : StartNet(ok)
  BY <1>3, <1>4 DEF StartNet, goVars, worldVars
<1>5. CASE Start /\ ~Judge
  BY <1>3, <1>5 DEF Start, Attach, NoFrame, Detach, Fail, Store, Ready, goVars, worldVars
<1>6. CASE Feed
  BY <1>3, <1>6 DEF Feed, FeedStarts, FeedReplays, FeedReads, FeedEnds, startVars, worldVars
<1>7. CASE StopReader \/ Stopped
  BY <1>3, <1>7 DEF StopReader, Stopped, startVars, goVars, worldVars
<1> QED BY <1>1, <1>2, <1>4, <1>5, <1>6, <1>7

-----------------------------------------------------------------------------
(* The streams.                                                            *)

LEMMA UnderwayIs == \A t : Underway(t) = Captured(Queue(sslCh, validationFrame, ssl_events), t)
BY DEF Underway, Queue

(* It is a sequence of tokens.                                             *)
LEMMA UnderwayTyped == ASSUME PipeTypes, NEW t PROVE Underway(t) \in Seq(Tokens)
BY UnderwayIs, QueueTyped, CapturedType DEF PipeTypes, MaybeFrames

(* What is known of a task of which nothing is missing.                    *)
StreamOf(t) == IF begin[t] = -1 THEN Untouched(t) ELSE \E first, k \in Nat : Follows(t, first, k)

(* Streams says so of every task without a gap.                            *)
LEMMA StreamsAre == Streams <=> \A t \in Tids \ gap : StreamOf(t)
BY DEF Streams, StreamOf

(* A step does not concern a task.                                         *)
LEMMA StreamSame ==
    ASSUME NEW t, StreamOf(t), UNCHANGED setup,
           begin'[t] = begin[t], handled'[t] = handled[t], pending'[t] = pending[t], pos'[t] = pos[t],
           Underway(t)' = Underway(t)
    PROVE  StreamOf(t)'
<1>1. Script(t)' = Script(t)
  BY SentSame
<1>2. CASE begin[t] = -1
  <2>1. Untouched(t)'
    BY <1>2 DEF StreamOf, Untouched
  <2> QED BY <1>2, <2>1 DEF StreamOf
<1>3. CASE begin[t] # -1
  <2>1. PICK first, k \in Nat : Follows(t, first, k)
    BY <1>3 DEF StreamOf
  <2>2. Follows(t, first, k)'
    BY <1>1, <2>1 DEF Follows
  <2>3. begin'[t] # -1
    BY <1>3
  <2> QED BY <2>2, <2>3 DEF StreamOf
<1> QED BY <1>2, <1>3

(* Nothing but the frames' places changes.                                 *)
LEMMA StreamsSame ==
    ASSUME Streams, UNCHANGED <<setup, pos, begin, gap, handled, pending>>,
           \A t \in Tids : Underway(t)' = Underway(t)
    PROVE  Streams'
<1>1. \A t \in Tids \ gap : StreamOf(t)'
  BY StreamSame, StreamsAre
<1> QED BY <1>1 DEF Streams, StreamOf

(* A frame that is put into the ring buffer comes last.                    *)
LEMMA OutputAll ==
    \A c, e \in Seq(Frames), v \in MaybeFrames, f \in Frames : \A t :
        Captured(Queue(c, v, Append(e, f)), t) = Captured(Queue(c, v, e), t) \o Own(f, t)
BY QueueOutput

(* Sequences of tokens in a row.                                           *)
LEMMA TokensAssociative ==
    \A x, y, z \in Seq(Tokens) : (x \o y) \o z = x \o (y \o z)
BY ConcatAssociative

(* A frame more, or none.                                                  *)
LEMMA UnderwayOutput ==
    ASSUME PipeTypes, UNCHANGED <<sslCh, validationFrame>>, NEW f \in Frames,
           ssl_events' = Append(ssl_events, f), NEW t
    PROVE  Underway(t)' = Underway(t) \o Own(f, t)
<1>1. Underway(t)' = Captured(Queue(sslCh, validationFrame, Append(ssl_events, f)), t)
  BY DEF Underway, Queue
<1>2. sslCh \in Seq(Frames) /\ validationFrame \in MaybeFrames /\ ssl_events \in Seq(Frames)
  BY DEF PipeTypes, MaybeFrames
<1>3. Captured(Queue(sslCh, validationFrame, Append(ssl_events, f)), t)
        = Captured(Queue(sslCh, validationFrame, ssl_events), t) \o Own(f, t)
  <2> DEFINE c == sslCh
             v == validationFrame
             e == ssl_events
  <2>1. c \in Seq(Frames) /\ v \in MaybeFrames /\ e \in Seq(Frames)
    BY <1>2
  <2> HIDE DEF c, v, e
  <2>2. Captured(Queue(c, v, Append(e, f)), t) = Captured(Queue(c, v, e), t) \o Own(f, t)
    BY <2>1, OutputAll
  <2> QED BY <2>2 DEF c, v, e
<1> QED BY <1>1, <1>3, UnderwayIs

(* Nothing changes underway unless the queue does.                         *)
LEMMA UnderwaySame ==
    ASSUME UNCHANGED <<sslCh, validationFrame, ssl_events>>, NEW t
    PROVE  Underway(t)' = Underway(t)
BY DEF Underway

(* A call makes no frame of another task.                                  *)
LEMMA ProbeOthers ==
    ASSUME PipeTypes, ControlTypes, NEW t \in Tids, NEW toks \in Seq(Tokens), NEW ok \in BOOLEAN,
           probe_ssl_write(t, toks, ok) \/ UNCHANGED ssl_events, UNCHANGED <<sslCh, validationFrame>>,
           NEW u, u # t
    PROVE  Underway(u)' = Underway(u)
<1> DEFINE f == Frame(t, Capped(toks))
<1>1. f \in Frames /\ f.tid = t
  BY CappedTyped, FrameTyped DEF Frame
<1>2. Own(f, u) = <<>>
  BY <1>1 DEF Own
<1> HIDE DEF f
<1>3. UNCHANGED ssl_events \/ ssl_events' = Append(ssl_events, f)
  BY DEF probe_ssl_write, Output, f
<1>4. CASE UNCHANGED ssl_events
  BY <1>4, UnderwaySame
<1>5. CASE ssl_events' = Append(ssl_events, f)
  <2>1. Underway(u)' = Underway(u) \o Own(f, u)
    BY <1>1, <1>5, UnderwayOutput
  <2> QED BY <1>2, <2>1, UnderwayTyped, ConcatEmptySeq
<1> QED BY <1>3, <1>4, <1>5

(* Of what a task sends and correlate will see, the next part is captured. *)
LEMMA FollowsMore ==
    ASSUME WorldTypes, PipeTypes, NEW t \in Tids, NEW n \in Nat, pos[t] + n <= Len(Sent(t)),
           NEW first \in Nat, NEW k \in Nat, Follows(t, first, k),
           UNCHANGED <<setup, pending>>, begin'[t] = begin[t], handled'[t] = handled[t], pos'[t] = pos[t] + n,
           Underway(t)' = Underway(t) \o Part(Sent(t), pos[t], pos[t] + n)
    PROVE  Follows(t, first, k)'
<1> DEFINE sc == Script(t)
           w == All(sc)
           m == Mark(sc, first + k)
           p == pos[t]
           e == pos[t] + n
           U == Underway(t)
           P == pending[t]
<1>1. sc \in Seq(HttpRequests) /\ Sent(t) = w /\ w \in Seq(Tokens) /\ Len(w) \in Nat
  BY SentTyped
<1>2. first + k \in 1..(Len(sc) + 1) /\ m <= p /\ P \o U = Part(w, m, p)
  <2>1. first \in 1..(Len(sc) + 1) /\ first + k \in first..(Len(sc) + 1) /\ m <= p /\ P \o U = Part(w, m, p)
    BY DEF Follows
  <2> QED BY <2>1
<1>3. U \in Seq(Tokens) /\ P \in Seq(Tokens) /\ p \in Nat /\ e = p + n /\ e <= Len(w)
  BY <1>1, UnderwayTyped DEF WorldTypes, PipeTypes
<1>4. UNCHANGED Script(t)
  BY SentSame
<1> HIDE DEF w, p, e, U, P, m, sc
<1>5. m \in Nat
  BY <1>1, <1>2, MarkIs DEF m
<1>6. p \in m..e /\ e \in m..Len(w) /\ e \in p..Len(w) /\ m <= e
  BY <1>2, <1>3, <1>5
<1>7. Part(w, p, e) \in Seq(Tokens)
  BY <1>1, <1>3, <1>6, PartIs
<1>8. P \o (U \o Part(w, p, e)) = (P \o U) \o Part(w, p, e)
  <2> DEFINE r == Part(w, p, e)
  <2>1. P \in Seq(Tokens) /\ U \in Seq(Tokens) /\ r \in Seq(Tokens)
    BY <1>3, <1>7
  <2> HIDE DEF r
  <2>2. (P \o U) \o r = P \o (U \o r)
    BY <2>1, TokensAssociative
  <2> QED BY <2>2 DEF r
<1>9. Part(w, m, p) \o Part(w, p, e) = Part(w, m, e)
  BY <1>1, <1>5, <1>6, PartConcat
<1>10. pending'[t] = P /\ Underway(t)' = U \o Part(w, p, e) /\ pos'[t] = e
  BY <1>1 DEF P, U, p, e
<1>11. pending'[t] \o Underway(t)' = Part(w, m, e)
  BY <1>2, <1>8, <1>9, <1>10
<1>12. Script(t)' = sc /\ pending'[t] = pending[t]
  BY <1>4 DEF sc
<1> QED BY <1>6, <1>10, <1>11, <1>12 DEF Follows, sc, w, m

(* A whole request, or more, is captured first.                            *)
LEMMA FollowsFirst ==
    ASSUME WorldTypes, PipeTypes, NEW t \in Tids, NEW n \in Nat, pos[t] + n <= Len(Sent(t)),
           Untouched(t), pos[t] \in Range(Marks(t)),
           UNCHANGED <<setup, pending>>, begin'[t] = pos[t], handled'[t] = handled[t], pos'[t] = pos[t] + n,
           Underway(t)' = Underway(t) \o Part(Sent(t), pos[t], pos[t] + n)
    PROVE  \E first, k \in Nat : Follows(t, first, k)'
<1> DEFINE sc == Script(t)
           w == All(sc)
           p == pos[t]
           e == pos[t] + n
           q == Part(w, p, e)
<1>1. sc \in Seq(HttpRequests) /\ Sent(t) = w /\ w \in Seq(Tokens) /\ Len(w) \in Nat
      /\ Marks(t) = [i \in 1..(Len(sc) + 1) |-> Mark(sc, i)]
  BY SentTyped
<1>2. PICK first \in 1..(Len(sc) + 1) : Mark(sc, first) = p
  BY <1>1 DEF Range
<1>3. p \in Nat /\ e \in p..Len(w) /\ p <= e
  <2>1. p \in Nat /\ e <= Len(w)
    BY <1>1 DEF WorldTypes
  <2> QED BY <1>1, <2>1
<1>4. Script(t)' = sc
  BY SentSame
<1>5. pending'[t] = <<>> /\ Underway(t)' = <<>> \o q /\ handled'[t] = <<>> /\ pos'[t] = e /\ begin'[t] = p
  BY <1>1 DEF Untouched
<1> HIDE DEF w, p, e, sc, q
<1>6. q \in Seq(Tokens)
  BY <1>1, <1>3, PartIs DEF q
<1>7. pending'[t] \o Underway(t)' = q
  BY <1>5, <1>6, ConcatEmptySeq
<1>8. first \in Nat /\ first + 0 = first /\ first \in first..(Len(sc) + 1) /\ 0 \in Nat
  BY <1>1, <1>2
<1>9. handled'[t] = [i \in 1..0 |-> Reference(sc[first + i - 1])]
  <2>1. 1..0 = {}
    OBVIOUS
  <2> QED BY <1>5, <2>1
<1>10. Follows(t, first, 0)'
  <2>1. Mark(sc, first + 0) = p /\ first + 0 \in first..(Len(sc) + 1)
    BY <1>2, <1>8
  <2>2. Short(sc, first + 0, <<>>)
    <3>1. ASSUME first <= Len(sc) PROVE Mark(sc, first) < Mark(sc, first + 1)
      <4>1. first + 1 \in (first + 1)..(Len(sc) + 1)
        BY <1>1, <1>8, <3>1
      <4> QED BY <1>1, <1>2, <4>1, MarkIs
    <3>2. ASSUME first <= Len(sc) PROVE Mark(sc, first) \in Nat /\ Mark(sc, first + 1) \in Nat
      <4>1. first + 1 \in 1..(Len(sc) + 1)
        BY <1>1, <1>8, <3>2
      <4>2. Mark(sc, first) \in Nat
        BY <1>1, <1>2, MarkIs
      <4>3. Mark(sc, first + 1) \in Nat
        BY <1>1, <4>1, MarkIs
      <4> QED BY <4>2, <4>3
    <3> QED BY <1>8, <3>1, <3>2 DEF Short
  <2> QED BY <1>2, <1>3, <1>4, <1>5, <1>7, <1>8, <1>9, <2>1, <2>2 DEF Follows, q, w
<1> QED BY <1>8, <1>10

(* A call of SSL_write: of the thread itself the stream is continued, or   *)
(* begins, or there is still nothing; or it is missed.                     *)
LEMMA WriteOthers ==
    ASSUME Inv, Streams, NEW t \in Tids, NEW n \in 1..MaxWrite, NEW ok \in BOOLEAN, SslWrite(t, n, ok),
           NEW u \in Tids \ gap', u # t
    PROVE  StreamOf(u)'
<1> DEFINE toks == SubSeq(Sent(t), pos[t] + 1, pos[t] + n)
<1>1. /\ UNCHANGED <<setup, pending, sslCh, validationFrame>> /\ pos' = [pos EXCEPT ![t] = @ + n]
      /\ probe_ssl_write(t, toks, ok) \/ UNCHANGED ssl_events
  BY DEF SslWrite, startVars
<1>2. /\ pos \in [Tids -> Nat] /\ begin \in [Tids -> Int] /\ handled = [v \in Tids |-> handled[v]]
      /\ PipeTypes /\ ControlTypes /\ WorldTypes
  BY DEF Inv, WorldTypes
<1>3. pos'[u] = pos[u]
  BY <1>1, <1>2
<1>4. Missed({t}) \/ Missed({}) \/ Begins(t)
  BY DEF SslWrite
<1>5. begin'[u] = begin[u] /\ handled'[u] = handled[u] /\ u \notin gap
  BY <1>2, <1>4 DEF Missed, Begins
<1>6. toks \in Seq(Tokens)
  <2>1. Sent(t) \in Seq(Tokens) /\ Len(Sent(t)) \in Nat
    BY <1>2, SentTyped
  <2>2. pos[t] \in Nat /\ n \in Nat /\ pos[t] + n <= Len(Sent(t))
    BY <1>2 DEF SslWrite
  <2> DEFINE a == pos[t]
             e == pos[t] + n
  <2>3. a \in Nat /\ e \in a..Len(Sent(t))
    BY <2>1, <2>2
  <2> HIDE DEF a, e
  <2>4. Part(Sent(t), a, e) \in Seq(Tokens)
    BY <2>1, <2>3, PartIs
  <2> QED BY <2>4 DEF Part, a, e
<1> HIDE DEF toks
<1>7. Underway(u)' = Underway(u)
  BY <1>1, <1>2, <1>6, ProbeOthers
<1>8. StreamOf(u)
  BY <1>5, StreamsAre
<1> QED BY <1>1, <1>3, <1>5, <1>7, <1>8, StreamSame

(* What the frame of a whole call has.                                     *)
LEMMA WholeFrame ==
    ASSUME Inv, NEW t \in Tids, NEW n \in 1..MaxWrite, NEW ok \in BOOLEAN, SslWrite(t, n, ok), Whole(t, n, ok)
    PROVE  Underway(t)' = Underway(t) \o Part(Sent(t), pos[t], pos[t] + n)
<1> DEFINE toks == SubSeq(Sent(t), pos[t] + 1, pos[t] + n)
           f == Frame(t, toks)
           a == pos[t]
           e == pos[t] + n
<1>1. /\ UNCHANGED <<sslCh, validationFrame>> /\ probe_ssl_write(t, toks, ok)
      /\ Leader[t] \in tracked_pids /\ ok /\ Len(ssl_events) < RingMax /\ n <= SSL_CAP_LEN
  BY DEF SslWrite, startVars, Whole, Framed
<1>2. toks = Part(Sent(t), a, e)
  BY DEF Part
<1>3. Sent(t) \in Seq(Tokens) /\ Len(Sent(t)) \in Nat /\ a \in Nat /\ n \in Nat /\ e <= Len(Sent(t))
  BY SentTyped DEF Inv, WorldTypes, SslWrite
<1>4. e \in a..Len(Sent(t)) /\ e - a = n
  BY <1>3
<1> HIDE DEF a, e
<1>5. Part(Sent(t), a, e) \in Seq(Tokens) /\ Len(Part(Sent(t), a, e)) = e - a
  BY <1>3, <1>4, PartIs
<1>6. toks \in Seq(Tokens) /\ Len(toks) = n
  BY <1>2, <1>4, <1>5
<1> HIDE DEF toks
<1>7. Capped(toks) = toks
  <2>1. ~(n > SSL_CAP_LEN)
    BY <1>1, <1>3, BoundsAre
  <2> QED BY <1>6, <2>1 DEF Capped
<1>8. ssl_events' = Append(ssl_events, f)
  BY <1>1, <1>7 DEF probe_ssl_write, Output
<1>9. f \in Frames /\ Own(f, t) = toks
  BY <1>6, FrameTyped DEF Inv, Own, Frame
<1> HIDE DEF f
<1>10. Underway(t)' = Underway(t) \o Own(f, t)
  BY <1>1, <1>8, <1>9, UnderwayOutput DEF Inv
<1> QED BY <1>2, <1>9, <1>10 DEF a, e

(* The writing task itself: its stream is continued or begins, or nothing  *)
(* was captured of it.                                                     *)
LEMMA WriteOwn ==
    ASSUME Inv, Streams, NEW t \in Tids \ gap', NEW n \in 1..MaxWrite, NEW ok \in BOOLEAN, SslWrite(t, n, ok)
    PROVE  StreamOf(t)'
<1>1. /\ UNCHANGED <<setup, pending, sslCh, validationFrame>>
      /\ pos' = [pos EXCEPT ![t] = @ + n] /\ pos[t] + n <= Len(Sent(t))
  BY DEF SslWrite, startVars
<1>2. /\ pos \in [Tids -> Nat] /\ begin \in [Tids -> Int] /\ handled = [v \in Tids |-> handled[v]]
      /\ PipeTypes /\ ControlTypes /\ WorldTypes /\ n \in Nat
  BY DEF Inv, WorldTypes
<1>3. pos'[t] = pos[t] + n
  BY <1>1, <1>2
<1>4. CASE Whole(t, n, ok)
  <2>1. Underway(t)' = Underway(t) \o Part(Sent(t), pos[t], pos[t] + n)
    BY <1>4, WholeFrame
  <2>2. Begins(t) /\ (begin[t] # -1 \/ pos[t] \in Range(Marks(t)))
    <3>1. ~Missed({t})
      BY DEF Missed
    <3> QED BY <1>4, <3>1 DEF SslWrite
  <2>3. UNCHANGED <<gap, handled>> /\ t \notin gap /\ begin'[t] = IF begin[t] = -1 THEN pos[t] ELSE begin[t]
    BY <1>2, <2>2 DEF Begins
  <2>4. StreamOf(t)
    BY <2>3, StreamsAre
  <2>5. begin'[t] # -1
    BY <1>2, <2>3
  <2>6. CASE begin[t] # -1
    <3>1. PICK first, k \in Nat : Follows(t, first, k)
      BY <2>4, <2>6 DEF StreamOf
    <3>2. begin'[t] = begin[t] /\ handled'[t] = handled[t]
      BY <2>3, <2>6
    <3>3. Follows(t, first, k)'
      BY <1>1, <1>2, <1>3, <2>1, <3>1, <3>2, FollowsMore
    <3> QED BY <2>5, <3>3 DEF StreamOf
  <2>7. CASE begin[t] = -1
    <3>1. Untouched(t) /\ pos[t] \in Range(Marks(t)) /\ begin'[t] = pos[t] /\ handled'[t] = handled[t]
      BY <2>2, <2>3, <2>4, <2>7 DEF StreamOf
    <3>2. \E first, k \in Nat : Follows(t, first, k)'
      BY <1>1, <1>2, <1>3, <2>1, <3>1, FollowsFirst
    <3> QED BY <2>5, <3>2 DEF StreamOf
  <2> QED BY <2>6, <2>7
<1>5. CASE ~Whole(t, n, ok)
  <2>1. Missed({}) /\ begin[t] = -1 /\ ~Framed(t, ok)
    <3>1. ~Missed({t})
      BY DEF Missed
    <3> QED BY <1>5, <3>1 DEF SslWrite
  <2>2. t \notin gap /\ begin'[t] = begin[t] /\ handled'[t] = handled[t]
    BY <2>1 DEF Missed
  <2>3. UNCHANGED ssl_events
    <3>1. CASE Kind(attached) # "right"
      BY <3>1 DEF SslWrite
    <3>2. CASE Kind(attached) = "right"
      <4>1. probe_ssl_write(t, SubSeq(Sent(t), pos[t] + 1, pos[t] + n), ok)
        BY <3>2 DEF SslWrite
      <4>2. Leader[t] \notin tracked_pids \/ ~ok \/ ~(Len(ssl_events) < RingMax)
        BY <2>1, <3>2 DEF Framed
      <4> QED BY <4>1, <4>2 DEF probe_ssl_write, Output
    <3> QED BY <3>1, <3>2
  <2>4. Underway(t)' = Underway(t)
    BY <1>1, <2>3, UnderwaySame
  <2>5. Untouched(t)
    BY <2>1, <2>2, StreamsAre DEF StreamOf
  <2>6. Untouched(t)'
    BY <1>1, <2>2, <2>4, <2>5 DEF Untouched
  <2> QED BY <2>1, <2>2, <2>6 DEF StreamOf
<1> QED BY <1>4, <1>5

(* Another system call of a task.                                          *)
LEMMA OtherCallStreams == ASSUME Inv, Streams, NEW t \in Tids, OtherCall(t) PROVE Streams'
<1> DEFINE toks == <<Token("junk", 0, 0)>>
<1>1. /\ UNCHANGED <<setup, pending, pos, sslCh, validationFrame>> /\ Missed({t}) /\ probe_ssl_write(t, toks, TRUE)
      /\ PipeTypes /\ ControlTypes
  BY DEF OtherCall, startVars, Inv
<1>2. toks \in Seq(Tokens)
  BY TokensOf DEF Kinds
<1> HIDE DEF toks
<1>3. ASSUME NEW u \in Tids \ gap' PROVE StreamOf(u)'
  <2>1. u # t /\ u \notin gap /\ begin'[u] = begin[u] /\ handled'[u] = handled[u]
    BY <1>1 DEF Missed
  <2>2. Underway(u)' = Underway(u)
    BY <1>1, <1>2, <2>1, ProbeOthers
  <2>3. StreamOf(u)
    BY <2>1, StreamsAre
  <2> QED BY <1>1, <2>1, <2>2, <2>3, StreamSame
<1> QED BY <1>3 DEF Streams, StreamOf

(* Every step of the agent keeps the streams.                              *)
LEMMA AgentStreams == ASSUME Inv, Streams, Agent PROVE Streams'
<1>1. ASSUME NEW t \in Tids, NEW n \in 1..MaxWrite, NEW ok \in BOOLEAN, SslWrite(t, n, ok) PROVE Streams'
  <2>1. \A u \in Tids \ gap' : StreamOf(u)'
    BY <1>1, WriteOthers, WriteOwn
  <2> QED BY <2>1 DEF Streams, StreamOf
<1>2. ASSUME NEW t \in Tids, OtherCall(t) PROVE Streams'
  BY <1>2, OtherCallStreams
<1>3. ASSUME NEW t \in Tids, (\E c \in Tids : Fork(t, c)) \/ TaskExit(t) PROVE Streams'
  <2>1. UNCHANGED <<setup, pos, begin, gap, handled, pending, sslCh, validationFrame, ssl_events>>
    BY <1>3 DEF Fork, TaskExit, startVars, goVars
  <2> QED BY <2>1, UnderwaySame, StreamsSame
<1> QED BY <1>1, <1>2, <1>3 DEF Agent

(* The requests up to the j-th, after those up to the i-th.                *)
LEMMA HandledMore ==
    ASSUME NEW sc \in Seq(HttpRequests), NEW first \in 1..(Len(sc) + 1), NEW i \in first..(Len(sc) + 1),
           NEW j \in i..(Len(sc) + 1)
    PROVE  [x \in 1..(i - first) |-> Reference(sc[first + x - 1])] \o [x \in 1..(j - i) |-> Reference(sc[i + x - 1])]
             = [x \in 1..(j - first) |-> Reference(sc[first + x - 1])]
<1> DEFINE R == {Reference(sc[x]) : x \in 1..Len(sc)}
           a == [x \in 1..(i - first) |-> Reference(sc[first + x - 1])]
           b == [x \in 1..(j - i) |-> Reference(sc[i + x - 1])]
           c == [x \in 1..(j - first) |-> Reference(sc[first + x - 1])]
           d == a \o b
<1>1. i - first \in Nat /\ j - i \in Nat /\ j - first \in Nat /\ (i - first) + (j - i) = j - first
  OBVIOUS
<1>2. \A n \in Nat : \A g : g \in [1..n -> R] => g \in Seq(R) /\ Len(g) = n
  OBVIOUS
<1>3. /\ \A x \in 1..(i - first) : first + x - 1 \in 1..Len(sc)
      /\ \A x \in 1..(j - i) : i + x - 1 \in 1..Len(sc)
      /\ \A x \in 1..(j - first) : first + x - 1 \in 1..Len(sc)
  OBVIOUS
<1>4. a \in [1..(i - first) -> R] /\ b \in [1..(j - i) -> R] /\ c \in [1..(j - first) -> R]
  BY <1>3
<1>5. /\ \A x \in 1..(i - first) : a[x] = Reference(sc[first + x - 1])
      /\ \A x \in 1..(j - i) : b[x] = Reference(sc[i + x - 1])
      /\ \A x \in 1..(j - first) : c[x] = Reference(sc[first + x - 1])
  OBVIOUS
<1> HIDE DEF R, a, b, c
<1>6. a \in Seq(R) /\ Len(a) = i - first /\ b \in Seq(R) /\ Len(b) = j - i /\ c \in Seq(R) /\ Len(c) = j - first
  BY <1>1, <1>2, <1>4
<1>7. /\ d \in Seq(R) /\ Len(d) = Len(a) + Len(b)
      /\ \A x \in 1..Len(a) : d[x] = a[x]
      /\ \A x \in 1..Len(b) : d[Len(a) + x] = b[x]
  <2>1. a \in Seq(R) /\ b \in Seq(R)
    BY <1>6
  <2> QED BY <2>1, ConcatAt
<1> HIDE DEF d
<1>8. ASSUME NEW x \in 1..(j - first) PROVE d[x] = c[x]
  <2>1. CASE x <= i - first
    <3>1. x \in 1..(i - first)
      BY <1>1, <2>1
    <3> QED BY <1>5, <1>6, <1>7, <3>1
  <2>2. CASE x > i - first
    <3> DEFINE y == x - (i - first)
    <3>1. y \in 1..(j - i) /\ (i - first) + y = x /\ i + y - 1 = first + x - 1
      BY <1>1, <2>2
    <3> HIDE DEF y
    <3>2. d[(i - first) + y] = Reference(sc[i + y - 1])
      BY <1>5, <1>6, <1>7, <3>1
    <3> QED BY <1>5, <3>1, <3>2
  <2> QED BY <1>1, <2>1, <2>2
<1>9. Len(d) = Len(c)
  BY <1>1, <1>6, <1>7
<1>10. d = c
  BY <1>6, <1>7, <1>8, <1>9, SeqEqual
<1> QED BY <1>10 DEF a, b, c, d

(* Two sequences that are nothing in a row are nothing each.               *)
LEMMA ConcatNothing ==
    ASSUME NEW a \in Seq(Tokens), NEW b \in Seq(Tokens), a \o b = <<>> PROVE a = <<>> /\ b = <<>>
<1>1. Len(a \o b) = Len(a) + Len(b) /\ Len(a) \in Nat /\ Len(b) \in Nat /\ Len(<<>>) = 0
  BY ConcatAt
<1>2. Len(a) = 0 /\ Len(b) = 0
  BY <1>1
<1> QED BY <1>2

(* A part of what was kept and captured is handed to the parser.           *)
LEMMA FollowsHandled ==
    ASSUME WorldTypes, PipeTypes, NEW t \in Tids, NEW toks \in Seq(Tokens), NEW u \in Seq(Tokens),
           NEW first \in Nat, NEW k \in Nat, Follows(t, first, k), Underway(t) = toks \o u,
           UNCHANGED <<setup>>, begin'[t] = begin[t], pos'[t] = pos[t], Underway(t)' = u,
           pending'[t] = Requests(pending[t] \o toks).rest,
           handled'[t] = handled[t] \o Requests(pending[t] \o toks).reqs
    PROVE  \E l \in Nat : Follows(t, first, l)'
<1> DEFINE sc == Script(t)
           w == All(sc)
           i == first + k
           m == Mark(sc, i)
           p == pos[t]
           P == pending[t]
           s == P \o toks
           e == m + Len(s)
           v == Requests(s)
<1>1. sc \in Seq(HttpRequests) /\ w \in Seq(Tokens) /\ Len(w) \in Nat /\ Len(Sent(t)) = Len(w) /\ Sent(t) = w
  BY SentTyped
<1>2. /\ first \in 1..(Len(sc) + 1) /\ i \in first..(Len(sc) + 1) /\ m <= p
      /\ P \o (toks \o u) = Part(w, m, p) /\ Mark(sc, first) = begin[t]
      /\ handled[t] = [x \in 1..k |-> Reference(sc[first + x - 1])]
  BY DEF Follows
<1>3. P \in Seq(Tokens) /\ p \in 0..Len(w) /\ p \in Nat
  BY <1>1 DEF WorldTypes, PipeTypes
<1>4. Script(t)' = sc
  BY SentSame
<1>5. /\ pending'[t] = v.rest /\ handled'[t] = handled[t] \o v.reqs
      /\ Underway(t)' = u /\ pos'[t] = p /\ begin'[t] = begin[t]
  OBVIOUS
<1>6. k = i - first /\ i \in 1..(Len(sc) + 1)
  BY <1>1, <1>2
<1> HIDE DEF sc, w, m, p, P, i
<1>7. m \in Nat /\ p \in m..Len(w)
  <2>1. m \in 0..Len(w)
    BY <1>1, <1>6, MarkIs DEF m, w
  <2> QED BY <1>1, <1>2, <1>3, <2>1
<1>8. s \in Seq(Tokens)
  BY <1>3, ConcatAt
<1>9. s \o u = Part(w, m, p)
  <2>1. (P \o toks) \o u = P \o (toks \o u)
    BY <1>3, TokensAssociative
  <2> QED BY <1>2, <2>1
<1> HIDE DEF s
<1>10. e \in m..p /\ s = Part(w, m, e) /\ u = Part(w, e, p)
  <2>1. w \in Seq(Tokens) /\ m \in Nat /\ p \in m..Len(w) /\ s \in Seq(Tokens)
    BY <1>1, <1>7, <1>8
  <2>2. CutAt(w, m, p, m + Len(s), s, u)
    BY <1>9, <2>1, PartCut
  <2> QED BY <2>2 DEF CutAt
<1> HIDE DEF e
<1>11. e \in m..Len(w) /\ e \in Nat /\ e <= p /\ p \in e..Len(w)
  BY <1>1, <1>3, <1>7, <1>10
<1>12. PICK j \in i..(Len(sc) + 1) : Taken(sc, i, j, e, Requests(Part(w, m, e)))
  BY <1>1, <1>6, <1>11, RequestsTaken DEF m, w
<1>13. Taken(sc, i, j, e, v)
  BY <1>10, <1>12
<1> HIDE DEF v
<1> DEFINE n == Mark(sc, j)
<1>14. n <= e /\ v.rest = Part(w, n, e) /\ Short(sc, j, v.rest) /\ v.reqs = [x \in 1..(j - i) |-> Reference(sc[i + x - 1])]
  BY <1>13 DEF Taken, w
<1>15. n \in Nat
  <2>1. j \in 1..(Len(sc) + 1)
    BY <1>1, <1>6, <1>12
  <2> QED BY <1>1, <2>1, MarkIs
<1>16. Part(w, n, e) \o Part(w, e, p) = Part(w, n, p)
  <2>1. p \in n..Len(w) /\ e \in n..p
    BY <1>1, <1>3, <1>11, <1>14, <1>15
  <2> QED BY <1>1, <1>15, <2>1, PartConcat
<1>17. pending'[t] \o Underway(t)' = Part(w, n, p)
  BY <1>5, <1>10, <1>14, <1>16
<1>18. handled'[t] = [x \in 1..(j - first) |-> Reference(sc[first + x - 1])]
  <2>1. handled[t] = [x \in 1..(i - first) |-> Reference(sc[first + x - 1])]
    BY <1>2, <1>6
  <2>2. sc \in Seq(HttpRequests) /\ first \in 1..(Len(sc) + 1) /\ i \in first..(Len(sc) + 1) /\ j \in i..(Len(sc) + 1)
    BY <1>1, <1>2, <1>12
  <2>3. [x \in 1..(i - first) |-> Reference(sc[first + x - 1])] \o [x \in 1..(j - i) |-> Reference(sc[i + x - 1])]
          = [x \in 1..(j - first) |-> Reference(sc[first + x - 1])]
    BY <2>2, HandledMore
  <2> QED BY <1>5, <1>14, <2>1, <2>3
<1>19. j - first \in Nat /\ first + (j - first) = j /\ j \in first..(Len(sc) + 1)
  BY <1>1, <1>2, <1>12
<1>20. n <= p
  BY <1>3, <1>11, <1>14, <1>15
<1>21. Follows(t, first, j - first)'
  <2> DEFINE l == j - first
  <2>1. l \in Nat /\ first + l = j
    BY <1>19
  <2>2. handled'[t] = [x \in 1..l |-> Reference(sc[first + x - 1])]
    BY <1>18
  <2> HIDE DEF l
  <2>3. Follows(t, first, l)'
    BY <1>2, <1>4, <1>5, <1>14, <1>17, <1>19, <1>20, <2>1, <2>2 DEF Follows, w
  <2> QED BY <2>3 DEF l
<1> QED BY <1>19, <1>21

(* correlate takes a frame.                                                *)
LEMMA HandleOne ==
    ASSUME Inv, Streams, HandleFrame, NEW t, t = Head(sslCh).tid, NEW toks, toks = Head(sslCh).toks,
           NEW r, r = Requests(pending[t] \o toks)
    PROVE  Streams'
<1>1. PipeTypes /\ WorldTypes /\ sslCh \in Seq(Frames) /\ sslCh # <<>>
  BY DEF Inv, HandleFrame, PipeTypes
<1>2. t \in Tids /\ toks \in Seq(Tokens) /\ Head(sslCh) \in Frames /\ Tail(sslCh) \in Seq(Frames)
  BY <1>1, HeadTyped
<1>3. /\ UNCHANGED <<setup, pos, begin, gap, ssl_events, validationFrame>> /\ sslCh' = Tail(sslCh)
      /\ pending' = [pending EXCEPT ![t] = r.rest]
      /\ handled' = IF t \in gap THEN handled ELSE [handled EXCEPT ![t] = handled[t] \o r.reqs]
  BY DEF HandleFrame, worldVars, startVars, probeVars
<1>4. pending \in [Tids -> Seq(Tokens)] /\ handled = [u \in Tids |-> handled[u]]
  BY <1>1 DEF PipeTypes, WorldTypes
<1>5. \A u : Underway(u) = Own(Head(sslCh), u) \o Underway(u)'
  <2>1. validationFrame \in MaybeFrames /\ ssl_events \in Seq(Frames)
    BY <1>1 DEF PipeTypes, MaybeFrames
  <2>2. \A u : Captured(Queue(sslCh, validationFrame, ssl_events), u)
                 = Own(Head(sslCh), u) \o Captured(Queue(Tail(sslCh), validationFrame, ssl_events), u)
    BY <1>1, <2>1, QueueHead
  <2>3. \A u : Underway(u)' = Captured(Queue(Tail(sslCh), validationFrame, ssl_events), u)
    BY <1>3 DEF Underway, Queue
  <2> QED BY <2>2, <2>3, UnderwayIs
<1>6. \A u : Underway(u)' \in Seq(Tokens)
  <2>1. validationFrame \in MaybeFrames /\ ssl_events \in Seq(Frames)
    BY <1>1 DEF PipeTypes, MaybeFrames
  <2>2. Queue(Tail(sslCh), validationFrame, ssl_events) \in Seq(Frames)
    BY <1>2, <2>1, QueueTyped
  <2>3. \A u : Captured(Queue(Tail(sslCh), validationFrame, ssl_events), u) \in Seq(Tokens)
    BY <2>2, CapturedType
  <2>4. \A u : Underway(u)' = Captured(Queue(Tail(sslCh), validationFrame, ssl_events), u)
    BY <1>3 DEF Underway, Queue
  <2> QED BY <2>3, <2>4
<1>7. Own(Head(sslCh), t) = toks /\ \A u : u # t => Own(Head(sslCh), u) = <<>>
  BY DEF Own
<1>8. ASSUME NEW u \in Tids \ gap', u # t PROVE StreamOf(u)'
  <2>1. pending'[u] = pending[u] /\ handled'[u] = handled[u] /\ u \notin gap
    BY <1>3, <1>4, <1>8
  <2>2. Underway(u)' = Underway(u)
    BY <1>5, <1>6, <1>7, <1>8, ConcatEmptySeq
  <2>3. StreamOf(u)
    BY <2>1, StreamsAre
  <2> QED BY <1>3, <2>1, <2>2, <2>3, StreamSame
<1>9. ASSUME t \notin gap PROVE StreamOf(t)'
  <2>1. pending'[t] = r.rest /\ handled'[t] = handled[t] \o r.reqs /\ begin'[t] = begin[t] /\ pos'[t] = pos[t]
    BY <1>2, <1>3, <1>4, <1>9
  <2>2. StreamOf(t)
    BY <1>2, <1>9, StreamsAre
  <2>3. Underway(t) = toks \o Underway(t)'
    BY <1>5, <1>7
  <2>4. CASE begin[t] = -1
    <3>1. pending[t] = <<>> /\ handled[t] = <<>> /\ Underway(t) = <<>>
      BY <2>2, <2>4 DEF StreamOf, Untouched
    <3>2. toks = <<>> /\ Underway(t)' = <<>>
      <4>1. PICK u \in Seq(Tokens) : u = Underway(t)'
        BY <1>6
      <4>2. toks \o u = <<>>
        BY <2>3, <3>1, <4>1
      <4>3. toks = <<>> /\ u = <<>>
        BY <1>2, <4>2, ConcatNothing
      <4> QED BY <4>1, <4>3
    <3>3. pending[t] \o toks = <<>>
      BY <3>1, <3>2
    <3>4. r.reqs = <<>> /\ r.rest = <<>>
      <4>1. r = Requests(<<>>)
        BY <3>3
      <4> QED BY <4>1, RequestsEmpty
    <3>5. Untouched(t)'
      BY <2>1, <3>1, <3>2, <3>4 DEF Untouched
    <3> QED BY <2>1, <2>4, <3>5 DEF StreamOf
  <2>5. CASE begin[t] # -1
    <3>1. PICK first, k \in Nat : Follows(t, first, k)
      BY <2>2, <2>5 DEF StreamOf
    <3>2. PICK u \in Seq(Tokens) : u = Underway(t)'
      BY <1>6
    <3>3. \E l \in Nat : Follows(t, first, l)'
      BY <1>1, <1>2, <1>3, <2>1, <2>3, <3>1, <3>2, FollowsHandled
    <3> QED BY <2>1, <2>5, <3>3 DEF StreamOf
  <2> QED BY <2>4, <2>5
<1>10. \A u \in Tids \ gap' : StreamOf(u)'
  BY <1>3, <1>8, <1>9
<1> QED BY <1>10 DEF Streams, StreamOf

(* So does correlate: it takes a frame, or the search is not over.         *)
LEMMA HandleStreams == ASSUME Inv, Streams, HandleFrame PROVE Streams'
BY HandleOne

(* The search reads a frame, and keeps it or drops it.                     *)
LEMMA JudgeStreams == ASSUME Inv, Streams, Judge PROVE Streams'
<1> DEFINE e == ssl_events
           c == sslCh
<1>1. /\ e \in Seq(Frames) /\ c \in Seq(Frames) /\ e # <<>> /\ validationFrame = None
      /\ UNCHANGED <<setup, pending, pos, sslCh>> /\ ssl_events' = Tail(e)
  BY DEF Inv, Judge, PipeTypes, Kept
<1>2. Head(e) \in Frames /\ Head(e).tid \in Tids /\ Tail(e) \in Seq(Frames)
  BY <1>1, HeadTyped
<1>3. \A u : Underway(u) = Captured(Queue(c, None, e), u)
  BY <1>1, UnderwayIs
<1>4. CASE LooksLikeRequest(Head(e).toks)
  <2>1. validationFrame' = Head(e) /\ Missed({})
    BY <1>4 DEF Judge
  <2>2. \A u : Underway(u)' = Captured(Queue(c, Head(e), Tail(e)), u)
    BY <1>1, <2>1 DEF Underway, Queue
  <2>3. Queue(c, Head(e), Tail(e)) = Queue(c, None, e)
    BY <1>1, QueueRead
  <2>4. \A u : Underway(u)' = Underway(u)
    BY <1>3, <2>2, <2>3
  <2>5. ASSUME NEW u \in Tids \ gap' PROVE StreamOf(u)'
    <3>1. u \notin gap /\ begin'[u] = begin[u] /\ handled'[u] = handled[u]
      BY <2>1 DEF Missed
    <3>2. StreamOf(u)
      BY <3>1, StreamsAre
    <3> QED BY <1>1, <2>4, <3>1, <3>2, StreamSame
  <2> QED BY <2>5 DEF Streams, StreamOf
<1>5. CASE ~LooksLikeRequest(Head(e).toks)
  <2>1. validationFrame' = None /\ Missed({Head(e).tid})
    BY <1>5 DEF Judge
  <2>2. \A u : Underway(u)' = Captured(Queue(c, None, Tail(e)), u)
    BY <1>1, <2>1 DEF Underway, Queue
  <2>3. ASSUME NEW u \in Tids \ gap' PROVE StreamOf(u)'
    <3>1. u \notin gap /\ begin'[u] = begin[u] /\ handled'[u] = handled[u] /\ Head(e).tid # u
      BY <2>1 DEF Missed
    <3>2. Captured(Queue(c, None, Tail(e)), u) = Captured(Queue(c, None, e), u)
      BY <1>1, <3>1, QueueDrop
    <3>3. Underway(u)' = Underway(u)
      BY <1>3, <2>2, <3>2
    <3>4. StreamOf(u)
      BY <3>1, StreamsAre
    <3> QED BY <1>1, <3>1, <3>3, <3>4, StreamSame
  <2> QED BY <2>3 DEF Streams, StreamOf
<1> QED BY <1>4, <1>5

(* sslFeed moves frames, and loses none.                                   *)
LEMMA FeedStreams == ASSUME Inv, Streams, Feed PROVE Streams'
<1>1. CASE FeedReplays
  <2>1. /\ sslCh \in Seq(Frames) /\ validationFrame \in Frames /\ ssl_events \in Seq(Frames)
        /\ sslCh' = Append(sslCh, validationFrame) /\ validationFrame' = None /\ UNCHANGED ssl_events
        /\ UNCHANGED <<setup, pos, begin, gap, handled, pending>>
    BY <1>1 DEF Inv, FeedReplays, PipeTypes, Kept, worldVars, probeVars
  <2>2. Queue(Append(sslCh, validationFrame), None, ssl_events) = Queue(sslCh, validationFrame, ssl_events)
    BY <2>1, QueueReplay
  <2>3. \A u : Underway(u)' = Captured(Queue(Append(sslCh, validationFrame), None, ssl_events), u)
    BY <2>1 DEF Underway, Queue
  <2>4. \A u : Underway(u)' = Underway(u)
    BY <2>2, <2>3, UnderwayIs
  <2> QED BY <2>1, <2>4, StreamsSame
<1>2. CASE FeedReads
  <2>1. /\ sslCh \in Seq(Frames) /\ ssl_events \in Seq(Frames) /\ ssl_events # <<>> /\ validationFrame = None
        /\ sslCh' = Append(sslCh, Head(ssl_events)) /\ ssl_events' = Tail(ssl_events) /\ UNCHANGED validationFrame
        /\ UNCHANGED <<setup, pos, begin, gap, handled, pending>>
    BY <1>2 DEF Inv, FeedReads, PipeTypes, Kept, worldVars, startVars
  <2>2. Queue(Append(sslCh, Head(ssl_events)), None, Tail(ssl_events)) = Queue(sslCh, None, ssl_events)
    BY <2>1, QueueRead
  <2>3. \A u : Underway(u)' = Captured(Queue(Append(sslCh, Head(ssl_events)), None, Tail(ssl_events)), u)
    BY <2>1 DEF Underway, Queue
  <2>4. \A u : Underway(u) = Captured(Queue(sslCh, None, ssl_events), u)
    BY <2>1, UnderwayIs
  <2>5. \A u : Underway(u)' = Underway(u)
    BY <2>2, <2>3, <2>4
  <2> QED BY <2>1, <2>5, StreamsSame
<1>3. CASE FeedStarts \/ FeedEnds
  <2>1. UNCHANGED <<setup, pos, begin, gap, handled, pending, sslCh, validationFrame, ssl_events>>
    BY <1>3 DEF FeedStarts, FeedEnds, worldVars, probeVars, startVars
  <2> QED BY <2>1, UnderwaySame, StreamsSame
<1> QED BY <1>1, <1>2, <1>3 DEF Feed

(* The other steps do not touch the frames.                                *)
LEMMA OtherStreams ==
    ASSUME Inv, Streams, (\E ok \in BOOLEAN : StartNet(ok)) \/ (Start /\ ~Judge) \/ StopReader \/ Stopped
    PROVE  Streams'
<1>1. UNCHANGED <<setup, pos, begin, gap, handled, pending, sslCh, validationFrame, ssl_events>>
  <2>1. CASE \E ok \in BOOLEAN : StartNet(ok)
    BY <2>1 DEF StartNet, worldVars, goVars
  <2>2. CASE Start /\ ~Judge
    BY <2>2 DEF Start, Attach, NoFrame, Detach, Fail, Store, Ready, goVars, worldVars, probeVars
  <2>3. CASE StopReader \/ Stopped
    BY <2>3 DEF StopReader, Stopped, startVars, goVars, worldVars, probeVars
  <2> QED BY <2>1, <2>2, <2>3
<1> QED BY <1>1, UnderwaySame, StreamsSame

-----------------------------------------------------------------------------
(* The invariant holds initially.                                          *)
LEMMA InitInv == Init => Inv /\ Streams
<1> SUFFICES ASSUME Init PROVE Inv /\ Streams
  OBVIOUS
<1>1. Sequenced /\ Held /\ Kept
  BY DEF Init, Sequenced, Held, Kept
<1>2. ControlTypes
  BY TlsAssumption DEF Init, ControlTypes
<1>3. PipeTypes
  <2>1. Len(<<>>) = 0 /\ <<>> \in Seq(Frames) /\ <<>> \in Seq(Tokens) /\ 0 <= RingMax /\ 0 <= ChanMax
    BY BoundsAre
  <2> QED BY <2>1 DEF Init, PipeTypes
<1>4. WorldTypes
  <2>1. setup \in DOMAIN Setups /\ gap = {}
        /\ pos = [t \in Tids |-> 0] /\ begin = [t \in Tids |-> -1] /\ handled = [t \in Tids |-> <<>>]
    BY DEF Init
  <2>2. ASSUME NEW t \in Tids PROVE pos[t] \in 0..Len(Sent(t)) /\ begin[t] \in -1..pos[t]
    <3>1. Setups[setup].script[t] \in Seq(HttpRequests) /\ Sent(t) = All(Setups[setup].script[t])
      BY <2>1, ScriptOf DEF Sent
    <3>2. Len(Sent(t)) \in Nat
      BY <3>1, AllTyped
    <3> QED BY <2>1, <3>2
  <2> QED BY <2>1, <2>2 DEF WorldTypes
<1>5. ASSUME NEW t \in Tids PROVE begin[t] = -1 /\ Untouched(t)
  <2>1. sslCh = <<>> /\ validationFrame = None /\ ssl_events = <<>> /\ handled[t] = <<>> /\ pending[t] = <<>> /\ begin[t] = -1
    BY DEF Init
  <2>2. <<>> \o <<>> = <<>>
    OBVIOUS
  <2>3. Underway(t) = Captured(<<>>, t)
    BY <2>1, <2>2 DEF Underway
  <2> QED BY <2>1, <2>3, CapturedEmpty DEF Untouched
<1>6. Streams
  BY <1>5 DEF Streams
<1> QED BY <1>1, <1>2, <1>3, <1>4, <1>6 DEF Inv

(* Every step preserves it.                                                *)
LEMMA NextInv == Inv /\ [Next]_vars => Inv'
<1> SUFFICES ASSUME Inv, [Next]_vars PROVE Inv'
  OBVIOUS
<1>1. CASE Next
  <2>1. Control'
    BY <1>1, AgentControl, StartNetControl, StartControl, FeedControl, StopControl DEF Next
  <2>2. PipeTypes'
    BY <1>1, AgentPipe, OtherPipe DEF Next
  <2>3. WorldTypes'
    BY <1>1, AgentWorld, OtherWorld DEF Next
  <2> QED BY <2>1, <2>2, <2>3 DEF Inv, Control
<1>2. CASE UNCHANGED vars
  <2>1. UNCHANGED <<worldVars, probeVars, startVars, goVars, phase, closed>>
    BY <1>2 DEF vars
  <2>2. (Sequenced /\ Held /\ Kept)'
    BY <2>1 DEF Inv, Sequenced, Held, Kept, startVars, goVars
  <2>3. ControlTypes'
    BY <2>1 DEF Inv, ControlTypes, startVars, goVars, worldVars, probeVars
  <2>4. PipeTypes'
    BY <2>1 DEF Inv, PipeTypes, startVars, goVars, probeVars
  <2>5. WorldTypes'
    BY <2>1, SentSame DEF Inv, WorldTypes, startVars, goVars, worldVars
  <2> QED BY <2>2, <2>3, <2>4, <2>5 DEF Inv
<1> QED BY <1>1, <1>2

(* And every step preserves the streams.                                   *)
LEMMA NextStreams == Inv /\ Streams /\ [Next]_vars => Streams'
<1> SUFFICES ASSUME Inv, Streams, [Next]_vars PROVE Streams'
  OBVIOUS
<1>1. CASE Next
  BY <1>1, AgentStreams, JudgeStreams, FeedStreams, HandleStreams, OtherStreams DEF Next
<1>2. CASE UNCHANGED vars
  <2>1. UNCHANGED <<setup, pos, begin, gap, handled, pending, sslCh, validationFrame, ssl_events>>
    BY <1>2 DEF vars, worldVars, probeVars, startVars, goVars
  <2> QED BY <2>1, UnderwaySame, StreamsSame
<1> QED BY <1>1, <1>2

(* The invariant holds in every state of every behaviour.                  *)
THEOREM Invariance == Spec => [](Inv /\ Streams)
<1>1. Inv /\ Streams /\ [Next]_vars => (Inv /\ Streams)'
  BY NextInv, NextStreams
<1> QED BY <1>1, InitInv, PTL DEF Spec

(* The types of the variables: what is captured, queued or kept of a task  *)
(* is tokens, the queues hold no more than they can, and no task sends     *)
(* more than its script.                                                   *)
THEOREM TypeCorrect == Spec => []TypeOK
<1>1. Inv => TypeOK
  BY TypesImplyTypeOK DEF Inv
<1> QED BY <1>1, Invariance, PTL

(* Once Stop has returned no uprobe is attached: it waits for sslFeed,     *)
(* which waits for Start, however many candidates Start still has to try.  *)
THEOREM StopDetachesHolds == Spec => []StopDetaches
<1>1. Inv => StopDetaches
  BY DEF Inv, Held, StopDetaches
<1> QED BY <1>1, Invariance, PTL

(* What StreamFaithful says of a task.                                     *)
LEMMA FollowsFaithful ==
    ASSUME WorldTypes, NEW t \in Tids, NEW first \in Nat, NEW k \in Nat, Follows(t, first, k)
    PROVE  /\ FirstRequest(t) + Len(handled[t]) <= Len(Marks(t))
           /\ handled[t] = [i \in 1..Len(handled[t]) |-> Reference(Script(t)[FirstRequest(t) + i - 1])]
           /\ pending[t] \o Underway(t) = SubSeq(Sent(t), Marks(t)[FirstRequest(t) + Len(handled[t])] + 1, pos[t])
           /\ FirstRequest(t) + Len(handled[t]) < Len(Marks(t)) =>
                  Len(pending[t]) < Marks(t)[FirstRequest(t) + Len(handled[t]) + 1]
                                      - Marks(t)[FirstRequest(t) + Len(handled[t])]
<1> DEFINE sc == Script(t)
           N == Len(sc) + 1
<1>1. /\ sc \in Seq(HttpRequests) /\ Sent(t) = All(sc) /\ Len(sc) \in Nat
      /\ Marks(t) = [i \in 1..N |-> Mark(sc, i)]
  <2>1. sc \in Seq(HttpRequests) /\ Sent(t) = All(sc) /\ Marks(t) = [i \in 1..(Len(sc) + 1) |-> Mark(sc, i)]
    BY SentTyped
  <2>2. Len(sc) \in Nat
    <3> HIDE DEF sc
    <3> QED BY <2>1
  <2> QED BY <2>1, <2>2
<1>2. /\ first \in 1..N /\ Mark(sc, first) = begin[t] /\ first + k \in first..N
      /\ handled[t] = [i \in 1..k |-> Reference(sc[first + i - 1])]
      /\ pending[t] \o Underway(t) = Part(All(sc), Mark(sc, first + k), pos[t])
      /\ Short(sc, first + k, pending[t])
  BY DEF Follows
<1> HIDE DEF sc
<1>3. N \in Nat /\ N = Len(sc) + 1 /\ first + k \in 1..N
  BY <1>1, <1>2
<1>4. ASSUME NEW i \in 1..N, NEW j \in 1..N, i < j PROVE Mark(sc, i) < Mark(sc, j) /\ Mark(sc, i) \in Nat
  <2>1. j \in (i + 1)..(Len(sc) + 1) /\ i \in 1..(Len(sc) + 1)
    BY <1>3, <1>4
  <2> QED BY <1>1, <2>1, MarkIs
<1> HIDE DEF N
<1>5. \A i \in 1..N : Mark(sc, i) = begin[t] => i = first
  <2>1. \A i \in 1..N : Mark(sc, i) \in Nat
    <3>1. \A i \in 1..N : i \in 1..(Len(sc) + 1)
      BY <1>3
    <3>2. \A i \in 1..(Len(sc) + 1) : Mark(sc, i) \in Nat
      BY <1>1, MarkIs
    <3> QED BY <3>1, <3>2
  <2>2. ASSUME NEW i \in 1..N, Mark(sc, i) = begin[t], i # first PROVE FALSE
    <3>1. i < first \/ first < i
      BY <1>2, <1>3, <2>2
    <3>2. Mark(sc, i) = Mark(sc, first)
      BY <1>2, <2>2
    <3>3. Mark(sc, i) \in Nat
      BY <2>1
    <3> QED BY <1>2, <1>4, <3>1, <3>2, <3>3
  <2> QED BY <2>2
<1>6. DOMAIN Marks(t) = 1..N /\ \A i \in 1..N : Marks(t)[i] = Mark(sc, i)
  BY <1>1
<1>7. FirstRequest(t) = first
  BY <1>2, <1>5, <1>6 DEF FirstRequest
<1>8. Len(handled[t]) = k
  BY <1>2
<1>9. Len(Marks(t)) = N
  BY <1>1, <1>3
<1>10. Marks(t)[first + k] = Mark(sc, first + k) /\ first + k <= N
  BY <1>3, <1>6
<1>11. handled[t] = [i \in 1..k |-> Reference(Script(t)[first + i - 1])]
  BY <1>2 DEF sc
<1>12. pending[t] \o Underway(t) = SubSeq(Sent(t), Marks(t)[first + k] + 1, pos[t])
  <2>1. Part(All(sc), Mark(sc, first + k), pos[t]) = SubSeq(Sent(t), Marks(t)[first + k] + 1, pos[t])
    BY <1>1, <1>10 DEF Part
  <2> QED BY <1>2, <2>1
<1>13. first + k < N => Len(pending[t]) < Marks(t)[first + k + 1] - Marks(t)[first + k]
  <2>1. ASSUME first + k < N PROVE first + k <= Len(sc) /\ first + k + 1 \in 1..N
    BY <1>1, <1>3, <2>1
  <2> QED BY <1>2, <1>6, <1>10, <2>1 DEF Short
<1> QED BY <1>7, <1>8, <1>9, <1>10, <1>11, <1>12, <1>13

(* However a thread cuts its requests into calls, whichever frames the     *)
(* search reads and wherever sslFeed and correlate are: of a thread of     *)
(* which nothing was missed the requests handled are those that it made,   *)
(* in order and with their bodies, and what is kept or underway is what    *)
(* the thread has sent after them.  What is kept is less than a request.   *)
THEOREM StreamFaithfulHolds == Spec => []StreamFaithful
<1>1. Inv /\ Streams => StreamFaithful
  <2> SUFFICES ASSUME Inv, Streams, NEW t \in Tids, Gapless(t)
               PROVE  LET first == FirstRequest(t)
                          k == Len(handled[t])
                      IN /\ first + k <= Len(Marks(t))
                         /\ handled[t] = [i \in 1..k |-> Reference(Script(t)[first + i - 1])]
                         /\ pending[t] \o Underway(t) = SubSeq(Sent(t), Marks(t)[first + k] + 1, pos[t])
                         /\ first + k < Len(Marks(t)) =>
                                Len(pending[t]) < Marks(t)[first + k + 1] - Marks(t)[first + k]
    BY DEF StreamFaithful
  <2>1. PICK first, k \in Nat : Follows(t, first, k)
    BY DEF Gapless, Streams
  <2> QED BY <2>1, FollowsFaithful DEF Inv
<1> QED BY <1>1, Invariance, PTL

=============================================================================
