-------------------------- MODULE FsObserverProofs --------------------------
(***************************************************************************)
(* Proofs about FsObserver, for any files, queue length and settle window: *)
(* that no registered close is lost or reported twice, that a published    *)
(* hash is that of its close, and that the observer's own opens are not    *)
(* reported.                                                               *)
(***************************************************************************)
EXTENDS FsObserver, QueueLemmas, FiniteSetTheorems

Waiting == {n \in Names : pending[n] # None}

(***************************************************************************)
(* Events in a queue.                                                      *)
(***************************************************************************)

(* The kernel merges events that agree on these.                           *)
Same(x, e) == x.path = e.path /\ x.ino = e.ino /\ x.own = e.own

(* So a queue never holds two of them.                                     *)
Distinct(q) == \A m, n \in DOMAIN q : Same(q[m], q[n]) => m = n

(* What the agent did to the content of a file, or to its openness.        *)
Touches(e) == ~e.own /\ e.mask \cap WriteClass # {}

On(S, p, i) == {e \in S : Touches(e) /\ e.path = p /\ e.ino = i}
Closing(S, p, i) == {e \in On(S, p, i) : "close" \in e.mask}

(* What processRawEvent has not seen yet.                                  *)
Announced == Range(queue) \cup Range(batch)
Unread == Range(inflight) \cup Announced

Queues ==
    /\ Distinct(queue) /\ Distinct(batch)
    /\ \A e \in Range(inflight) : ~e.own /\ e.ino # None /\ "overflow" \notin e.mask
    /\ \A e \in Announced : e.own => e.mask = {"open"}
    /\ \A e \in Announced : e # Overflow => e.ino # None /\ "overflow" \notin e.mask

(***************************************************************************)
(* The goroutine.                                                          *)
(***************************************************************************)

(* What each step of resolveSettled and hashSettledFD knows of the close   *)
(* it is hashing.                                                          *)
Control ==
    /\ batch # <<>> => pc = "drain"
    /\ pc = "start" => queue = <<>> /\ inflight = <<>> /\ wr = None /\ ~stopReq
    /\ pc \in {"hash", "open", "read"} => ~job.failed
    /\ pc \in {"open", "read"} => job.ino # None
    /\ job # None /\ ~job.failed /\ pc \in {"drain", "check"} =>
          job.ino # None /\ job.digest # None

(* Once stopping, a close that is pending is the one of the snapshot and   *)
(* its turn is to come.                                                    *)
Flushing ==
    /\ force = "stop" => stopReq /\ batch = <<>>
    /\ pc \in {"start", "poll"} => force = "no"
    /\ force = "stop" => \A n \in Waiting : n \in todo /\ pending[n] = before[n]
    /\ pc = "stopped" => force # "no" /\ todo = {}

(* No close is lost.                                                       *)
Accounted == regs = sent + Cardinality(Waiting) + (IF job = None THEN 0 ELSE 1)

Inv == TypeOK /\ Queues /\ Control /\ Flushing /\ Accounted

(***************************************************************************)
(* The hash of a close.  Of a file that was renamed nothing is said, nor   *)
(* after events were lost.                                                 *)
(***************************************************************************)

(* The parts of the state that connect a name with an inode.               *)
Refers(p, i) ==
    \/ p \in Paths /\ ino[p] = i
    \/ On(Unread, p, i) # {}
    \/ wr # None /\ wr.path = p /\ wr.ino = i
    \/ pending[p] # None /\ pending[p].ino = i
    \/ job # None /\ job.path = p /\ job.ino = i

(* They agree on the name.                                                 *)
OneName == \A i \in Inodes \ moved, p, q \in Names : Refers(p, i) /\ Refers(q, i) => p = q

Untouched(p, i) == wr # None => wr.ino # i \/ wr.path # p

(* The last close of a file that nobody writes, announced or pending, has  *)
(* its content.                                                            *)
LastClose ==
    \A i \in Inodes \ moved, p \in Names : Untouched(p, i) =>
        /\ \A e \in Closing(Range(inflight), p, i) : e.at = content[i]
        /\ Closing(Range(inflight), p, i) = {} =>
              /\ \A e \in Closing(Range(queue), p, i) : e.at = content[i]
              /\ Closing(Range(queue), p, i) = {} =>
                    /\ \A e \in Closing(Range(batch), p, i) : e.at = content[i]
                    /\ Closing(Range(batch), p, i) = {} /\ pending[p] # None
                          /\ pending[p].ino = i => pending[p].at = content[i]

(* A file that is open for writing has been seen to be within this tick,   *)
(* or will be.                                                             *)
WriterSeen ==
    wr # None =>
        \/ On(Range(inflight) \cup Range(queue), wr.path, wr.ino) # {}
        \/ readAge = 0 /\ (On(Range(batch), wr.path, wr.ino) # {} \/ age[wr.path] = 0)

(* What changes the file while it is hashed does not go unnoticed.         *)
Digested == pc = "check" \/ (pc = "drain" /\ ret = "check")
Trusted == Digested /\ ~job.failed /\ job.hurdles = {}

ChangeSeen ==
    job # None /\ ~Ending =>
        /\ pc \in {"hash", "open", "read"} /\ job.ino # None /\ job.ino \notin moved
              /\ content[job.ino] # job.at
                  => job.path \in bumped \/ On(Unread, job.path, job.ino) # {}
        /\ Trusted /\ job.digest # job.at =>
              job.path \in bumped \/ (pc = "drain" /\ On(Announced, job.path, job.ino) # {})

(* An announcement of a write is not mixed with another kind of event.     *)
Kinds == \A e \in Range(inflight) : e.mask \subseteq WriteClass \/ e.mask \cap WriteClass = {}

HashInv == Kinds /\ OneName /\ (~Lost => LastClose /\ WriterSeen /\ ChangeSeen /\ HashAtClose)

(***************************************************************************)
(* The observer's own opens.                                               *)
(***************************************************************************)

(* An own open is on its way to processRawEvent.                           *)
Opened(p) == \E e \in Announced : e.own /\ e.path = p

(* hashSettledFD has counted an open that it has not made.                 *)
Counted(p) == job # None /\ job.link = p /\ (pc = "open" \/ job.failed)

(* Nothing that is closed and waits for its hash has lost its name.        *)
Kept ==
    /\ \A p, q \in Paths : ino[p] = ino[q] /\ ino[p] # None => p = q
    /\ pc = "start" => Linked = {}
    /\ \A n \in Waiting : pending[n].ino \in Linked \cup {None}
    /\ job # None => job.ino \in Linked \cup {None}

(* An own open is announced under the name that it was counted for, and    *)
(* before the next read of the queue.                                      *)
Expected ==
    /\ pc = "hash" => job.link = None
    /\ pc = "open" => job.link = NameOf(job.ino)
    /\ \A e \in Announced : e.own => e.path \in Paths /\ ino[e.path] = e.ino
    /\ batch # <<>> => \A e \in Range(queue) : ~e.own

(* What is on its way has been counted.                                    *)
Balance ==
    \A p \in Names \cup {Gone} :
        /\ holds[p] >= 0
        /\ Opened(p) \/ Counted(p) => holds[p] >= 1
        /\ Opened(p) /\ Counted(p) => holds[p] >= 2

OwnInv == Kept /\ Expected /\ Balance /\ OwnOpensSuppressed

-----------------------------------------------------------------------------
(***************************************************************************)
(* Lemmas about queues of events.                                          *)
(***************************************************************************)

LEMMA RangeElements == ASSUME NEW q PROVE Range(q) = Elements(q)
BY DEF Range, Elements

(* The event x of the queue r that has e merged into it.                   *)
Takes(q, e, r, x) ==
    /\ x \in Range(r) /\ Same(x, e)
    /\ "close" \in e.mask => x.at = e.at
    /\ \/ x = e /\ \A y \in Range(q) : ~Same(y, e)
       \/ \E y \in Range(q) : /\ Same(y, e) /\ x.mask = y.mask \cup e.mask
                              /\ "close" \notin e.mask => x.at = y.at
    /\ \A y \in Range(r) : y = x \/ (y \in Range(q) /\ ~Same(y, e))
    /\ \A y \in Range(q) : Same(y, e) \/ y \in Range(r)

(* The kernel takes an event or says that it could not.                    *)
LEMMA EnqueueTakes ==
    ASSUME NEW q \in Seq(Events), Distinct(q), NEW e \in Events, e.ino # None,
           \A x \in Range(q) : x # Overflow => x.ino # None
    PROVE  LET r == Enqueue(q, e)
           IN /\ r \in Seq(Events) /\ Distinct(r)
              /\ Range(r) = Range(q) \cup {Overflow} \/ \E x \in Events : Takes(q, e, r, x)
<1> DEFINE same == {n \in DOMAIN q : q[n].path = e.path /\ q[n].ino = e.ino /\ q[n].own = e.own}
           r == Enqueue(q, e)
<1>1. DOMAIN q = 1..Len(q) /\ Len(q) \in Nat /\ \A n \in DOMAIN q : q[n] \in Events
  BY LenProperties, ElementOfSeq
<1>2. CASE same # {}
  <2> DEFINE n == CHOOSE n \in same : TRUE
             x == [q[n] EXCEPT !.mask = @ \cup e.mask,
                               !.at = IF "close" \in e.mask THEN e.at ELSE @]
  <2>1. n \in same
    BY <1>2
  <2>2. r = [q EXCEPT ![n].mask = @ \cup e.mask,
                      ![n].at = IF "close" \in e.mask THEN e.at ELSE @]
    BY <1>2 DEF Enqueue
  <2>3. x \in Events /\ Same(x, e) /\ x.mask = q[n].mask \cup e.mask
        /\ x.at = IF "close" \in e.mask THEN e.at ELSE q[n].at
    BY <1>1, <2>1 DEF Events, Same
  <2> HIDE DEF x
  <2>4. r = [q EXCEPT ![n] = x]
    BY <1>1, <2>1, <2>2 DEF x, Events
  <2> HIDE DEF n, r
  <2>5. /\ r \in Seq(Events) /\ DOMAIN r = DOMAIN q /\ r[n] = x
        /\ \A m \in DOMAIN q : m # n => r[m] = q[m]
    BY <1>1, <2>1, <2>3, <2>4, ExceptSeq
  <2>6. \A m \in DOMAIN q : Same(q[m], e) <=> m = n
    BY <2>1 DEF Distinct, Same
  <2>7. Distinct(r)
    BY <2>1, <2>3, <2>5, <2>6 DEF Distinct, Same
  <2>8. Takes(q, e, r, x)
    <3>1. q[n] \in Range(q) /\ x \in Range(r) /\ Same(q[n], e)
      BY <2>1, <2>5, <2>6 DEF Range
    <3>2. \A y \in Range(r) : y = x \/ (y \in Range(q) /\ ~Same(y, e))
      BY <2>5, <2>6 DEF Range
    <3>3. \A y \in Range(q) : Same(y, e) \/ y \in Range(r)
      BY <2>5, <2>6 DEF Range
    <3> QED BY <2>3, <3>1, <3>2, <3>3 DEF Takes
  <2> QED BY <2>3, <2>5, <2>7, <2>8 DEF r
<1>3. CASE same = {} /\ Len(q) < QueueMax
  <2>1. r = Append(q, e)
    BY <1>3 DEF Enqueue
  <2>2. r \in Seq(Events) /\ Range(r) = Range(q) \cup {e}
    BY <2>1, AppendElements, RangeElements
  <2>3. \A m \in DOMAIN q : ~Same(q[m], e)
    BY <1>3 DEF Same
  <2>4. /\ DOMAIN r = 1..(Len(q) + 1) /\ r[Len(q) + 1] = e
        /\ \A m \in DOMAIN q : r[m] = q[m]
    BY <1>1, <2>1
  <2> HIDE DEF r
  <2>5. Distinct(r)
    <3> SUFFICES ASSUME NEW m \in DOMAIN r, NEW k \in DOMAIN r, Same(r[m], r[k])
                 PROVE  m = k
      BY DEF Distinct
    <3>1. m \in DOMAIN q \/ m = Len(q) + 1
      BY <1>1, <2>4
    <3>2. k \in DOMAIN q \/ k = Len(q) + 1
      BY <1>1, <2>4
    <3> QED BY <2>3, <2>4, <3>1, <3>2 DEF Distinct, Same
  <2>6. \A y \in Range(q) : ~Same(y, e)
    BY <2>3 DEF Range
  <2>7. Takes(q, e, r, e)
    BY <2>2, <2>6 DEF Takes, Same
  <2> QED BY <2>2, <2>5, <2>7 DEF r
<1>4. CASE same = {} /\ ~(Len(q) < QueueMax)
  <2>1. r = IF \E n \in DOMAIN q : q[n] = Overflow THEN q ELSE Append(q, Overflow)
    BY <1>4 DEF Enqueue
  <2>2. Overflow \in Events
    BY DEF Overflow, Event, Events, Names, Bits
  <2>3. CASE \E n \in DOMAIN q : q[n] = Overflow
    BY <2>1, <2>3 DEF Range
  <2>4. CASE ~ \E n \in DOMAIN q : q[n] = Overflow
    <3>1. r = Append(q, Overflow)
      BY <2>1, <2>4
    <3>2. r \in Seq(Events) /\ Range(r) = Range(q) \cup {Overflow}
      BY <2>2, <3>1, AppendElements, RangeElements
    <3>3. /\ DOMAIN r = 1..(Len(q) + 1) /\ r[Len(q) + 1] = Overflow
          /\ \A m \in DOMAIN q : r[m] = q[m]
      BY <1>1, <3>1
    <3>4. \A m \in DOMAIN q : ~Same(q[m], Overflow)
      BY <2>4 DEF Same, Range, Overflow, Event
    <3> HIDE DEF r
    <3>5. Distinct(r)
      <4> SUFFICES ASSUME NEW m \in DOMAIN r, NEW k \in DOMAIN r, Same(r[m], r[k])
                   PROVE  m = k
        BY DEF Distinct
      <4>1. m \in DOMAIN q \/ m = Len(q) + 1
        BY <1>1, <3>3
      <4>2. k \in DOMAIN q \/ k = Len(q) + 1
        BY <1>1, <3>3
      <4> QED BY <3>3, <3>4, <4>1, <4>2 DEF Distinct, Same
    <3> QED BY <3>2, <3>5 DEF r
  <2> QED BY <2>3, <2>4
<1> QED BY <1>2, <1>3, <1>4

(* What is taken from a queue is unlike what stays.                        *)
LEMMA TailDistinct ==
    ASSUME NEW q \in Seq(Events), Distinct(q), q # <<>>
    PROVE  /\ Head(q) \in Events /\ Tail(q) \in Seq(Events) /\ Distinct(Tail(q))
           /\ Range(q) = {Head(q)} \cup Range(Tail(q))
           /\ \A y \in Range(Tail(q)) : ~Same(y, Head(q))
<1> DEFINE u == Tail(q)
           h == Head(q)
<1>1. /\ h \in Events /\ u \in Seq(Events) /\ Range(q) = {h} \cup Range(u)
  BY TailElements, RangeElements
<1>2. /\ Len(q) \in Nat \ {0} /\ DOMAIN q = 1..Len(q) /\ DOMAIN u = 1..(Len(q) - 1)
      /\ \A n \in DOMAIN u : u[n] = q[n + 1]
  BY HeadTailProperties, EmptySeq, LenProperties
<1>3. h = q[1]
  OBVIOUS
<1>4. 1 \in DOMAIN q /\ \A n \in DOMAIN u : n + 1 \in DOMAIN q /\ n + 1 # 1 /\ n \in Int
  BY <1>2
<1> HIDE DEF u, h
<1>5. Distinct(u)
  <2> SUFFICES ASSUME NEW m \in DOMAIN u, NEW n \in DOMAIN u, Same(u[m], u[n])
               PROVE  m = n
    BY DEF Distinct
  <2>1. m + 1 = n + 1
    BY <1>2, <1>4 DEF Distinct
  <2> QED BY <1>4, <2>1
<1>6. \A n \in DOMAIN u : ~Same(u[n], h)
  BY <1>2, <1>3, <1>4 DEF Distinct
<1> QED BY <1>1, <1>5, <1>6 DEF u, h, Range

LEMMA EmptyQueue == <<>> \in Seq(Events) /\ Distinct(<<>>) /\ Range(<<>>) = {}
BY DEF Distinct, Range

(***************************************************************************)
(* The invariant, step by step.                                            *)
(***************************************************************************)

LEMMA EventTypes ==
    /\ Overflow \in Events /\ Overflow.ino = None /\ ~Overflow.own
    /\ Overflow.mask = {"overflow"} /\ Overflow.path = Dir
    /\ \A p \in Names, i \in Inodes :
          /\ OwnOpen(p, i) \in Events /\ OwnOpen(p, i).own /\ OwnOpen(p, i).mask = {"open"}
          /\ OwnOpen(p, i).path = p /\ OwnOpen(p, i).ino = i
BY DEF Overflow, OwnOpen, Event, Events, Names, Bits

LEMMA Constants ==
    /\ Settle \in Nat /\ Settle > 0 /\ None \notin Inodes /\ None \notin Entries /\ None \notin Jobs
    /\ None \notin Nat /\ None \notin Files /\ None \notin Names /\ None # Gone /\ Gone \notin Paths
    /\ IsFiniteSet(Names) /\ Paths \subseteq Names /\ Dir \in Names /\ Dir \notin Paths
<1>1. IsFiniteSet(Paths \cup {Dir})
  BY FS_AddElement, WorldAssumption
<1> QED BY <1>1, WorldAssumption, ObserverAssumption DEF Names, Gone, Dir

LEMMA PollInv == ASSUME Inv, Poll PROVE Inv'
<1> USE DEF Inv, Poll, worldVars, shadowVars
<1>1. TypeOK'
  BY DEF TypeOK, WorldTypeOK
<1>2. Queues'
  BY DEF Queues, Announced
<1>3. Control'
  BY DEF TypeOK, Control
<1>4. Flushing'
  BY DEF TypeOK, Control, Flushing, Waiting
<1>5. Accounted'
  BY DEF Accounted, Waiting
<1> QED BY <1>1, <1>2, <1>3, <1>4, <1>5

LEMMA PollFailsInv == ASSUME Inv, PollFails PROVE Inv'
<1> USE DEF Inv, PollFails, worldVars, shadowVars
<1>1. TypeOK'
  BY DEF TypeOK, WorldTypeOK
<1>2. Queues'
  BY DEF Queues, Announced
<1>3. Control'
  BY DEF TypeOK, Control
<1>4. Flushing'
  BY DEF TypeOK, Control, Flushing, Waiting
<1>5. Accounted'
  BY DEF Accounted, Waiting
<1> QED BY <1>1, <1>2, <1>3, <1>4, <1>5

LEMMA DrainReadInv == ASSUME Inv, DrainRead PROVE Inv'
<1> USE DEF Inv, DrainRead, settleVars, shadowVars
<1>1. TypeOK'
  BY EmptyQueue, Constants DEF TypeOK, WorldTypeOK
<1>2. Queues'
  BY EmptyQueue DEF Queues, Announced
<1>3. Control'
  BY DEF Control
<1>4. Flushing'
  BY DEF Flushing, Waiting
<1>5. Accounted'
  BY DEF Accounted, Waiting
<1> QED BY <1>1, <1>2, <1>3, <1>4, <1>5

LEMMA DrainDoneInv == ASSUME Inv, DrainDone PROVE Inv'
<1> USE DEF Inv, DrainDone, worldVars, settleVars, shadowVars
<1>1. TypeOK'
  BY Constants DEF TypeOK, WorldTypeOK
<1>2. Queues'
  BY DEF Queues, Announced
<1>3. Control'
  BY DEF TypeOK, Control
<1>4. Flushing'
  BY DEF TypeOK, Flushing, Waiting
<1>5. Accounted'
  BY DEF Accounted, Waiting
<1> QED BY <1>1, <1>2, <1>3, <1>4, <1>5

LEMMA SkipUnsettledInv == ASSUME Inv, NEW n \in Names, SkipUnsettled(n) PROVE Inv'
<1> USE DEF Inv, SkipUnsettled, worldVars, shadowVars
<1>1. TypeOK'
  BY DEF TypeOK, WorldTypeOK
<1>2. Queues'
  BY DEF Queues, Announced
<1>3. Control'
  BY DEF Control
<1>4. Flushing'
  BY DEF Flushing, Waiting, Settled, Quiet
<1>5. Accounted'
  BY DEF Accounted, Waiting
<1> QED BY <1>1, <1>2, <1>3, <1>4, <1>5

LEMMA TakeSettledInv == ASSUME Inv, NEW n \in Names, TakeSettled(n) PROVE Inv'
<1> USE DEF Inv, TakeSettled, worldVars, shadowVars
<1>1. /\ job = None /\ job' # None /\ job' \in Jobs /\ ~job'.failed /\ pc' = "hash"
  <2>1. pending[n] \in Entries
    BY DEF TypeOK, Settled
  <2>2. job' \in Jobs /\ ~job'.failed
    BY <2>1 DEF Jobs, Entries
  <2> QED BY <2>2, Constants DEF TypeOK
<1>2. n \in Waiting /\ Waiting' = Waiting \ {n}
  BY DEF TypeOK, Settled, Waiting
<1>3. TypeOK'
  BY <1>1 DEF TypeOK, WorldTypeOK
<1>4. Queues'
  BY DEF Queues, Announced
<1>5. Control'
  BY <1>1 DEF Control
<1>6. Flushing'
  BY <1>2 DEF Flushing, Waiting
<1>7. Accounted'
  <2>1. IsFiniteSet(Waiting)
    BY Constants, FS_Subset DEF Waiting
  <2>2. Cardinality(Waiting') = Cardinality(Waiting) - 1 /\ Cardinality(Waiting) \in Nat
    BY <1>2, <2>1, FS_RemoveElement, FS_CardinalityType
  <2> QED BY <1>1, <2>2 DEF Accounted, TypeOK
<1> QED BY <1>3, <1>4, <1>5, <1>6, <1>7

LEMMA ResolveDoneInv == ASSUME Inv, ResolveDone PROVE Inv'
<1> USE DEF Inv, ResolveDone, worldVars, shadowVars
<1>1. TypeOK'
  BY DEF TypeOK, WorldTypeOK
<1>2. Queues'
  BY DEF Queues, Announced
<1>3. Control'
  BY DEF TypeOK, Control
<1>4. Flushing'
  BY DEF TypeOK, Flushing, Waiting
<1>5. Accounted'
  BY DEF Accounted, Waiting
<1> QED BY <1>1, <1>2, <1>3, <1>4, <1>5

(* The steps of a hash leave the closes alone.                             *)
LEMMA HashStep ==
    ASSUME Inv, pc \in {"hash", "open", "read"}, job' \in Jobs,
           pc' \in {"open", "read"} \/ (pc' = "drain" /\ ret' = "check"), ret' \in {"resolve", "check"},
           UNCHANGED <<batch, readAge, pending, settleVars, bumped, age, overflow,
                       stopReq, regs, sent>>
    PROVE  /\ job' # None /\ job # None
           /\ WorldTypeOK' /\ holds' \in [Names \cup {Gone} -> Int] => TypeOK'
           /\ Flushing' /\ Accounted'
<1> USE DEF Inv, settleVars
<1>1. job' # None /\ job # None
  BY Constants DEF TypeOK
<1>2. ASSUME WorldTypeOK', holds' \in [Names \cup {Gone} -> Int] PROVE TypeOK'
  BY <1>1, <1>2 DEF TypeOK
<1>3. Flushing'
  BY DEF Flushing, Waiting
<1>4. Accounted'
  BY <1>1 DEF Accounted, Waiting
<1> QED BY <1>1, <1>2, <1>3, <1>4

LEMMA NameOfType ==
    ASSUME NEW i \in Inodes
    PROVE  /\ NameOf(i) \in Paths \/ NameOf(i) = Gone
           /\ NameOf(i) \in Paths => ino[NameOf(i)] = i
           /\ NameOf(i) = Gone => i \notin Linked
<1>1. CASE \E p \in Paths : ino[p] = i
  <2>1. NameOf(i) = CHOOSE p \in Paths : ino[p] = i
    BY <1>1 DEF NameOf
  <2>2. NameOf(i) \in Paths /\ ino[NameOf(i)] = i
    BY <1>1, <2>1
  <2> QED BY <2>2, Constants
<1>2. CASE ~ \E p \in Paths : ino[p] = i
  BY <1>2, Constants DEF NameOf, Linked
<1> QED BY <1>1, <1>2

LEMMA HashNoFDInv == ASSUME Inv, HashNoFD PROVE Inv'
<1> USE DEF Inv, HashNoFD, worldVars, shadowVars
<1>1. job \in Jobs /\ job' \in Jobs /\ job'.failed
  BY DEF TypeOK, Jobs
<1>2. Queues'
  BY DEF Queues, Announced
<1>3. Control'
  BY <1>1 DEF Control
<1>4. WorldTypeOK' /\ holds' \in [Names \cup {Gone} -> Int]
  BY DEF TypeOK, WorldTypeOK
<1> QED BY <1>1, <1>2, <1>3, <1>4, HashStep

LEMMA HashLinkInv == ASSUME Inv, HashLink PROVE Inv'
<1> USE DEF Inv, HashLink, worldVars, shadowVars
<1>1. job \in Jobs /\ job.ino \in Inodes /\ ret \in {"resolve", "check"}
  BY DEF TypeOK, Jobs
<1>2. NameOf(job.ino) \in Names \cup {Gone}
  BY <1>1, NameOfType, Constants
<1>3. job' \in Jobs /\ job'.failed = job.failed /\ job'.ino = job.ino
  BY <1>1, <1>2 DEF Jobs
<1>4. WorldTypeOK'
  BY DEF TypeOK, WorldTypeOK
<1>5. holds' \in [Names \cup {Gone} -> Int]
  BY <1>2 DEF TypeOK
<1>6. Queues'
  BY DEF Queues, Announced
<1>7. Control'
  BY <1>3 DEF Control
<1> QED BY <1>1, <1>3, <1>4, <1>5, <1>6, <1>7, HashStep

LEMMA HashOpenFailsInv == ASSUME Inv, HashOpenFails PROVE Inv'
<1> USE DEF Inv, HashOpenFails, worldVars, shadowVars
<1>1. job \in Jobs /\ job' \in Jobs /\ job'.failed
  BY DEF TypeOK, Jobs
<1>2. Queues'
  BY DEF Queues, Announced
<1>3. Control'
  BY <1>1 DEF Control
<1>4. WorldTypeOK' /\ holds' \in [Names \cup {Gone} -> Int]
  BY DEF TypeOK, WorldTypeOK
<1> QED BY <1>1, <1>2, <1>3, <1>4, HashStep

LEMMA HashReadInv == ASSUME Inv, HashRead PROVE Inv'
<1> USE DEF Inv, HashRead, worldVars, shadowVars
<1>1. /\ job \in Jobs /\ job' \in Jobs /\ job'.ino = job.ino /\ job.ino # None
      /\ ~job'.failed => job'.digest # None
  <2>1. job \in Jobs /\ job.ino \in Inodes
    BY DEF TypeOK, Jobs, Control
  <2>2. content[job.ino] \in Nat /\ content[job.ino] # None
    BY <2>1, Constants DEF TypeOK, WorldTypeOK
  <2>3. CASE job' = [job EXCEPT !.failed = TRUE]
    BY <2>1, <2>3, Constants DEF Jobs
  <2>4. CASE job' = [job EXCEPT !.digest = content[job.ino],
                                !.hurdles = (IF inflight # <<>> THEN {"call"} ELSE {})
                                    \cup (IF job.ino \in moved THEN {"rename"} ELSE {})]
    BY <2>1, <2>2, <2>4, Constants DEF Jobs
  <2> QED BY <2>3, <2>4
<1>2. Queues'
  BY DEF Queues, Announced
<1>3. Control'
  BY <1>1 DEF Control
<1>4. WorldTypeOK' /\ holds' \in [Names \cup {Gone} -> Int]
  BY DEF TypeOK, WorldTypeOK
<1> QED BY <1>1, <1>2, <1>3, <1>4, HashStep

(* The own open joins the queue.                                           *)
LEMMA OwnOpenQueued ==
    ASSUME Inv, NEW p \in Names, NEW i \in Inodes, queue' = Enqueue(queue, OwnOpen(p, i)),
           UNCHANGED <<inflight, batch>>
    PROVE  queue' \in Seq(Events) /\ Queues'
<1> DEFINE e == OwnOpen(p, i)
<1>1. e \in Events /\ e.own /\ e.mask = {"open"} /\ e.ino # None
  BY EventTypes, Constants
<1>2. /\ queue' \in Seq(Events) /\ Distinct(queue')
      /\ Range(queue') = Range(queue) \cup {Overflow} \/ \E x \in Events : Takes(queue, e, queue', x)
  BY <1>1, EnqueueTakes DEF Inv, TypeOK, WorldTypeOK, Queues, Announced
<1> HIDE DEF e
<1>3. \A y \in Range(queue') :
         /\ y.own => y.mask = {"open"}
         /\ y # Overflow => y.ino # None /\ "overflow" \notin y.mask
  <2>1. CASE Range(queue') = Range(queue) \cup {Overflow}
    BY <2>1, EventTypes DEF Inv, Queues, Announced
  <2>2. ASSUME NEW x \in Events, Takes(queue, e, queue', x)
        PROVE  \A y \in Range(queue') :
                  /\ y.own => y.mask = {"open"}
                  /\ y # Overflow => y.ino # None /\ "overflow" \notin y.mask
    <3>1. x.own /\ x.ino # None /\ x.mask = {"open"}
      BY <1>1, <2>2 DEF Takes, Same, Inv, Queues, Announced
    <3> QED BY <2>2, <3>1 DEF Takes, Inv, Queues, Announced
  <2> QED BY <1>2, <2>1, <2>2
<1> QED BY <1>2, <1>3 DEF Inv, Queues, Announced

LEMMA HashOpenInv == ASSUME Inv, HashOpen PROVE Inv'
<1> USE DEF Inv, HashOpen, shadowVars
<1>1. job \in Jobs /\ job.ino \in Inodes /\ job.path \in Names /\ ret \in {"resolve", "check"}
  BY DEF TypeOK, Jobs, Control
<1>2. queue' = queue \/ \E p \in Names : queue' = Enqueue(queue, OwnOpen(p, job.ino))
  BY <1>1, NameOfType, Constants
<1>3. queue' \in Seq(Events) /\ Queues'
  <2>1. CASE queue' = queue
    BY <2>1 DEF TypeOK, WorldTypeOK, Queues, Announced
  <2>2. ASSUME NEW p \in Names, queue' = Enqueue(queue, OwnOpen(p, job.ino))
        PROVE  queue' \in Seq(Events) /\ Queues'
    BY <1>1, <2>2, OwnOpenQueued
  <2> QED BY <1>2, <2>1, <2>2
<1>4. TypeOK'
  BY <1>3 DEF TypeOK, WorldTypeOK, settleVars
<1>5. Control'
  BY DEF Control
<1>6. Flushing'
  BY DEF Flushing, Waiting, settleVars
<1>7. Accounted'
  BY DEF Accounted, Waiting
<1> QED BY <1>3, <1>4, <1>5, <1>6, <1>7

LEMMA HashCheckInv == ASSUME Inv, HashCheck PROVE Inv'
<1> USE DEF Inv, HashCheck, worldVars, settleVars
<1>1. job # None /\ job \in Jobs /\ job.link \in Names \cup {Gone, None} /\ job' = None
  BY DEF TypeOK, Jobs
<1>2. holds' \in [Names \cup {Gone} -> Int]
  BY <1>1 DEF TypeOK
<1>3. TypeOK'
  BY <1>1, <1>2 DEF TypeOK, WorldTypeOK
<1>4. Queues'
  BY DEF Queues, Announced
<1>5. Control'
  BY <1>1 DEF Control
<1>6. Flushing'
  BY DEF Flushing, Waiting
<1>7. Accounted'
  <2>1. Cardinality(Waiting) \in Nat
    BY Constants, FS_Subset, FS_CardinalityType DEF Waiting
  <2>2. Waiting' = Waiting
    BY DEF Waiting
  <2> QED BY <1>1, <2>1, <2>2 DEF Accounted, TypeOK
<1> QED BY <1>3, <1>4, <1>5, <1>6, <1>7

LEMMA StopInv == ASSUME Inv, Stop PROVE Inv'
<1> USE DEF Inv, Stop, worldVars, settleVars, shadowVars
<1>1. TypeOK'
  BY DEF TypeOK, WorldTypeOK
<1>2. Queues'
  BY DEF Queues, Announced
<1>3. Control'
  BY DEF Control
<1>4. Flushing'
  BY DEF Flushing, Waiting
<1>5. Accounted'
  BY DEF Accounted, Waiting
<1> QED BY <1>1, <1>2, <1>3, <1>4, <1>5

LEMMA TickInv == ASSUME Inv, Tick PROVE Inv'
<1> USE DEF Inv, Tick, worldVars, settleVars, shadowVars
<1>1. readAge' \in 0..Settle /\ age' \in [Names -> 0..Settle]
  <2>1. \A n \in 0..Settle : Cap(n + 1) \in 0..Settle
    BY Constants DEF Cap
  <2>2. readAge \in 0..Settle /\ \A n \in Names : age[n] \in 0..Settle
    BY DEF TypeOK
  <2> QED BY <2>1, <2>2, Constants
<1>2. TypeOK'
  BY <1>1 DEF TypeOK, WorldTypeOK
<1>3. Queues'
  BY DEF Queues, Announced
<1>4. Control'
  BY DEF Control
<1>5. Flushing'
  BY DEF Flushing, Waiting
<1>6. Accounted'
  BY DEF Accounted, Waiting
<1> QED BY <1>2, <1>3, <1>4, <1>5, <1>6

(* What Process does with a close, and with an event that is none.         *)
LEMMA ProcessCloses ==
    ASSUME Inv, Process
    PROVE  LET e == Head(batch)
           IN /\ e \in Events /\ e.path \in Names
              /\ IF "close" \in e.mask
                 THEN /\ pending' = [pending EXCEPT ![e.path] = PendingClose(e)]
                      /\ PendingClose(e) \in Entries /\ PendingClose(e).id = regs + 1
                      /\ Waiting' = Waiting \cup {e.path} /\ regs' = regs + 1
                      /\ sent' = sent + (IF e.path \in Waiting THEN 1 ELSE 0)
                 ELSE UNCHANGED <<pending, regs, sent>>
<1> DEFINE e == Head(batch)
<1>1. e \in Events /\ e.path \in Names /\ e.at \in Nat /\ e.ino \in Inodes \cup {None}
  <2>1. e \in Events
    BY TailDistinct DEF Inv, TypeOK, Queues, Process
  <2> QED BY <2>1 DEF Events
<1>2. CASE "close" \in e.mask
  <2>1. /\ pending' = [pending EXCEPT ![e.path] = PendingClose(e)] /\ regs' = regs + 1
        /\ sent' = sent + Cardinality(Superseded(e.path))
    BY <1>2 DEF Process
  <2>2. PendingClose(e) \in Entries /\ PendingClose(e).id = regs + 1
    BY <1>1 DEF PendingClose, Entries, Linked, Inv, TypeOK, WorldTypeOK
  <2>3. Cardinality(Superseded(e.path)) = IF e.path \in Waiting THEN 1 ELSE 0
    BY <1>1, FS_EmptySet, FS_Singleton DEF Superseded, Waiting
  <2>4. Waiting' = Waiting \cup {e.path}
    BY <1>1, <2>1, <2>2, Constants DEF Waiting, Inv, TypeOK
  <2> QED BY <1>1, <1>2, <2>1, <2>2, <2>3, <2>4
<1>3. CASE "close" \notin e.mask
  BY <1>1, <1>3 DEF Process
<1> QED BY <1>2, <1>3

LEMMA ProcessInv == ASSUME Inv, Process PROVE Inv'
<1> USE DEF Inv
<1> DEFINE e == Head(batch)
<1>1. e \in Events /\ e.path \in Names
  BY ProcessCloses
<1>2. /\ batch # <<>> /\ batch \in Seq(Events) /\ Distinct(batch)
      /\ batch' = Tail(batch) /\ pc = "drain"
      /\ UNCHANGED <<worldVars, pc, ret, readAge, settleVars, job, stopReq>>
  BY DEF Process, TypeOK, Queues
<1>3. batch' \in Seq(Events) /\ Distinct(batch') /\ Range(batch') \subseteq Range(batch)
  BY <1>2, TailDistinct
<1>4. UNCHANGED <<inflight, queue>> /\ WorldTypeOK'
  BY <1>2 DEF worldVars, TypeOK, WorldTypeOK
<1>5. Queues'
  BY <1>3, <1>4 DEF Queues, Announced
<1>6. Control' /\ force # "stop"
  BY <1>2 DEF Control, Flushing, settleVars
<1>7. Flushing'
  BY <1>2, <1>6 DEF Flushing, settleVars
<1>8. /\ pending' \in [Names -> Entries \cup {None}] /\ regs' \in Nat /\ sent' \in Nat
      /\ \A n \in Names : pending'[n] # None => pending'[n].id \in 1..regs'
  <2>1. /\ pending \in [Names -> Entries \cup {None}] /\ regs \in Nat /\ sent \in Nat
        /\ \A n \in Names : pending[n] # None => pending[n].id \in 1..regs
    BY DEF TypeOK
  <2>2. CASE "close" \in e.mask
    <3>1. /\ pending' = [pending EXCEPT ![e.path] = PendingClose(e)]
          /\ PendingClose(e) \in Entries /\ PendingClose(e).id = regs + 1 /\ regs' = regs + 1
          /\ sent' = sent + (IF e.path \in Waiting THEN 1 ELSE 0)
      BY <2>2, ProcessCloses
    <3>2. /\ \A n \in Names : n # e.path => pending'[n] = pending[n]
          /\ pending'[e.path] = PendingClose(e)
      BY <1>1, <2>1, <3>1
    <3>3. \A n \in Names : pending'[n] # None => pending'[n].id \in 1..regs'
      BY <2>1, <3>1, <3>2
    <3>4. sent' \in Nat /\ regs' \in Nat
      BY <2>1, <3>1
    <3>5. pending' \in [Names -> Entries \cup {None}]
      BY <2>1, <3>1
    <3> QED BY <3>3, <3>4, <3>5
  <2>3. CASE "close" \notin e.mask
    BY <2>1, <2>3, ProcessCloses
  <2> QED BY <2>2, <2>3
<1>9. /\ age' \in [Names -> 0..Settle] /\ holds' \in [Names \cup {Gone} -> Int]
      /\ overflow' \in BOOLEAN /\ bumped' \subseteq Names
  <2>1. age' = age \/ age' = [age EXCEPT ![e.path] = readAge]
    BY DEF Process
  <2>2. holds' = holds \/ holds' = [holds EXCEPT ![e.path] = @ - 1]
    BY DEF Process
  <2>3. bumped' = bumped \/ bumped' = bumped \cup {e.path}
    BY DEF Process
  <2>4. overflow' = (overflow \/ e = Overflow)
    BY DEF Process
  <2>5. age \in [Names -> 0..Settle] /\ readAge \in 0..Settle /\ bumped \subseteq Names
        /\ holds \in [Names \cup {Gone} -> Int]
    BY DEF TypeOK
  <2>6. overflow' \in BOOLEAN
    BY <2>4
  <2>7. age' \in [Names -> 0..Settle] /\ bumped' \subseteq Names
    BY <1>1, <2>1, <2>3, <2>5
  <2>8. holds' \in [Names \cup {Gone} -> Int]
    BY <1>1, <2>2, <2>5
  <2> QED BY <2>6, <2>7, <2>8
<1>10. TypeOK'
  BY <1>2, <1>3, <1>4, <1>8, <1>9 DEF TypeOK, settleVars
<1>11. Accounted'
  <2>1. IsFiniteSet(Waiting) /\ Cardinality(Waiting) \in Nat
    BY Constants, FS_Subset, FS_CardinalityType DEF Waiting
  <2>2. CASE "close" \in e.mask
    <3>1. Cardinality(Waiting') = IF e.path \in Waiting THEN Cardinality(Waiting)
                                  ELSE Cardinality(Waiting) + 1
      BY <2>1, <2>2, ProcessCloses, FS_AddElement
    <3>2. regs' = regs + 1 /\ sent' = sent + (IF e.path \in Waiting THEN 1 ELSE 0) /\ job' = job
      BY <1>2, <2>2, ProcessCloses
    <3> QED BY <2>1, <3>1, <3>2 DEF Accounted, TypeOK
  <2>3. CASE "close" \notin e.mask
    BY <1>2, <2>3, ProcessCloses DEF Accounted, Waiting
  <2> QED BY <2>2, <2>3
<1> QED BY <1>5, <1>6, <1>7, <1>10, <1>11

(* Start queues opens of different files.                                  *)
LEMMA StartQueue ==
    ASSUME Inv, Start
    PROVE  /\ queue' \in Seq(Events) /\ Distinct(queue')
           /\ \A e \in Range(queue') : e # Overflow =>
                 e.own /\ e.mask = {"open"} /\ e.ino \in Inodes
<1> DEFINE found == {p \in Paths : ino[p] # None}
           c == Cardinality(found)
           opens(w) == [n \in DOMAIN w |-> OwnOpen(w[n], ino[w[n]])]
<1>1. PICK w \in Bijection(1..c, found) :
         queue' = IF Len(opens(w)) <= QueueMax THEN opens(w)
                  ELSE Append(SubSeq(opens(w), 1, QueueMax), Overflow)
  BY DEF Start
<1>2. c \in Nat
  <2>1. IsFiniteSet(found)
    BY FS_Subset, WorldAssumption
  <2> QED BY <2>1, FS_CardinalityType
<1>3. w \in [1..c -> found] /\ \A m, n \in 1..c : w[m] = w[n] => m = n
  BY <1>1 DEF Bijection, Injection, IsInjective
<1> DEFINE q == opens(w)
<1>4. \A p \in found : p \in Names /\ ino[p] \in Inodes
  BY Constants DEF Inv, TypeOK, WorldTypeOK
<1>5. \A n \in 1..c : /\ q[n] \in Events /\ q[n].own /\ q[n].mask = {"open"}
                      /\ q[n].ino \in Inodes /\ q[n].path = w[n]
  BY <1>3, <1>4, EventTypes
<1>6. DOMAIN q = 1..c
  BY <1>3
<1>7. q \in [1..c -> Events]
  BY <1>5, <1>6
<1> HIDE DEF q, c, found
<1>8. q \in Seq(Events) /\ Len(q) = c
  BY <1>2, <1>7
<1>9. \A m, n \in 1..c : Same(q[m], q[n]) => m = n
  BY <1>3, <1>5 DEF Same
<1>10. CASE c <= QueueMax
  <2>1. queue' = q
    BY <1>1, <1>8, <1>10 DEF q
  <2> QED BY <1>5, <1>6, <1>8, <1>9, <2>1 DEF Distinct, Range
<1>11. CASE ~(c <= QueueMax)
  <2> DEFINE s == SubSeq(q, 1, QueueMax)
             r == Append(s, Overflow)
  <2>1. queue' = r
    BY <1>1, <1>8, <1>11 DEF q
  <2>2. QueueMax \in Nat /\ QueueMax < c
    BY <1>2, <1>11, WorldAssumption
  <2>3. s \in Seq(Events) /\ Len(s) = QueueMax /\ \A n \in 1..QueueMax : s[n] = q[n]
    <3>1. \A n \in 1..QueueMax : q[n] \in Events
      BY <1>2, <1>5, <2>2
    <3>2. /\ s \in Seq(Events) /\ Len(s) = IF 1 <= QueueMax THEN QueueMax - 1 + 1 ELSE 0
          /\ \A n \in 1..(QueueMax - 1 + 1) : s[n] = q[1 + n - 1]
      BY <2>2, <3>1, SubSeqProperties
    <3> QED BY <2>2, <3>2
  <2> HIDE DEF s
  <2>4. /\ r \in Seq(Events) /\ DOMAIN r = 1..(QueueMax + 1) /\ r[QueueMax + 1] = Overflow
        /\ \A n \in 1..QueueMax : r[n] = q[n]
    BY <2>2, <2>3, EventTypes
  <2> HIDE DEF r
  <2>5. \A n \in 1..(QueueMax + 1) : n \in 1..c /\ (n \in 1..QueueMax \/ n = QueueMax + 1)
    BY <1>2, <2>2
  <2>6. \A n \in 1..QueueMax : n \in 1..c
    BY <1>2, <2>2
  <2>7. Distinct(r)
    <3> SUFFICES ASSUME NEW m \in DOMAIN r, NEW n \in DOMAIN r, Same(r[m], r[n])
                 PROVE  m = n
      BY DEF Distinct
    <3> QED BY <1>5, <1>9, <2>4, <2>5, EventTypes DEF Same
  <2>8. \A e \in Range(r) : e # Overflow => e.own /\ e.mask = {"open"} /\ e.ino \in Inodes
    BY <1>5, <2>4, <2>5, <2>6 DEF Range
  <2> QED BY <2>1, <2>4, <2>7, <2>8
<1> QED BY <1>10, <1>11

LEMMA StartInv == ASSUME Inv, Start PROVE Inv'
<1> USE DEF Inv
<1>1. TypeOK'
  BY StartQueue DEF Start, settleVars, TypeOK, WorldTypeOK
<1>2. Queues'
  <2>1. inflight' = inflight /\ batch' = batch
    BY DEF Start
  <2>2. \A e \in Range(queue') : /\ e.own => e.mask = {"open"}
                                 /\ e # Overflow => e.ino # None /\ "overflow" \notin e.mask
    BY StartQueue, EventTypes, Constants
  <2>3. /\ Distinct(batch) /\ \A e \in Range(inflight) : ~e.own /\ e.ino # None /\ "overflow" \notin e.mask
        /\ \A e \in Range(batch) : /\ e.own => e.mask = {"open"}
                                   /\ e # Overflow => e.ino # None /\ "overflow" \notin e.mask
    BY DEF Queues, Announced
  <2>4. Distinct(queue')
    BY StartQueue
  <2>5. Distinct(batch')
    BY <2>1, <2>3
  <2>6. \A e \in Range(inflight') : ~e.own /\ e.ino # None /\ "overflow" \notin e.mask
    BY <2>1, <2>3
  <2>7. \A e \in Range(batch') : /\ e.own => e.mask = {"open"}
                                 /\ e # Overflow => e.ino # None /\ "overflow" \notin e.mask
    BY <2>1, <2>3
  <2>8. \A e \in Announced' : /\ e.own => e.mask = {"open"}
                              /\ e # Overflow => e.ino # None /\ "overflow" \notin e.mask
    BY <2>2, <2>7 DEF Announced
  <2> QED BY <2>4, <2>5, <2>6, <2>8 DEF Queues
<1>3. Control'
  BY DEF Start, settleVars, Control
<1>4. Flushing'
  BY DEF Start, settleVars, Flushing, Waiting
<1>5. Accounted'
  BY DEF Start, settleVars, Accounted, Waiting
<1> QED BY <1>1, <1>2, <1>3, <1>4, <1>5

(* What a call announces.                                                  *)
LEMMA AgentEvents ==
    ASSUME Inv, Agent(Held)
    PROVE  /\ WorldTypeOK' /\ queue' = queue
           /\ \A e \in Range(inflight') : ~e.own /\ e.ino # None /\ "overflow" \notin e.mask
<1> USE Constants DEF Inv
<1> DEFINE Good(s) == /\ s \in Seq(Events)
                      /\ \A e \in Range(s) : ~e.own /\ e.ino # None /\ "overflow" \notin e.mask
<1>1. ASSUME NEW p \in Paths, NEW i \in Inodes, NEW m \in SUBSET (Bits \ {"overflow"}), NEW a \in Nat
      PROVE  LET e == Event(p, i, m, a)
             IN e \in Events /\ ~e.own /\ e.ino # None /\ "overflow" \notin e.mask
  BY DEF Event, Events
<1>2. \A e \in Events : ~e.own /\ e.ino # None /\ "overflow" \notin e.mask => Good(<<e>>)
  BY DEF Range
<1>3. ASSUME NEW e \in Events, ~e.own /\ e.ino # None /\ "overflow" \notin e.mask,
             NEW d \in Events, ~d.own /\ d.ino # None /\ "overflow" \notin d.mask
      PROVE  Good(<<e, d>>)
  <2>1. <<e, d>> \in Seq(Events) /\ DOMAIN <<e, d>> = {1, 2}
    OBVIOUS
  <2>2. Range(<<e, d>>) = {e, d}
    BY <2>1 DEF Range
  <2> QED BY <1>3, <2>1, <2>2
<1>4. /\ ino \in [Paths -> Inodes \cup {None}] /\ content \in [Inodes -> Nat]
      /\ wr # None => wr \in Files /\ wr.path \in Paths /\ wr.ino \in Inodes
      /\ ops \in 0..MaxOps /\ fresh \in Nat /\ revisions \subseteq Nat /\ moved \subseteq Inodes
      /\ queue \in Seq(Events) /\ MaxOps \in Nat
  BY WorldAssumption DEF TypeOK, WorldTypeOK, Files
<1>5. \A m \in {{"create", "open"}, {"open", "modify"}, {"open"}, {"modify"}, {"close"}, {"delete"},
                {"movedFrom"}, {"movedTo"}} : m \in SUBSET (Bits \ {"overflow"})
  BY DEF Bits
<1>6. \A op : Call(op) => ops' \in 0..MaxOps
  BY <1>4 DEF Call
<1>7. \A p \in Paths, i \in Inodes : [path |-> p, ino |-> i] \in Files
  BY DEF Files
<1> HIDE DEF Good
<1>8. ASSUME NEW p \in Paths, Create(p, Held) PROVE WorldTypeOK' /\ queue' = queue /\ Good(inflight')
  <2>1. PICK i \in Inodes :
          /\ ino' = [ino EXCEPT ![p] = i] /\ content' = [content EXCEPT ![i] = 0]
          /\ wr' = [path |-> p, ino |-> i] /\ inflight' = <<Event(p, i, {"create", "open"}, 0)>>
    BY <1>8 DEF Create
  <2>2. ops' \in 0..MaxOps /\ UNCHANGED <<queue, revisions, moved, fresh>>
    BY <1>6, <1>8 DEF Create
  <2>3. Good(inflight')
    BY <1>1, <1>2, <1>5, <2>1
  <2>4. ino' \in [Paths -> Inodes \cup {None}] /\ content' \in [Inodes -> Nat] /\ wr' \in Files
    BY <1>4, <1>7, <2>1
  <2> QED BY <1>4, <2>2, <2>3, <2>4 DEF WorldTypeOK, Good
<1>9. ASSUME NEW p \in Paths, Open(p) PROVE WorldTypeOK' /\ queue' = queue /\ Good(inflight')
  BY <1>1, <1>2, <1>4, <1>5, <1>6, <1>7, <1>9 DEF Open, WorldTypeOK, Good
<1>10. ASSUME NEW p \in Paths, Read(p) PROVE WorldTypeOK' /\ queue' = queue /\ Good(inflight')
  BY <1>1, <1>2, <1>4, <1>5, <1>6, <1>10 DEF Read, WorldTypeOK, Good
<1>11. ASSUME NEW p \in Paths, Delete(p) PROVE WorldTypeOK' /\ queue' = queue /\ Good(inflight')
  BY <1>1, <1>2, <1>4, <1>5, <1>6, <1>11 DEF Delete, WorldTypeOK, Good
<1>12. ASSUME Write PROVE WorldTypeOK' /\ queue' = queue /\ Good(inflight')
  BY <1>1, <1>2, <1>4, <1>5, <1>6, <1>12 DEF Write, WorldTypeOK, Good
<1>13. ASSUME Close PROVE WorldTypeOK' /\ queue' = queue /\ Good(inflight')
  <2>1. /\ wr # None /\ wr' = None /\ revisions' = revisions \cup {content[wr.ino]}
        /\ inflight' = <<Event(wr.path, wr.ino, {"close"}, content[wr.ino])>>
        /\ UNCHANGED <<ino, content, queue, moved, ops, fresh>>
    BY <1>13 DEF Close
  <2>2. content[wr.ino] \in Nat /\ wr.path \in Paths /\ wr.ino \in Inodes
    BY <1>4, <2>1
  <2>3. Good(inflight')
    BY <1>1, <1>2, <1>5, <2>1, <2>2
  <2> QED BY <1>4, <2>1, <2>2, <2>3 DEF WorldTypeOK, Good
<1>14. ASSUME NEW p \in Paths, NEW q \in Paths, Rename(p, q)
       PROVE  WorldTypeOK' /\ queue' = queue /\ Good(inflight')
  BY <1>1, <1>3, <1>4, <1>5, <1>6, <1>14 DEF Rename, WorldTypeOK, Good
<1>15. \/ \E p \in Paths : Create(p, Held) \/ Open(p) \/ Read(p) \/ Delete(p)
       \/ Write \/ Close
       \/ \E p, q \in Paths : Rename(p, q)
  BY DEF Agent
<1>16. WorldTypeOK' /\ queue' = queue /\ Good(inflight')
  <2>1. CASE \E p \in Paths : Create(p, Held) \/ Open(p) \/ Read(p) \/ Delete(p)
    BY <1>8, <1>9, <1>10, <1>11, <2>1
  <2>2. CASE Write \/ Close
    BY <1>12, <1>13, <2>2
  <2>3. CASE \E p, q \in Paths : Rename(p, q)
    BY <1>14, <2>3
  <2> QED BY <1>15, <2>1, <2>2, <2>3
<1> QED BY <1>16 DEF Good

LEMMA AgentInv == ASSUME Inv, Agent(Held), pc # "start", UNCHANGED obsVars PROVE Inv'
<1> USE DEF Inv, obsVars
<1>1. /\ WorldTypeOK' /\ queue' = queue
      /\ \A e \in Range(inflight') : ~e.own /\ e.ino # None /\ "overflow" \notin e.mask
  BY AgentEvents
<1>2. TypeOK'
  BY <1>1 DEF TypeOK
<1>3. Queues'
  BY <1>1 DEF Queues, Announced
<1>4. Control'
  BY DEF Control
<1>5. Flushing'
  BY DEF Flushing, Waiting
<1>6. Accounted'
  BY DEF Accounted, Waiting
<1> QED BY <1>2, <1>3, <1>4, <1>5, <1>6

(* What an announcement does to the queue.                                 *)
LEMMA NotifyTakes ==
    ASSUME Inv, Notify
    PROVE  LET h == Head(inflight)
           IN /\ h \in Events /\ h \in Range(inflight) /\ ~h.own /\ h.ino \in Inodes
              /\ inflight' \in Seq(Events)
              /\ Range(inflight) = {h} \cup Range(inflight')
              /\ queue' \in Seq(Events) /\ Distinct(queue')
              /\ \E e \in Events :
                    /\ ~e.own /\ e.ino = h.ino /\ e.mask = h.mask /\ e.at = h.at
                    /\ e.path = h.path \/ h.mask \cap Nameless # {}
                    /\ \/ Range(queue') = Range(queue) \cup {Overflow}
                       \/ \E x \in Events : Takes(queue, e, queue', x)
<1> DEFINE h == Head(inflight)
<1>1. /\ inflight \in Seq(Events) /\ inflight # <<>> /\ inflight' = Tail(inflight)
      /\ queue \in Seq(Events) /\ Distinct(queue)
      /\ \A x \in Range(queue) : x # Overflow => x.ino # None
  BY DEF Notify, Inv, TypeOK, WorldTypeOK, Queues, Announced
<1>2. h \in Events /\ inflight' \in Seq(Events) /\ Range(inflight) = {h} \cup Range(inflight')
  BY <1>1, TailElements, RangeElements
<1>3. ~h.own /\ h.ino # None /\ h.ino \in Inodes /\ h.path \in Names
  BY <1>2 DEF Inv, Queues, Events
<1>4. PICK n \in Resolved(h) : queue' = Enqueue(queue, [h EXCEPT !.path = n])
  BY DEF Notify
<1>5. n \in Names /\ (n = h.path \/ h.mask \cap Nameless # {})
  BY <1>3, <1>4, Constants DEF Resolved
<1> DEFINE e == [h EXCEPT !.path = n]
<1>6. /\ e \in Events /\ ~e.own /\ e.ino = h.ino /\ e.mask = h.mask /\ e.at = h.at
      /\ e.path = h.path \/ h.mask \cap Nameless # {}
  BY <1>2, <1>3, <1>5 DEF Events
<1> HIDE DEF e, h
<1>7. queue' = Enqueue(queue, e) /\ e.ino # None
  BY <1>3, <1>4, <1>6 DEF e
<1>8. /\ queue' \in Seq(Events) /\ Distinct(queue')
      /\ \/ Range(queue') = Range(queue) \cup {Overflow}
         \/ \E x \in Events : Takes(queue, e, queue', x)
  BY <1>1, <1>6, <1>7, EnqueueTakes
<1>9. h \in Range(inflight)
  BY <1>2
<1> QED BY <1>2, <1>3, <1>6, <1>8, <1>9 DEF h

LEMMA NotifyInv == ASSUME Inv, Notify, pc # "start", UNCHANGED obsVars PROVE Inv'
<1> USE DEF Inv, obsVars
<1> DEFINE h == Head(inflight)
<1>1. /\ h \in Events /\ h \in Range(inflight) /\ ~h.own /\ h.ino \in Inodes
      /\ inflight' \in Seq(Events) /\ Range(inflight) = {h} \cup Range(inflight')
      /\ queue' \in Seq(Events) /\ Distinct(queue')
  BY NotifyTakes
<1>2. PICK e \in Events :
         /\ ~e.own /\ e.ino = h.ino /\ e.mask = h.mask
         /\ \/ Range(queue') = Range(queue) \cup {Overflow}
            \/ \E x \in Events : Takes(queue, e, queue', x)
  BY NotifyTakes
<1> HIDE DEF h
<1>3. e.ino # None /\ "overflow" \notin e.mask
  BY <1>1, <1>2, Constants DEF Queues
<1>4. \A y \in Range(queue') :
         /\ y.own => y.mask = {"open"}
         /\ y # Overflow => y.ino # None /\ "overflow" \notin y.mask
  <2>1. \A y \in Range(queue) :
           /\ y.own => y.mask = {"open"}
           /\ y # Overflow => y.ino # None /\ "overflow" \notin y.mask
    BY DEF Queues, Announced
  <2>2. CASE Range(queue') = Range(queue) \cup {Overflow}
    BY <2>1, <2>2, EventTypes
  <2>3. ASSUME NEW x \in Events, Takes(queue, e, queue', x)
        PROVE  \A y \in Range(queue') :
                  /\ y.own => y.mask = {"open"}
                  /\ y # Overflow => y.ino # None /\ "overflow" \notin y.mask
    <3>1. ~x.own /\ x.ino # None
      BY <1>2, <1>3, <2>3 DEF Takes, Same
    <3>2. \A y \in Range(queue) : Same(y, e) => y # Overflow
      BY <1>3, EventTypes DEF Same
    <3>3. "overflow" \notin x.mask
      BY <1>3, <2>1, <2>3, <3>2 DEF Takes
    <3> QED BY <2>1, <2>3, <3>1, <3>3 DEF Takes
  <2> QED BY <1>2, <2>2, <2>3
<1>5. UNCHANGED <<ino, content, wr, revisions, moved, ops, fresh>>
  BY DEF Notify
<1>6. TypeOK'
  BY <1>1, <1>5 DEF TypeOK, WorldTypeOK
<1>7. Queues'
  BY <1>1, <1>4 DEF Queues, Announced
<1>8. Control'
  BY DEF Control
<1>9. Flushing'
  BY DEF Flushing, Waiting
<1>10. Accounted'
  BY DEF Accounted, Waiting
<1> QED BY <1>6, <1>7, <1>8, <1>9, <1>10

(* The invariant holds initially, and every step preserves it.             *)
LEMMA InitInv == Init => Inv
<1> SUFFICES ASSUME Init PROVE Inv
  OBVIOUS
<1>0. /\ wr = None /\ inflight = <<>> /\ queue = <<>> /\ moved = {} /\ ops = 0 /\ fresh = 1
  BY DEF Init, WorldInit
<1> USE DEF Init, WorldInit
<1>1. Waiting = {}
  BY DEF Waiting
<1>2. /\ ino \in [Paths -> Inodes \cup {None}] /\ content \in [Inodes -> Nat]
      /\ revisions \subseteq Nat
  <2>1. PICK f \in [Existing -> Inodes] :
          ino = [p \in Paths |-> IF p \in Existing THEN f[p] ELSE None]
    OBVIOUS
  <2>2. ino \in [Paths -> Inodes \cup {None}]
    BY <2>1
  <2>3. content \in [Inodes -> Nat]
    OBVIOUS
  <2>4. Linked \subseteq Inodes
    BY <2>2 DEF Linked
  <2> QED BY <2>2, <2>3, <2>4
<1>3. TypeOK
  <2> HIDE DEF Init, WorldInit
  <2>1. WorldTypeOK
    BY <1>0, <1>2, EmptyQueue, WorldAssumption DEF WorldTypeOK
  <2> USE DEF Init, WorldInit
  <2>2. /\ readAge \in 0..Settle /\ age \in [Names -> 0..Settle]
        /\ holds \in [Names \cup {Gone} -> Int] /\ batch \in Seq(Events)
    BY EmptyQueue, Constants
  <2>3. /\ pending \in [Names -> Entries \cup {None}]
        /\ \A n \in Names : pending[n] # None => pending[n].id \in 1..regs
    OBVIOUS
  <2> QED BY <2>1, <2>2, <2>3 DEF TypeOK
<1>4. Queues
  BY EmptyQueue DEF Queues, Announced
<1>5. Control
  BY DEF Control
<1>6. Flushing
  BY <1>1 DEF Flushing
<1>7. Accounted
  BY <1>1, FS_EmptySet DEF Accounted
<1> QED BY <1>3, <1>4, <1>5, <1>6, <1>7 DEF Inv

LEMMA NextInv == Inv /\ [Next]_vars => Inv'
<1> SUFFICES ASSUME Inv, [Next]_vars PROVE Inv'
  OBVIOUS
<1>1. CASE Start
  BY <1>1, StartInv
<1>2. CASE ReadLoop
  BY <1>2, PollInv, PollFailsInv, DrainReadInv, DrainDoneInv, ProcessInv, SkipUnsettledInv, TakeSettledInv,
     ResolveDoneInv, HashNoFDInv, HashLinkInv, HashOpenInv, HashOpenFailsInv, HashReadInv,
     HashCheckInv DEF ReadLoop
<1>3. CASE World
  BY <1>3, AgentInv, NotifyInv DEF World
<1>4. CASE Stop
  BY <1>4, StopInv
<1>5. CASE Tick
  BY <1>5, TickInv
<1>6. CASE UNCHANGED vars
  <2> USE <1>6 DEF Inv, vars, worldVars, obsVars, settleVars, shadowVars
  <2>1. TypeOK'
    BY DEF TypeOK, WorldTypeOK
  <2>2. Queues' /\ Control' /\ Flushing' /\ Accounted'
    BY DEF Queues, Announced, Control, Flushing, Waiting, Accounted
  <2> QED BY <2>1, <2>2
<1> QED BY <1>1, <1>2, <1>3, <1>4, <1>5, <1>6 DEF Next

(* The invariant holds in every state of every behaviour.                  *)
THEOREM Invariance == Spec => []Inv
BY InitInv, NextInv, PTL DEF Spec

(* Every variable has its type; an entry of pendingCloses has the number   *)
(* of a registerClose that happened.                                       *)
THEOREM TypeCorrect == Spec => []TypeOK
<1>1. Inv => TypeOK
  BY DEF Inv
<1> QED BY <1>1, Invariance, PTL

(* registerClose, hashSettledFD and the flush of Stop lose no close and    *)
(* emit none twice; nor does a flush after a failed poll, but it leaves    *)
(* what it reads itself.                                                   *)
THEOREM ClosesAccountedHolds == Spec => []ClosesAccounted
<1>1. Inv => ClosesAccounted
  <2> SUFFICES ASSUME Inv PROVE ClosesAccounted
    OBVIOUS
  <2>1. pc = "stopped" /\ force = "stop" => Waiting = {}
    BY DEF Inv, Flushing
  <2> QED BY <2>1 DEF Inv, Accounted, Waiting, ClosesAccounted
<1> QED BY <1>1, Invariance, PTL

-----------------------------------------------------------------------------
(***************************************************************************)
(* The hash of a close.                                                    *)
(***************************************************************************)

LEMMA OnUnion ==
    ASSUME NEW S, NEW T, NEW p, NEW i
    PROVE  /\ On(S \cup T, p, i) = On(S, p, i) \cup On(T, p, i)
           /\ Closing(S \cup T, p, i) = Closing(S, p, i) \cup Closing(T, p, i)
           /\ Closing(S, p, i) \subseteq On(S, p, i)
           /\ Closing(S, p, i) = {e \in On(S, p, i) : "close" \in e.mask}
BY DEF On, Closing

LEMMA OnUnread ==
    ASSUME NEW p, NEW i
    PROVE  /\ On(Unread, p, i) = On(Range(inflight), p, i) \cup On(Range(queue), p, i)
                                   \cup On(Range(batch), p, i)
           /\ On(Announced, p, i) = On(Range(queue), p, i) \cup On(Range(batch), p, i)
           /\ On(Range(inflight) \cup Range(queue), p, i)
                = On(Range(inflight), p, i) \cup On(Range(queue), p, i)
BY DEF On, Unread, Announced

(* Steps that leave the files, their announcements and the closes alone.   *)
LEMMA QuietStep ==
    ASSUME HashInv,
           UNCHANGED <<ino, content, wr, inflight, moved, batch, pending>>,
           \A p, i : On(Range(queue'), p, i) = On(Range(queue), p, i),
           Lost => Lost',
           job' # None => job # None /\ job'.path = job.path /\ job'.ino = job.ino
    PROVE  /\ Kinds' /\ OneName'
           /\ ~Lost' => LastClose'
           /\ ~Lost' /\ UNCHANGED <<readAge, age>> => WriterSeen'
           /\ \A p, i : /\ On(Unread, p, i)' = On(Unread, p, i)
                        /\ On(Announced, p, i)' = On(Announced, p, i)
<1>1. \A p, i : /\ On(Unread, p, i)' = On(Unread, p, i)
                /\ On(Announced, p, i)' = On(Announced, p, i)
                /\ On(Range(inflight) \cup Range(queue), p, i)'
                     = On(Range(inflight) \cup Range(queue), p, i)
                /\ On(Range(inflight), p, i)' = On(Range(inflight), p, i)
                /\ On(Range(batch), p, i)' = On(Range(batch), p, i)
  <2> TAKE p, i
  <2>1. /\ On(Unread', p, i) = On(Range(inflight'), p, i) \cup On(Range(queue'), p, i)
                                   \cup On(Range(batch'), p, i)
        /\ On(Announced', p, i) = On(Range(queue'), p, i) \cup On(Range(batch'), p, i)
        /\ On(Range(inflight') \cup Range(queue'), p, i)
             = On(Range(inflight'), p, i) \cup On(Range(queue'), p, i)
    BY DEF On, Unread, Announced
  <2>2. On(Range(queue'), p, i) = On(Range(queue), p, i)
    OBVIOUS
  <2>3. On(Range(inflight'), p, i) = On(Range(inflight), p, i)
    OBVIOUS
  <2>4. On(Range(batch'), p, i) = On(Range(batch), p, i)
    OBVIOUS
  <2>5. /\ On(Unread, p, i) = On(Range(inflight), p, i) \cup On(Range(queue), p, i)
                                   \cup On(Range(batch), p, i)
        /\ On(Announced, p, i) = On(Range(queue), p, i) \cup On(Range(batch), p, i)
        /\ On(Range(inflight) \cup Range(queue), p, i)
             = On(Range(inflight), p, i) \cup On(Range(queue), p, i)
    BY OnUnread
  <2> QED BY <2>1, <2>2, <2>3, <2>4, <2>5
<1>2. Kinds'
  BY DEF HashInv, Kinds
<1>3. OneName'
  <2>1. \A p, i : Refers(p, i)' => Refers(p, i)
    BY <1>1 DEF Refers
  <2> QED BY <2>1 DEF HashInv, OneName
<1>4. ASSUME ~Lost' PROVE LastClose'
  <2>1. LastClose
    BY <1>4 DEF HashInv
  <2>2. \A p, i : /\ Closing(Range(inflight'), p, i) = Closing(Range(inflight), p, i)
                  /\ Closing(Range(queue'), p, i) = Closing(Range(queue), p, i)
                  /\ Closing(Range(batch'), p, i) = Closing(Range(batch), p, i)
    BY DEF Closing
  <2> QED BY <2>1, <2>2 DEF LastClose, Untouched
<1>5. ASSUME ~Lost', UNCHANGED <<readAge, age>> PROVE WriterSeen'
  <2>1. WriterSeen
    BY <1>5 DEF HashInv
  <2> QED BY <1>1, <1>5, <2>1 DEF WriterSeen
<1> QED BY <1>1, <1>2, <1>3, <1>4, <1>5

(* Steps of readLoop while no close is being hashed.                       *)
LEMMA IdleHash ==
    ASSUME HashInv, job = None, job' = None,
           UNCHANGED <<worldVars, batch, readAge, age, pending, overflow, emitted>>
    PROVE  HashInv'
<1>1. Lost' = Lost /\ UNCHANGED <<ino, content, wr, inflight, queue, moved>>
  BY DEF Lost, worldVars
<1>2. Kinds' /\ OneName' /\ (~Lost' => LastClose' /\ WriterSeen')
  <2>1. \A p, i : On(Range(queue'), p, i) = On(Range(queue), p, i)
    BY <1>1
  <2> QED BY <1>1, <2>1, QuietStep
<1>3. ChangeSeen'
  BY DEF ChangeSeen
<1>4. ~Lost' => HashAtClose'
  BY <1>1 DEF HashInv, HashAtClose
<1> QED BY <1>2, <1>3, <1>4 DEF HashInv

LEMMA PollHash == ASSUME Inv, HashInv, Poll PROVE HashInv'
<1>1. job = None
  BY DEF Poll, Inv, TypeOK
<1> QED BY <1>1, IdleHash DEF Poll

LEMMA PollFailsHash == ASSUME Inv, HashInv, PollFails PROVE HashInv'
<1>1. job = None
  BY DEF PollFails, Inv, TypeOK
<1> QED BY <1>1, IdleHash DEF PollFails

LEMMA SkipUnsettledHash == ASSUME Inv, HashInv, NEW n \in Names, SkipUnsettled(n) PROVE HashInv'
<1>1. job = None
  BY DEF SkipUnsettled, Inv, TypeOK
<1> QED BY <1>1, IdleHash DEF SkipUnsettled

LEMMA ResolveDoneHash == ASSUME Inv, HashInv, ResolveDone PROVE HashInv'
<1>1. job = None
  BY DEF ResolveDone, Inv, TypeOK
<1> QED BY <1>1, IdleHash DEF ResolveDone

(* Steps that hash a close, and others while one is being hashed.          *)
LEMMA BusyHash ==
    ASSUME HashInv, job' # None => job # None /\ job'.path = job.path /\ job'.ino = job.ino,
           UNCHANGED <<worldVars, batch, readAge, age, pending, overflow>>,
           ~Lost => ChangeSeen' /\ HashAtClose'
    PROVE  HashInv'
<1>1. Lost' = Lost /\ UNCHANGED <<ino, content, wr, inflight, queue, moved>>
  BY DEF Lost, worldVars
<1>2. Kinds' /\ OneName' /\ (~Lost' => LastClose' /\ WriterSeen')
  <2>1. \A p, i : On(Range(queue'), p, i) = On(Range(queue), p, i)
    BY <1>1
  <2> QED BY <1>1, <2>1, QuietStep
<1> QED BY <1>1, <1>2 DEF HashInv

LEMMA HashNoFDHash == ASSUME Inv, HashInv, HashNoFD PROVE HashInv'
<1>1. /\ job # None /\ job \in Jobs /\ job'.path = job.path /\ job'.ino = job.ino /\ job'.failed
      /\ pc' = "drain" /\ UNCHANGED <<emitted, overflow, worldVars, batch>>
  BY DEF Inv, TypeOK, HashNoFD, Jobs
<1>2. ChangeSeen'
  BY <1>1 DEF ChangeSeen, Trusted
<1>3. ~Lost => HashAtClose'
  BY <1>1 DEF HashInv, HashAtClose, Lost, worldVars
<1> QED BY <1>1, <1>2, <1>3, BusyHash DEF HashNoFD

LEMMA HashOpenFailsHash == ASSUME Inv, HashInv, HashOpenFails PROVE HashInv'
<1>1. /\ job # None /\ job \in Jobs /\ job'.path = job.path /\ job'.ino = job.ino /\ job'.failed
      /\ pc' = "drain" /\ UNCHANGED <<emitted, overflow, worldVars, batch>>
  BY DEF Inv, TypeOK, HashOpenFails, Jobs
<1>2. ChangeSeen'
  BY <1>1 DEF ChangeSeen, Trusted
<1>3. ~Lost => HashAtClose'
  BY <1>1 DEF HashInv, HashAtClose, Lost, worldVars
<1> QED BY <1>1, <1>2, <1>3, BusyHash DEF HashOpenFails

LEMMA HashLinkHash == ASSUME Inv, HashInv, HashLink PROVE HashInv'
<1>1. /\ job # None /\ job \in Jobs /\ job'.path = job.path /\ job'.ino = job.ino
      /\ job'.at = job.at /\ job.ino # None /\ pc = "hash" /\ pc' = "open"
      /\ UNCHANGED <<emitted, overflow, worldVars, batch, bumped, Ending>>
  BY DEF Inv, TypeOK, HashLink, Jobs, Ending, settleVars
<1>2. ~Lost => ChangeSeen'
  <2>1. UNCHANGED <<content, moved, inflight, queue>>
    BY <1>1 DEF worldVars
  <2>2. On(Unread, job.path, job.ino)' = On(Unread, job.path, job.ino)
    <3>1. Unread' = Unread
      BY <1>1, <2>1 DEF Unread, Announced
    <3> QED BY <1>1, <3>1 DEF On
  <2>3. ~Lost => ChangeSeen
    BY DEF HashInv
  <2> QED BY <1>1, <2>1, <2>2, <2>3 DEF ChangeSeen, Trusted, Digested
<1>3. ~Lost => HashAtClose'
  BY <1>1 DEF HashInv, HashAtClose, Lost, worldVars
<1> QED BY <1>1, <1>2, <1>3, BusyHash DEF HashLink

LEMMA HashReadHash == ASSUME Inv, HashInv, HashRead PROVE HashInv'
<1>1. /\ job # None /\ job \in Jobs /\ job.ino # None /\ job.ino \in Inodes /\ pc = "read"
      /\ pc' = "drain" /\ ret' = "check"
      /\ UNCHANGED <<emitted, overflow, worldVars, batch, bumped, Ending>>
  BY DEF Inv, TypeOK, HashRead, Jobs, Control, Ending, settleVars
<1>2. /\ job'.path = job.path /\ job'.ino = job.ino /\ job'.at = job.at
      /\ ~job'.failed => /\ job'.digest = content[job.ino]
                         /\ job'.hurdles = {} => inflight = <<>> /\ job.ino \notin moved
  <2>1. CASE job' = [job EXCEPT !.failed = TRUE]
    BY <1>1, <2>1 DEF Jobs
  <2>2. CASE job' = [job EXCEPT !.digest = content[job.ino],
                                !.hurdles = (IF inflight # <<>> THEN {"call"} ELSE {})
                                    \cup (IF job.ino \in moved THEN {"rename"} ELSE {})]
    BY <1>1, <2>2 DEF Jobs
  <2> QED BY <2>1, <2>2 DEF HashRead
<1>3. ~Lost => ChangeSeen'
  <2> SUFFICES ASSUME ~Lost, ~Ending, Trusted', job'.digest # job'.at
               PROVE  job'.path \in bumped' \/ On(Announced, job.path, job.ino)' # {}
    BY <1>1, <1>2 DEF ChangeSeen
  <2>1. content[job.ino] # job.at /\ inflight = <<>> /\ job.ino \notin moved
    BY <1>2 DEF Trusted
  <2>2. job.path \in bumped \/ On(Unread, job.path, job.ino) # {}
    BY <1>1, <2>1 DEF HashInv, ChangeSeen
  <2>3. Unread = Announced
    BY <2>1, EmptyQueue DEF Unread
  <2>4. Announced' = Announced
    BY <1>1 DEF Announced, worldVars
  <2> QED BY <1>1, <1>2, <2>2, <2>3, <2>4 DEF On
<1>4. ~Lost => HashAtClose'
  BY <1>1 DEF HashInv, HashAtClose, Lost, worldVars
<1> QED BY <1>1, <1>2, <1>3, <1>4, BusyHash DEF HashRead

LEMMA HashCheckHash == ASSUME Inv, HashInv, HashCheck PROVE HashInv'
<1>1. job # None /\ job \in Jobs /\ job' = None /\ pc = "check"
  BY DEF Inv, TypeOK, HashCheck
<1>2. ChangeSeen'
  BY <1>1 DEF ChangeSeen
<1>3. ~Lost => HashAtClose'
  <2> SUFFICES ASSUME ~Lost, NEW e \in emitted', e.type = "close", e.hash # None, e.hurdles = {}
               PROVE  e.hash = e.ref
    BY DEF HashAtClose
  <2> DEFINE ok == ~job.failed /\ ~Raced
             new == Emission("close", job.path, IF ok THEN job.digest ELSE None, job.at, FALSE,
                             job.hurdles \cup (IF Ending THEN {"stop"} ELSE {}))
  <2>1. e \in emitted \/ e = new
    BY DEF HashCheck
  <2>2. CASE e \in emitted
    BY <2>2 DEF HashInv, HashAtClose
  <2>3. CASE e = new
    <3>1. /\ e.hash = IF ok THEN job.digest ELSE None
          /\ e.ref = job.at /\ e.hurdles = job.hurdles \cup (IF Ending THEN {"stop"} ELSE {})
      BY <2>3 DEF Emission
    <3>2. ok /\ job.hurdles = {} /\ ~Ending
      BY <3>1
    <3>3. ChangeSeen /\ Trusted /\ job.path \notin bumped
      BY <1>1, <3>2 DEF HashInv, Trusted, Digested, Raced
    <3>4. job.digest = job.at
      BY <1>1, <3>2, <3>3 DEF ChangeSeen
    <3> QED BY <3>1, <3>2, <3>4
  <2> QED BY <2>1, <2>2, <2>3
<1> QED BY <1>1, <1>2, <1>3, BusyHash DEF HashCheck

LEMMA StopHash == ASSUME Inv, HashInv, Stop PROVE HashInv'
<1>1. UNCHANGED <<worldVars, batch, readAge, age, pending, overflow, emitted, job>>
  BY DEF Stop
<1>2. ChangeSeen'
  BY DEF Stop, ChangeSeen, Ending, settleVars
<1>3. ~Lost => HashAtClose'
  BY <1>1 DEF HashInv, HashAtClose
<1> QED BY <1>1, <1>2, <1>3, BusyHash

LEMMA TickHash == ASSUME Inv, HashInv, Tick, FastWriter PROVE HashInv'
<1>1. /\ wr' = None
      /\ UNCHANGED <<ino, content, wr, inflight, queue, moved, batch, pending, overflow, emitted,
                     job, Ending, pc, ret, bumped>>
  BY DEF Tick, worldVars, Ending, settleVars
<1>2. Lost' = Lost
  BY <1>1 DEF Lost
<1>3. \A p, i : On(Range(queue'), p, i) = On(Range(queue), p, i)
  BY <1>1
<1>4. /\ Kinds' /\ OneName'
      /\ ~Lost' => LastClose'
      /\ \A p, i : /\ On(Unread, p, i)' = On(Unread, p, i)
                   /\ On(Announced, p, i)' = On(Announced, p, i)
  BY <1>1, <1>2, <1>3, QuietStep
<1>5. WriterSeen'
  BY <1>1 DEF WriterSeen
<1>6. ~Lost => ChangeSeen'
  BY <1>1, <1>4 DEF HashInv, ChangeSeen, Trusted, Digested
<1>7. ~Lost => HashAtClose'
  BY <1>1 DEF HashInv, HashAtClose
<1> QED BY <1>2, <1>4, <1>5, <1>6, <1>7 DEF HashInv

LEMMA DrainDoneHash == ASSUME Inv, HashInv, DrainDone PROVE HashInv'
<1>1. /\ UNCHANGED <<ino, content, wr, inflight, queue, moved, batch, pending, overflow, emitted,
                     job, Ending, bumped, age>>
      /\ batch = <<>> /\ (stopReq \/ queue = <<>>) /\ pc' = ret /\ readAge' = 0 /\ pc = "drain"
  BY DEF DrainDone, worldVars, Ending, settleVars
<1>2. Lost' = Lost
  BY <1>1 DEF Lost
<1>3. \A p, i : On(Range(queue'), p, i) = On(Range(queue), p, i)
  BY <1>1
<1>4. /\ Kinds' /\ OneName'
      /\ ~Lost' => LastClose'
  BY <1>1, <1>2, <1>3, QuietStep
<1>5. ~Lost => WriterSeen'
  <2>1. \A p, i : On(Range(batch), p, i) = {}
    BY <1>1, EmptyQueue DEF On
  <2> QED BY <1>1, <2>1 DEF HashInv, WriterSeen
<1>6. ~Lost => ChangeSeen'
  <2> SUFFICES ASSUME ~Lost, job # None, ~Ending PROVE ChangeSeen'
    BY <1>1 DEF ChangeSeen
  <2>1. ret = "check" /\ pc' = "check" /\ queue = <<>>
    BY <1>1 DEF Inv, TypeOK, Ending
  <2>2. \A p, i : On(Announced, p, i) = {}
    BY <1>1, <2>1, EmptyQueue DEF On, Announced
  <2>3. Trusted /\ job.digest # job.at => job.path \in bumped
    BY <2>2 DEF HashInv, ChangeSeen
  <2> QED BY <1>1, <2>1, <2>3 DEF ChangeSeen, Trusted, Digested
<1>7. ~Lost => HashAtClose'
  BY <1>1 DEF HashInv, HashAtClose
<1> QED BY <1>2, <1>4, <1>5, <1>6, <1>7 DEF HashInv

(* What the agent's events say is not changed by an own open.              *)
LEMMA OwnOpenOn ==
    ASSUME Inv, NEW p \in Names, NEW i \in Inodes, queue' = Enqueue(queue, OwnOpen(p, i))
    PROVE  /\ \A q, j : On(Range(queue'), q, j) = On(Range(queue), q, j)
           /\ Overflow \in Range(queue) => Overflow \in Range(queue')
<1> DEFINE e == OwnOpen(p, i)
<1>1. e \in Events /\ e.own /\ e.ino # None
  BY EventTypes, Constants
<1>2. Range(queue') = Range(queue) \cup {Overflow} \/ \E x \in Events : Takes(queue, e, queue', x)
  BY <1>1, EnqueueTakes DEF Inv, TypeOK, WorldTypeOK, Queues, Announced
<1> HIDE DEF e
<1>3. CASE Range(queue') = Range(queue) \cup {Overflow}
  <2>1. ~Touches(Overflow)
    BY EventTypes DEF Touches, WriteClass
  <2> QED BY <1>3, <2>1 DEF On
<1>4. ASSUME NEW x \in Events, Takes(queue, e, queue', x)
      PROVE  /\ \A q, j : On(Range(queue'), q, j) = On(Range(queue), q, j)
             /\ Overflow \in Range(queue) => Overflow \in Range(queue')
  <2>1. ~Touches(x) /\ \A y \in Range(queue) : Same(y, e) => ~Touches(y) /\ y # Overflow
    BY <1>1, <1>4, EventTypes DEF Takes, Same, Touches
  <2>2. \A y : Touches(y) => (y \in Range(queue') <=> y \in Range(queue))
    BY <1>4, <2>1 DEF Takes
  <2>3. \A q, j : On(Range(queue'), q, j) = On(Range(queue), q, j)
    BY <2>2 DEF On
  <2> QED BY <1>4, <2>1, <2>3 DEF Takes
<1> QED BY <1>2, <1>3, <1>4

LEMMA HashOpenHash == ASSUME Inv, HashInv, HashOpen PROVE HashInv'
<1>1. job \in Jobs /\ job # None /\ job.ino \in Inodes /\ job.path \in Names
  BY DEF HashOpen, Inv, TypeOK, Jobs, Control
<1>2. queue' = queue \/ \E p \in Names : queue' = Enqueue(queue, OwnOpen(p, job.ino))
  BY <1>1, NameOfType, Constants DEF HashOpen
<1>3. /\ \A q, j : On(Range(queue'), q, j) = On(Range(queue), q, j)
      /\ Overflow \in Range(queue) => Overflow \in Range(queue')
  BY <1>1, <1>2, OwnOpenOn
<1>4. /\ UNCHANGED <<ino, content, wr, inflight, moved, batch, pending, overflow, emitted,
                     job, Ending, bumped, age, readAge>>
      /\ pc = "open" /\ pc' = "read"
  BY DEF HashOpen, Ending, settleVars
<1>5. Lost => Lost'
  BY <1>3, <1>4 DEF Lost
<1>6. /\ Kinds' /\ OneName'
      /\ ~Lost' => LastClose' /\ WriterSeen'
      /\ \A p, i : On(Unread, p, i)' = On(Unread, p, i)
  BY <1>3, <1>4, <1>5, QuietStep
<1>7. ~Lost => ChangeSeen'
  BY <1>4, <1>6 DEF HashInv, ChangeSeen, Trusted, Digested
<1>8. ~Lost => HashAtClose'
  BY <1>4 DEF HashInv, HashAtClose
<1> QED BY <1>5, <1>6, <1>7, <1>8 DEF HashInv

LEMMA StartHash == ASSUME Inv, HashInv, Start PROVE HashInv'
<1>1. /\ UNCHANGED <<ino, content, wr, inflight, moved, batch, pending, overflow, emitted,
                     job, Ending, bumped, age, readAge>>
      /\ pc = "start" /\ job = None /\ queue = <<>> /\ batch = <<>>
  BY DEF Start, Inv, TypeOK, Control, Ending, settleVars
<1>2. \A q, j : On(Range(queue'), q, j) = On(Range(queue), q, j)
  <2>1. \A e \in Range(queue') : ~Touches(e)
    BY StartQueue, EventTypes DEF Touches, WriteClass
  <2> QED BY <1>1, <2>1, EmptyQueue DEF On
<1>3. Lost => Lost'
  BY <1>1, EmptyQueue DEF Lost
<1>4. /\ Kinds' /\ OneName'
      /\ ~Lost' => LastClose' /\ WriterSeen'
  BY <1>1, <1>2, <1>3, QuietStep
<1>5. ChangeSeen'
  BY <1>1 DEF ChangeSeen
<1>6. ~Lost => HashAtClose'
  BY <1>1 DEF HashInv, HashAtClose
<1> QED BY <1>3, <1>4, <1>5, <1>6 DEF HashInv

LEMMA DrainReadHash == ASSUME Inv, HashInv, DrainRead PROVE HashInv'
<1>1. /\ UNCHANGED <<ino, content, wr, inflight, moved, pending, overflow, emitted,
                     job, Ending, bumped, age, pc, ret>>
      /\ batch' = queue /\ queue' = <<>> /\ batch = <<>> /\ readAge' = 0 /\ pc = "drain"
  BY DEF DrainRead, Ending, settleVars
<1>2. Range(queue') = {} /\ Range(batch') = Range(queue) /\ Range(batch) = {}
  BY <1>1, EmptyQueue
<1>3. Lost' = Lost
  BY <1>1, <1>2 DEF Lost
<1>4. Unread' = Unread /\ Announced' = Announced
  BY <1>1, <1>2 DEF Unread, Announced
<1>5. \A p, i : On({}, p, i) = {} /\ Closing({}, p, i) = {}
  BY DEF On, Closing
<1>6. Kinds'
  BY <1>1 DEF HashInv, Kinds
<1>7. OneName'
  <2>1. \A p, i : Refers(p, i)' => Refers(p, i)
    BY <1>1, <1>4 DEF Refers
  <2> QED BY <1>1, <2>1 DEF HashInv, OneName
<1>8. ~Lost => LastClose'
  <2>1. UNCHANGED <<content, wr, inflight, moved, pending>>
    BY <1>1
  <2>2. ~Lost => LastClose
    BY DEF HashInv
  <2>3. \A p, i : /\ Closing(Range(queue'), p, i) = {}
                  /\ Closing(Range(batch'), p, i) = Closing(Range(queue), p, i)
                  /\ Closing(Range(batch), p, i) = {}
    BY <1>2, <1>5
  <2> QED BY <2>1, <2>2, <2>3 DEF LastClose, Untouched
<1>9. ~Lost => WriterSeen'
  <2> SUFFICES ASSUME ~Lost, wr # None
               PROVE  \/ On(Range(inflight') \cup Range(queue'), wr.path, wr.ino) # {}
                      \/ On(Range(batch'), wr.path, wr.ino) # {} \/ age[wr.path] = 0
    BY <1>1 DEF WriterSeen
  <2>1. On(Range(inflight) \cup Range(queue), wr.path, wr.ino)
          = On(Range(inflight), wr.path, wr.ino) \cup On(Range(queue), wr.path, wr.ino)
    BY OnUnread
  <2>2. \/ On(Range(inflight), wr.path, wr.ino) # {} \/ On(Range(queue), wr.path, wr.ino) # {}
        \/ age[wr.path] = 0
    BY <1>2, <1>5, <2>1 DEF HashInv, WriterSeen
  <2>3. Range(inflight') \cup Range(queue') = Range(inflight)
    BY <1>1, <1>2
  <2> QED BY <1>2, <2>2, <2>3
<1>10. ~Lost => ChangeSeen'
  BY <1>1, <1>4 DEF HashInv, ChangeSeen, Trusted, Digested
<1>11. ~Lost => HashAtClose'
  BY <1>1 DEF HashInv, HashAtClose
<1> QED BY <1>3, <1>6, <1>7, <1>8, <1>9, <1>10, <1>11 DEF HashInv

(* When the window is over, what was written since the close is announced. *)
LEMMA SettledAnnounced ==
    ASSUME Inv, HashInv, ~Lost, batch = <<>>, NEW n \in Names,
           pending[n] # None, pending[n].ino # None, pending[n].ino \notin moved, age[n] >= Settle,
           content[pending[n].ino] # pending[n].at
    PROVE  On(Unread, n, pending[n].ino) # {}
<1> DEFINE i == pending[n].ino
<1>1. i \in Inodes \ moved /\ age[n] # 0 /\ Refers(n, i)
  BY Constants DEF Inv, TypeOK, Entries, Refers
<1>2. \A p, j : On(Range(batch), p, j) = {} /\ Closing(Range(batch), p, j) = {}
  BY EmptyQueue DEF On, Closing
<1>3. CASE wr # None /\ wr.ino = i
  <2>1. wr.path \in Names
    BY <1>3, Constants DEF Inv, TypeOK, WorldTypeOK, Files
  <2>2. wr.path = n
    BY <1>1, <1>3, <2>1 DEF HashInv, OneName, Refers
  <2>3. On(Range(inflight) \cup Range(queue), n, i) # {}
    BY <1>1, <1>2, <1>3, <2>2 DEF HashInv, WriterSeen
  <2>4. On(Range(inflight) \cup Range(queue), n, i) \subseteq On(Unread, n, i)
    BY DEF On, Unread, Announced
  <2> QED BY <2>3, <2>4
<1>4. CASE ~(wr # None /\ wr.ino = i)
  <2>1. Untouched(n, i)
    BY <1>4 DEF Untouched
  <2>2. Closing(Range(inflight), n, i) # {} \/ Closing(Range(queue), n, i) # {}
    BY <1>1, <1>2, <2>1 DEF HashInv, LastClose
  <2>3. On(Range(inflight), n, i) # {} \/ On(Range(queue), n, i) # {}
    BY <2>2 DEF Closing
  <2> QED BY <2>3, OnUnread
<1> QED BY <1>3, <1>4

LEMMA TakeSettledHash == ASSUME Inv, HashInv, NEW n \in Names, TakeSettled(n) PROVE HashInv'
<1>1. /\ UNCHANGED <<ino, content, wr, inflight, queue, moved, batch, overflow, emitted,
                     Ending, age, readAge>>
      /\ pc = "resolve" /\ job = None /\ batch = <<>> /\ pc' = "hash"
  BY DEF TakeSettled, worldVars, Inv, TypeOK, Control, Ending, settleVars
<1>2. /\ pending' = [pending EXCEPT ![n] = None] /\ pending[n] # None
      /\ job'.path = n /\ job'.ino = pending[n].ino /\ job'.at = pending[n].at
      /\ pending \in [Names -> Entries \cup {None}]
  BY DEF TakeSettled, Settled, Inv, TypeOK
<1>3. Lost' = Lost /\ Unread' = Unread
  BY <1>1 DEF Lost, Unread, Announced
<1>4. \A p \in Names : pending'[p] # None => pending'[p] = pending[p]
  BY <1>2
<1>5. Kinds'
  BY <1>1 DEF HashInv, Kinds
<1>6. OneName'
  <2>1. \A p \in Names, i \in Inodes : Refers(p, i)' => Refers(p, i)
    BY <1>1, <1>2, <1>3, <1>4 DEF Refers
  <2> QED BY <1>1, <2>1 DEF HashInv, OneName
<1>7. ~Lost => LastClose'
  BY <1>1, <1>4 DEF HashInv, LastClose, Untouched
<1>8. ~Lost => WriterSeen'
  BY <1>1 DEF HashInv, WriterSeen
<1>9. ~Lost => ChangeSeen'
  <2> SUFFICES ASSUME ~Lost, ~Ending, job'.ino # None, job'.ino \notin moved,
                      content[job'.ino] # job'.at
               PROVE  On(Unread', n, job'.ino) # {}
    BY <1>1, <1>2 DEF ChangeSeen, Trusted, Digested
  <2>1. age[n] >= Settle
    BY DEF TakeSettled, Quiet, Ending, settleVars
  <2>2. On(Unread, n, pending[n].ino) # {}
    BY <1>1, <1>2, <2>1, SettledAnnounced
  <2> QED BY <1>2, <1>3, <2>2
<1>10. ~Lost => HashAtClose'
  BY <1>1 DEF HashInv, HashAtClose
<1> QED BY <1>3, <1>5, <1>6, <1>7, <1>8, <1>9, <1>10 DEF HashInv

(* What Process takes from the batch.                                      *)
LEMMA ProcessTakes ==
    ASSUME Inv, Process
    PROVE  LET e == Head(batch)
           IN /\ e \in Events /\ e.path \in Names /\ e \in Range(batch)
              /\ Range(batch) = {e} \cup Range(batch')
              /\ \A y \in Range(batch') : ~Same(y, e)
              /\ overflow' = (overflow \/ e = Overflow)
              /\ e.own => e.mask = {"open"}
              /\ Touches(e) => /\ age' = [age EXCEPT ![e.path] = readAge]
                               /\ bumped' = IF job = None THEN bumped ELSE bumped \cup {e.path}
              /\ age' = age \/ age' = [age EXCEPT ![e.path] = readAge]
              /\ bumped \subseteq bumped'
              /\ \A n \in emitted' : n \in emitted \/ n.type # "close" \/ n.hash = None
<1> DEFINE e == Head(batch)
<1>1. /\ e \in Events /\ e.path \in Names /\ e \in Range(batch)
      /\ Range(batch) = {e} \cup Range(batch') /\ \A y \in Range(batch') : ~Same(y, e)
  <2>1. batch \in Seq(Events) /\ Distinct(batch) /\ batch # <<>> /\ batch' = Tail(batch)
    BY DEF Inv, TypeOK, Queues, Process
  <2> QED BY <2>1, TailDistinct DEF Events
<1>2. e.own => e.mask = {"open"}
  BY <1>1 DEF Inv, Queues, Announced
<1>3. overflow' = (overflow \/ e = Overflow)
  BY DEF Process
<1>4. Touches(e) => /\ age' = [age EXCEPT ![e.path] = readAge]
                    /\ bumped' = IF job = None THEN bumped ELSE bumped \cup {e.path}
  BY DEF Process, Touches, Suppressed
<1>5. (age' = age \/ age' = [age EXCEPT ![e.path] = readAge]) /\ bumped \subseteq bumped'
  BY DEF Process
<1>6. \A n \in emitted' : n \in emitted \/ n.type # "close" \/ n.hash = None
  <2> DEFINE mask == IF Suppressed(e) THEN e.mask \ {"open"} ELSE e.mask
  <2>1. emitted' = emitted \cup Emissions(e, mask)
    BY DEF Process
  <2>2. \A n \in Emissions(e, mask) : n.type # "close" \/ n.hash = None
    BY DEF Emissions, Superseded, Emission
  <2> QED BY <2>1, <2>2
<1> QED BY <1>1, <1>2, <1>3, <1>4, <1>5, <1>6

LEMMA ProcessHash == ASSUME Inv, HashInv, Process PROVE HashInv'
<1> DEFINE e == Head(batch)
<1>1. /\ e \in Events /\ e.path \in Names /\ e \in Range(batch)
      /\ Range(batch) = {e} \cup Range(batch')
      /\ \A y \in Range(batch') : ~Same(y, e)
      /\ overflow' = (overflow \/ e = Overflow)
      /\ e.own => e.mask = {"open"}
      /\ Touches(e) => /\ age' = [age EXCEPT ![e.path] = readAge]
                       /\ bumped' = IF job = None THEN bumped ELSE bumped \cup {e.path}
      /\ age' = age \/ age' = [age EXCEPT ![e.path] = readAge]
      /\ bumped \subseteq bumped'
  BY ProcessTakes
<1>2. \A n \in emitted' : n \in emitted \/ n.type # "close" \/ n.hash = None
  BY ProcessTakes
<1>3. /\ UNCHANGED <<ino, content, wr, inflight, queue, moved, pc, ret, readAge, job, Ending>>
      /\ pc = "drain"
  BY DEF Process, worldVars, Ending, settleVars
<1>4. /\ "close" \in e.mask =>
            /\ pending' = [pending EXCEPT ![e.path] = PendingClose(e)]
            /\ PendingClose(e).at = e.at /\ PendingClose(e).ino \in {e.ino, None}
      /\ "close" \notin e.mask => pending' = pending
      /\ pending \in [Names -> Entries \cup {None}]
  BY ProcessCloses DEF PendingClose, Inv, TypeOK
<1> HIDE DEF e
<1>5. "close" \in e.mask => Touches(e)
  BY <1>1 DEF Touches, WriteClass
<1>6. Lost' = Lost
  BY <1>1, <1>3 DEF Lost
<1>7. Kinds'
  BY <1>3 DEF HashInv, Kinds
<1>8. \A p, i : /\ On(Range(batch'), p, i) \subseteq On(Range(batch), p, i)
                /\ \A y \in On(Range(batch), p, i) : y \in On(Range(batch'), p, i) \/ y = e
  BY <1>1 DEF On
<1>9. \A p, i : Touches(e) /\ e.path = p /\ e.ino = i <=> e \in On(Range(batch), p, i)
  BY <1>1 DEF On
<1>10. OneName'
  <2>1. \A p, i : On(Unread, p, i)' \subseteq On(Unread, p, i)
    BY <1>1, <1>3 DEF On, Unread, Announced
  <2>2. \A p \in Names, i \in Inodes : pending'[p] # None /\ pending'[p].ino = i => Refers(p, i)
    <3> SUFFICES ASSUME NEW p \in Names, NEW i \in Inodes, pending'[p] # None, pending'[p].ino = i
                 PROVE  Refers(p, i)
      OBVIOUS
    <3>1. CASE pending'[p] = pending[p]
      BY <3>1 DEF Refers
    <3>2. CASE pending'[p] # pending[p]
      <4>1. "close" \in e.mask /\ p = e.path /\ pending'[p] = PendingClose(e)
        BY <1>4, <3>2
      <4>2. e.ino = i
        BY <1>4, <4>1, Constants
      <4>3. e \in On(Unread, p, i)
        BY <1>1, <1>5, <4>1, <4>2 DEF On, Unread, Announced
      <4> QED BY <4>3 DEF Refers
    <3> QED BY <3>1, <3>2
  <2>3. \A p \in Names, i \in Inodes : Refers(p, i)' => Refers(p, i)
    BY <1>3, <2>1, <2>2 DEF Refers
  <2> QED BY <1>3, <2>3 DEF HashInv, OneName
<1>11. ~Lost => LastClose'
  <2> SUFFICES ASSUME ~Lost, NEW i \in Inodes \ moved, NEW p \in Names, Untouched(p, i)
      PROVE /\ \A x \in Closing(Range(inflight), p, i) : x.at = content[i]
            /\ Closing(Range(inflight), p, i) = {} =>
              /\ \A x \in Closing(Range(queue), p, i) : x.at = content[i]
              /\ Closing(Range(queue), p, i) = {} =>
                    /\ \A x \in Closing(Range(batch'), p, i) : x.at = content[i]
                    /\ Closing(Range(batch'), p, i) = {} /\ pending'[p] # None
                          /\ pending'[p].ino = i => pending'[p].at = content[i]
    BY <1>3 DEF LastClose, Untouched
  <2>1. /\ \A x \in Closing(Range(inflight), p, i) : x.at = content[i]
        /\ Closing(Range(inflight), p, i) = {} =>
              /\ \A x \in Closing(Range(queue), p, i) : x.at = content[i]
              /\ Closing(Range(queue), p, i) = {} =>
                    /\ \A x \in Closing(Range(batch), p, i) : x.at = content[i]
                    /\ Closing(Range(batch), p, i) = {} /\ pending[p] # None
                          /\ pending[p].ino = i => pending[p].at = content[i]
    BY DEF HashInv, LastClose
  <2>2. Closing(Range(batch'), p, i) \subseteq Closing(Range(batch), p, i)
    BY <1>8 DEF Closing
  <2>3. CASE "close" \in e.mask /\ e.path = p
    <3>1. pending'[p] # None /\ pending'[p].ino = i => e.ino = i /\ pending'[p].at = e.at
      BY <1>4, <2>3, Constants
    <3>2. e.ino = i => e \in Closing(Range(batch), p, i)
      BY <1>5, <1>9, <2>3 DEF Closing
    <3> QED BY <2>1, <2>2, <3>1, <3>2
  <2>4. CASE ~("close" \in e.mask /\ e.path = p)
    <3>1. pending'[p] = pending[p]
      BY <1>4, <2>4
    <3>2. Closing(Range(batch'), p, i) = Closing(Range(batch), p, i)
      <4>1. e \notin Closing(Range(batch), p, i)
        BY <2>4 DEF Closing, On
      <4> QED BY <1>8, <2>2, <4>1 DEF Closing
    <3> QED BY <2>1, <3>1, <3>2
  <2> QED BY <2>3, <2>4
<1>12. ~Lost => WriterSeen'
  <2> SUFFICES ASSUME ~Lost, wr # None, readAge = 0,
                      On(Range(batch), wr.path, wr.ino) # {} \/ age[wr.path] = 0
               PROVE  On(Range(batch'), wr.path, wr.ino) # {} \/ age'[wr.path] = 0
    BY <1>3 DEF HashInv, WriterSeen
  <2>1. wr.path \in Names /\ age \in [Names -> 0..Settle]
    BY Constants DEF Inv, TypeOK, WorldTypeOK, Files
  <2>2. CASE e \in On(Range(batch), wr.path, wr.ino)
    BY <1>1, <1>9, <2>1, <2>2
  <2>3. CASE e \notin On(Range(batch), wr.path, wr.ino)
    BY <1>1, <1>8, <2>1, <2>3
  <2> QED BY <2>2, <2>3
<1>13. ~Lost => ChangeSeen'
  <2> SUFFICES ASSUME ~Lost, job # None, ~Ending, Trusted, job.digest # job.at
               PROVE  job.path \in bumped' \/ On(Announced', job.path, job.ino) # {}
    BY <1>3 DEF ChangeSeen, Trusted, Digested
  <2>1. job.path \in bumped \/ On(Announced, job.path, job.ino) # {}
    BY DEF HashInv, ChangeSeen
  <2>2. PICK y : job.path \in bumped \/ y \in On(Announced, job.path, job.ino)
    BY <2>1
  <2>3. y \in On(Announced, job.path, job.ino) /\ y # e => y \in On(Announced', job.path, job.ino)
    BY <1>1, <1>3 DEF On, Announced
  <2>4. y \in On(Announced, job.path, job.ino) /\ y = e => job.path \in bumped'
    BY <1>1 DEF On
  <2> QED BY <1>1, <2>2, <2>3, <2>4
<1>14. ~Lost => HashAtClose'
  BY <1>2 DEF HashInv, HashAtClose
<1> QED BY <1>6, <1>7, <1>10, <1>11, <1>12, <1>13, <1>14 DEF HashInv

(* Announcing keeps what is known of a file's name, and loses nothing.     *)
LEMMA NotifyOn ==
    ASSUME Inv, HashInv, Notify, UNCHANGED <<batch, overflow>>, Nameless \cap WriteClass = {}
    PROVE  /\ \A p, i : On(Unread', p, i) # {} => On(Unread, p, i) # {}
           /\ Lost => Lost'
           /\ ~Lost' =>
                /\ \A p, i : /\ On(Unread, p, i) # {} => On(Unread', p, i) # {}
                             /\ On(Announced, p, i) # {} => On(Announced', p, i) # {}
                             /\ On(Range(inflight) \cup Range(queue), p, i) # {} =>
                                   On(Range(inflight') \cup Range(queue'), p, i) # {}
                /\ \E e, x \in Events :
                      /\ Takes(queue, e, queue', x) /\ ~e.own
                      /\ Range(inflight) = {Head(inflight)} \cup Range(inflight')
                      /\ e.ino = Head(inflight).ino /\ e.mask = Head(inflight).mask
                      /\ e.at = Head(inflight).at /\ ~Head(inflight).own
                      /\ Touches(e) => e.path = Head(inflight).path
<1> DEFINE h == Head(inflight)
<1>1. /\ h \in Events /\ h \in Range(inflight) /\ ~h.own /\ Range(inflight) = {h} \cup Range(inflight')
      /\ \E e \in Events :
            /\ ~e.own /\ e.ino = h.ino /\ e.mask = h.mask /\ e.at = h.at
            /\ e.path = h.path \/ h.mask \cap Nameless # {}
            /\ \/ Range(queue') = Range(queue) \cup {Overflow}
               \/ \E x \in Events : Takes(queue, e, queue', x)
  BY NotifyTakes
<1>2. PICK e \in Events :
            /\ ~e.own /\ e.ino = h.ino /\ e.mask = h.mask /\ e.at = h.at
            /\ e.path = h.path \/ h.mask \cap Nameless # {}
            /\ \/ Range(queue') = Range(queue) \cup {Overflow}
               \/ \E x \in Events : Takes(queue, e, queue', x)
  BY <1>1
<1> HIDE DEF h
<1>3. /\ Touches(e) <=> Touches(h)
      /\ Touches(e) => e.path = h.path
  <2>1. Touches(e) <=> Touches(h)
    BY <1>1, <1>2 DEF Touches
  <2>2. Touches(h) => h.mask \subseteq WriteClass
    BY <1>1 DEF HashInv, Kinds, Touches
  <2> QED BY <1>2, <2>1, <2>2
<1>4. \A y, z \in Range(queue) : Same(y, z) => y = z
  BY DEF Inv, Queues, Distinct, Range
<1>5. /\ Unread = Range(inflight) \cup Range(queue) \cup Range(batch)
      /\ Unread' = Range(inflight') \cup Range(queue') \cup Range(batch)
      /\ Announced = Range(queue) \cup Range(batch)
      /\ Announced' = Range(queue') \cup Range(batch)
  BY DEF Unread, Announced
<1>6. CASE Range(queue') = Range(queue) \cup {Overflow}
  <2>1. Overflow \in Range(queue')
    BY <1>6
  <2>2. Lost'
    BY <2>1 DEF Lost
  <2>3. ~Touches(Overflow)
    BY EventTypes DEF Touches, WriteClass
  <2>4. \A p, i : On(Unread', p, i) \subseteq On(Unread, p, i)
    BY <1>1, <1>5, <1>6, <2>3 DEF On
  <2> QED BY <2>2, <2>4
<1>7. ASSUME NEW x \in Events, Takes(queue, e, queue', x)
      PROVE  /\ \A p, i : On(Unread', p, i) # {} => On(Unread, p, i) # {}
             /\ Lost => Lost'
             /\ \A p, i : /\ On(Unread, p, i) # {} => On(Unread', p, i) # {}
                          /\ On(Announced, p, i) # {} => On(Announced', p, i) # {}
                          /\ On(Range(inflight) \cup Range(queue), p, i) # {} =>
                                On(Range(inflight') \cup Range(queue'), p, i) # {}
  <2>1. /\ x \in Range(queue') /\ Same(x, e) /\ ~x.own
        /\ \/ x = e /\ \A y \in Range(queue) : ~Same(y, e)
           \/ \E y \in Range(queue) : Same(y, e) /\ x.mask = y.mask \cup e.mask
        /\ \A y \in Range(queue') : y = x \/ y \in Range(queue)
        /\ \A y \in Range(queue) : Same(y, e) \/ y \in Range(queue')
    BY <1>2, <1>7 DEF Takes, Same
  <2>2. Touches(x) => Touches(h) \/ \E y \in Range(queue) : Touches(y) /\ Same(y, e)
    BY <1>2, <1>3, <2>1 DEF Touches, Same
  <2>3. \A y \in Range(queue) : Touches(y) /\ Same(y, e) => Touches(x)
    <3> SUFFICES ASSUME NEW y \in Range(queue), Touches(y), Same(y, e) PROVE Touches(x)
      OBVIOUS
    <3>1. PICK z \in Range(queue) : Same(z, e) /\ x.mask = z.mask \cup e.mask
      BY <2>1
    <3>2. z = y
      BY <1>4, <3>1 DEF Same
    <3> QED BY <2>1, <3>1, <3>2 DEF Touches
  <2>4. Touches(h) => Touches(x)
    BY <1>2, <1>3, <2>1 DEF Touches
  <2>5. x.path = e.path /\ x.ino = h.ino
    BY <1>2, <2>1 DEF Same
  <2>6. \A p, i : On(Unread', p, i) # {} => On(Unread, p, i) # {}
    <3> SUFFICES ASSUME NEW p, NEW i, NEW y \in On(Unread', p, i) PROVE On(Unread, p, i) # {}
      OBVIOUS
    <3>1. CASE y \in Unread
      BY <3>1 DEF On
    <3>2. CASE y = x /\ Touches(h)
      <4>1. h \in On(Unread, p, i)
        BY <1>1, <1>3, <1>5, <2>5, <3>2 DEF On
      <4> QED BY <4>1
    <3>3. CASE y = x /\ \E z \in Range(queue) : Touches(z) /\ Same(z, e)
      <4>1. PICK z \in Range(queue) : Touches(z) /\ Same(z, e)
        BY <3>3
      <4>2. z \in On(Unread, p, i)
        BY <1>5, <2>1, <3>3, <4>1 DEF On, Same
      <4> QED BY <4>2
    <3>4. y \in Unread \/ y = x
      BY <1>1, <1>5, <2>1 DEF On
    <3>5. Touches(y)
      BY DEF On
    <3> QED BY <2>2, <3>1, <3>2, <3>3, <3>4, <3>5
  <2>7. \A p, i, y : /\ y \in On(Range(queue), p, i) => y \in On(Range(queue'), p, i) \/ x \in On(Range(queue'), p, i)
                     /\ y = h /\ y \in On(Range(inflight), p, i) => x \in On(Range(queue'), p, i)
    <3>1. ASSUME NEW p, NEW i, NEW y \in On(Range(queue), p, i)
          PROVE  y \in On(Range(queue'), p, i) \/ x \in On(Range(queue'), p, i)
      BY <2>1, <2>3 DEF On, Same
    <3>2. ASSUME NEW p, NEW i, h \in On(Range(inflight), p, i) PROVE x \in On(Range(queue'), p, i)
      BY <1>3, <2>1, <2>4, <2>5, <3>2 DEF On
    <3> QED BY <3>1, <3>2
  <2>8. \A p, i, y : y \in On(Range(inflight), p, i) => y = h \/ y \in On(Range(inflight'), p, i)
    BY <1>1 DEF On
  <2>9. \A p, i : On(Range(inflight) \cup Range(queue), p, i) # {} =>
                      On(Range(inflight') \cup Range(queue'), p, i) # {}
    <3> SUFFICES ASSUME NEW p, NEW i, NEW y \in On(Range(inflight) \cup Range(queue), p, i)
                 PROVE  On(Range(inflight') \cup Range(queue'), p, i) # {}
      OBVIOUS
    <3>1. /\ On(Range(inflight') \cup Range(queue'), p, i)
               = On(Range(inflight'), p, i) \cup On(Range(queue'), p, i)
          /\ y \in On(Range(inflight), p, i) \/ y \in On(Range(queue), p, i)
      BY DEF On
    <3> QED BY <2>7, <2>8, <3>1
  <2>10. \A p, i : On(Announced, p, i) # {} => On(Announced', p, i) # {}
    <3> SUFFICES ASSUME NEW p, NEW i, NEW y \in On(Announced, p, i) PROVE On(Announced', p, i) # {}
      OBVIOUS
    <3>1. /\ On(Announced', p, i) = On(Range(queue'), p, i) \cup On(Range(batch), p, i)
          /\ y \in On(Range(batch), p, i) \/ y \in On(Range(queue), p, i)
      BY <1>5 DEF On
    <3> QED BY <2>7, <3>1
  <2>11. \A p, i : On(Unread, p, i) # {} => On(Unread', p, i) # {}
    <3> SUFFICES ASSUME NEW p, NEW i, NEW y \in On(Unread, p, i) PROVE On(Unread', p, i) # {}
      OBVIOUS
    <3>1. /\ On(Unread', p, i) = On(Range(inflight'), p, i) \cup On(Range(queue'), p, i)
                                     \cup On(Range(batch), p, i)
          /\ y \in On(Range(inflight), p, i) \cup On(Range(queue), p, i) \cup On(Range(batch), p, i)
      BY <1>5 DEF On
    <3> QED BY <2>7, <2>8, <3>1
  <2>12. Lost => Lost'
    <3>1. ~Same(Overflow, e)
      BY <1>1, <1>2, EventTypes DEF Same, Inv, Queues
    <3>2. Overflow \in Range(queue) => Overflow \in Range(queue')
      BY <2>1, <3>1
    <3> QED BY <3>2 DEF Lost
  <2> QED BY <2>6, <2>9, <2>10, <2>11, <2>12
<1> QED BY <1>1, <1>2, <1>3, <1>6, <1>7 DEF h

LEMMA NotifyHash ==
    ASSUME Inv, HashInv, Notify, UNCHANGED obsVars, Nameless \cap WriteClass = {}
    PROVE  HashInv'
<1> DEFINE h == Head(inflight)
<1>1. UNCHANGED <<ino, content, wr, moved, batch, pending, overflow, emitted, job, Ending, bumped,
                  age, readAge, pc, ret>>
  BY DEF Notify, obsVars, Ending, settleVars
<1>2. /\ \A p, i : On(Unread', p, i) # {} => On(Unread, p, i) # {}
      /\ Lost => Lost'
      /\ ~Lost' =>
           /\ \A p, i : /\ On(Unread, p, i) # {} => On(Unread', p, i) # {}
                        /\ On(Announced, p, i) # {} => On(Announced', p, i) # {}
                        /\ On(Range(inflight) \cup Range(queue), p, i) # {} =>
                              On(Range(inflight') \cup Range(queue'), p, i) # {}
           /\ \E e, x \in Events :
                 /\ Takes(queue, e, queue', x) /\ ~e.own
                 /\ Range(inflight) = {h} \cup Range(inflight')
                 /\ e.ino = h.ino /\ e.mask = h.mask /\ e.at = h.at /\ ~h.own
                 /\ Touches(e) => e.path = h.path
  BY <1>1, NotifyOn
<1> HIDE DEF h
<1>3. Kinds'
  <2>1. Range(inflight') \subseteq Range(inflight)
    BY NotifyTakes
  <2> QED BY <2>1 DEF HashInv, Kinds
<1>4. OneName'
  <2>1. \A p, i : Refers(p, i)' => Refers(p, i)
    BY <1>1, <1>2 DEF Refers
  <2> QED BY <1>1, <2>1 DEF HashInv, OneName
<1>5. ASSUME ~Lost' PROVE LastClose'
  <2>1. PICK e \in Events, x \in Events :
                 /\ Takes(queue, e, queue', x) /\ ~e.own
                 /\ Range(inflight) = {h} \cup Range(inflight')
                 /\ e.ino = h.ino /\ e.mask = h.mask /\ e.at = h.at /\ ~h.own
                 /\ Touches(e) => e.path = h.path
    BY <1>2, <1>5
  <2>2. /\ x \in Range(queue') /\ Same(x, e) /\ ~x.own
        /\ "close" \in e.mask => x.at = e.at
        /\ \/ x = e /\ \A y \in Range(queue) : ~Same(y, e)
           \/ \E y \in Range(queue) : /\ Same(y, e) /\ x.mask = y.mask \cup e.mask
                                      /\ "close" \notin e.mask => x.at = y.at
        /\ \A y \in Range(queue') : y = x \/ (y \in Range(queue) /\ ~Same(y, e))
        /\ \A y \in Range(queue) : Same(y, e) \/ y \in Range(queue')
    BY <2>1 DEF Takes, Same
  <2>3. "close" \in e.mask => Touches(e) /\ Touches(h) /\ e.path = h.path /\ "close" \in x.mask
    BY <2>1, <2>2 DEF Touches, WriteClass
  <2>4. \A y, z \in Range(queue) : Same(y, z) => y = z
    BY DEF Inv, Queues, Distinct, Range
  <2> SUFFICES ASSUME NEW i \in Inodes \ moved, NEW p \in Names, Untouched(p, i)
      PROVE /\ \A y \in Closing(Range(inflight'), p, i) : y.at = content[i]
            /\ Closing(Range(inflight'), p, i) = {} =>
              /\ \A y \in Closing(Range(queue'), p, i) : y.at = content[i]
              /\ Closing(Range(queue'), p, i) = {} =>
                    /\ \A y \in Closing(Range(batch), p, i) : y.at = content[i]
                    /\ Closing(Range(batch), p, i) = {} /\ pending[p] # None
                          /\ pending[p].ino = i => pending[p].at = content[i]
    BY <1>1 DEF LastClose, Untouched
  <2>5. /\ \A y \in Closing(Range(inflight), p, i) : y.at = content[i]
        /\ Closing(Range(inflight), p, i) = {} =>
              /\ \A y \in Closing(Range(queue), p, i) : y.at = content[i]
              /\ Closing(Range(queue), p, i) = {} =>
                    /\ \A y \in Closing(Range(batch), p, i) : y.at = content[i]
                    /\ Closing(Range(batch), p, i) = {} /\ pending[p] # None
                          /\ pending[p].ino = i => pending[p].at = content[i]
    BY <1>2, <1>5 DEF HashInv, LastClose
  <2>6. Closing(Range(inflight), p, i)
          = IF h \in Closing({h}, p, i) THEN {h} \cup Closing(Range(inflight'), p, i)
            ELSE Closing(Range(inflight'), p, i)
    BY <2>1 DEF Closing, On
  <2>7. h \in Closing({h}, p, i) <=> "close" \in e.mask /\ Same(e, x) /\ x.path = p /\ x.ino = i
    BY <2>1, <2>2, <2>3 DEF Closing, On, Same
  <2>8. ASSUME Closing(Range(inflight'), p, i) = {}, NEW y \in Closing(Range(queue'), p, i)
        PROVE  y.at = content[i]
    <3>1. y \in Range(queue') /\ Touches(y) /\ y.path = p /\ y.ino = i /\ "close" \in y.mask
      BY DEF Closing, On
    <3>2. CASE y = x /\ "close" \in e.mask
      BY <2>1, <2>2, <2>5, <2>6, <2>7, <3>1, <3>2 DEF Same
    <3>3. CASE y = x /\ "close" \notin e.mask
      <4>1. Closing(Range(inflight), p, i) = {}
        BY <2>6, <2>7, <2>8, <3>3
      <4>2. PICK z \in Range(queue) : Same(z, e) /\ x.mask = z.mask \cup e.mask /\ x.at = z.at
        BY <2>2, <3>1, <3>3
      <4>3. z \in Closing(Range(queue), p, i)
        BY <2>1, <2>2, <3>1, <3>3, <4>2 DEF Closing, On, Touches, Same, WriteClass
      <4> QED BY <2>5, <3>3, <4>1, <4>2, <4>3
    <3>4. CASE y # x
      <4>1. y \in Range(queue) /\ ~Same(y, e)
        BY <2>2, <3>1, <3>4
      <4>2. ~("close" \in e.mask /\ x.path = p /\ x.ino = i)
        <5>1. y.own \in BOOLEAN /\ e.own \in BOOLEAN
          <6>1. y \in Events
            BY <4>1 DEF Inv, TypeOK, WorldTypeOK, Range
          <6> QED BY <6>1 DEF Events
        <5>2. ~y.own /\ ~e.own
          BY <2>1, <3>1 DEF Touches
        <5>3. y.own = e.own
          BY <5>1, <5>2
        <5>4. ~(e.path = p /\ e.ino = i)
          BY <3>1, <4>1, <5>3 DEF Same
        <5> QED BY <2>2, <5>4 DEF Same
      <4>3. Closing(Range(inflight), p, i) = {}
        BY <2>6, <2>7, <2>8, <4>2
      <4>4. y \in Closing(Range(queue), p, i)
        BY <3>1, <4>1 DEF Closing, On
      <4> QED BY <2>5, <4>3, <4>4
    <3> QED BY <3>2, <3>3, <3>4
  <2>9. ASSUME Closing(Range(inflight'), p, i) = {}, Closing(Range(queue'), p, i) = {}
        PROVE  Closing(Range(inflight), p, i) = {} /\ Closing(Range(queue), p, i) = {}
    <3>1. ~("close" \in x.mask /\ x.path = p /\ x.ino = i)
      <4>1. "close" \in x.mask /\ x.path = p /\ x.ino = i => x \in Closing(Range(queue'), p, i)
        BY <2>2 DEF Closing, On, Touches, WriteClass
      <4> QED BY <2>9, <4>1
    <3>2. Closing(Range(inflight), p, i) = {}
      BY <2>3, <2>6, <2>7, <2>9, <3>1
    <3>3. ASSUME NEW y \in Closing(Range(queue), p, i) PROVE FALSE
      <4>1. y \in Range(queue) /\ Touches(y) /\ y.path = p /\ y.ino = i /\ "close" \in y.mask
        BY DEF Closing, On
      <4>2. CASE Same(y, e)
        <5>1. PICK z \in Range(queue) : Same(z, e) /\ x.mask = z.mask \cup e.mask
          BY <2>2, <4>1, <4>2
        <5>2. z = y
          BY <2>4, <4>1, <4>2, <5>1 DEF Same
        <5> QED BY <2>2, <3>1, <4>1, <4>2, <5>1, <5>2 DEF Same
      <4>3. CASE ~Same(y, e)
        <5>1. y \in Closing(Range(queue'), p, i)
          BY <2>2, <4>1, <4>3 DEF Closing, On
        <5> QED BY <2>9, <5>1
      <4> QED BY <4>2, <4>3
    <3> QED BY <3>2, <3>3
  <2> QED BY <2>5, <2>6, <2>8, <2>9
<1>6. ~Lost' => WriterSeen'
  BY <1>1, <1>2 DEF HashInv, WriterSeen
<1>7. ~Lost' => ChangeSeen'
  BY <1>1, <1>2 DEF HashInv, ChangeSeen, Trusted, Digested
<1>8. ~Lost' => HashAtClose'
  BY <1>1, <1>2 DEF HashInv, HashAtClose
<1> QED BY <1>3, <1>4, <1>5, <1>6, <1>7, <1>8 DEF HashInv

(* What a call of the agent owes to the hash of a close: it announces what *)
(* it does to a file under the file's name.                                *)
LEMMA CallHash ==
    ASSUME Inv, HashInv, UNCHANGED obsVars, queue' = queue, inflight = <<>>, moved \subseteq moved',
           Kinds', OneName',
           wr' # None => wr' = wr \/ On(Range(inflight'), wr'.path, wr'.ino) # {},
           \A i \in Inodes \ moved' : content'[i] # content[i] =>
              \E p \in Names : On(Range(inflight'), p, i) # {},
           \A i \in Inodes \ moved', p \in Names : Untouched(p, i)' =>
              /\ \A e \in Closing(Range(inflight'), p, i) : e.at = content'[i]
              /\ Closing(Range(inflight'), p, i) = {} =>
                    ~Refers(p, i)' \/ (content'[i] = content[i] /\ Untouched(p, i))
    PROVE  HashInv'
<1>1. UNCHANGED <<batch, pending, overflow, emitted, job, Ending, bumped, age, readAge, pc, ret>>
  BY DEF obsVars, Ending, settleVars
<1>2. /\ Lost' = Lost /\ Announced' = Announced
      /\ \A S, p, i : On(S, p, i)' = On(S', p, i) /\ Closing(S, p, i)' = Closing(S', p, i)
  BY <1>1 DEF Lost, Announced, On, Closing, Touches
<1>3. \A p, i : /\ On(Range(inflight), p, i) = {} /\ Closing(Range(inflight), p, i) = {}
                /\ On(Unread, p, i) = On(Announced, p, i)
                /\ On(Unread', p, i) = On(Range(inflight'), p, i) \cup On(Announced, p, i)
  <2>1. Range(inflight) = {}
    BY EmptyQueue
  <2> QED BY <1>2, <2>1 DEF On, Closing, Unread
<1>4. ASSUME ~Lost PROVE LastClose'
  <2>1. LastClose
    BY <1>4 DEF HashInv
  <2> SUFFICES ASSUME NEW i \in Inodes \ moved', NEW p \in Names, Untouched(p, i)'
      PROVE /\ \A y \in Closing(Range(inflight'), p, i) : y.at = content'[i]
            /\ Closing(Range(inflight'), p, i) = {} =>
              /\ \A y \in Closing(Range(queue), p, i) : y.at = content'[i]
              /\ Closing(Range(queue), p, i) = {} =>
                    /\ \A y \in Closing(Range(batch), p, i) : y.at = content'[i]
                    /\ Closing(Range(batch), p, i) = {} /\ pending[p] # None
                          /\ pending[p].ino = i => pending[p].at = content'[i]
    BY <1>1 DEF LastClose, Untouched
  <2>2. CASE Closing(Range(inflight'), p, i) # {}
    BY <2>2
  <2>3. CASE content'[i] = content[i] /\ Untouched(p, i)
    BY <1>3, <2>1, <2>3 DEF LastClose
  <2>4. CASE ~Refers(p, i)'
    <3>1. On(Announced, p, i) = {} /\ (pending[p] # None => pending[p].ino # i)
      BY <1>1, <1>2, <1>3, <2>4 DEF Refers
    <3>2. Closing(Range(queue), p, i) = {} /\ Closing(Range(batch), p, i) = {}
      BY <3>1 DEF On, Closing, Announced
    <3> QED BY <3>1, <3>2
  <2> QED BY <2>2, <2>3, <2>4
<1>5. ASSUME ~Lost PROVE WriterSeen'
  <2>1. WriterSeen
    BY <1>5 DEF HashInv
  <2>2. On(Range(inflight') \cup Range(queue'), wr'.path, wr'.ino)
          = On(Range(inflight'), wr'.path, wr'.ino) \cup On(Range(queue), wr'.path, wr'.ino)
    BY OnUnion
  <2>3. CASE wr' # None /\ wr' # wr
    BY <2>2, <2>3 DEF WriterSeen
  <2>4. CASE wr' # None /\ wr' = wr
    <3>1. Range(inflight) \cup Range(queue) = Range(queue)
      BY EmptyQueue
    <3> QED BY <1>1, <2>1, <2>2, <2>4, <3>1 DEF WriterSeen
  <2> QED BY <2>3, <2>4 DEF WriterSeen
<1>6. ASSUME ~Lost PROVE ChangeSeen'
  <2>1. ChangeSeen
    BY <1>6 DEF HashInv
  <2>2. ASSUME job # None, job.ino # None, job.ino \notin moved', content'[job.ino] # content[job.ino]
        PROVE  On(Unread', job.path, job.ino) # {}
    <3>1. job.ino \in Inodes \ moved' /\ job.path \in Names
      BY <2>2 DEF Inv, TypeOK, Jobs
    <3>2. PICK p \in Names : On(Range(inflight'), p, job.ino) # {}
      BY <2>2, <3>1
    <3>3. Refers(p, job.ino)'
      BY <1>1, <1>2, <1>3, <3>2 DEF Refers
    <3>4. Refers(job.path, job.ino)'
      BY <1>1, <2>2 DEF Refers
    <3>5. p = job.path
      BY <1>1, <3>1, <3>3, <3>4 DEF OneName
    <3> QED BY <1>3, <3>2, <3>5
  <2>3. On(Unread, job.path, job.ino) # {} => On(Unread', job.path, job.ino) # {}
    BY <1>3
  <2> QED BY <1>1, <1>2, <2>1, <2>2, <2>3 DEF ChangeSeen, Trusted, Digested
<1>7. ~Lost => HashAtClose'
  BY <1>1 DEF HashInv, HashAtClose, Lost
<1> QED BY <1>2, <1>4, <1>5, <1>6, <1>7 DEF HashInv

(* What one announcement refers to.                                        *)
LEMMA OneAnnounced ==
    ASSUME NEW q, NEW i, NEW m, NEW a, inflight' = <<Event(q, i, m, a)>>
    PROVE  /\ \A p, j, e : e \in On(Range(inflight'), p, j) <=>
                 e = Event(q, i, m, a) /\ m \cap WriteClass # {} /\ p = q /\ j = i
           /\ \A p, j, e : e \in Closing(Range(inflight'), p, j) <=>
                 e = Event(q, i, m, a) /\ "close" \in m /\ p = q /\ j = i
           /\ m \subseteq WriteClass \/ m \cap WriteClass = {} => Kinds'
<1> DEFINE e1 == Event(q, i, m, a)
<1>1. Range(inflight') = {e1}
  <2>1. DOMAIN inflight' = {1} /\ inflight'[1] = e1
    OBVIOUS
  <2> QED BY <2>1 DEF Range
<1>2. e1.path = q /\ e1.ino = i /\ e1.mask = m /\ ~e1.own
  BY DEF Event
<1> HIDE DEF e1
<1>3. \A p, j, e : /\ e \in On(Range(inflight'), p, j) <=>
                         e = e1 /\ m \cap WriteClass # {} /\ p = q /\ j = i
                   /\ e \in Closing(Range(inflight'), p, j) <=>
                         e = e1 /\ "close" \in m /\ p = q /\ j = i
  BY <1>1, <1>2 DEF On, Closing, Touches, WriteClass
<1>4. m \subseteq WriteClass \/ m \cap WriteClass = {} => Kinds'
  BY <1>1, <1>2 DEF Kinds
<1> QED BY <1>3, <1>4 DEF e1

(* Calls that change what a file holds, or make one.                       *)
LEMMA WritingCall ==
    ASSUME Inv, HashInv, UNCHANGED obsVars, queue' = queue, inflight = <<>>, moved' = moved,
           OneName', NEW q \in Paths, NEW i \in Inodes, wr' = [path |-> q, ino |-> i],
           \A j \in Inodes : j # i => content'[j] = content[j],
           wr # None => wr.ino = i,
           NEW m, m \subseteq WriteClass, m # {}, "close" \notin m,
           NEW a, inflight' = <<Event(q, i, m, a)>>
    PROVE  HashInv'
<1> USE Constants
<1>1. /\ \A p, j : On(Range(inflight'), p, j) # {} <=> p = q /\ j = i
      /\ \A p, j : Closing(Range(inflight'), p, j) = {}
      /\ Kinds'
  BY OneAnnounced
<1>2. wr' # None /\ wr'.path = q /\ wr'.ino = i
  <2>1. wr' \in Files
    BY DEF Files
  <2> QED BY <2>1
<1>3. \A j \in Inodes \ moved' : content'[j] # content[j] =>
         \E p \in Names : On(Range(inflight'), p, j) # {}
  BY <1>1
<1>4. ASSUME NEW j \in Inodes \ moved', NEW p \in Names, Untouched(p, j)'
      PROVE  ~Refers(p, j)' \/ (content'[j] = content[j] /\ Untouched(p, j))
  <2>1. CASE j # i
    BY <2>1 DEF Untouched
  <2>2. CASE j = i
    <3>1. p # q /\ q \in Names
      BY <1>2, <1>4, <2>2 DEF Untouched
    <3>2. Refers(q, i)'
      BY <1>2 DEF Refers
    <3> QED BY <1>4, <2>2, <3>1, <3>2 DEF OneName
  <2> QED BY <2>1, <2>2
<1>5. On(Range(inflight'), wr'.path, wr'.ino) # {}
  BY <1>1, <1>2
<1> QED BY <1>1, <1>3, <1>4, <1>5, CallHash

(* Calls that leave the contents alone.                                    *)
LEMMA PassiveCall ==
    ASSUME Inv, HashInv, UNCHANGED obsVars, queue' = queue, inflight = <<>>, moved \subseteq moved',
           content' = content, wr' = wr, Kinds', OneName',
           \A p, j : Closing(Range(inflight'), p, j) = {}
    PROVE  HashInv'
BY CallHash DEF Untouched

(* A call that adds no reference keeps the names.                          *)
LEMMA NamesKept ==
    ASSUME HashInv, moved \subseteq moved',
           \A i \in Inodes \ moved', p \in Names : Refers(p, i)' => Refers(p, i)
    PROVE  OneName'
BY DEF HashInv, OneName

LEMMA Unannounced ==
    ASSUME inflight = <<>>, UNCHANGED obsVars, queue' = queue
    PROVE  \A p, i : On(Unread, p, i)' = On(Range(inflight'), p, i) \cup On(Unread, p, i)
BY EmptyQueue DEF On, Unread, Announced, Touches, obsVars

LEMMA CreateHash ==
    ASSUME Inv, HashInv, UNCHANGED obsVars, NEW q \in Paths, Create(q, Held)
    PROVE  HashInv'
<1> USE Constants
<1>1. PICK i \in Inodes \ (Linked \cup Held) :
         /\ ino' = [ino EXCEPT ![q] = i] /\ content' = [content EXCEPT ![i] = 0]
         /\ wr' = [path |-> q, ino |-> i] /\ inflight' = <<Event(q, i, {"create", "open"}, 0)>>
  BY DEF Create
<1>2. /\ inflight = <<>> /\ wr = None /\ UNCHANGED <<queue, moved>>
      /\ ino \in [Paths -> Inodes \cup {None}] /\ content \in [Inodes -> Nat]
  BY DEF Create, Call, Inv, TypeOK, WorldTypeOK
<1>3. UNCHANGED <<batch, pending, job>>
  BY DEF obsVars
<1>4. \A p, j : On(Range(inflight'), p, j) # {} => p = q /\ j = i
  BY <1>1, OneAnnounced
<1>5. \A p \in Names : ~Refers(p, i)
  <2>1. \A e \in Announced : e.ino # i
    BY <1>1 DEF Held, Announced
  <2>2. Unread = Announced
    BY <1>2, EmptyQueue DEF Unread
  <2>3. \A p : On(Unread, p, i) = {}
    BY <2>1, <2>2 DEF On
  <2>4. \A p \in Paths : ino[p] # i
    BY <1>1 DEF Linked
  <2>5. \A p \in Names : pending[p] # None => pending[p].ino # i
    BY <1>1 DEF Held
  <2>6. job # None => job.ino # i
    BY <1>1 DEF Held
  <2> QED BY <1>2, <2>3, <2>4, <2>5, <2>6 DEF Refers
<1>6. wr'.path = q /\ wr'.ino = i
  BY <1>1
<1>7. \A p \in Names, j \in Inodes : Refers(p, j)' => Refers(p, j) \/ (p = q /\ j = i)
  <2> TAKE p \in Names, j \in Inodes
  <2>1. On(Unread, p, j)' # {} => On(Unread, p, j) # {} \/ (p = q /\ j = i)
    BY <1>2, <1>4, Unannounced
  <2>2. p \in Paths /\ ino'[p] = j => ino[p] = j \/ (p = q /\ j = i)
    BY <1>1, <1>2
  <2> QED BY <1>3, <1>6, <2>1, <2>2 DEF Refers
<1>8. OneName'
  BY <1>2, <1>5, <1>7 DEF HashInv, OneName
<1>9. \A j \in Inodes : j # i => content'[j] = content[j]
  BY <1>1, <1>2
<1> QED BY <1>1, <1>2, <1>8, <1>9, WritingCall DEF WriteClass

LEMMA OpenHash ==
    ASSUME Inv, HashInv, UNCHANGED obsVars, NEW q \in Paths, Open(q)
    PROVE  HashInv'
<1> USE Constants
<1> DEFINE i == ino[q]
<1>1. /\ inflight = <<>> /\ wr = None /\ i # None /\ UNCHANGED <<ino, queue, moved>>
      /\ content' = [content EXCEPT ![i] = 0] /\ wr' = [path |-> q, ino |-> i]
      /\ inflight' = <<Event(q, i, {"open", "modify"}, 0)>>
      /\ content \in [Inodes -> Nat] /\ i \in Inodes
  BY DEF Open, Call, Inv, TypeOK, WorldTypeOK
<1>2. UNCHANGED <<batch, pending, job>>
  BY DEF obsVars
<1>3. \A p, j : On(Range(inflight'), p, j) # {} => p = q /\ j = i
  BY <1>1, OneAnnounced
<1>4. Refers(q, i)
  BY DEF Refers
<1>5. wr'.path = q /\ wr'.ino = i
  BY <1>1
<1>6. \A p \in Names, j \in Inodes : Refers(p, j)' => Refers(p, j)
  <2> TAKE p \in Names, j \in Inodes
  <2>1. On(Unread, p, j)' # {} => On(Unread, p, j) # {} \/ (p = q /\ j = i)
    BY <1>1, <1>3, Unannounced
  <2> QED BY <1>1, <1>2, <1>4, <1>5, <2>1 DEF Refers
<1>7. OneName'
  BY <1>1, <1>6, NamesKept
<1>8. \A j \in Inodes : j # i => content'[j] = content[j]
  BY <1>1
<1> HIDE DEF i
<1> QED BY <1>1, <1>7, <1>8, WritingCall DEF WriteClass

LEMMA WriteHash == ASSUME Inv, HashInv, UNCHANGED obsVars, Write PROVE HashInv'
<1> USE Constants
<1> DEFINE q == wr.path
           i == wr.ino
<1>1. /\ inflight = <<>> /\ wr # None /\ wr' = wr /\ UNCHANGED <<ino, queue, moved>>
      /\ content' = [content EXCEPT ![i] = fresh + 1]
      /\ inflight' = <<Event(q, i, {"modify"}, 0)>>
      /\ content \in [Inodes -> Nat] /\ wr \in Files
  BY DEF Write, Call, Inv, TypeOK, WorldTypeOK
<1>2. q \in Paths /\ i \in Inodes /\ wr = [path |-> q, ino |-> i]
  BY <1>1 DEF Files
<1>3. UNCHANGED <<batch, pending, job>>
  BY DEF obsVars
<1>4. \A p, j : On(Range(inflight'), p, j) # {} => p = q /\ j = i
  BY <1>1, OneAnnounced
<1>5. Refers(q, i)
  BY <1>1 DEF Refers
<1>6. \A p \in Names, j \in Inodes : Refers(p, j)' => Refers(p, j)
  <2> TAKE p \in Names, j \in Inodes
  <2>1. On(Unread, p, j)' # {} => On(Unread, p, j) # {} \/ (p = q /\ j = i)
    BY <1>1, <1>4, Unannounced
  <2> QED BY <1>1, <1>3, <1>5, <2>1 DEF Refers
<1>7. OneName'
  BY <1>1, <1>6, NamesKept
<1>8. \A j \in Inodes : j # i => content'[j] = content[j]
  BY <1>1
<1>9. wr.ino = i /\ wr' = [path |-> q, ino |-> i]
  BY <1>1, <1>2
<1> HIDE DEF i, q
<1> QED BY <1>1, <1>2, <1>7, <1>8, <1>9, WritingCall DEF WriteClass

LEMMA CloseHash == ASSUME Inv, HashInv, UNCHANGED obsVars, Close PROVE HashInv'
<1> USE Constants
<1>1. /\ inflight = <<>> /\ wr # None /\ wr' = None /\ UNCHANGED <<ino, content, queue, moved>>
      /\ inflight' = <<Event(wr.path, wr.ino, {"close"}, content[wr.ino])>> /\ wr \in Files
  BY DEF Close, Inv, TypeOK, WorldTypeOK
<1>2. PICK q \in Paths, i \in Inodes : wr.path = q /\ wr.ino = i
  BY <1>1 DEF Files
<1> DEFINE close == Event(q, i, {"close"}, content[i])
<1>3. inflight' = <<close>> /\ close.at = content[i]
  BY <1>1, <1>2 DEF Event
<1>4. UNCHANGED <<batch, pending, job>>
  BY DEF obsVars
<1>5. /\ \A p, j : On(Range(inflight'), p, j) # {} => p = q /\ j = i
      /\ \A p, j, e : e \in Closing(Range(inflight'), p, j) <=> e = close /\ p = q /\ j = i
      /\ Kinds'
  <2>1. /\ \A p, j, e : e \in On(Range(inflight'), p, j) => p = q /\ j = i
        /\ \A p, j, e : e \in Closing(Range(inflight'), p, j) <=> e = close /\ p = q /\ j = i
    BY <1>3, OneAnnounced
  <2>2. {"close"} \subseteq WriteClass
    BY DEF WriteClass
  <2>3. Kinds'
    BY <1>3, <2>2, OneAnnounced
  <2> QED BY <2>1, <2>3
<1>6. Refers(q, i)
  BY <1>1, <1>2 DEF Refers
<1>7. \A p \in Names, j \in Inodes : Refers(p, j)' => Refers(p, j)
  <2> TAKE p \in Names, j \in Inodes
  <2>1. On(Unread, p, j)' # {} => On(Unread, p, j) # {} \/ (p = q /\ j = i)
    BY <1>1, <1>5, Unannounced
  <2> QED BY <1>1, <1>4, <1>6, <2>1 DEF Refers
<1>8. OneName'
  BY <1>1, <1>7, NamesKept
<1>9. Refers(q, i)'
  <2>1. On(Unread, q, i)' # {}
    <3>1. Closing(Range(inflight'), q, i) # {}
      BY <1>5
    <3>2. On(Range(inflight'), q, i) # {}
      BY <3>1, OnUnion
    <3> QED BY <1>1, <3>2, Unannounced
  <2> QED BY <2>1 DEF Refers
<1>10. ASSUME NEW j \in Inodes \ moved', NEW p \in Names
      PROVE  /\ \A e \in Closing(Range(inflight'), p, j) : e.at = content'[j]
             /\ Closing(Range(inflight'), p, j) = {} =>
                   ~Refers(p, j)' \/ (content'[j] = content[j] /\ Untouched(p, j))
  <2>1. CASE j # i
    BY <1>1, <1>2, <1>5, <2>1 DEF Untouched
  <2>2. CASE j = i /\ p = q
    BY <1>1, <1>3, <1>5, <2>2
  <2>3. CASE j = i /\ p # q
    <3>1. ~Refers(p, j)'
      BY <1>2, <1>8, <1>9, <1>10, <2>3 DEF OneName
    <3> QED BY <1>5, <2>3, <3>1
  <2> QED BY <2>1, <2>2, <2>3
<1> HIDE DEF close
<1> QED BY <1>1, <1>5, <1>8, <1>10, CallHash

LEMMA ReadHash ==
    ASSUME Inv, HashInv, UNCHANGED obsVars, NEW q \in Paths, Read(q)
    PROVE  HashInv'
<1> USE Constants
<1> DEFINE i == ino[q]
<1>1. /\ inflight = <<>> /\ i # None /\ UNCHANGED <<ino, content, wr, queue, moved>>
      /\ inflight' = <<Event(q, i, {"open"}, 0)>> /\ i \in Inodes
  BY DEF Read, Call, Inv, TypeOK, WorldTypeOK
<1>2. UNCHANGED <<batch, pending, job>>
  BY DEF obsVars
<1>3. /\ \A p, j : On(Range(inflight'), p, j) # {} => p = q /\ j = i
      /\ \A p, j : Closing(Range(inflight'), p, j) = {}
      /\ Kinds'
  BY <1>1, OneAnnounced DEF WriteClass
<1>4. Refers(q, i)
  BY DEF Refers
<1>5. \A p \in Names, j \in Inodes : Refers(p, j)' => Refers(p, j)
  <2> TAKE p \in Names, j \in Inodes
  <2>1. On(Unread, p, j)' # {} => On(Unread, p, j) # {} \/ (p = q /\ j = i)
    BY <1>1, <1>3, Unannounced
  <2> QED BY <1>1, <1>2, <1>4, <2>1 DEF Refers
<1>6. OneName'
  BY <1>1, <1>5, NamesKept
<1> HIDE DEF i
<1> QED BY <1>1, <1>3, <1>6, PassiveCall

LEMMA DeleteHash ==
    ASSUME Inv, HashInv, UNCHANGED obsVars, NEW q \in Paths, Delete(q)
    PROVE  HashInv'
<1> USE Constants
<1> DEFINE i == ino[q]
<1>1. /\ inflight = <<>> /\ UNCHANGED <<content, wr, queue, moved>>
      /\ ino' = [ino EXCEPT ![q] = None] /\ ino \in [Paths -> Inodes \cup {None}]
      /\ inflight' = <<Event(q, i, {"delete"}, 0)>>
  BY DEF Delete, Call, Inv, TypeOK, WorldTypeOK
<1>2. UNCHANGED <<batch, pending, job>>
  BY DEF obsVars
<1>3. /\ \A p, j : On(Range(inflight'), p, j) = {}
      /\ \A p, j : Closing(Range(inflight'), p, j) = {}
      /\ Kinds'
  BY <1>1, OneAnnounced DEF WriteClass
<1>4. \A p \in Names, j \in Inodes : Refers(p, j)' => Refers(p, j)
  <2> TAKE p \in Names, j \in Inodes
  <2>1. On(Unread, p, j)' # {} => On(Unread, p, j) # {}
    BY <1>1, <1>3, Unannounced
  <2>2. p \in Paths /\ ino'[p] = j => ino[p] = j
    BY <1>1
  <2> QED BY <1>1, <1>2, <2>1, <2>2 DEF Refers
<1>5. OneName'
  BY <1>1, <1>4, NamesKept
<1> HIDE DEF i
<1> QED BY <1>1, <1>3, <1>5, PassiveCall

LEMMA RenameHash ==
    ASSUME Inv, HashInv, UNCHANGED obsVars, NEW q \in Paths, NEW r \in Paths, Rename(q, r)
    PROVE  HashInv'
<1> USE Constants
<1> DEFINE i == ino[q]
           from == Event(q, i, {"movedFrom"}, 0)
           to == Event(r, i, {"movedTo"}, 0)
<1>1. /\ inflight = <<>> /\ UNCHANGED <<content, wr, queue>> /\ moved' = moved \cup {i}
      /\ ino' = [ino EXCEPT ![q] = None, ![r] = i] /\ ino \in [Paths -> Inodes \cup {None}]
      /\ inflight' = <<from, to>>
  BY DEF Rename, Call, Inv, TypeOK, WorldTypeOK
<1>2. UNCHANGED <<batch, pending, job>>
  BY DEF obsVars
<1>3. Range(inflight') = {from, to}
  <2>1. DOMAIN inflight' = {1, 2} /\ inflight'[1] = from /\ inflight'[2] = to
    BY <1>1
  <2> QED BY <2>1 DEF Range
<1>4. from.mask \cap WriteClass = {} /\ to.mask \cap WriteClass = {}
  BY DEF Event, WriteClass
<1>5. /\ \A p, j : On(Range(inflight'), p, j) = {}
      /\ \A p, j : Closing(Range(inflight'), p, j) = {}
      /\ Kinds'
  BY <1>3, <1>4 DEF On, Closing, Touches, Kinds
<1>6. \A p \in Names, j \in Inodes \ moved' : Refers(p, j)' => Refers(p, j)
  <2> TAKE p \in Names, j \in Inodes \ moved'
  <2>1. On(Unread, p, j)' # {} => On(Unread, p, j) # {}
    BY <1>1, <1>5, Unannounced
  <2>2. p \in Paths /\ ino'[p] = j => ino[p] = j
    BY <1>1
  <2> QED BY <1>1, <1>2, <2>1, <2>2 DEF Refers
<1>7. OneName'
  BY <1>1, <1>6, NamesKept
<1> HIDE DEF i
<1> QED BY <1>1, <1>5, <1>7, PassiveCall

LEMMA AgentHash == ASSUME Inv, HashInv, UNCHANGED obsVars, Agent(Held) PROVE HashInv'
BY CreateHash, OpenHash, ReadHash, WriteHash, CloseHash, DeleteHash, RenameHash DEF Agent

LEMMA HashInit == Init => HashInv
<1> SUFFICES ASSUME Init PROVE HashInv
  OBVIOUS
<1> USE Constants
<1>1. /\ wr = None /\ inflight = <<>> /\ queue = <<>> /\ batch = <<>> /\ job = None
      /\ emitted = {} /\ \A n \in Names : pending[n] = None
  BY DEF Init, WorldInit
<1>2. PICK f \in [Existing -> Inodes] :
         /\ \A p, q \in Existing : f[p] = f[q] => p = q
         /\ ino = [p \in Paths |-> IF p \in Existing THEN f[p] ELSE None]
  BY DEF Init, WorldInit
<1>3. Range(inflight) = {} /\ Unread = {}
  BY <1>1, EmptyQueue DEF Unread, Announced
<1>4. \A p, i : /\ On(Unread, p, i) = {} /\ Closing(Range(inflight), p, i) = {}
                /\ Closing(Range(queue), p, i) = {} /\ Closing(Range(batch), p, i) = {}
  BY <1>3 DEF On, Closing, Unread, Announced
<1>5. \A i \in Inodes, p \in Names : Refers(p, i) => p \in Paths /\ ino[p] = i
  BY <1>1, <1>4 DEF Refers
<1>6. \A i \in Inodes, p, q \in Paths : ino[p] = i /\ ino[q] = i => p = q
  BY <1>2
<1>7. OneName
  BY <1>5, <1>6 DEF OneName
<1>8. Kinds /\ LastClose /\ WriterSeen /\ ChangeSeen /\ HashAtClose
  BY <1>1, <1>3, <1>4 DEF Kinds, LastClose, WriterSeen, ChangeSeen, HashAtClose
<1> QED BY <1>7, <1>8 DEF HashInv

LEMMA HashNext ==
    ASSUME FastWriter, Nameless \cap WriteClass = {}
    PROVE  Inv /\ HashInv /\ [Next]_vars => HashInv'
<1> SUFFICES ASSUME Inv, HashInv, [Next]_vars PROVE HashInv'
  OBVIOUS
<1>1. CASE Start
  BY <1>1, StartHash
<1>2. CASE ReadLoop
  <2>1. CASE Poll \/ PollFails
    BY <2>1, PollHash, PollFailsHash
  <2>2. CASE DrainRead \/ DrainDone
    BY <2>2, DrainReadHash, DrainDoneHash
  <2>3. CASE Process
    BY <2>3, ProcessHash
  <2>4. CASE \E n \in Names : SkipUnsettled(n) \/ TakeSettled(n)
    BY <2>4, SkipUnsettledHash, TakeSettledHash
  <2>5. CASE ResolveDone \/ HashNoFD \/ HashLink
    BY <2>5, ResolveDoneHash, HashNoFDHash, HashLinkHash
  <2>6. CASE HashOpen \/ HashOpenFails \/ HashRead \/ HashCheck
    BY <2>6, HashOpenHash, HashOpenFailsHash, HashReadHash, HashCheckHash
  <2> QED BY <1>2, <2>1, <2>2, <2>3, <2>4, <2>5, <2>6 DEF ReadLoop
<1>3. CASE World
  BY <1>3, AgentHash, NotifyHash DEF World
<1>4. CASE Stop \/ Tick
  BY <1>4, StopHash, TickHash
<1>5. CASE UNCHANGED vars
  <2>1. /\ UNCHANGED <<ino, content, wr, inflight, queue, moved, worldVars, batch, readAge, age,
                       pending, overflow, emitted, job, stopReq, force, bumped, pc, ret>>
    BY <1>5 DEF vars, worldVars, obsVars, settleVars
  <2>2. ~Lost => ChangeSeen'
    <3>1. Unread' = Unread /\ Announced' = Announced
      BY <2>1 DEF Unread, Announced
    <3>2. \A p, i : On(Unread, p, i)' = On(Unread, p, i) /\ On(Announced, p, i)' = On(Announced, p, i)
      BY <3>1 DEF On, Touches
    <3>3. Ending' = Ending
      BY <2>1 DEF Ending
    <3> QED BY <2>1, <3>2, <3>3 DEF HashInv, ChangeSeen, Trusted, Digested
  <2>3. ~Lost => HashAtClose'
    BY <2>1 DEF HashInv, HashAtClose, Lost
  <2> QED BY <2>1, <2>2, <2>3, BusyHash
<1> QED BY <1>1, <1>2, <1>3, <1>4, <1>5 DEF Next

(* A published hash that HashAtClose does not excuse (a renamed file, a    *)
(* call in progress, a full queue, the end of the loop) is the digest of   *)
(* what the file held at its close, also when it was deleted and made anew *)
(* or others were renamed, as                                              *)
(* long as a burst of writes does not pause for the settle window and the  *)
(* kernel names the file in every event that tells of a write.             *)
THEOREM HashAtCloseHolds ==
    ASSUME FastWriter, Nameless \cap WriteClass = {}
    PROVE  Spec => []HashAtClose
<1>1. Init => Inv /\ HashInv
  BY InitInv, HashInit
<1>2. Inv /\ HashInv /\ [Next]_vars => Inv' /\ HashInv'
  BY NextInv, HashNext
<1>3. Inv /\ HashInv => HashAtClose
  BY DEF HashInv, HashAtClose
<1> QED BY <1>1, <1>2, <1>3, PTL DEF Spec

-----------------------------------------------------------------------------
(***************************************************************************)
(* The observer's own opens, of files that keep their names.               *)
(***************************************************************************)

(* Steps that leave the announcements and the counts alone.                *)
LEMMA QuietOwn ==
    ASSUME OwnInv, UNCHANGED <<ino, queue, batch, pending, job, holds>>,
           pc' = pc \/ pc' \notin {"start", "hash", "open"},
           \A e \in emitted' : e \in emitted \/ e.type # "open"
    PROVE  OwnInv'
<1> USE DEF OwnInv
<1>1. Kept'
  BY DEF Kept, Linked, Waiting
<1>2. Expected'
  BY DEF Expected, Announced, NameOf
<1>3. Balance'
  BY DEF Balance, Opened, Counted, Announced
<1>4. OwnOpensSuppressed'
  BY DEF OwnOpensSuppressed
<1> QED BY <1>1, <1>2, <1>3, <1>4

(* A file that has a name has one.                                         *)
LEMMA KeptName ==
    ASSUME Kept, NEW i \in Linked, i \in Inodes
    PROVE  NameOf(i) \in Paths /\ ino[NameOf(i)] = i /\ NameOf(i) \in Names /\ NameOf(i) # None
BY NameOfType, Constants

LEMMA TakeSettledOwn == ASSUME Inv, OwnInv, NEW n \in Names, TakeSettled(n) PROVE OwnInv'
<1> USE DEF OwnInv
<1>1. /\ UNCHANGED <<ino, queue, batch, holds, emitted>> /\ pc = "resolve" /\ pc' = "hash"
      /\ n \in Waiting /\ pending' = [pending EXCEPT ![n] = None]
      /\ job'.ino = pending[n].ino /\ job'.link = None /\ ~job'.failed
      /\ pending \in [Names -> Entries \cup {None}] /\ job = None
  BY DEF TakeSettled, Settled, Waiting, worldVars, Inv, TypeOK
<1>2. Kept'
  BY <1>1 DEF Kept, Linked, Waiting
<1>3. Expected'
  BY <1>1 DEF Expected, Announced
<1>4. Balance'
  <2>1. \A p : ~Counted(p)'
    BY <1>1 DEF Counted
  <2>2. \A p : Opened(p)' <=> Opened(p)
    BY <1>1 DEF Opened, Announced
  <2> QED BY <1>1, <2>1, <2>2 DEF Balance
<1>5. OwnOpensSuppressed'
  BY <1>1 DEF OwnOpensSuppressed
<1> QED BY <1>2, <1>3, <1>4, <1>5

LEMMA HashNoFDOwn == ASSUME Inv, OwnInv, HashNoFD PROVE OwnInv'
<1> USE Constants DEF OwnInv
<1>1. /\ UNCHANGED <<ino, queue, batch, pending, holds, emitted>> /\ pc = "hash" /\ pc' = "drain"
      /\ job \in Jobs /\ job'.ino = job.ino /\ job'.link = job.link /\ job # None
  BY DEF HashNoFD, worldVars, Inv, TypeOK, Jobs
<1>2. Kept'
  BY <1>1 DEF Kept, Linked, Waiting
<1>3. Expected'
  BY <1>1 DEF Expected, Announced
<1>4. Balance'
  <2>1. \A p \in Names \cup {Gone} : ~Counted(p)'
    BY <1>1 DEF Counted, Expected
  <2>2. \A p : Opened(p)' <=> Opened(p)
    BY <1>1 DEF Opened, Announced
  <2> QED BY <1>1, <2>1, <2>2 DEF Balance
<1>5. OwnOpensSuppressed'
  BY <1>1 DEF OwnOpensSuppressed
<1> QED BY <1>2, <1>3, <1>4, <1>5

LEMMA HashLinkOwn == ASSUME Inv, OwnInv, HashLink PROVE OwnInv'
<1> USE Constants DEF OwnInv
<1> DEFINE link == NameOf(job.ino)
<1>1. /\ UNCHANGED <<ino, queue, batch, pending, emitted>> /\ pc = "hash" /\ pc' = "open"
      /\ job \in Jobs /\ job'.ino = job.ino /\ job'.link = link /\ job # None
      /\ holds' = [holds EXCEPT ![link] = @ + 1] /\ holds \in [Names \cup {Gone} -> Int]
      /\ ~job.failed /\ ~job'.failed
  BY DEF HashLink, worldVars, Inv, TypeOK, Jobs, Control
<1>2. Kept'
  BY <1>1 DEF Kept, Linked, Waiting
<1>3. Expected'
  BY <1>1 DEF Expected, Announced, NameOf
<1>4. Balance'
  <2>1. \A p : /\ ~Counted(p)
               /\ Counted(p)' => p = link
    BY <1>1 DEF Counted
  <2>2. \A p : Opened(p)' <=> Opened(p)
    BY <1>1 DEF Opened, Announced
  <2> HIDE DEF link
  <2>3. \A p \in Names \cup {Gone} : holds'[p] = IF p = link THEN holds[p] + 1 ELSE holds[p]
    BY <1>1
  <2>4. \A p \in Names \cup {Gone} : holds[p] \in Int
    BY <1>1
  <2> QED BY <2>1, <2>2, <2>3, <2>4 DEF Balance
<1>5. OwnOpensSuppressed'
  BY <1>1 DEF OwnOpensSuppressed
<1> QED BY <1>2, <1>3, <1>4, <1>5

LEMMA HashOpenFailsOwn == ASSUME Inv, OwnInv, HashOpenFails PROVE OwnInv'
<1> USE Constants DEF OwnInv
<1>1. /\ UNCHANGED <<ino, queue, batch, pending, holds, emitted>> /\ pc = "open" /\ pc' = "drain"
      /\ job \in Jobs /\ job'.ino = job.ino /\ job'.link = job.link /\ job # None
  BY DEF HashOpenFails, worldVars, Inv, TypeOK, Jobs
<1>2. Kept'
  BY <1>1 DEF Kept, Linked, Waiting
<1>3. Expected'
  BY <1>1 DEF Expected, Announced
<1>4. Balance'
  <2>1. \A p : Counted(p)' => Counted(p)
    BY <1>1 DEF Counted
  <2>2. \A p : Opened(p)' <=> Opened(p)
    BY <1>1 DEF Opened, Announced
  <2> QED BY <1>1, <2>1, <2>2 DEF Balance
<1>5. OwnOpensSuppressed'
  BY <1>1 DEF OwnOpensSuppressed
<1> QED BY <1>2, <1>3, <1>4, <1>5

LEMMA HashReadOwn == ASSUME Inv, OwnInv, HashRead, "read" \notin HashErrors PROVE OwnInv'
<1> USE Constants DEF OwnInv
<1>1. /\ UNCHANGED <<ino, queue, batch, pending, holds, emitted>> /\ pc = "read" /\ pc' = "drain"
      /\ job \in Jobs /\ job # None /\ ~job.failed
  BY DEF HashRead, worldVars, Inv, TypeOK, Jobs, Control
<1>2. job'.ino = job.ino /\ ~job'.failed
  BY <1>1 DEF HashRead, Jobs
<1>3. Kept'
  BY <1>1, <1>2 DEF Kept, Linked, Waiting
<1>4. Expected'
  BY <1>1 DEF Expected, Announced
<1>5. Balance'
  <2>1. \A p : ~Counted(p)'
    BY <1>1, <1>2 DEF Counted
  <2>2. \A p : Opened(p)' <=> Opened(p)
    BY <1>1 DEF Opened, Announced
  <2> QED BY <1>1, <2>1, <2>2 DEF Balance
<1>6. OwnOpensSuppressed'
  BY <1>1 DEF OwnOpensSuppressed
<1> QED BY <1>3, <1>4, <1>5, <1>6

LEMMA HashCheckOwn == ASSUME Inv, OwnInv, HashCheck PROVE OwnInv'
<1> USE Constants DEF OwnInv
<1>1. /\ UNCHANGED <<ino, queue, batch, pending>> /\ pc = "check" /\ pc' = "resolve"
      /\ job \in Jobs /\ job # None /\ job' = None /\ job.link \in Names \cup {Gone, None}
      /\ holds' = IF job.failed /\ job.link # None
                  THEN [holds EXCEPT ![job.link] = @ - 1] ELSE holds
      /\ holds \in [Names \cup {Gone} -> Int]
      /\ \A e \in emitted' : e \in emitted \/ e.type = "close"
  BY DEF HashCheck, worldVars, Inv, TypeOK, Jobs, Emission
<1>2. Kept'
  BY <1>1 DEF Kept, Linked, Waiting
<1>3. Expected'
  BY <1>1 DEF Expected, Announced
<1>4. Balance'
  <2>1. \A p : ~Counted(p)'
    BY <1>1 DEF Counted
  <2>2. \A p : Opened(p)' <=> Opened(p)
    BY <1>1 DEF Opened, Announced
  <2>3. \A p \in Names \cup {Gone} : /\ holds[p] \in Int
                                     /\ holds'[p] = holds[p] \/ (Counted(p) /\ holds'[p] = holds[p] - 1)
    BY <1>1 DEF Counted
  <2> QED BY <2>1, <2>2, <2>3 DEF Balance
<1>5. OwnOpensSuppressed'
  BY <1>1 DEF OwnOpensSuppressed
<1> QED BY <1>2, <1>3, <1>4, <1>5

LEMMA HashOpenOwn == ASSUME Inv, OwnInv, HashOpen PROVE OwnInv'
<1> USE Constants DEF OwnInv
<1> DEFINE name == NameOf(job.ino)
           own == OwnOpen(name, job.ino)
<1>1. /\ UNCHANGED <<ino, batch, pending, job, holds, emitted>> /\ pc = "open" /\ pc' = "read"
      /\ job \in Jobs /\ job # None /\ ~job.failed /\ job.ino # None /\ job.ino \in Inodes
      /\ batch = <<>> /\ job.link = name
  BY DEF HashOpen, Inv, TypeOK, Jobs, Control, Expected
<1>2. job.ino \in Linked
  BY <1>1 DEF Kept
<1>3. name \in Paths /\ ino[name] = job.ino /\ name \in Names
  BY <1>1, <1>2, KeptName
<1>4. queue' = Enqueue(queue, own)
  BY <1>3 DEF HashOpen
<1>5. own \in Events /\ own.own /\ own.path = name /\ own.ino = job.ino
  BY <1>1, <1>3, EventTypes
<1>6. Counted(name)
  BY <1>1 DEF Counted
<1> HIDE DEF own, name
<1>7. Range(queue') = Range(queue) \cup {Overflow} \/ \E x \in Events : Takes(queue, own, queue', x)
  BY <1>1, <1>4, <1>5, EnqueueTakes DEF Inv, TypeOK, WorldTypeOK, Queues, Announced
<1>8. \A e \in Range(queue') : e.own => e \in Range(queue) \/ (e.path = name /\ e.ino = job.ino)
  <2>1. CASE Range(queue') = Range(queue) \cup {Overflow}
    BY <2>1, EventTypes
  <2>2. CASE \E x \in Events : Takes(queue, own, queue', x)
    BY <1>5, <2>2 DEF Takes, Same
  <2> QED BY <1>7, <2>1, <2>2
<1>9. Kept'
  BY <1>1 DEF Kept, Linked, Waiting
<1>10. Expected'
  <2>1. \A e \in Announced' : e.own => e.path \in Paths /\ ino[e.path] = e.ino
    BY <1>1, <1>3, <1>8 DEF Expected, Announced
  <2> QED BY <1>1, <2>1 DEF Expected
<1>11. Balance'
  <2>1. \A p : ~Counted(p)'
    BY <1>1 DEF Counted
  <2>2. \A p : Opened(p)' => Opened(p) \/ p = name
    BY <1>1, <1>8 DEF Opened, Announced
  <2> QED BY <1>1, <1>6, <2>1, <2>2 DEF Balance
<1>12. OwnOpensSuppressed'
  BY <1>1 DEF OwnOpensSuppressed
<1> QED BY <1>9, <1>10, <1>11, <1>12

LEMMA DrainReadOwn == ASSUME Inv, OwnInv, DrainRead PROVE OwnInv'
<1> USE DEF OwnInv
<1>1. /\ UNCHANGED <<ino, pending, job, holds, emitted, pc>> /\ batch = <<>> /\ pc = "drain"
      /\ batch' = queue /\ queue' = <<>>
  BY DEF DrainRead
<1>2. Announced' = Announced /\ \A e \in Range(queue') : FALSE
  BY <1>1, EmptyQueue DEF Announced
<1>3. Kept'
  BY <1>1 DEF Kept, Linked, Waiting
<1>4. Expected'
  BY <1>1, <1>2 DEF Expected
<1>5. Balance'
  BY <1>1, <1>2 DEF Balance, Opened, Counted
<1>6. OwnOpensSuppressed'
  BY <1>1 DEF OwnOpensSuppressed
<1> QED BY <1>3, <1>4, <1>5, <1>6

(* Nothing is found by the walk of Start.                                  *)
LEMMA StartOwn == ASSUME Inv, OwnInv, Start PROVE OwnInv'
<1> USE DEF OwnInv
<1>1. /\ UNCHANGED <<ino, batch, pending, job, holds, emitted>> /\ pc = "start" /\ pc' = "poll"
      /\ batch = <<>> /\ queue = <<>>
  BY DEF Start, Inv, Control
<1>2. {p \in Paths : ino[p] # None} = {}
  BY <1>1 DEF Kept, Linked
<1>3. queue' = <<>>
  <2>1. PICK w \in Bijection(1..0, {}) :
          LET opens == [n \in DOMAIN w |-> OwnOpen(w[n], ino[w[n]])]
          IN queue' = IF Len(opens) <= QueueMax THEN opens
                      ELSE Append(SubSeq(opens, 1, QueueMax), Overflow)
    BY <1>2, FS_EmptySet DEF Start
  <2>2. DOMAIN w = {}
    BY <2>1 DEF Bijection, Injection
  <2>3. [n \in DOMAIN w |-> OwnOpen(w[n], ino[w[n]])] = <<>>
    BY <2>2
  <2> QED BY <2>1, <2>3, WorldAssumption
<1> QED BY <1>1, <1>3, QuietOwn

LEMMA ProcessOwn == ASSUME Inv, OwnInv, Process PROVE OwnInv'
<1> USE Constants DEF OwnInv
<1>1. PICK e : e = Head(batch)
  OBVIOUS
<1> DEFINE mask == IF Suppressed(e) THEN e.mask \ {"open"} ELSE e.mask
<1>2. /\ UNCHANGED <<ino, queue, job, pc>> /\ pc = "drain" /\ batch # <<>>
      /\ emitted' = emitted \cup Emissions(e, mask)
      /\ holds' = IF Suppressed(e) THEN [holds EXCEPT ![e.path] = @ - 1] ELSE holds
      /\ holds \in [Names \cup {Gone} -> Int]
  BY <1>1 DEF Process, worldVars, Inv, TypeOK
<1>3. /\ e \in Events /\ e.path \in Names /\ e \in Range(batch)
      /\ Range(batch) = {e} \cup Range(batch')
      /\ \A y \in Range(batch') : ~Same(y, e)
      /\ e.own => e.mask = {"open"}
  BY <1>1, ProcessTakes
<1>4. \A y \in Range(batch) : y.own \in BOOLEAN
  <2>1. \A y \in Range(batch) : y \in Events
    BY DEF Inv, TypeOK, Range
  <2> QED BY <2>1 DEF Events
<1>5. \A y \in Announced' : y \in Announced
  BY <1>2, <1>3 DEF Announced
<1>6. pending' = pending \/ pending' = [pending EXCEPT ![e.path] = PendingClose(e)]
  BY <1>1 DEF Process
<1>7. PendingClose(e).ino \in Linked \cup {None}
  BY DEF PendingClose
<1>8. e.own => e.path \in Paths /\ ino[e.path] = e.ino
  BY <1>3 DEF Expected, Announced
<1>9. ASSUME e.own PROVE Suppressed(e) /\ ~Opened(e.path)'
  <2>1. Opened(e.path)
    BY <1>3, <1>9 DEF Opened, Announced
  <2>2. holds[e.path] >= 1
    BY <1>3, <2>1 DEF Balance
  <2>3. Suppressed(e)
    BY <1>2, <1>3, <1>9, <2>2 DEF Suppressed
  <2>4. ASSUME NEW y \in Announced', y.own, y.path = e.path PROVE FALSE
    <3>1. y \in Range(batch')
      BY <1>2, <2>4 DEF Expected, Announced
    <3>2. y.ino = e.ino
      BY <1>5, <1>8, <1>9, <2>4 DEF Expected
    <3>3. y.own = e.own
      <4>1. y.own \in BOOLEAN /\ e.own \in BOOLEAN
        BY <1>3, <1>4, <3>1
      <4> QED BY <1>9, <2>4, <4>1
    <3> QED BY <1>3, <2>4, <3>1, <3>2, <3>3 DEF Same
  <2> QED BY <2>3, <2>4 DEF Opened
<1>10. Kept'
  <2>1. \A n \in Names : pending'[n] # None => pending'[n].ino \in Linked \cup {None}
    <3>1. pending \in [Names -> Entries \cup {None}]
      BY DEF Inv, TypeOK
    <3> QED BY <1>6, <1>7, <3>1 DEF Kept, Waiting
  <2> QED BY <1>2, <2>1 DEF Kept, Linked, Waiting
<1>11. Expected'
  <2>1. \A y \in Announced' : y.own => y.path \in Paths /\ ino[y.path] = y.ino
    BY <1>5 DEF Expected
  <2> QED BY <1>2, <2>1 DEF Expected
<1>12. Balance'
  <2>1. \A p : /\ Counted(p)' <=> Counted(p)
               /\ Opened(p)' => Opened(p)
    BY <1>2, <1>5 DEF Counted, Opened
  <2>2. CASE e.own
    <3>1. Opened(e.path) /\ ~Opened(e.path)'
      BY <1>3, <1>9, <2>2 DEF Opened, Announced
    <3>2. \A p \in Names \cup {Gone} : /\ holds[p] \in Int
                                       /\ holds'[p] = IF p = e.path THEN holds[p] - 1 ELSE holds[p]
      BY <1>2, <1>3, <1>9, <2>2
    <3> SUFFICES ASSUME NEW p \in Names \cup {Gone}
        PROVE /\ holds'[p] >= 0
              /\ Opened(p)' \/ Counted(p)' => holds'[p] >= 1
              /\ Opened(p)' /\ Counted(p)' => holds'[p] >= 2
      BY DEF Balance
    <3>3. /\ holds[p] >= 0 /\ (Opened(p) \/ Counted(p) => holds[p] >= 1)
          /\ Opened(p) /\ Counted(p) => holds[p] >= 2
      BY DEF Balance
    <3>4. holds[p] \in Int
      BY <3>2
    <3>5. CASE p = e.path
      BY <2>1, <3>1, <3>2, <3>3, <3>4, <3>5
    <3>6. CASE p # e.path
      BY <2>1, <3>2, <3>3, <3>6
    <3> QED BY <3>5, <3>6
  <2>3. CASE ~e.own
    BY <1>2, <2>1, <2>3 DEF Balance, Suppressed
  <2> QED BY <2>2, <2>3
<1>13. OwnOpensSuppressed'
  <2>1. \A n \in Emissions(e, mask) : n.type = "open" => ~n.own
    <3>1. CASE e.own
      <4>1. mask = {}
        BY <1>3, <1>9, <3>1
      <4> QED BY <4>1 DEF Emissions
    <3>2. CASE ~e.own
      BY <3>2 DEF Emissions, Emission, Superseded
    <3> QED BY <3>1, <3>2
  <2> QED BY <1>2, <2>1 DEF OwnOpensSuppressed
<1> QED BY <1>10, <1>11, <1>12, <1>13

LEMMA NotifyOwn == ASSUME Inv, OwnInv, Notify, UNCHANGED obsVars PROVE OwnInv'
<1> USE DEF OwnInv
<1>1. UNCHANGED <<ino, batch, pending, job, holds, emitted, pc>>
  BY DEF Notify, obsVars
<1>2. PICK e \in Events :
         /\ ~e.own
         /\ \/ Range(queue') = Range(queue) \cup {Overflow}
            \/ \E x \in Events : Takes(queue, e, queue', x)
  BY NotifyTakes
<1>3. \A y \in Range(queue') : y.own => y \in Range(queue)
  <2>1. CASE Range(queue') = Range(queue) \cup {Overflow}
    BY <2>1, EventTypes
  <2>2. CASE \E x \in Events : Takes(queue, e, queue', x)
    BY <1>2, <2>2 DEF Takes, Same
  <2> QED BY <1>2, <2>1, <2>2
<1>4. \A y \in Announced' : y.own => y \in Announced
  BY <1>1, <1>3 DEF Announced
<1>5. Kept'
  BY <1>1 DEF Kept, Linked, Waiting
<1>6. Expected'
  BY <1>1, <1>3, <1>4 DEF Expected, NameOf
<1>7. Balance'
  <2>1. \A p : /\ Counted(p)' <=> Counted(p)
               /\ Opened(p)' => Opened(p)
    BY <1>1, <1>4 DEF Counted, Opened
  <2> QED BY <1>1, <2>1 DEF Balance
<1>8. OwnOpensSuppressed'
  BY <1>1 DEF OwnOpensSuppressed
<1> QED BY <1>5, <1>6, <1>7, <1>8

(* A call that only adds names.                                            *)
LEMMA AgentOwn ==
    ASSUME Inv, OwnInv, Agent(Held), UNCHANGED obsVars, pc # "start",
           AgentOps \cap {"delete", "rename"} = {}
    PROVE  OwnInv'
<1> USE Constants DEF OwnInv
<1>1. UNCHANGED <<batch, pending, job, holds, emitted, pc>>
  BY DEF obsVars
<1>2. ino \in [Paths -> Inodes \cup {None}]
  BY DEF Inv, TypeOK, WorldTypeOK
<1>3. ~ (\E p \in Paths : Delete(p)) /\ ~ (\E p, q \in Paths : Rename(p, q))
  BY DEF Delete, Rename, Call
<1>4. CASE Write \/ Close \/ \E p \in Paths : Open(p) \/ Read(p)
  <2>1. UNCHANGED <<ino, queue>>
    BY <1>4 DEF Write, Close, Open, Read
  <2> QED BY <1>1, <2>1, QuietOwn
<1>5. ASSUME NEW q \in Paths, Create(q, Held) PROVE OwnInv'
  <2>1. PICK i \in Inodes \ (Linked \cup Held) : ino' = [ino EXCEPT ![q] = i]
    BY <1>5 DEF Create
  <2>2. ino[q] = None /\ queue' = queue
    BY <1>5 DEF Create
  <2>3. i \notin Linked /\ i # None
    BY <2>1
  <2>4. /\ \A p \in Paths, j \in Linked : ino'[p] = j <=> ino[p] = j
        /\ \A p, r \in Paths : ino'[p] = ino'[r] /\ ino'[p] # None => p = r
    BY <1>2, <2>1, <2>2, <2>3 DEF Kept, Linked
  <2>5. Linked \subseteq Linked'
    BY <2>4 DEF Linked
  <2>6. Kept'
    BY <1>1, <2>4, <2>5 DEF Kept, Waiting
  <2>7. ASSUME pc = "open" PROVE NameOf(job.ino)' = NameOf(job.ino)
    <3>1. job.ino \in Linked /\ job # None
      BY <2>7 DEF Kept, Inv, TypeOK, Control
    <3>2. PICK p \in Paths : ino[p] = job.ino
      BY <3>1 DEF Linked
    <3>3. \A r \in Paths : ino[r] = job.ino => r = p
      BY <3>1, <3>2 DEF Kept, Linked
    <3>4. \A r \in Paths : ino'[r] = job.ino <=> r = p
      BY <2>4, <3>1, <3>2, <3>3
    <3>5. NameOf(job.ino) = p
      BY <3>2, <3>3 DEF NameOf
    <3>6. NameOf(job.ino)' = p
      BY <1>1, <3>4 DEF NameOf
    <3> QED BY <3>5, <3>6
  <2>8. \A e \in Announced : e.own => e.path \in Paths /\ ino'[e.path] = e.ino
    <3>1. \A e \in Announced : e.own => e.ino # None
      BY EventTypes DEF Inv, Queues
    <3> QED BY <1>2, <2>1, <2>2, <3>1 DEF Expected
  <2>9. Expected'
    BY <1>1, <2>2, <2>7, <2>8 DEF Expected, Announced
  <2>10. Balance'
    BY <1>1, <2>2 DEF Balance, Opened, Counted, Announced
  <2>11. OwnOpensSuppressed'
    BY <1>1 DEF OwnOpensSuppressed
  <2> QED BY <2>6, <2>9, <2>10, <2>11
<1> QED BY <1>3, <1>4, <1>5 DEF Agent

LEMMA OwnInit == Init /\ Existing = {} => OwnInv
<1> SUFFICES ASSUME Init, Existing = {} PROVE OwnInv
  OBVIOUS
<1> USE Constants
<1>1. /\ queue = <<>> /\ batch = <<>> /\ job = None /\ emitted = {} /\ pc = "start"
      /\ \A n \in Names : pending[n] = None
      /\ \A p \in Names \cup {Gone} : holds[p] = 0
  BY DEF Init, WorldInit
<1>2. \A p \in Paths : ino[p] = None
  BY DEF Init, WorldInit
<1>3. Kept
  BY <1>1, <1>2 DEF Kept, Linked, Waiting
<1>4. Announced = {}
  BY <1>1, EmptyQueue DEF Announced
<1>5. Expected
  BY <1>1, <1>4 DEF Expected
<1>6. Balance
  BY <1>1, <1>4 DEF Balance, Opened, Counted
<1>7. OwnOpensSuppressed
  BY <1>1 DEF OwnOpensSuppressed
<1> QED BY <1>3, <1>5, <1>6, <1>7 DEF OwnInv

LEMMA OwnNext ==
    ASSUME AgentOps \cap {"delete", "rename"} = {}, "read" \notin HashErrors
    PROVE  Inv /\ OwnInv /\ [Next]_vars => OwnInv'
<1> SUFFICES ASSUME Inv, OwnInv, [Next]_vars PROVE OwnInv'
  OBVIOUS
<1>1. CASE Start
  BY <1>1, StartOwn
<1>2. CASE ReadLoop
  <2>1. CASE Poll \/ PollFails \/ ResolveDone \/ DrainDone \/ \E n \in Names : SkipUnsettled(n)
    <3>1. UNCHANGED <<ino, queue, batch, pending, job, holds, emitted>>
      BY <2>1 DEF Poll, PollFails, ResolveDone, DrainDone, SkipUnsettled, worldVars
    <3>2. pc' = pc \/ pc' \notin {"start", "hash", "open"}
      BY <2>1 DEF Poll, PollFails, ResolveDone, DrainDone, SkipUnsettled, Inv, TypeOK
    <3> QED BY <3>1, <3>2, QuietOwn
  <2>2. CASE DrainRead \/ Process
    BY <2>2, DrainReadOwn, ProcessOwn
  <2>3. CASE \E n \in Names : TakeSettled(n)
    BY <2>3, TakeSettledOwn
  <2>4. CASE HashNoFD \/ HashLink \/ HashOpen
    BY <2>4, HashNoFDOwn, HashLinkOwn, HashOpenOwn
  <2>5. CASE HashOpenFails \/ HashRead \/ HashCheck
    BY <2>5, HashOpenFailsOwn, HashReadOwn, HashCheckOwn
  <2> QED BY <1>2, <2>1, <2>2, <2>3, <2>4, <2>5 DEF ReadLoop
<1>3. CASE World
  BY <1>3, AgentOwn, NotifyOwn DEF World
<1>4. CASE Stop \/ Tick \/ UNCHANGED vars
  <2>1. UNCHANGED <<ino, queue, batch, pending, job, holds, emitted, pc>>
    BY <1>4 DEF Stop, Tick, vars, worldVars, obsVars
  <2> QED BY <2>1, QuietOwn
<1> QED BY <1>1, <1>2, <1>3, <1>4 DEF Next

(* The opens that hashSettledFD makes are never reported as the agent's,   *)
(* whatever is merged, dropped or superseded meanwhile.  The hypotheses    *)
(* are those the counting rests on: no file is there for the walk of Start *)
(* to open, no file loses its name, and no read fails after its open.      *)
THEOREM OwnOpensSuppressedHolds ==
    ASSUME Existing = {}, AgentOps \cap {"delete", "rename"} = {}, "read" \notin HashErrors
    PROVE  Spec => []OwnOpensSuppressed
<1>1. Init => Inv /\ OwnInv
  BY InitInv, OwnInit
<1>2. Inv /\ OwnInv /\ [Next]_vars => Inv' /\ OwnInv'
  BY NextInv, OwnNext
<1>3. Inv /\ OwnInv => OwnOpensSuppressed
  BY DEF OwnInv
<1> QED BY <1>1, <1>2, <1>3, PTL DEF Spec
=============================================================================
