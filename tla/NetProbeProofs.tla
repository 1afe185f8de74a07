--------------------------- MODULE NetProbeProofs ---------------------------
(***************************************************************************)
(* Proofs about NetProbe, for any processes, descriptors and peers, and    *)
(* any capacity of the maps, the ring buffer and the channels.  What the   *)
(* processes must not do for a property to hold is a hypothesis on Habits. *)
(***************************************************************************)
EXTENDS NetProbe, QueueLemmas, FiniteSetTheorems

Events ==
    [type : {"connect", "hello", "close"}, key : Keys, peer : Peers,
     payload : Buffers \cup {None}, c : Nat]
Connects ==
    [pid : Pids, peer : Peers, sock : Nat, tree : BOOLEAN, due : BOOLEAN,
     sent : SUBSET Names, first : Names \cup {None, "other"}]
Outs == [target : Names \cup Peers, c : Nat, dropped : BOOLEAN]

(* The records on their way to correlate, in their order.                  *)
Queue == netCh \o ring
Way == Elements(Queue)

(* The events that were emitted.                                           *)
Told == Elements(out)

(* The types of the processes and their connections.                       *)
WorldTypes ==
    /\ task \in [Pids -> Pids \cup {None}] /\ used \subseteq Pids
    /\ fds \in [Pids -> [Fds -> Nat]]
    /\ tree \subseteq Pids /\ seen \subseteq Pids /\ tracked_pids \subseteq Pids
    /\ conn \in Seq(Connects) /\ Len(conn) <= MaxConns /\ lost \subseteq DOMAIN conn

(* The types of what the programs and the observer keep.                   *)
ProbeTypes ==
    /\ conns \in [Keys -> ConnStates \cup {None}]
    /\ table \in [Keys -> Connections \cup {None}]
    /\ ring \in Seq(Events) /\ Len(ring) <= RingMax
    /\ netCh \in Seq(Events) /\ Len(netCh) <= ChanMax
    /\ out \in Seq(Outs) /\ waiting \in 0..EventBufSize
    /\ phase \in {"launched", "running", "stopping", "stopped"} /\ feed \in BOOLEAN

(* Numbers are used by what lives, and by what has an entry; nothing is    *)
(* tracked before TrackPID.                                                *)
Numbered ==
    /\ Root \in used /\ Root \in tree
    /\ \A t \in Pids : task[t] # None => t \in used /\ task[t] \in used
    /\ tracked_pids \cup tree \cup seen \subseteq used
    /\ \A k \in Keys : conns[k] # None => k[1] \in used
    /\ \A c \in DOMAIN conn : conn[c].pid \in used
    /\ phase = "launched" => /\ tracked_pids = {} /\ seen = {}
                             /\ \A k \in Keys : conns[k] = None

(* What is kept about a connect is of one that was made, with its peer.    *)
(* A connect has one descriptor, in all the processes that share it.       *)
Known ==
    /\ \A p \in Pids, f \in Fds : fds[p][f] \in 0..Len(conn)
    /\ \A p, q \in Pids, f, g \in Fds : fds[p][f] = fds[q][g] /\ fds[p][f] # 0 => f = g
    /\ \A k \in Keys : conns[k] # None =>
           /\ conns[k].c \in DOMAIN conn /\ conns[k].peer = conn[conns[k].c].peer
           /\ conn[conns[k].c].pid = k[1]
    /\ \A k \in Keys : table[k] # None =>
           /\ table[k].c \in DOMAIN conn /\ table[k].peer = conn[table[k].c].peer
           /\ table[k].host # None => table[k].emitted
    /\ \A r \in Way : r.c \in DOMAIN conn /\ r.peer = conn[r.c].peer
    /\ \A o \in Told : o.c \in DOMAIN conn

(* Every connect is about one key.                                         *)
About(k, c) ==
    \/ conns[k] # None /\ conns[k].c = c
    \/ table[k] # None /\ table[k].c = c
    \/ \E r \in Way : r.key = k /\ r.c = c
OneKey == \A k, l \in Keys, c \in Nat : About(k, c) /\ About(l, c) => k = l

(* The records of a key are in the order in which the programs wrote them. *)
Rank(r) == CASE r.type = "connect" -> 1 [] r.type = "hello" -> 2 [] r.type = "close" -> 3
Before(r, s) == r.c < s.c \/ (r.c = s.c /\ Rank(r) < Rank(s))
InOrder(s) == \A i, j \in DOMAIN s : i < j /\ s[i].key = s[j].key => Before(s[i], s[j])

(* conns is ahead of the queue, and o.conns is behind it.                  *)
Ordered ==
    /\ InOrder(Queue)
    /\ \A k \in Keys, r \in Way : conns[k] # None /\ r.key = k =>
           \/ r.c < conns[k].c
           \/ /\ r.c = conns[k].c /\ r.type # "close"
              /\ r.type = "hello" => conns[k].hello_captured
    /\ \A k \in Keys, r \in Way : table[k] # None /\ r.key = k =>
           table[k].c < r.c \/ (table[k].c = r.c /\ r.type # "connect")
    /\ \A k \in Keys : conns[k] # None /\ table[k] # None => table[k].c <= conns[k].c

(* A connect is reported once, and what is left of it says so.             *)
Once ==
    /\ \A m, n \in DOMAIN out : m # n => out[m].c # out[n].c
    /\ \A r \in Way : Emitted(r.c) => r.type = "close"
    /\ \A k \in Keys : conns[k] # None /\ Emitted(conns[k].c) => conns[k].hello_captured
    /\ \A k \in Keys : table[k] # None /\ Emitted(table[k].c) => table[k].emitted

(* A connect of which nothing was lost has its record under way or its     *)
(* entry in o.conns, as long as the programs have one or a later record is *)
(* under way.                                                              *)
Open(k, c) ==
    \/ conns[k] # None /\ conns[k].c = c
    \/ \E r \in Way : r.key = k /\ r.c = c /\ r.type # "connect"
Entered(k, c) ==
    \/ table[k] # None /\ table[k].c = c
    \/ \E r \in Way : r.key = k /\ r.c = c /\ r.type = "connect"
Registered == \A k \in Keys, c \in DOMAIN conn : Open(k, c) => c \in lost \/ Entered(k, c)

(* Without the reuse of numbers, what is tracked descends from the agent.  *)
Lives(p) == \E t \in Pids : task[t] = p
Lineage ==
    "reuse" \notin Habits =>
        /\ \A p \in tracked_pids : Lives(p) => p \in tree
        /\ \A k \in Keys : conns[k] # None => conn[conns[k].c].tree
        /\ \A k \in Keys : table[k] # None => conn[table[k].c].tree
        /\ \A r \in Way : conn[r.c].tree
        /\ \A o \in Told : conn[o.c].tree

(* A socket is connected once, and a number used once.                     *)
Plain == Habits \cap {"reuse", "reconnect"} = {}

Socketed == "reconnect" \notin Habits => \A c \in DOMAIN conn : conn[c].sock = c

(* The entry of a tracked process is that of what its descriptor refers to.*)
Agreed ==
    Plain => \A p \in tracked_pids, f \in Fds :
        Lives(p) /\ conns[<<p, f>>] # None => fds[p][f] = conns[<<p, f>>].c

(* A server name is one that was sent on the connect that it is for.       *)
Truthful ==
    Plain =>
        /\ \A r \in Way : r.payload \in Names => r.payload \in conn[r.c].sent
        /\ \A o \in Told : o.target \in conn[o.c].sent \cup {conn[o.c].peer}

(* An entry of o.conns that nothing was lost of stays until its close      *)
(* comes.                                                                  *)
Closing(k, c) == \E r \in Way : r.key = k /\ r.c = c /\ r.type = "close"
Kept ==
    Plain =>
        \A k \in Keys, c \in DOMAIN conn \ lost :
            /\ Entered(k, c) => (conns[k] # None /\ conns[k].c = c) \/ Closing(k, c)
            /\ table[k] # None /\ table[k].c = c /\ table[k].emitted
               => Emitted(c) \/ conn[c].peer \in DnsPeers

(* While the process that connected can still write its first bytes, they  *)
(* have not been recorded, and the connection is not reported.             *)
Unsaid ==
    Plain =>
        /\ \A c \in DOMAIN conn : conn[c].first = None =>
               /\ \A r \in Way : r.c = c => r.type # "hello"
               /\ \A k \in Keys : conns[k] # None /\ conns[k].c = c => ~conns[k].hello_captured
        /\ \A p \in Pids, f \in Fds : Lives(p) /\ fds[p][f] # 0 /\ conn[fds[p][f]].pid = p =>
               /\ \A r \in Way : r.c = fds[p][f] => r.type # "close"
               /\ fds[p][f] \notin lost /\ conn[fds[p][f]].first = None => ~Emitted(fds[p][f])

(* A server name that was sent first is recorded, on its way or reported.  *)
Clear(c) == c \notin lost /\ conn[c].first \in Names
Named ==
    Plain =>
        /\ \A r \in Way : r.type = "hello" /\ Clear(r.c) => r.payload = conn[r.c].first
        /\ \A k \in Keys : /\ conns[k] # None /\ Clear(conns[k].c) /\ Lives(k[1])
                           /\ ~conns[k].hello_captured
                           => k[1] \notin tracked_pids
        /\ \A k \in Keys, c \in DOMAIN conn :
               /\ Clear(c) /\ conn[c].peer \notin DnsPeers
               /\ Closing(k, c) \/ (conns[k] # None /\ conns[k].c = c /\ conns[k].hello_captured)
               => \/ Emitted(c)
                  \/ \E r \in Way : r.key = k /\ r.c = c /\ r.type = "hello"
        /\ \A o \in Told : Clear(o.c) => o.target = conn[o.c].first

(* With room in tracked_pids for every process, a process that the probe   *)
(* could follow is tracked, and none of its connects is forgotten.         *)
Roomy == IsFiniteSet(Pids) /\ Cardinality(Pids) <= TrackMax
Accounted ==
    Roomy /\ Plain /\ "leave" \notin Habits =>
        /\ \A p \in seen : Lives(p) => p \in tracked_pids
        /\ \A c \in DOMAIN conn : conn[c].due => conn[c].peer \notin DnsPeers
        /\ \A c \in DOMAIN conn : conn[c].due =>
               \/ Emitted(c) \/ c \in lost
               \/ \E k \in Keys : (conns[k] # None /\ conns[k].c = c) \/ Closing(k, c)

Inv == /\ WorldTypes /\ ProbeTypes /\ Numbered /\ Known /\ OneKey /\ Ordered /\ Once
       /\ Registered /\ Lineage /\ Socketed /\ Agreed /\ Truthful /\ Kept /\ Unsaid /\ Named
       /\ Accounted

-----------------------------------------------------------------------------
(* Queues of records.                                                      *)

(* A record that is after those of its key keeps the order.                *)
LEMMA InOrderAppend ==
    ASSUME NEW s \in Seq(Events), NEW e \in Events, InOrder(s),
           \A r \in Elements(s) : r.key = e.key => Before(r, e)
    PROVE  InOrder(Append(s, e))
<1> DEFINE a == Append(s, e)
<1>1. /\ DOMAIN a = 1..Len(s) + 1 /\ DOMAIN s = 1..Len(s) /\ Len(s) \in Nat
      /\ a[Len(s) + 1] = e /\ \A n \in 1..Len(s) : a[n] = s[n]
  OBVIOUS
<1> HIDE DEF a
<1>2. \A i \in 1..Len(s) : s[i] \in Elements(s)
  BY <1>1 DEF Elements
<1>3. ASSUME NEW i \in DOMAIN a, NEW j \in DOMAIN a, i < j, a[i].key = a[j].key
      PROVE  Before(a[i], a[j])
  <2>1. i \in 1..Len(s) /\ a[i] = s[i]
    BY <1>1, <1>3
  <2>2. CASE j = Len(s) + 1
    BY <1>1, <1>2, <1>3, <2>1, <2>2
  <2>3. CASE j \in 1..Len(s)
    BY <1>1, <1>3, <2>1, <2>3 DEF InOrder
  <2> QED BY <1>1, <2>2, <2>3
<1> QED BY <1>3 DEF InOrder, a

(* The first record is before those of its key.                            *)
LEMMA InOrderTail ==
    ASSUME NEW s \in Seq(Events), InOrder(s), s # <<>>
    PROVE  /\ InOrder(Tail(s))
           /\ \A r \in Elements(Tail(s)) : r.key = Head(s).key => Before(Head(s), r)
<1> DEFINE u == Tail(s)
           h == Head(s)
<1>1. /\ DOMAIN s = 1..Len(s) /\ DOMAIN u = 1..Len(u) /\ Len(u) = Len(s) - 1
      /\ Len(s) \in Nat \ {0} /\ \A n \in 1..Len(u) : u[n] = s[n + 1]
  BY HeadTailProperties, EmptySeq, LenProperties
<1>2. h = s[1]
  OBVIOUS
<1> HIDE DEF u, h
<1>3. \A i \in DOMAIN u : i + 1 \in DOMAIN s /\ u[i] = s[i + 1] /\ 1 < i + 1 /\ 1 \in DOMAIN s
  BY <1>1
<1>4. \A i, j \in DOMAIN u : i < j => i + 1 < j + 1
  BY <1>1
<1>5. InOrder(u)
  BY <1>3, <1>4 DEF InOrder
<1>6. \A r \in Elements(u) : r.key = h.key => Before(h, r)
  BY <1>2, <1>3 DEF InOrder, Elements
<1> QED BY <1>5, <1>6 DEF u, h

(* A record is not before itself, and only one of two is before the other. *)
LEMMA BeforeOnce ==
    ASSUME NEW r \in Events, NEW q \in Events, Before(r, q)
    PROVE  ~Before(q, r) /\ r # q /\ r.c <= q.c
<1>1. r.c \in Nat /\ q.c \in Nat /\ Rank(r) \in 1..3 /\ Rank(q) \in 1..3
  BY DEF Events, Rank
<1> QED BY <1>1 DEF Before

(* Facts about the types, so that no proof has to open them.               *)
LEMMA QueueFacts ==
    ASSUME ProbeTypes
    PROVE  /\ Queue \in Seq(Events) /\ Way \subseteq Events
           /\ out \in Seq(Outs) /\ Told \subseteq Outs
<1>1. Queue \in Seq(Events)
  BY ConcatProperties DEF ProbeTypes, Queue
<1> QED BY <1>1, ElementsType DEF ProbeTypes, Way, Told

(* What an event of an emission adds.                                      *)
LEMMA EmittedTold == \A c : Emitted(c) <=> \E o \in Told : o.c = c
BY DEF Emitted, Told, Elements

(* A record of the programs is put at the end of the queue, or it is lost. *)
Puts(e) ==
    \/ Queue' = Append(Queue, e) /\ lost' \in {lost, lost \cup {e.c}}
    \/ Queue' = Queue /\ lost' = lost \cup {e.c}

LEMMA OutputPuts ==
    ASSUME ProbeTypes, NEW e \in Events, NEW missed \in BOOLEAN, Output(e, missed),
           netCh' = netCh
    PROVE  /\ Puts(e) /\ (missed => e.c \in lost') /\ lost \subseteq lost'
           /\ ring' \in Seq(Events) /\ Len(ring') <= RingMax
<1>1. netCh \in Seq(Events) /\ ring \in Seq(Events) /\ Len(ring) \in Nat /\ RingMax \in Nat
  BY NetAssumption, LenProperties DEF ProbeTypes
<1>2. CASE Len(ring) < RingMax
  <2>1. ring' = Append(ring, e)
    BY <1>2 DEF Output
  <2>2. Queue' = Append(Queue, e)
    BY <1>1, <2>1, ConcatAppend DEF Queue
  <2>3. ring' \in Seq(Events) /\ Len(ring') = Len(ring) + 1
    BY <1>1, <2>1, AppendElements
  <2>4. Len(ring') <= RingMax
    BY <1>1, <1>2, <2>3
  <2> QED BY <2>2, <2>3, <2>4 DEF Output, Puts
<1>3. CASE ~(Len(ring) < RingMax)
  <2>1. ring' = ring /\ Len(ring) >= RingMax
    BY <1>1, <1>3 DEF Output
  <2>2. Queue' = Queue
    BY <2>1 DEF Queue
  <2> QED BY <1>1, <2>1, <2>2 DEF Output, Puts, ProbeTypes
<1> QED BY <1>2, <1>3

(* What that means for the records under way.                              *)
LEMMA PutsFacts ==
    ASSUME ProbeTypes, NEW e \in Events, Puts(e)
    PROVE  /\ Way \subseteq Way' /\ Way' \subseteq Way \cup {e}
           /\ e \in Way' \/ e.c \in lost'
           /\ lost' \subseteq lost \cup {e.c} /\ lost \subseteq lost'
<1>1. Queue \in Seq(Events)
  BY QueueFacts
<1>2. CASE Queue' = Append(Queue, e) /\ lost' \in {lost, lost \cup {e.c}}
  <2>1. Way' = Way \cup {e}
    BY <1>1, <1>2, AppendElements DEF Way
  <2> QED BY <1>2, <2>1
<1>3. CASE Queue' = Queue /\ lost' = lost \cup {e.c}
  <2>1. Way' = Way
    BY <1>3 DEF Way
  <2> QED BY <1>3, <2>1
<1> QED BY <1>2, <1>3 DEF Puts

(* The initial states satisfy the invariant.                               *)
LEMMA InitInv == Init => Inv
<1> SUFFICES ASSUME Init
             PROVE  Inv
  OBVIOUS
<1> USE NetAssumption
<1>1. conn = <<>> /\ DOMAIN conn = {} /\ Len(conn) = 0 /\ conn \in Seq(Connects)
  BY DEF Init
<1>2. Queue = <<>> /\ Queue \in Seq(Events) /\ DOMAIN Queue = {} /\ Way = {}
  BY DEF Init, Queue, Way, Elements
<1>3. out = <<>> /\ DOMAIN out = {} /\ Told = {} /\ \A c : ~Emitted(c)
  BY DEF Init, Told, Elements, Emitted
<1>4. WorldTypes
  BY <1>1 DEF Init, WorldTypes
<1>5. ProbeTypes
  <2>1. 0 <= RingMax /\ 0 <= ChanMax /\ 0 \in 0..EventBufSize
    <3>1. RingMax \in Nat /\ ChanMax \in Nat /\ EventBufSize \in Nat
      OBVIOUS
    <3> QED BY <3>1
  <2>2. /\ ring \in Seq(Events) /\ Len(ring) = 0 /\ netCh \in Seq(Events) /\ Len(netCh) = 0
        /\ out \in Seq(Outs) /\ waiting = 0
    BY <1>3 DEF Init
  <2>3. conns \in [Keys -> ConnStates \cup {None}] /\ table \in [Keys -> Connections \cup {None}]
    BY DEF Init
  <2> QED BY <2>1, <2>2, <2>3 DEF Init, ProbeTypes
<1>6. /\ \A k \in Keys : conns[k] = None /\ table[k] = None
      /\ \A p \in Pids, f \in Fds : fds[p][f] = 0
      /\ tracked_pids = {} /\ seen = {} /\ lost = {}
  BY DEF Init, Keys
<1>7. Numbered
  BY <1>1, <1>6 DEF Init, Numbered
<1>8. Known /\ OneKey /\ Ordered /\ Once /\ Registered
  BY <1>1, <1>2, <1>3, <1>6 DEF Known, OneKey, About, Ordered, InOrder, Once, Registered
<1>9. Lineage /\ Socketed /\ Agreed /\ Truthful /\ Kept /\ Unsaid /\ Named /\ Accounted
  BY <1>1, <1>2, <1>3, <1>6
     DEF Lineage, Socketed, Agreed, Truthful, Kept, Unsaid, Named, Accounted, Entered, Closing
<1> QED BY <1>4, <1>5, <1>7, <1>8, <1>9 DEF Inv

-----------------------------------------------------------------------------
(* Steps that leave the entries and the queue alone.                       *)

Still == Queue' = Queue /\ UNCHANGED <<conn, conns, table, out, lost>>

(* They keep what is only about entries, records and events.               *)
LEMMA StillKeeps ==
    ASSUME Inv, Still
    PROVE  /\ Way' = Way /\ Told' = Told /\ \A c : Emitted(c)' <=> Emitted(c)
           /\ OneKey' /\ Ordered' /\ Once' /\ Registered' /\ Socketed' /\ Truthful' /\ Kept'
<1>1. Way' = Way /\ Told' = Told /\ \A c : Emitted(c)' <=> Emitted(c)
  BY DEF Still, Way, Told, Emitted
<1>2. OneKey'
  BY <1>1 DEF Inv, Still, OneKey, About
<1>3. Ordered'
  BY <1>1 DEF Inv, Still, Ordered, InOrder
<1>4. Once'
  BY <1>1 DEF Inv, Still, Once
<1>5. Registered'
  BY <1>1 DEF Inv, Still, Registered, Open, Entered
<1>6. Socketed' /\ Truthful'
  BY <1>1 DEF Inv, Still, Socketed, Truthful
<1>7. Kept'
  BY <1>1 DEF Inv, Still, Kept, Entered, Closing
<1> QED BY <1>1, <1>2, <1>3, <1>4, <1>5, <1>6, <1>7

(* When the processes rest, too, all is kept that does not name the phase. *)
LEMMA RestKeeps ==
    ASSUME Inv, Still, UNCHANGED <<worldVars, tracked_pids>>
    PROVE  /\ WorldTypes' /\ Known' /\ OneKey' /\ Ordered' /\ Once' /\ Registered' /\ Lineage'
           /\ Socketed' /\ Agreed' /\ Truthful' /\ Kept' /\ Unsaid' /\ Named' /\ Accounted'
<1>1. Way' = Way /\ Told' = Told /\ \A c : Emitted(c)' <=> Emitted(c)
  BY StillKeeps
<1> USE DEF Inv, Still, worldVars
<1>2. WorldTypes' /\ Known'
  BY <1>1 DEF WorldTypes, Known
<1>3. Lineage' /\ Agreed'
  BY <1>1 DEF Lineage, Agreed, Lives
<1>4. Unsaid'
  BY <1>1 DEF Unsaid, Lives
<1>5. Named'
  BY <1>1 DEF Named, Lives, Closing, Clear
<1>6. Accounted'
  BY <1>1 DEF Accounted, Lives, Closing
<1> QED BY <1>2, <1>3, <1>4, <1>5, <1>6, StillKeeps

(* The steps of netFeed, of the collector and of Stop are such.            *)
LEMMA FeedKeeps ==
    ASSUME Inv, NetFeed \/ Collect \/ StopReader \/ NetFeedEnds \/ Stopped \/ Done \/ UNCHANGED vars
    PROVE  Inv'
<1>1. ring \in Seq(Events) /\ netCh \in Seq(Events) /\ Len(ring) \in Nat /\ Len(netCh) \in Nat
  BY LenProperties DEF Inv, ProbeTypes
<1>2. RingMax \in Nat /\ ChanMax \in Nat /\ EventBufSize \in Nat
  BY NetAssumption
<1>3. CASE NetFeed
  <2>1. /\ Queue' = Queue
        /\ Head(ring) \in Events /\ ring' \in Seq(Events) /\ Len(ring') = Len(ring) - 1
        /\ netCh' \in Seq(Events) /\ Len(netCh') = Len(netCh) + 1
    <3>1. ring # <<>> /\ netCh' = Append(netCh, Head(ring)) /\ ring' = Tail(ring)
      BY <1>3 DEF NetFeed
    <3>2. Head(ring) \in Events /\ Tail(ring) \in Seq(Events) /\ Len(Tail(ring)) = Len(ring) - 1
      BY <1>1, <3>1, TailElements
    <3>3. Append(netCh, Head(ring)) \o Tail(ring) = netCh \o ring
      BY <1>1, <3>1, MoveHead
    <3>4. netCh' \in Seq(Events) /\ Len(netCh') = Len(netCh) + 1
      BY <1>1, <3>1, <3>2, AppendElements
    <3> QED BY <3>1, <3>2, <3>3, <3>4 DEF Queue
  <2>2. Still /\ UNCHANGED <<worldVars, tracked_pids>>
    BY <1>3, <2>1 DEF NetFeed, Still, worldVars
  <2>3. Len(ring') <= RingMax /\ Len(netCh') <= ChanMax
    <3>1. Len(ring) <= RingMax /\ Len(netCh) < ChanMax
      BY <1>3 DEF NetFeed, Inv, ProbeTypes
    <3> QED BY <1>1, <1>2, <2>1, <3>1
  <2>4. ProbeTypes'
    BY <1>3, <2>1, <2>3 DEF NetFeed, Inv, ProbeTypes
  <2>5. Numbered'
    BY <1>3 DEF NetFeed, Inv, Numbered, worldVars
  <2> QED BY <2>2, <2>4, <2>5, RestKeeps DEF Inv
<1>4. CASE Collect \/ StopReader \/ NetFeedEnds \/ Stopped \/ Done \/ UNCHANGED vars
  <2>1. /\ UNCHANGED <<worldVars, probeVars, netCh, table, out>>
        /\ feed' \in {feed, FALSE} /\ phase' \in {phase, "stopping", "stopped"}
        /\ waiting' = waiting \/ (waiting > 0 /\ waiting' = waiting - 1)
    BY <1>4 DEF Collect, StopReader, NetFeedEnds, Stopped, Done, vars, worldVars, probeVars, goVars
  <2>2. Still /\ UNCHANGED <<worldVars, tracked_pids>>
    BY <2>1 DEF Still, Queue, worldVars, probeVars
  <2>3. waiting' \in 0..EventBufSize
    BY <1>2, <2>1 DEF Inv, ProbeTypes
  <2>4. ProbeTypes'
    BY <2>1, <2>3 DEF Inv, ProbeTypes, probeVars
  <2>5. Numbered'
    BY <2>1 DEF Inv, Numbered, worldVars, probeVars
  <2> QED BY <2>2, <2>4, <2>5, RestKeeps DEF Inv
<1> QED BY <1>3, <1>4

-----------------------------------------------------------------------------
(* Steps of the processes that make no call the programs record.           *)

(* A process lives if it has a task.                                       *)
LEMMA ActiveLives == ASSUME NEW p \in Pids, Active(p) PROVE Lives(p)
BY DEF Active, Tasks, Lives

(* What a new number is, without the reuse of numbers.                     *)
LEMMA FreeFacts ==
    ASSUME Inv, NEW c \in Pids, Free(c)
    PROVE  /\ ~Lives(c) /\ task[c] = None /\ c # Root
           /\ "reuse" \notin Habits =>
                  /\ c \notin used /\ c \notin tracked_pids /\ c \notin tree /\ c \notin seen
                  /\ \A f \in Fds : conns[<<c, f>>] = None
                  /\ \A d \in DOMAIN conn : conn[d].pid # c
<1>1. ~Lives(c) /\ task[c] = None /\ c # Root /\ ("reuse" \notin Habits => c \notin used)
  BY DEF Free, Tasks, Lives
<1>2. \A f \in Fds : <<c, f>> \in Keys /\ <<c, f>>[1] = c
  BY DEF Keys
<1> QED BY <1>1, <1>2 DEF Inv, Numbered

LEMMA ForkKeeps ==
    ASSUME Inv, NEW p \in Pids, NEW c \in Pids, Fork(p, c)
    PROVE  Inv'
<1>1. Still
  BY DEF Fork, goVars, Still, Queue
<1>2. Way' = Way /\ Told' = Told /\ \A d : Emitted(d)' <=> Emitted(d)
  BY <1>1, StillKeeps
<1>3. /\ ~Lives(c) /\ task[c] = None /\ c # Root
      /\ "reuse" \notin Habits =>
             /\ c \notin used /\ c \notin tracked_pids /\ c \notin tree /\ c \notin seen
             /\ \A f \in Fds : conns[<<c, f>>] = None
             /\ \A d \in DOMAIN conn : conn[d].pid # c
  BY FreeFacts DEF Fork
<1>4. Lives(p)
  BY ActiveLives DEF Fork
<1>5. p # c
  BY <1>3, <1>4
<1>6. /\ task' = [task EXCEPT ![c] = c] /\ used' = used \cup {c}
      /\ fds' = [fds EXCEPT ![c] = fds[p]]
      /\ tree' = IF p \in tree THEN tree \cup {c} ELSE tree \ {c}
      /\ seen' = IF p \in seen THEN seen \cup {c} ELSE seen \ {c}
      /\ tracked_pids' \in {tracked_pids, tracked_pids \cup {c}}
      /\ c \in tracked_pids' => p \in tracked_pids \/ c \in tracked_pids
      /\ UNCHANGED <<phase, netCh, feed, waiting, ring>>
  BY DEF Fork, handle_fork, goVars
<1>8. task \in [Pids -> Pids \cup {None}] /\ fds \in [Pids -> [Fds -> Nat]]
  BY DEF Inv, WorldTypes
<1>9. /\ task'[c] = c /\ \A t \in Pids : t # c => task'[t] = task[t]
      /\ fds'[c] = fds[p] /\ \A q \in Pids : q # c => fds'[q] = fds[q]
  BY <1>6, <1>8
<1>10. \A q \in Pids : Lives(q)' <=> Lives(q) \/ q = c
  BY <1>3, <1>9, NetAssumption DEF Lives
<1>11. UNCHANGED <<conn, conns, table, out, lost>>
  BY <1>1 DEF Still
<1> USE DEF Inv
<1>12. WorldTypes'
  BY <1>6, <1>8, <1>11 DEF WorldTypes
<1>13. ProbeTypes'
  BY <1>6, <1>11 DEF ProbeTypes
<1>14. Numbered'
  <2>1. phase = "launched" => tracked_pids' = {} /\ seen' = {}
    BY <1>6 DEF Numbered, Fork, handle_fork
  <2>2. \A t \in Pids : task'[t] # None => t \in used' /\ task'[t] \in used'
    BY <1>6, <1>9 DEF Numbered
  <2>3. Root \in used' /\ Root \in tree' /\ tracked_pids' \cup tree' \cup seen' \subseteq used'
    BY <1>3, <1>6 DEF Numbered
  <2>4. /\ \A k \in Keys : conns[k] # None => k[1] \in used'
        /\ \A d \in DOMAIN conn : conn[d].pid \in used'
    BY <1>6 DEF Numbered
  <2>5. phase' = "launched" => \A k \in Keys : conns'[k] = None
    BY <1>6, <1>11 DEF Numbered
  <2> QED BY <1>6, <1>11, <2>1, <2>2, <2>3, <2>4, <2>5 DEF Numbered
<1>15. Known'
  <2>1. \A q \in Pids : \E r \in Pids : fds'[q] = fds[r]
    BY <1>9
  <2>2. \A q \in Pids, f \in Fds : fds'[q][f] \in 0..Len(conn)
    BY <2>1 DEF Known
  <2>3. \A q, r \in Pids, f, g \in Fds : fds'[q][f] = fds'[r][g] /\ fds'[q][f] # 0 => f = g
    <3> SUFFICES ASSUME NEW q \in Pids, NEW r \in Pids, NEW f \in Fds, NEW g \in Fds,
                        fds'[q][f] = fds'[r][g], fds'[q][f] # 0
                 PROVE  f = g
      OBVIOUS
    <3>1. PICK i \in Pids : fds'[q] = fds[i]
      BY <2>1
    <3>2. PICK j \in Pids : fds'[r] = fds[j]
      BY <2>1
    <3> QED BY <3>1, <3>2 DEF Known
  <2> QED BY <1>2, <1>11, <2>2, <2>3 DEF Known
<1>16. Lineage'
  <2>1. ASSUME "reuse" \notin Habits, NEW q \in tracked_pids', Lives(q)'
        PROVE  q \in tree'
    <3>1. q \in Pids
      BY <1>12 DEF WorldTypes
    <3>2. CASE q = c
      <4>1. p \in tracked_pids
        BY <1>3, <1>6, <2>1, <3>2
      <4> QED BY <1>4, <1>6, <2>1, <3>2, <4>1 DEF Lineage
    <3>3. CASE q # c
      BY <1>6, <1>10, <2>1, <3>1, <3>3 DEF Lineage
    <3> QED BY <3>2, <3>3
  <2> QED BY <1>2, <1>11, <2>1 DEF Lineage
<1>17. Agreed'
  <2> SUFFICES ASSUME Plain, NEW q \in tracked_pids', NEW f \in Fds, Lives(q)',
                      conns[<<q, f>>] # None
               PROVE  fds'[q][f] = conns[<<q, f>>].c
    BY <1>11 DEF Agreed
  <2>1. q # c /\ q \in Pids
    BY <1>3, <1>12 DEF Plain, WorldTypes
  <2> QED BY <1>6, <1>9, <1>10, <2>1 DEF Agreed
<1>18. Unsaid'
  <2>1. ASSUME Plain, NEW q \in Pids, NEW f \in Fds, Lives(q)', fds'[q][f] # 0,
               conn[fds'[q][f]].pid = q
        PROVE  Lives(q) /\ fds'[q][f] = fds[q][f]
    <3>1. fds'[q][f] \in DOMAIN conn
      BY <1>15, <1>11, <2>1 DEF Known, WorldTypes
    <3>2. q # c
      BY <1>3, <2>1, <3>1 DEF Plain
    <3> QED BY <1>9, <1>10, <2>1, <3>2
  <2> QED BY <1>2, <1>11, <2>1 DEF Unsaid
<1>19. Named'
  <2>1. ASSUME Plain, NEW k \in Keys, conns[k] # None, Clear(conns[k].c), Lives(k[1])',
               ~conns[k].hello_captured
        PROVE  k[1] \notin tracked_pids'
    <3>1. k[1] \in Pids /\ k[2] \in Fds /\ k = <<k[1], k[2]>>
      BY DEF Keys
    <3>2. k[1] # c
      BY <1>3, <2>1, <3>1 DEF Plain
    <3> QED BY <1>6, <1>10, <2>1, <3>1, <3>2 DEF Named
  <2>2. \A d : Clear(d)' <=> Clear(d)
    BY <1>11 DEF Clear
  <2> QED BY <1>2, <1>11, <2>1, <2>2 DEF Named, Closing
<1>20. Accounted'
  <2>1. ASSUME Roomy, Plain, "leave" \notin Habits, NEW q \in seen', Lives(q)'
        PROVE  q \in tracked_pids'
    <3>1. q \in Pids
      BY <1>12 DEF WorldTypes
    <3>2. CASE q # c
      BY <1>6, <1>10, <2>1, <3>1, <3>2 DEF Accounted
    <3>3. CASE q = c
      <4>1. p \in seen
        BY <1>6, <2>1, <3>3
      <4>2. p \in tracked_pids
        BY <1>4, <2>1, <4>1 DEF Accounted
      <4>3. c \notin tracked_pids /\ tracked_pids \subseteq Pids
        BY <1>3, <2>1 DEF Plain, WorldTypes
      <4>4. /\ IsFiniteSet(tracked_pids) /\ Cardinality(tracked_pids) <= Cardinality(Pids)
            /\ Cardinality(tracked_pids) \in Nat /\ Cardinality(Pids) \in Nat
            /\ Cardinality(tracked_pids) = Cardinality(Pids) => tracked_pids = Pids
        BY <2>1, <4>3, FS_Subset, FS_CardinalityType DEF Roomy
      <4>5. Cardinality(tracked_pids) < TrackMax
        BY <2>1, <4>3, <4>4, NetAssumption DEF Roomy
      <4> QED BY <3>3, <4>2, <4>5 DEF Fork, handle_fork
    <3> QED BY <3>2, <3>3
  <2> QED BY <1>2, <1>11, <2>1 DEF Accounted, Closing
<1> QED BY <1>1, <1>12, <1>13, <1>14, <1>15, <1>16, <1>17, <1>18, <1>19, <1>20, StillKeeps

(* A step that starts or ends a task, or closes a descriptor, keeps the    *)
(* rest of the invariant, if it makes no process live, tracks none that    *)
(* lives and, unless leaders leave, forgets none, and closes no descriptor *)
(* that has an entry.                                                      *)
LEMMA TaskKeeps ==
    ASSUME Inv, Still, UNCHANGED <<tree, seen>>,
           \A q \in Pids : Lives(q)' => Lives(q),
           \A q \in Pids : Lives(q)' /\ q \in tracked_pids' => q \in tracked_pids,
           "leave" \notin Habits =>
               \A q \in Pids : Lives(q)' /\ q \in tracked_pids => q \in tracked_pids',
           \A q \in Pids, f \in Fds : fds'[q][f] \in {0, fds[q][f]},
           \A q \in tracked_pids', f \in Fds :
               Lives(q)' /\ conns[<<q, f>>] # None => fds'[q][f] = fds[q][f],
           tracked_pids' \subseteq Pids
    PROVE  /\ Known' /\ Lineage' /\ Agreed' /\ Unsaid' /\ Named' /\ Accounted'
<1>1. Way' = Way /\ Told' = Told /\ \A d : Emitted(d)' <=> Emitted(d)
  BY StillKeeps
<1>2. UNCHANGED <<conn, conns, table, out, lost>>
  BY DEF Still
<1>3. \A d : Clear(d)' <=> Clear(d)
  BY <1>2 DEF Clear
<1>4. \A k \in Keys : k[1] \in Pids
  BY DEF Keys
<1> USE DEF Inv
<1>5. Known'
  <2>1. \A q \in Pids, f \in Fds : fds'[q][f] \in 0..Len(conn)
    <3>1. conn \in Seq(Connects)
      BY DEF WorldTypes
    <3> QED BY <3>1 DEF Known
  <2>2. \A q, r \in Pids, f, g \in Fds : fds'[q][f] = fds'[r][g] /\ fds'[q][f] # 0 => f = g
    BY DEF Known
  <2> QED BY <1>1, <1>2, <2>1, <2>2 DEF Known
<1>6. Lineage' /\ Agreed'
  BY <1>1, <1>2 DEF Lineage, Agreed
<1>7. Unsaid'
  BY <1>1, <1>2 DEF Unsaid
<1>8. Named'
  BY <1>1, <1>2, <1>3, <1>4 DEF Named, Closing
<1>9. seen \subseteq Pids
  BY DEF WorldTypes
<1>10. Accounted'
  BY <1>1, <1>2, <1>9 DEF Accounted, Closing
<1> QED BY <1>5, <1>6, <1>7, <1>8, <1>10

LEMMA CloneThreadKeeps ==
    ASSUME Inv, NEW p \in Pids, NEW c \in Pids, CloneThread(p, c)
    PROVE  Inv'
<1>1. Still
  BY DEF CloneThread, goVars, Still, Queue
<1>2. ~Lives(c) /\ task[c] = None
  BY FreeFacts DEF CloneThread
<1>3. Lives(p)
  BY ActiveLives DEF CloneThread, Calls
<1>4. /\ task' = [task EXCEPT ![c] = p] /\ used' = used \cup {c}
      /\ tracked_pids' \in {tracked_pids, tracked_pids \cup {c}}
      /\ tracked_pids = {} => tracked_pids' = {}
      /\ UNCHANGED <<fds, tree, seen, conn, phase, netCh, feed, waiting, ring, conns, table, out, lost>>
  BY <1>1 DEF CloneThread, handle_fork, goVars, Still
<1>5. task \in [Pids -> Pids \cup {None}]
  BY DEF Inv, WorldTypes
<1>6. task'[c] = p /\ \A t \in Pids : t # c => task'[t] = task[t]
  BY <1>4, <1>5
<1>7. \A q \in Pids : Lives(q)' => Lives(q) /\ q # c
  BY <1>2, <1>3, <1>6 DEF Lives
<1>8. p \in used
  BY <1>3, NetAssumption DEF Inv, Numbered, Lives
<1>9. WorldTypes'
  BY <1>4, <1>5 DEF Inv, WorldTypes
<1>10. ProbeTypes'
  BY <1>4 DEF Inv, ProbeTypes
<1>11. Numbered'
  BY <1>4, <1>6, <1>8 DEF Inv, Numbered
<1>12. /\ UNCHANGED <<tree, seen>> /\ tracked_pids' \subseteq Pids
       /\ \A q \in Pids : Lives(q)' /\ q \in tracked_pids' => q \in tracked_pids
       /\ \A q \in Pids : q \in tracked_pids => q \in tracked_pids'
       /\ \A q \in Pids : fds'[q] = fds[q]
  BY <1>4, <1>7, <1>9 DEF WorldTypes
<1>13. Known' /\ Lineage' /\ Agreed' /\ Unsaid' /\ Named' /\ Accounted'
  BY <1>1, <1>7, <1>12, TaskKeeps
<1> QED BY <1>1, <1>9, <1>10, <1>11, <1>13, StillKeeps DEF Inv

(* A process is no longer tracked when its leader has left; without that,  *)
(* it is then gone.                                                        *)
LEMMA TaskExitKeeps ==
    ASSUME Inv, NEW t \in Pids, TaskExit(t)
    PROVE  Inv'
<1> PICK p \in Pids : p = task[t]
  BY DEF Inv, WorldTypes, TaskExit
<1>1. Still
  BY DEF TaskExit, goVars, Still, Queue
<1>2. task \in [Pids -> Pids \cup {None}] /\ fds \in [Pids -> [Fds -> Nat]]
  BY DEF Inv, WorldTypes, TaskExit
<1>3. /\ task' = [task EXCEPT ![t] = None]
      /\ fds' = IF Tasks(p) = {t} THEN [fds EXCEPT ![p] = [f \in Fds |-> 0]] ELSE fds
      /\ t = p /\ Tasks(p) # {t} => "leave" \in Habits
      /\ tracked_pids' = IF t = p THEN tracked_pids \ {p} ELSE tracked_pids
      /\ UNCHANGED <<used, tree, seen, conn, phase, netCh, feed, waiting, ring, conns, table, out, lost>>
  BY <1>1 DEF TaskExit, handle_exit, goVars, Still
<1>4. task'[t] = None /\ \A u \in Pids : u # t => task'[u] = task[u]
  BY <1>2, <1>3
<1>5. \A q \in Pids : Lives(q)' => Lives(q)
  BY <1>4, NetAssumption DEF Lives
<1>6. Tasks(p) = {t} => ~Lives(p)'
  BY <1>2, <1>4, NetAssumption DEF Tasks, Lives
<1>7. /\ \A q \in Pids : fds'[q] = fds[q] \/ \A f \in Fds : fds'[q][f] = 0
      /\ \A q \in Pids : Lives(q)' => fds'[q] = fds[q]
      /\ fds' \in [Pids -> [Fds -> Nat]]
  <2>1. CASE Tasks(p) = {t}
    <3>1. /\ fds'[p] = [f \in Fds |-> 0] /\ \A q \in Pids : q # p => fds'[q] = fds[q]
          /\ fds' \in [Pids -> [Fds -> Nat]]
      BY <1>2, <1>3, <2>1
    <3> QED BY <1>6, <2>1, <3>1
  <2>2. CASE Tasks(p) # {t}
    BY <1>2, <1>3, <2>2
  <2> QED BY <2>1, <2>2
<1>8. WorldTypes'
  BY <1>2, <1>3, <1>7 DEF Inv, WorldTypes
<1>9. ProbeTypes'
  BY <1>3 DEF Inv, ProbeTypes
<1>10. Numbered'
  BY <1>3, <1>4 DEF Inv, Numbered
<1>11. /\ tracked_pids' \subseteq tracked_pids /\ tracked_pids' \subseteq Pids
       /\ "leave" \notin Habits =>
              \A q \in Pids : Lives(q)' /\ q \in tracked_pids => q \in tracked_pids'
  BY <1>3, <1>6, <1>8 DEF WorldTypes
<1>12. Known' /\ Lineage' /\ Agreed' /\ Unsaid' /\ Named' /\ Accounted'
  BY <1>1, <1>3, <1>5, <1>7, <1>11, TaskKeeps
<1> QED BY <1>1, <1>8, <1>9, <1>10, <1>12, StillKeeps DEF Inv

LEMMA StartNetKeeps ==
    ASSUME Inv, NEW ok \in BOOLEAN, StartNet(ok)
    PROVE  Inv'
<1>1. Still
  BY DEF StartNet, Still, Queue
<1>2. Way' = Way /\ Told' = Told /\ \A d : Emitted(d)' <=> Emitted(d)
  BY <1>1, StillKeeps
<1>3. /\ phase = "launched" /\ phase' = "running" /\ feed' = TRUE
      /\ UNCHANGED <<task, used, fds, tree, conn, conns, ring, lost, netCh, table, waiting, out>>
      /\ tracked_pids' = IF ok THEN tracked_pids \cup {Root} ELSE tracked_pids
      /\ seen' = IF ok /\ Tasks(Root) # {} THEN seen \cup {Root} ELSE seen
  BY DEF StartNet
<1> USE DEF Inv
<1>4. tracked_pids = {} /\ seen = {} /\ \A k \in Keys : conns[k] = None
  BY <1>3 DEF Numbered
<1>5. tracked_pids' \subseteq {Root} /\ seen' \subseteq tracked_pids'
  BY <1>3, <1>4
<1>6. Root \in Pids /\ Root \in used /\ Root \in tree
  BY NetAssumption DEF Numbered
<1>7. WorldTypes' /\ ProbeTypes'
  BY <1>3, <1>5, <1>6 DEF WorldTypes, ProbeTypes
<1>8. Numbered'
  BY <1>3, <1>5, <1>6 DEF Numbered
<1>9. Known'
  BY <1>2, <1>3 DEF Known
<1>10. Lineage'
  BY <1>2, <1>3, <1>5, <1>6 DEF Lineage
<1>11. Agreed'
  BY <1>3, <1>4, <1>5, <1>6 DEF Agreed, Keys
<1>12. Unsaid'
  BY <1>2, <1>3 DEF Unsaid, Lives
<1>13. Named'
  BY <1>2, <1>3, <1>4 DEF Named, Closing, Clear
<1>14. Accounted'
  BY <1>2, <1>3, <1>5 DEF Accounted, Closing
<1> QED BY <1>1, <1>7, <1>8, <1>9, <1>10, <1>11, <1>12, <1>13, <1>14, StillKeeps

-----------------------------------------------------------------------------
(* Steps of the processes that send.                                       *)

Hello(p, f, bufs, ok) ==
    Event("hello", <<p, f>>, conns[<<p, f>>].peer, IF ok THEN Head(bufs) ELSE "empty",
          conns[<<p, f>>].c)

(* Nothing is recorded of what was not sent in full view, and of what is   *)
(* not the first that was sent.                                            *)
Unheard(p, f, bufs, ok) ==
    /\ UNCHANGED <<conns, ring, lost>>
    /\ p \in tracked_pids /\ ok /\ bufs # <<>> /\ conns[<<p, f>>] # None
       => conns[<<p, f>>].hello_captured

(* What is recorded otherwise.                                             *)
Heard(p, f, bufs, ok) ==
    /\ p \in tracked_pids /\ conns[<<p, f>>] # None /\ ~conns[<<p, f>>].hello_captured
    /\ bufs # <<>>
    /\ Output(Hello(p, f, bufs, ok), FALSE)
    /\ conns' = [conns EXCEPT ![<<p, f>>].hello_captured = TRUE]

(* Either call sends a list of buffers.                                    *)
Speaks(p, f, bufs, ok) ==
    /\ bufs \in Seq(Buffers) /\ Lives(p) /\ fds[p][f] # 0
    /\ Said(p, f, bufs, ok)
    /\ Unheard(p, f, bufs, ok) \/ Heard(p, f, bufs, ok)
    /\ UNCHANGED <<task, used, fds, tree, seen, tracked_pids, goVars>>

LEMMA WriteSpeaks ==
    ASSUME NEW p \in Pids, NEW f \in Fds, NEW buf \in Buffers, NEW ok \in BOOLEAN,
           Write(p, f, buf, ok)
    PROVE  Speaks(p, f, <<buf>>, ok)
<1>1. Lives(p)
  BY ActiveLives DEF Write, Calls
<1>2. <<buf>> \in Seq(Buffers) /\ <<buf>> # <<>> /\ Head(<<buf>>) = buf
  OBVIOUS
<1>3. trace_write(p, f, buf, ok)
  BY DEF Write
<1>4. Unheard(p, f, <<buf>>, ok) \/ Heard(p, f, <<buf>>, ok)
  <2> DEFINE e == IF ok THEN buf ELSE "empty"
  <2>1. CASE p \notin tracked_pids \/ conns[<<p, f>>] = None \/ ~Reads(buf, ok)
             \/ conns[<<p, f>>].hello_captured
    BY <1>3, <2>1 DEF trace_write, capture_hello, Reads, Unheard
  <2>2. CASE ~(p \notin tracked_pids \/ conns[<<p, f>>] = None \/ ~Reads(buf, ok)
             \/ conns[<<p, f>>].hello_captured)
    <3>1. capture_hello(p, f, buf, ok)
      BY <1>3, <2>2 DEF trace_write
    <3>2. /\ Output(Event("hello", <<p, f>>, conns[<<p, f>>].peer, e, conns[<<p, f>>].c), FALSE)
          /\ conns' = [conns EXCEPT ![<<p, f>>].hello_captured = TRUE]
      BY <2>2, <3>1 DEF capture_hello
    <3> QED BY <1>2, <2>2, <3>2 DEF Heard, Hello
  <2> QED BY <2>1, <2>2
<1> QED BY <1>1, <1>2, <1>4 DEF Write, Speaks

LEMMA SendMsgSpeaks ==
    ASSUME NEW p \in Pids, NEW f \in Fds, NEW iov \in {<<>>} \cup (Buffers \X Buffers),
           NEW ok \in BOOLEAN, SendMsg(p, f, iov, ok)
    PROVE  Speaks(p, f, iov, ok)
<1>1. Lives(p)
  BY ActiveLives DEF SendMsg, Calls
<1>2. iov \in Seq(Buffers)
  <2>1. CASE iov = <<>>
    BY <2>1
  <2>2. CASE iov \in Buffers \X Buffers
    <3>1. PICK a \in Buffers, b \in Buffers : iov = <<a, b>>
      BY <2>2
    <3>2. <<a, b>> \in Seq(Buffers)
      OBVIOUS
    <3> QED BY <3>1, <3>2
  <2> QED BY <2>1, <2>2
<1>3. trace_sendmsg(p, f, iov, ok)
  BY DEF SendMsg
<1>4. Unheard(p, f, iov, ok) \/ Heard(p, f, iov, ok)
  <2>1. CASE p \notin tracked_pids \/ ~ok \/ iov = <<>> \/ conns[<<p, f>>] = None
             \/ conns[<<p, f>>].hello_captured
    BY <1>3, <2>1 DEF trace_sendmsg, capture_hello, Unheard
  <2>2. CASE ~(p \notin tracked_pids \/ ~ok \/ iov = <<>> \/ conns[<<p, f>>] = None
             \/ conns[<<p, f>>].hello_captured)
    <3>1. capture_hello(p, f, Head(iov), ok)
      BY <1>3, <2>2 DEF trace_sendmsg
    <3>2. /\ Output(Event("hello", <<p, f>>, conns[<<p, f>>].peer, IF ok THEN Head(iov) ELSE "empty",
                          conns[<<p, f>>].c), FALSE)
          /\ conns' = [conns EXCEPT ![<<p, f>>].hello_captured = TRUE]
      BY <2>2, <3>1 DEF capture_hello, Reads
    <3> QED BY <2>2, <3>2 DEF Heard, Hello
  <2> QED BY <2>1, <2>2
<1> QED BY <1>1, <1>2, <1>4 DEF SendMsg, Speaks

(* What is sent is of the connect that the descriptor refers to.           *)
LEMMA SaidFacts ==
    ASSUME WorldTypes, Known, NEW p \in Pids, NEW f \in Fds, NEW bufs \in Seq(Buffers),
           NEW ok \in BOOLEAN, fds[p][f] # 0, Said(p, f, bufs, ok), NEW d, d = fds[p][f]
    PROVE  /\ d \in DOMAIN conn /\ conn' \in Seq(Connects) /\ Len(conn') = Len(conn)
           /\ DOMAIN conn' = DOMAIN conn
           /\ \A c \in DOMAIN conn :
                  /\ conn'[c].pid = conn[c].pid /\ conn'[c].peer = conn[c].peer
                  /\ conn'[c].sock = conn[c].sock /\ conn'[c].tree = conn[c].tree
                  /\ conn'[c].due = conn[c].due /\ conn[c].sent \subseteq conn'[c].sent
                  /\ conn[c].first # None => conn'[c].first = conn[c].first
                  /\ c # d => conn'[c] = conn[c]
           /\ bufs = <<>> => conn' = conn
           /\ bufs # <<>> =>
                  /\ Head(bufs) \in Buffers
                  /\ {Head(bufs)} \cap Names \subseteq conn'[d].sent
                  /\ conn[d].first = None =>
                         conn'[d].first = IF ok /\ p = conn[d].pid /\ Head(bufs) \in Names
                                          THEN Head(bufs) ELSE "other"
<1>1. conn \in Seq(Connects) /\ Len(conn) \in Nat /\ DOMAIN conn = 1..Len(conn)
  BY LenProperties DEF WorldTypes
<1>2. d \in 0..Len(conn) /\ d # 0
  BY DEF Known
<1>3. d \in DOMAIN conn
  BY <1>1, <1>2
<1>4. CASE bufs = <<>>
  <2>1. conn' = conn
    BY <1>4 DEF Said
  <2> QED BY <1>1, <1>3, <1>4, <2>1
<1>5. CASE bufs # <<>>
  <2> DEFINE new == {bufs[n] : n \in DOMAIN bufs} \cap Names
             clear == ok /\ p = conn[d].pid /\ Head(bufs) \in Names
             was == conn[d]
             first == IF was.first # None THEN was.first ELSE IF clear THEN Head(bufs) ELSE "other"
             now == [was EXCEPT !.sent = @ \cup new, !.first = first]
  <2>1. conn' = [conn EXCEPT ![d].sent = @ \cup new,
                             ![d].first = IF @ # None THEN @ ELSE IF clear THEN Head(bufs) ELSE "other"]
    BY <1>5, <1>2 DEF Said
  <2>2. Head(bufs) \in Buffers /\ 1 \in DOMAIN bufs /\ Head(bufs) = bufs[1]
    BY <1>5
  <2>3. was \in Connects /\ was = conn[d]
    BY <1>1, <1>3
  <2>4. new \subseteq Names /\ {Head(bufs)} \cap Names \subseteq new
    BY <2>2
  <2> HIDE DEF new, clear
  <2>5. conn' = [conn EXCEPT ![d] = now]
    BY <1>1, <1>3, <2>1
  <2>6. clear => Head(bufs) \in Names
    BY DEF clear
  <2> HIDE DEF was
  <2>7. first \in Names \cup {None, "other"}
    BY <2>3, <2>6 DEF Connects
  <2> HIDE DEF first
  <2>8. /\ now \in Connects
        /\ now.pid = was.pid /\ now.peer = was.peer /\ now.sock = was.sock /\ now.tree = was.tree
        /\ now.due = was.due /\ now.sent = was.sent \cup new /\ now.first = first
    BY <2>3, <2>4, <2>7 DEF Connects
  <2> HIDE DEF now
  <2>9. /\ conn' \in Seq(Connects) /\ Len(conn') = Len(conn) /\ DOMAIN conn' = DOMAIN conn
        /\ conn'[d] = now /\ \A c \in DOMAIN conn : c # d => conn'[c] = conn[c]
    BY <1>1, <1>3, <2>5, <2>8
  <2>10. was.first # None => first = was.first
    BY DEF first
  <2>11. was.first = None => first = IF ok /\ p = was.pid /\ Head(bufs) \in Names
                                     THEN Head(bufs) ELSE "other"
    BY <2>3 DEF first, clear
  <2> QED BY <1>3, <1>5, <2>2, <2>3, <2>4, <2>8, <2>9, <2>10, <2>11
<1> QED BY <1>4, <1>5

(* What is sent unheard changes only what was said.                        *)
LEMMA UnheardKeeps ==
    ASSUME Inv, NEW p \in Pids, NEW f \in Fds, NEW bufs, NEW ok \in BOOLEAN,
           Speaks(p, f, bufs, ok), Unheard(p, f, bufs, ok)
    PROVE  Inv'
<1> PICK d : d = fds[p][f]
  OBVIOUS
<1>1. /\ d \in DOMAIN conn /\ conn' \in Seq(Connects) /\ Len(conn') = Len(conn)
      /\ DOMAIN conn' = DOMAIN conn
      /\ \A c \in DOMAIN conn :
             /\ conn'[c].pid = conn[c].pid /\ conn'[c].peer = conn[c].peer
             /\ conn'[c].sock = conn[c].sock /\ conn'[c].tree = conn[c].tree
             /\ conn'[c].due = conn[c].due /\ conn[c].sent \subseteq conn'[c].sent
             /\ conn[c].first # None => conn'[c].first = conn[c].first
             /\ c # d => conn'[c] = conn[c]
      /\ bufs = <<>> => conn' = conn
      /\ bufs # <<>> /\ conn[d].first = None =>
             conn'[d].first = IF ok /\ p = conn[d].pid /\ Head(bufs) \in Names
                              THEN Head(bufs) ELSE "other"
  BY SaidFacts DEF Inv, Speaks
<1>2. /\ Lives(p) /\ d # 0 /\ UNCHANGED <<conns, ring, lost>>
      /\ UNCHANGED <<task, used, fds, tree, seen, tracked_pids, goVars>>
      /\ p \in tracked_pids /\ ok /\ bufs # <<>> /\ conns[<<p, f>>] # None
         => conns[<<p, f>>].hello_captured
  BY DEF Speaks, Unheard
<1>3. Queue' = Queue /\ UNCHANGED <<phase, netCh, feed, table, waiting, out, task, used, fds>>
  BY <1>2 DEF Queue, goVars
<1>4. Way' = Way /\ Told' = Told /\ \A c : Emitted(c)' <=> Emitted(c)
  BY <1>3 DEF Way, Told, Emitted
<1>5. \A q \in Pids : Lives(q)' <=> Lives(q)
  BY <1>2 DEF Lives
<1> USE DEF Inv
<1>6. WorldTypes' /\ ProbeTypes'
  BY <1>1, <1>2, <1>3 DEF WorldTypes, ProbeTypes
<1>7. Numbered'
  BY <1>1, <1>2, <1>3 DEF Numbered
<1>8. Known'
  BY <1>1, <1>2, <1>3, <1>4 DEF Known
<1>9. OneKey' /\ Ordered'
  BY <1>2, <1>3, <1>4 DEF OneKey, About, Ordered
<1>10. Once' /\ Registered'
  BY <1>1, <1>2, <1>3, <1>4 DEF Once, Registered, Open, Entered
<1>11. Lineage' /\ Socketed'
  <2>1. /\ \A r \in Way : r.c \in DOMAIN conn
        /\ \A o \in Told : o.c \in DOMAIN conn
        /\ \A k \in Keys : conns[k] # None => conns[k].c \in DOMAIN conn
        /\ \A k \in Keys : table[k] # None => table[k].c \in DOMAIN conn
    BY DEF Known
  <2>2. tracked_pids \subseteq Pids
    BY DEF WorldTypes
  <2> QED BY <1>1, <1>2, <1>3, <1>4, <1>5, <2>1, <2>2 DEF Lineage, Socketed
<1>12. Agreed'
  BY <1>2, <1>3, <1>5 DEF Agreed, WorldTypes
<1>13. Truthful'
  BY <1>1, <1>4 DEF Truthful, Known
<1>14. Kept'
  BY <1>1, <1>2, <1>3, <1>4 DEF Kept, Entered, Closing
<1>15. Unsaid'
  <2>1. \A c \in DOMAIN conn : conn'[c].first = None => conn[c].first = None
    BY <1>1
  <2>2. \A q \in Pids, g \in Fds : fds[q][g] # 0 => fds[q][g] \in DOMAIN conn
    <3>1. conn \in Seq(Connects)
      BY DEF WorldTypes
    <3> QED BY <3>1 DEF Known
  <2> QED BY <1>1, <1>2, <1>3, <1>4, <1>5, <2>1, <2>2 DEF Unsaid
<1>16. Named'
  <2> SUFFICES ASSUME Plain
               PROVE  Named'
    BY DEF Named, Plain
  <2>1. CASE \A c \in DOMAIN conn : Clear(c)' <=> Clear(c)
    <3>1. \A c \in DOMAIN conn : Clear(c) => conn'[c].first = conn[c].first
      BY <1>1, NetAssumption DEF Clear
    <3>2. /\ \A r \in Way : r.c \in DOMAIN conn
          /\ \A o \in Told : o.c \in DOMAIN conn
          /\ \A k \in Keys : conns[k] # None => conns[k].c \in DOMAIN conn
          /\ \A k \in Keys : k[1] \in Pids
      BY DEF Known, Keys
    <3> QED BY <1>1, <1>2, <1>3, <1>4, <1>5, <2>1, <3>1, <3>2 DEF Named, Closing
  <2>2. CASE ~(\A c \in DOMAIN conn : Clear(c)' <=> Clear(c))
    <3>1. PICK c \in DOMAIN conn : ~(Clear(c)' <=> Clear(c))
      BY <2>2
    <3>2. conn'[c].first # conn[c].first
      BY <1>2, <3>1 DEF Clear
    <3>3. c = d /\ conn[d].first = None /\ bufs # <<>>
      BY <1>1, <3>2
    <3>4. d \notin lost /\ conn'[d].first \in Names
      BY <1>2, <3>1, <3>3, NetAssumption DEF Clear
    <3>5. ok /\ p = conn[d].pid /\ conn'[d].first = Head(bufs)
      BY <1>1, <3>3, <3>4, NetAssumption
    <3>6. /\ \A r \in Way : r.c = d => r.type # "hello" /\ r.type # "close"
          /\ \A k \in Keys : conns[k] # None /\ conns[k].c = d => ~conns[k].hello_captured
          /\ ~Emitted(d)
      BY <1>2, <3>3, <3>4, <3>5 DEF Unsaid
    <3>7. \A k \in Keys : conns[k] # None /\ conns[k].c = d => k[1] \notin tracked_pids
      <4> SUFFICES ASSUME NEW k \in Keys, conns[k] # None, conns[k].c = d, k[1] \in tracked_pids
                   PROVE  FALSE
        OBVIOUS
      <4>1. k[1] = p
        BY <3>5 DEF Known
      <4>2. k[2] \in Fds /\ k = <<p, k[2]>>
        BY <4>1 DEF Keys
      <4>3. fds[p][k[2]] = d
        BY <1>2, <4>1, <4>2 DEF Agreed
      <4>4. k = <<p, f>>
        BY <1>2, <4>2, <4>3 DEF Known
      <4> QED BY <1>2, <3>3, <3>5, <3>6, <4>1, <4>4
    <3>8. \A e \in DOMAIN conn : e # d => conn'[e] = conn[e] /\ (Clear(e)' <=> Clear(e))
      BY <1>1, <1>2 DEF Clear
    <3>9. /\ \A r \in Way : r.c \in DOMAIN conn
          /\ \A o \in Told : o.c \in DOMAIN conn /\ o.c # d
          /\ \A k \in Keys : conns[k] # None => conns[k].c \in DOMAIN conn
          /\ \A k \in Keys : k[1] \in Pids
      BY <3>6, EmittedTold DEF Known, Keys
    <3>10. \A r \in Way' : r.type = "hello" /\ Clear(r.c)' => r.payload = conn'[r.c].first
      BY <1>4, <3>6, <3>8, <3>9 DEF Named
    <3>11. ASSUME NEW k \in Keys, conns'[k] # None, Clear(conns[k].c)', Lives(k[1])',
                  ~conns'[k].hello_captured
           PROVE  k[1] \notin tracked_pids'
      <4>1. conns' = conns /\ tracked_pids' = tracked_pids
        BY <1>2
      <4>2. k[1] \in Pids /\ Lives(k[1])
        BY <1>5, <3>9, <3>11
      <4>3. conns[k] # None /\ ~conns[k].hello_captured /\ conns[k].c \in DOMAIN conn
        BY <3>9, <3>11, <4>1
      <4>4. CASE conns[k].c = d
        BY <3>7, <4>1, <4>3, <4>4
      <4>5. CASE conns[k].c # d
        <5>1. Clear(conns[k].c)
          BY <3>8, <3>11, <4>1, <4>3, <4>5
        <5> QED BY <4>1, <4>2, <4>3, <5>1 DEF Named
      <4> QED BY <4>4, <4>5
    <3>12. \A k \in Keys, e \in DOMAIN conn :
               /\ Clear(e)' /\ conn'[e].peer \notin DnsPeers
               /\ Closing(k, e) \/ (conns[k] # None /\ conns[k].c = e /\ conns[k].hello_captured)
               => \/ Emitted(e)
                  \/ \E r \in Way : r.key = k /\ r.c = e /\ r.type = "hello"
      BY <3>6, <3>8 DEF Named, Closing
    <3>13. \A o \in Told : Clear(o.c)' => o.target = conn'[o.c].first
      BY <3>8, <3>9 DEF Named
    <3> QED BY <1>1, <1>2, <1>3, <1>4, <3>10, <3>11, <3>12, <3>13 DEF Named, Closing
  <2> QED BY <2>1, <2>2
<1>17. Accounted'
  BY <1>1, <1>2, <1>3, <1>4, <1>5 DEF Accounted, Closing, WorldTypes
<1> QED BY <1>6, <1>7, <1>8, <1>9, <1>10, <1>11, <1>12, <1>13, <1>14, <1>15, <1>16, <1>17

(* A record put after those of its key leaves the queue in order.          *)
LEMMA PutsInOrder ==
    ASSUME ProbeTypes, NEW e \in Events, Puts(e), InOrder(Queue),
           \A r \in Way : r.key = e.key => Before(r, e)
    PROVE  InOrder(Queue')
<1>1. Queue \in Seq(Events)
  BY QueueFacts
<1>2. InOrder(Append(Queue, e))
  BY <1>1, InOrderAppend DEF Way
<1> QED BY <1>2 DEF Puts

(* What is heard is the first that is sent on its connection.              *)
LEMMA HeardKeeps ==
    ASSUME Inv, NEW p \in Pids, NEW f \in Fds, NEW bufs, NEW ok \in BOOLEAN,
           Speaks(p, f, bufs, ok), Heard(p, f, bufs, ok)
    PROVE  Inv'
<1> PICK d : d = fds[p][f]
  OBVIOUS
<1> PICK k : k = <<p, f>>
  OBVIOUS
<1> PICK b : b = conns[k].c
  OBVIOUS
<1> PICK e : e = Hello(p, f, bufs, ok)
  OBVIOUS
<1>1. /\ d \in DOMAIN conn /\ conn' \in Seq(Connects) /\ Len(conn') = Len(conn)
      /\ DOMAIN conn' = DOMAIN conn
      /\ \A c \in DOMAIN conn :
             /\ conn'[c].pid = conn[c].pid /\ conn'[c].peer = conn[c].peer
             /\ conn'[c].sock = conn[c].sock /\ conn'[c].tree = conn[c].tree
             /\ conn'[c].due = conn[c].due /\ conn[c].sent \subseteq conn'[c].sent
             /\ conn[c].first # None => conn'[c].first = conn[c].first
             /\ c # d => conn'[c] = conn[c]
      /\ Head(bufs) \in Buffers
      /\ {Head(bufs)} \cap Names \subseteq conn'[d].sent
      /\ conn[d].first = None =>
             conn'[d].first = IF ok /\ p = conn[d].pid /\ Head(bufs) \in Names
                              THEN Head(bufs) ELSE "other"
  BY SaidFacts DEF Inv, Speaks, Heard
<1>2. /\ Lives(p) /\ d # 0 /\ UNCHANGED <<task, used, fds, tree, seen, tracked_pids, goVars>>
      /\ p \in tracked_pids /\ conns[k] # None /\ ~conns[k].hello_captured
      /\ Output(e, FALSE) /\ conns' = [conns EXCEPT ![k].hello_captured = TRUE]
  BY DEF Speaks, Heard
<1>3. k \in Keys /\ k[1] = p /\ k[2] = f
  BY DEF Keys
<1> USE DEF Inv
<1>4. conns \in [Keys -> ConnStates \cup {None}] /\ conns[k] \in ConnStates
  BY <1>2, <1>3 DEF ProbeTypes
<1>5. /\ b \in DOMAIN conn /\ b \in Nat /\ conns[k].peer = conn[b].peer /\ conn[b].pid = p
      /\ conns[k].peer \in Peers
  BY <1>2, <1>3, <1>4 DEF Known, ConnStates
<1>6. /\ e \in Events /\ e.type = "hello" /\ e.key = k /\ e.peer = conn[b].peer /\ e.c = b
      /\ e.payload = IF ok THEN Head(bufs) ELSE "empty"
  <2>1. (IF ok THEN Head(bufs) ELSE "empty") \in Buffers
    BY <1>1 DEF Buffers
  <2> QED BY <1>3, <1>5, <2>1 DEF Hello, Event, Events
<1>7. /\ conns' \in [Keys -> ConnStates \cup {None}]
      /\ conns'[k] # None /\ conns'[k].hello_captured /\ conns'[k].c = b
      /\ \A l \in Keys : l # k => conns'[l] = conns[l]
      /\ \A l \in Keys : /\ conns'[l] # None <=> conns[l] # None
                         /\ conns[l] # None => /\ conns'[l].c = conns[l].c
                                               /\ conns'[l].peer = conns[l].peer
                                               /\ conns[l].hello_captured => conns'[l].hello_captured
  <2> DEFINE new == [conns[k] EXCEPT !.hello_captured = TRUE]
  <2>1. /\ new \in ConnStates /\ new.hello_captured /\ new.c = b /\ new.peer = conns[k].peer
    BY <1>4 DEF ConnStates
  <2> HIDE DEF new
  <2>2. new # None
    BY <2>1, NetAssumption
  <2>3. conns' = [conns EXCEPT ![k] = new]
    BY <1>2, <1>3, <1>4 DEF new
  <2>4. conns'[k] = new /\ \A l \in Keys : l # k => conns'[l] = conns[l]
    BY <1>3, <1>4, <2>3
  <2>5. conns' \in [Keys -> ConnStates \cup {None}]
    BY <1>4, <2>1, <2>3
  <2> QED BY <1>2, <2>1, <2>2, <2>4, <2>5
<1>8. UNCHANGED <<phase, netCh, feed, table, waiting, out, task, used, fds>>
  BY <1>2 DEF goVars
<1>9. Puts(e) /\ ring' \in Seq(Events) /\ Len(ring') <= RingMax
  BY <1>2, <1>6, <1>8, OutputPuts
<1>10. /\ Way \subseteq Way' /\ Way' \subseteq Way \cup {e}
       /\ e \in Way' \/ b \in lost'
       /\ lost' \subseteq lost \cup {b} /\ lost \subseteq lost'
  BY <1>6, <1>9, PutsFacts
<1>11. Told' = Told /\ \A c : Emitted(c)' <=> Emitted(c)
  BY <1>8 DEF Told, Emitted
<1>12. \A q \in Pids : Lives(q)' <=> Lives(q)
  BY <1>2 DEF Lives
<1>13. WorldTypes'
  BY <1>1, <1>2, <1>5, <1>6, <1>9, <1>10, PutsFacts DEF WorldTypes
<1>14. ProbeTypes'
  BY <1>7, <1>8, <1>9 DEF ProbeTypes
<1>15. Numbered'
  BY <1>1, <1>2, <1>3, <1>7, <1>8 DEF Numbered
<1>16. Known'
  <2>1. /\ \A q \in Pids, g \in Fds : fds'[q][g] \in 0..Len(conn')
        /\ \A q, r \in Pids, g, h \in Fds : fds'[q][g] = fds'[r][h] /\ fds'[q][g] # 0 => g = h
    BY <1>1, <1>8 DEF Known
  <2>2. \A l \in Keys : conns'[l] # None =>
            /\ conns'[l].c \in DOMAIN conn' /\ conns'[l].peer = conn'[conns'[l].c].peer
            /\ conn'[conns'[l].c].pid = l[1]
    <3> SUFFICES ASSUME NEW l \in Keys, conns'[l] # None
                 PROVE  /\ conns'[l].c \in DOMAIN conn' /\ conns'[l].peer = conn'[conns'[l].c].peer
                        /\ conn'[conns'[l].c].pid = l[1]
      OBVIOUS
    <3>1. conns[l] # None /\ conns'[l].c = conns[l].c /\ conns'[l].peer = conns[l].peer
      BY <1>7
    <3>2. /\ conns[l].c \in DOMAIN conn /\ conns[l].peer = conn[conns[l].c].peer
          /\ conn[conns[l].c].pid = l[1]
      BY <3>1 DEF Known
    <3> QED BY <1>1, <3>1, <3>2
  <2>3. /\ \A l \in Keys : table'[l] # None =>
               /\ table'[l].c \in DOMAIN conn' /\ table'[l].peer = conn'[table'[l].c].peer
               /\ table'[l].host # None => table'[l].emitted
        /\ \A o \in Told' : o.c \in DOMAIN conn'
    BY <1>1, <1>8, <1>11 DEF Known
  <2>4. \A r \in Way' : r.c \in DOMAIN conn' /\ r.peer = conn'[r.c].peer
    BY <1>1, <1>5, <1>6, <1>10 DEF Known
  <2> QED BY <2>1, <2>2, <2>3, <2>4 DEF Known
<1>17. OneKey'
  <2>1. \A l \in Keys, c \in Nat : About(l, c)' => About(l, c)
    BY <1>2, <1>3, <1>6, <1>7, <1>8, <1>10 DEF About
  <2> QED BY <2>1 DEF OneKey
<1>18. ~Emitted(b)
  BY <1>2, <1>3 DEF Once
<1>19. Ordered'
  <2>1. \A r \in Way : r.key = k => Before(r, e)
    <3>1. \A r \in Way : r.key = k => r.c < b \/ (r.c = b /\ r.type = "connect")
      BY <1>2, <1>3, QueueFacts DEF Ordered, Events
    <3> QED BY <1>6, <3>1 DEF Before, Rank
  <2>2. InOrder(Queue)'
    BY <1>6, <1>9, <2>1, PutsInOrder DEF Ordered
  <2>3. \A l \in Keys, r \in Way' : conns'[l] # None /\ r.key = l =>
            \/ r.c < conns'[l].c
            \/ /\ r.c = conns'[l].c /\ r.type # "close"
               /\ r.type = "hello" => conns'[l].hello_captured
    BY <1>3, <1>6, <1>7, <1>10 DEF Ordered
  <2>4. \A l \in Keys, r \in Way' : table[l] # None /\ r.key = l =>
            table[l].c < r.c \/ (table[l].c = r.c /\ r.type # "connect")
    <3>1. table[k] # None => table[k].c <= b /\ table[k].c \in Nat
      BY <1>2, <1>3 DEF Ordered, ProbeTypes, Connections
    <3>2. table[k] # None => table[k].c < b \/ table[k].c = b
      BY <1>5, <3>1
    <3> QED BY <1>3, <1>6, <1>10, <3>2 DEF Ordered
  <2>5. \A l \in Keys : conns'[l] # None /\ table[l] # None => table[l].c <= conns'[l].c
    BY <1>7 DEF Ordered
  <2> QED BY <1>8, <2>2, <2>3, <2>4, <2>5 DEF Ordered
<1>20. Once'
  BY <1>6, <1>7, <1>8, <1>10, <1>11, <1>18 DEF Once
<1>21. Registered'
  <2>1. \A l \in Keys, c \in DOMAIN conn : Open(l, c)' => Open(l, c)
    BY <1>2, <1>3, <1>6, <1>7, <1>10 DEF Open
  <2>2. \A l \in Keys, c \in DOMAIN conn : Entered(l, c) => Entered(l, c)'
    BY <1>8, <1>10 DEF Entered
  <2> QED BY <1>1, <1>10, <2>1, <2>2 DEF Registered

<1>22. Lineage' /\ Socketed'
  <2>1. /\ \A r \in Way : r.c \in DOMAIN conn
        /\ \A o \in Told : o.c \in DOMAIN conn
        /\ \A l \in Keys : conns[l] # None => conns[l].c \in DOMAIN conn
        /\ \A l \in Keys : table[l] # None => table[l].c \in DOMAIN conn
        /\ tracked_pids \subseteq Pids
    BY DEF Known, WorldTypes
  <2>2. "reuse" \notin Habits => conn[b].tree
    BY <1>2, <1>3 DEF Lineage
  <2>3. ASSUME "reuse" \notin Habits
        PROVE  /\ \A q \in tracked_pids' : Lives(q)' => q \in tree'
               /\ \A l \in Keys : conns'[l] # None => conn'[conns'[l].c].tree
               /\ \A l \in Keys : table'[l] # None => conn'[table'[l].c].tree
               /\ \A o \in Told' : conn'[o.c].tree
    <3>1. \A q \in tracked_pids' : Lives(q)' => q \in tree'
      BY <1>2, <1>12, <2>1, <2>3 DEF Lineage
    <3>2. \A l \in Keys : conns'[l] # None => conn'[conns'[l].c].tree
      BY <1>1, <1>7, <2>1, <2>3 DEF Lineage
    <3> QED BY <1>1, <1>8, <1>11, <2>1, <2>3, <3>1, <3>2 DEF Lineage
  <2>4. "reuse" \notin Habits => \A r \in Way' : conn'[r.c].tree
    BY <1>1, <1>5, <1>6, <1>10, <2>1, <2>2 DEF Lineage
  <2>5. Lineage'
    BY <2>3, <2>4 DEF Lineage
  <2> QED BY <1>1, <2>5 DEF Socketed
<1>23. Plain => b = d
  BY <1>2, <1>3 DEF Agreed
<1>24. Agreed'
  <2>1. \A q \in tracked_pids, g \in Fds : <<q, g>> \in Keys
    BY DEF WorldTypes, Keys
  <2> QED BY <1>2, <1>7, <1>8, <1>12, <2>1 DEF Agreed, WorldTypes
<1>25. Truthful'
  <2>1. Plain => (e.payload \in Names => e.payload \in conn'[e.c].sent)
    BY <1>1, <1>6, <1>23, NetAssumption
  <2> QED BY <1>1, <1>10, <1>11, <2>1 DEF Truthful, Known
<1>26. Kept'
  <2>1. \A l \in Keys, c \in DOMAIN conn : Entered(l, c)' => Entered(l, c)
    BY <1>6, <1>8, <1>10 DEF Entered
  <2>2. \A l \in Keys, c \in DOMAIN conn : Closing(l, c) => Closing(l, c)'
    BY <1>10 DEF Closing
  <2> QED BY <1>1, <1>7, <1>8, <1>10, <1>11, <2>1, <2>2 DEF Kept
<1>27. Plain => conn'[b].first # None
  BY <1>1, <1>23, NetAssumption
<1>28. Unsaid'
  <2>1. \A c \in DOMAIN conn : conn'[c].first = None => conn[c].first = None
    BY <1>1
  <2>2. \A q \in Pids, g \in Fds : fds[q][g] # 0 => fds[q][g] \in DOMAIN conn
    <3>1. conn \in Seq(Connects)
      BY DEF WorldTypes
    <3> QED BY <3>1 DEF Known
  <2>3. ASSUME Plain, NEW c \in DOMAIN conn, conn'[c].first = None
        PROVE  /\ \A r \in Way' : r.c = c => r.type # "hello"
               /\ \A l \in Keys : conns'[l] # None /\ conns'[l].c = c => ~conns'[l].hello_captured
    <3>1. c # b /\ conn[c].first = None
      BY <1>27, <2>1, <2>3
    <3> QED BY <1>6, <1>7, <1>10, <2>3, <3>1 DEF Unsaid
  <2>4. ASSUME Plain, NEW q \in Pids, NEW g \in Fds, Lives(q), fds[q][g] # 0,
               conn'[fds[q][g]].pid = q
        PROVE  /\ \A r \in Way' : r.c = fds[q][g] => r.type # "close"
               /\ fds[q][g] \notin lost' /\ conn'[fds[q][g]].first = None => ~Emitted(fds[q][g])
    BY <1>1, <1>6, <1>10, <2>1, <2>2, <2>4 DEF Unsaid
  <2> QED BY <1>1, <1>8, <1>11, <1>12, <2>3, <2>4 DEF Unsaid
<1>29. Named'
  <2> SUFFICES ASSUME Plain
               PROVE  Named'
    BY DEF Named, Plain
  <2>1. /\ \A r \in Way : r.c \in DOMAIN conn
        /\ \A o \in Told : o.c \in DOMAIN conn /\ o.c # b
        /\ \A l \in Keys : conns[l] # None => conns[l].c \in DOMAIN conn
        /\ \A l \in Keys : l[1] \in Pids
    BY <1>18, EmittedTold DEF Known, Keys
  <2>2. \A c \in DOMAIN conn : c # b /\ Clear(c)' => Clear(c) /\ conn'[c] = conn[c]
    BY <1>1, <1>10, <1>23 DEF Clear
  <2>3. Clear(b)' => conn[b].first = None
    <3>1. Clear(b) => p \notin tracked_pids
      BY <1>2, <1>3 DEF Named
    <3>2. conn[b].first # None => (Clear(b)' => Clear(b))
      BY <1>1, <1>5, <1>10 DEF Clear
    <3> QED BY <1>2, <3>1, <3>2
  <2>4. \A r \in Way : r.type = "hello" => ~(r.c = b /\ Clear(b)')
    BY <1>5, <2>3 DEF Unsaid
  <2>5. Clear(b)' => e.payload = conn'[b].first
    BY <1>1, <1>6, <1>23, <2>3, NetAssumption DEF Clear
  <2>6. \A r \in Way' : r.type = "hello" /\ Clear(r.c)' => r.payload = conn'[r.c].first
    BY <1>6, <1>10, <2>1, <2>2, <2>4, <2>5 DEF Named
  <2>7. ASSUME NEW l \in Keys, conns'[l] # None, Clear(conns[l].c)', Lives(l[1])',
               ~conns'[l].hello_captured
        PROVE  l[1] \notin tracked_pids'
    <3>1. l # k /\ conns'[l] = conns[l] /\ l[1] \in Pids /\ Lives(l[1]) /\ conns[l] # None
      BY <1>7, <1>12, <2>1, <2>7
    <3>2. conns[l].c # b
      BY <1>2, <1>3, <1>5, <3>1 DEF OneKey, About
    <3>3. Clear(conns[l].c)
      BY <2>1, <2>2, <2>7, <3>1, <3>2
    <3> QED BY <1>2, <2>7, <3>1, <3>3 DEF Named
  <2>8. ASSUME NEW l \in Keys, NEW c \in DOMAIN conn, Clear(c)', conn[c].peer \notin DnsPeers,
               Closing(l, c)' \/ (conns'[l] # None /\ conns'[l].c = c /\ conns'[l].hello_captured)
        PROVE  Emitted(c) \/ \E r \in Way' : r.key = l /\ r.c = c /\ r.type = "hello"
    <3>1. Closing(l, c)' => Closing(l, c)
      BY <1>6, <1>10 DEF Closing
    <3>2. CASE c = b
      <4>1. l = k
        BY <1>2, <1>3, <1>5, <1>7, <2>8, <3>1, <3>2 DEF OneKey, About, Closing
      <4>2. b \notin lost'
        BY <2>8, <3>2 DEF Clear
      <4> QED BY <1>6, <1>10, <3>2, <4>1, <4>2
    <3>3. CASE c # b
      <4>1. Clear(c) /\ (conns'[l] # None /\ conns'[l].c = c => l # k /\ conns'[l] = conns[l])
        BY <1>7, <2>2, <2>8, <3>3
      <4>2. Emitted(c) \/ \E r \in Way : r.key = l /\ r.c = c /\ r.type = "hello"
        BY <2>8, <3>1, <4>1 DEF Named
      <4> QED BY <1>10, <4>2
    <3> QED BY <3>2, <3>3
  <2>9. \A o \in Told : Clear(o.c)' => o.target = conn'[o.c].first
    BY <2>1, <2>2 DEF Named
  <2>10. \A l \in Keys, c \in DOMAIN conn' :
             /\ Clear(c)' /\ conn'[c].peer \notin DnsPeers
             /\ Closing(l, c)' \/ (conns'[l] # None /\ conns'[l].c = c /\ conns'[l].hello_captured)
             => Emitted(c)' \/ \E r \in Way' : r.key = l /\ r.c = c /\ r.type = "hello"
    BY <1>1, <1>11, <2>8
  <2> QED BY <1>11, <2>6, <2>7, <2>9, <2>10 DEF Named
<1>30. Accounted'
  <2>1. \A l \in Keys, c \in DOMAIN conn : Closing(l, c) => Closing(l, c)'
    BY <1>10 DEF Closing
  <2>2. \A q \in seen : q \in Pids
    BY DEF WorldTypes
  <2>3. \A l \in Keys, c \in DOMAIN conn :
            (conns[l] # None /\ conns[l].c = c) => (conns'[l] # None /\ conns'[l].c = c)
    BY <1>7
  <2>4. Roomy /\ Plain /\ "leave" \notin Habits => \A q \in seen' : Lives(q)' => q \in tracked_pids'
    BY <1>2, <1>12, <2>2 DEF Accounted
  <2>5. ASSUME Roomy, Plain, "leave" \notin Habits, NEW c \in DOMAIN conn, conn[c].due
        PROVE  \/ Emitted(c) \/ c \in lost'
               \/ \E l \in Keys : (conns'[l] # None /\ conns'[l].c = c) \/ Closing(l, c)'
    BY <1>10, <2>1, <2>3, <2>5 DEF Accounted
  <2>6. Roomy /\ Plain /\ "leave" \notin Habits =>
            \A c \in DOMAIN conn' : conn'[c].due => conn'[c].peer \notin DnsPeers
    BY <1>1 DEF Accounted
  <2> QED BY <1>1, <1>11, <2>4, <2>5, <2>6 DEF Accounted
<1> QED BY <1>13, <1>14, <1>15, <1>16, <1>17, <1>19, <1>20, <1>21, <1>22, <1>24, <1>25, <1>26,
           <1>28, <1>29, <1>30

-----------------------------------------------------------------------------
(* A descriptor is closed.                                                 *)

(* A close that is not recorded is of a descriptor without an entry, or by *)
(* a process that is not tracked.                                          *)
LEMMA UnseenCloseKeeps ==
    ASSUME Inv, NEW p \in Pids, NEW f \in Fds, Close(p, f),
           p \notin tracked_pids \/ conns[<<p, f>>] = None
    PROVE  Inv'
<1>1. /\ fds' = [fds EXCEPT ![p] = [fds[p] EXCEPT ![f] = 0]]
      /\ UNCHANGED <<task, used, tree, seen, conn, tracked_pids, goVars, conns, ring, lost>>
  BY DEF Close, trace_close
<1>2. Still /\ UNCHANGED <<phase, netCh, feed, table, waiting, out>>
  BY <1>1 DEF Still, Queue, goVars
<1>3. fds \in [Pids -> [Fds -> Nat]]
  BY DEF Inv, WorldTypes
<1>4. /\ fds' \in [Pids -> [Fds -> Nat]] /\ fds'[p][f] = 0
      /\ \A q \in Pids, g \in Fds : (q # p \/ g # f) => fds'[q][g] = fds[q][g]
  <2> DEFINE new == [fds[p] EXCEPT ![f] = 0]
  <2>1. new \in [Fds -> Nat] /\ new[f] = 0 /\ \A g \in Fds : g # f => new[g] = fds[p][g]
    BY <1>3
  <2> HIDE DEF new
  <2>2. fds' = [fds EXCEPT ![p] = new]
    BY <1>1 DEF new
  <2> QED BY <1>3, <2>1, <2>2
<1>6. \A q \in Pids : Lives(q)' <=> Lives(q)
  BY <1>1 DEF Lives
<1> USE DEF Inv
<1>7. WorldTypes' /\ ProbeTypes' /\ Numbered'
  BY <1>1, <1>2, <1>4 DEF WorldTypes, ProbeTypes, Numbered
<1>8. /\ UNCHANGED <<tree, seen>> /\ tracked_pids' \subseteq Pids /\ tracked_pids' = tracked_pids
      /\ \A q \in Pids, g \in Fds : fds'[q][g] \in {0, fds[q][g]}
      /\ \A q \in tracked_pids', g \in Fds :
             Lives(q)' /\ conns[<<q, g>>] # None => fds'[q][g] = fds[q][g]
  BY <1>1, <1>4, <1>7 DEF WorldTypes
<1>9. Known' /\ Lineage' /\ Agreed' /\ Unsaid' /\ Named' /\ Accounted'
  BY <1>2, <1>6, <1>8, TaskKeeps
<1> QED BY <1>2, <1>7, <1>9, StillKeeps

(* A close that is recorded ends the entry of its connection.              *)
LEMMA SeenCloseKeeps ==
    ASSUME Inv, NEW p \in Pids, NEW f \in Fds, Close(p, f),
           p \in tracked_pids, conns[<<p, f>>] # None
    PROVE  Inv'
<1> PICK k : k = <<p, f>>
  OBVIOUS
<1> PICK b : b = conns[k].c
  OBVIOUS
<1> PICK e : e = Event("close", k, conns[k].peer, None, b)
  OBVIOUS
<1>1. /\ fds' = [fds EXCEPT ![p] = [fds[p] EXCEPT ![f] = 0]]
      /\ UNCHANGED <<task, used, tree, seen, conn, tracked_pids, goVars>>
      /\ Output(e, FALSE) /\ conns' = [conns EXCEPT ![k] = None] /\ conns[k] # None
  BY DEF Close, trace_close
<1>2. k \in Keys /\ k[1] = p /\ k[2] = f /\ Lives(p)
  BY ActiveLives DEF Keys, Close, Calls
<1> USE DEF Inv
<1>3. /\ conns \in [Keys -> ConnStates \cup {None}] /\ conns[k] \in ConnStates
      /\ fds \in [Pids -> [Fds -> Nat]]
  BY <1>1, <1>2 DEF ProbeTypes, WorldTypes
<1>4. /\ fds' \in [Pids -> [Fds -> Nat]] /\ fds'[p][f] = 0
      /\ \A q \in Pids, g \in Fds : (q # p \/ g # f) => fds'[q][g] = fds[q][g]
  <2> DEFINE new == [fds[p] EXCEPT ![f] = 0]
  <2>1. new \in [Fds -> Nat] /\ new[f] = 0 /\ \A g \in Fds : g # f => new[g] = fds[p][g]
    BY <1>3
  <2> HIDE DEF new
  <2>2. fds' = [fds EXCEPT ![p] = new]
    BY <1>1 DEF new
  <2> QED BY <1>3, <2>1, <2>2
<1>5. /\ b \in DOMAIN conn /\ b \in Nat /\ conns[k].peer = conn[b].peer /\ conn[b].pid = p
      /\ conns[k].peer \in Peers
  BY <1>1, <1>2, <1>3 DEF Known, ConnStates
<1>6. /\ e \in Events /\ e.type = "close" /\ e.key = k /\ e.peer = conn[b].peer /\ e.c = b
      /\ e.payload = None
  BY <1>2, <1>5 DEF Event, Events
<1>7. /\ conns' \in [Keys -> ConnStates \cup {None}] /\ conns'[k] = None
      /\ \A l \in Keys : l # k => conns'[l] = conns[l]
      /\ \A l \in Keys : conns'[l] # None => conns'[l] = conns[l] /\ l # k /\ conns[l] # None
  BY <1>1, <1>2, <1>3
<1>8. UNCHANGED <<phase, netCh, feed, table, waiting, out>>
  BY <1>1 DEF goVars
<1>9. Puts(e) /\ ring' \in Seq(Events) /\ Len(ring') <= RingMax
  BY <1>1, <1>6, <1>8, OutputPuts
<1>10. /\ Way \subseteq Way' /\ Way' \subseteq Way \cup {e}
       /\ e \in Way' \/ b \in lost'
       /\ lost' \subseteq lost \cup {b} /\ lost \subseteq lost'
  BY <1>6, <1>9, PutsFacts
<1>11. Told' = Told /\ \A c : Emitted(c)' <=> Emitted(c)
  BY <1>8 DEF Told, Emitted
<1>12. \A q \in Pids : Lives(q)' <=> Lives(q)
  BY <1>1 DEF Lives
<1>13. WorldTypes' /\ ProbeTypes' /\ Numbered'
  BY <1>1, <1>4, <1>5, <1>7, <1>8, <1>9, <1>10 DEF WorldTypes, ProbeTypes, Numbered
<1>14. \A l \in Keys : conns[l] # None /\ conns[l].c = b => l = k
  BY <1>1, <1>2, <1>5 DEF OneKey, About
<1>15. Known'
  <2>1. \A q \in Pids, g \in Fds : fds'[q][g] \in {0, fds[q][g]}
    BY <1>4
  <2>2. \A q \in Pids, g \in Fds : fds'[q][g] \in 0..Len(conn)
    <3>1. conn \in Seq(Connects)
      BY DEF WorldTypes
    <3> QED BY <2>1, <3>1 DEF Known
  <2>3. \A q, r \in Pids, g, h \in Fds : fds'[q][g] = fds'[r][h] /\ fds'[q][g] # 0 => g = h
    BY <2>1 DEF Known
  <2> QED BY <1>1, <1>5, <1>6, <1>7, <1>8, <1>10, <1>11, <2>2, <2>3 DEF Known
<1>16. OneKey'
  <2>1. \A l \in Keys, c \in Nat : About(l, c)' => About(l, c)
    BY <1>1, <1>2, <1>6, <1>7, <1>8, <1>10 DEF About
  <2> QED BY <2>1 DEF OneKey
<1>17. Ordered'
  <2>1. \A r \in Way : r.key = k => Before(r, e)
    <3>1. \A r \in Way : r.key = k => r.c < b \/ (r.c = b /\ r.type \in {"connect", "hello"})
      BY <1>1, <1>2, QueueFacts DEF Ordered, Events
    <3> QED BY <1>6, <3>1 DEF Before, Rank
  <2>2. InOrder(Queue)'
    BY <1>6, <1>9, <2>1, PutsInOrder DEF Ordered
  <2>3. \A l \in Keys, r \in Way' : conns'[l] # None /\ r.key = l =>
            \/ r.c < conns'[l].c
            \/ /\ r.c = conns'[l].c /\ r.type # "close"
               /\ r.type = "hello" => conns'[l].hello_captured
    BY <1>6, <1>7, <1>10 DEF Ordered
  <2>4. \A l \in Keys, r \in Way' : table[l] # None /\ r.key = l =>
            table[l].c < r.c \/ (table[l].c = r.c /\ r.type # "connect")
    <3>1. table[k] # None => table[k].c <= b /\ table[k].c \in Nat
      BY <1>1, <1>2 DEF Ordered, ProbeTypes, Connections
    <3>2. table[k] # None => table[k].c < b \/ table[k].c = b
      BY <1>5, <3>1
    <3> QED BY <1>2, <1>6, <1>10, <3>2 DEF Ordered
  <2>5. \A l \in Keys : conns'[l] # None /\ table[l] # None => table[l].c <= conns'[l].c
    BY <1>7 DEF Ordered
  <2> QED BY <1>8, <2>2, <2>3, <2>4, <2>5 DEF Ordered
<1>18. Once'
  BY <1>6, <1>7, <1>8, <1>10, <1>11 DEF Once
<1>19. Registered'
  <2>1. \A l \in Keys, c \in DOMAIN conn : Open(l, c)' => Open(l, c)
    BY <1>1, <1>2, <1>6, <1>7, <1>10 DEF Open
  <2>2. \A l \in Keys, c \in DOMAIN conn : Entered(l, c) => Entered(l, c)'
    BY <1>8, <1>10 DEF Entered
  <2> QED BY <1>1, <1>10, <2>1, <2>2 DEF Registered
<1>20. Lineage' /\ Socketed'
  <2>1. "reuse" \notin Habits => conn[b].tree
    BY <1>1, <1>2 DEF Lineage
  <2>2. tracked_pids \subseteq Pids
    BY DEF WorldTypes
  <2>3. "reuse" \notin Habits => \A r \in Way' : conn'[r.c].tree
    BY <1>1, <1>6, <1>10, <2>1 DEF Lineage
  <2>4. "reuse" \notin Habits =>
            /\ \A q \in tracked_pids' : Lives(q)' => q \in tree'
            /\ \A l \in Keys : conns'[l] # None => conn'[conns'[l].c].tree
            /\ \A l \in Keys : table'[l] # None => conn'[table'[l].c].tree
            /\ \A o \in Told' : conn'[o.c].tree
    BY <1>1, <1>7, <1>8, <1>11, <1>12, <2>2 DEF Lineage
  <2> QED BY <1>1, <2>3, <2>4 DEF Lineage, Socketed
<1>21. Plain => fds[p][f] = b
  BY <1>1, <1>2 DEF Agreed, Close, trace_close
<1>22. Agreed'
  <2>1. \A q \in tracked_pids, g \in Fds : <<q, g>> \in Keys /\ q \in Pids
    BY DEF WorldTypes, Keys
  <2> QED BY <1>1, <1>4, <1>7, <1>12, <2>1 DEF Agreed
<1>23. Truthful'
  BY <1>1, <1>6, <1>10, <1>11, NetAssumption DEF Truthful
<1>24. Kept'
  <2>1. \A l \in Keys, c \in DOMAIN conn : Entered(l, c)' => Entered(l, c)
    BY <1>6, <1>8, <1>10 DEF Entered
  <2>2. \A l \in Keys, c \in DOMAIN conn : Closing(l, c) => Closing(l, c)'
    BY <1>10 DEF Closing
  <2>3. b \notin lost' => Closing(k, b)'
    BY <1>6, <1>10 DEF Closing
  <2>4. \A l \in Keys, c \in DOMAIN conn \ lost' :
            conns[l] # None /\ conns[l].c = c => (conns'[l] # None /\ conns'[l].c = c) \/ Closing(l, c)'
    BY <1>7, <2>3
  <2> QED BY <1>1, <1>8, <1>10, <1>11, <2>1, <2>2, <2>4 DEF Kept
<1>25. Unsaid'
  <2>1. ASSUME Plain, NEW c \in DOMAIN conn, conn[c].first = None
        PROVE  /\ \A r \in Way' : r.c = c => r.type # "hello"
               /\ \A l \in Keys : conns'[l] # None /\ conns'[l].c = c => ~conns'[l].hello_captured
    BY <1>6, <1>7, <1>10, <2>1 DEF Unsaid
  <2>2. ASSUME Plain, NEW q \in Pids, NEW g \in Fds, Lives(q), fds'[q][g] # 0,
               conn[fds'[q][g]].pid = q
        PROVE  /\ \A r \in Way' : r.c = fds'[q][g] => r.type # "close"
               /\ fds'[q][g] \notin lost' /\ conn[fds'[q][g]].first = None => ~Emitted(fds'[q][g])
    <3>1. fds'[q][g] = fds[q][g] /\ (q # p \/ g # f)
      BY <1>4, <2>2
    <3>2. fds[q][g] # b
      BY <1>5, <1>21, <2>2, <3>1 DEF Known
    <3> QED BY <1>6, <1>10, <2>2, <3>1, <3>2 DEF Unsaid
  <2> QED BY <1>1, <1>11, <1>12, <2>1, <2>2 DEF Unsaid
<1>26. Named'
  <2> SUFFICES ASSUME Plain
               PROVE  Named'
    BY DEF Named, Plain
  <2>1. \A c : Clear(c)' => Clear(c)
    BY <1>1, <1>10 DEF Clear
  <2>2. \A r \in Way' : r.type = "hello" /\ Clear(r.c)' => r.payload = conn[r.c].first
    BY <1>6, <1>10, <2>1 DEF Named
  <2>3. ASSUME NEW l \in Keys, conns'[l] # None, Clear(conns[l].c)', Lives(l[1])',
               ~conns'[l].hello_captured
        PROVE  l[1] \notin tracked_pids'
    <3>1. conns'[l] = conns[l] /\ l[1] \in Pids /\ Lives(l[1]) /\ conns[l] # None
      BY <1>7, <1>12, <2>3 DEF Keys
    <3>2. Clear(conns[l].c)
      BY <2>1, <2>3, <3>1
    <3> QED BY <1>1, <2>3, <3>1, <3>2 DEF Named
  <2>4. ASSUME NEW l \in Keys, NEW c \in DOMAIN conn, Clear(c)', conn[c].peer \notin DnsPeers,
               Closing(l, c)' \/ (conns'[l] # None /\ conns'[l].c = c /\ conns'[l].hello_captured)
        PROVE  Emitted(c) \/ \E r \in Way' : r.key = l /\ r.c = c /\ r.type = "hello"
    <3>1. Clear(c)
      BY <2>1, <2>4
    <3>2. Closing(l, c)' => Closing(l, c) \/ (l = k /\ c = b)
      BY <1>6, <1>10 DEF Closing
    <3>3. Clear(b) => conns[k].hello_captured
      BY <1>1, <1>2 DEF Named, Close, trace_close
    <3>4. Closing(l, c) \/ (conns[l] # None /\ conns[l].c = c /\ conns[l].hello_captured)
      BY <1>1, <1>7, <2>4, <3>1, <3>2, <3>3
    <3>5. Emitted(c) \/ \E r \in Way : r.key = l /\ r.c = c /\ r.type = "hello"
      BY <2>4, <3>1, <3>4 DEF Named
    <3> QED BY <1>10, <3>5
  <2>5. \A o \in Told : Clear(o.c)' => o.target = conn[o.c].first
    BY <2>1 DEF Named
  <2>6. \A l \in Keys, c \in DOMAIN conn' :
            /\ Clear(c)' /\ conn'[c].peer \notin DnsPeers
            /\ Closing(l, c)' \/ (conns'[l] # None /\ conns'[l].c = c /\ conns'[l].hello_captured)
            => Emitted(c)' \/ \E r \in Way' : r.key = l /\ r.c = c /\ r.type = "hello"
    BY <1>1, <1>11, <2>4
  <2> QED BY <1>1, <1>11, <2>2, <2>3, <2>5, <2>6 DEF Named
<1>27. Accounted'
  <2>1. \A l \in Keys, c \in DOMAIN conn : Closing(l, c) => Closing(l, c)'
    BY <1>10 DEF Closing
  <2>2. b \in lost' \/ Closing(k, b)'
    BY <1>6, <1>10 DEF Closing
  <2>3. \A l \in Keys, c \in DOMAIN conn :
            conns[l] # None /\ conns[l].c = c =>
                c \in lost' \/ (conns'[l] # None /\ conns'[l].c = c) \/ Closing(l, c)'
    BY <1>7, <2>2
  <2>4. \A q \in seen : q \in Pids
    BY DEF WorldTypes
  <2>5. Roomy /\ Plain /\ "leave" \notin Habits => \A q \in seen' : Lives(q)' => q \in tracked_pids'
    BY <1>1, <1>12, <2>4 DEF Accounted
  <2>6. ASSUME Roomy, Plain, "leave" \notin Habits, NEW c \in DOMAIN conn, conn[c].due
        PROVE  \/ Emitted(c) \/ c \in lost'
               \/ \E l \in Keys : (conns'[l] # None /\ conns'[l].c = c) \/ Closing(l, c)'
    BY <1>10, <2>1, <2>3, <2>6 DEF Accounted
  <2> QED BY <1>1, <1>11, <2>5, <2>6 DEF Accounted
<1> QED BY <1>13, <1>15, <1>16, <1>17, <1>18, <1>19, <1>20, <1>22, <1>23, <1>24, <1>25, <1>26, <1>27

-----------------------------------------------------------------------------
(* A descriptor is connected.                                              *)

(* What the programs make of a connect: nothing; or a record, of which     *)
(* there is an entry, too, unless something was lost.                      *)
Fresh(r, k, peer, c) == r.type = "connect" /\ r.key = k /\ r.peer = peer /\ r.c = c /\ r.payload = None
FreshEntry(k, peer, c) ==
    conns'[k] # None /\ conns'[k].c = c /\ conns'[k].peer = peer /\ ~conns'[k].hello_captured

LEMMA ConnectKeeps ==
    ASSUME Inv, NEW p \in Pids, NEW f \in Fds, NEW peer \in Peers, NEW ok \in BOOLEAN,
           Connect(p, f, peer, ok)
    PROVE  Inv'
<1> PICK c \in Nat : c = Len(conn) + 1
  BY LenProperties DEF Inv, WorldTypes
<1> PICK k \in Keys : k = <<p, f>>
  BY DEF Keys
<1>1. /\ c \in Nat \ {0} /\ c \notin DOMAIN conn /\ \A d \in DOMAIN conn : d < c /\ d \in Nat
      /\ conn' \in Seq(Connects) /\ Len(conn') = c /\ c <= MaxConns
      /\ DOMAIN conn' = DOMAIN conn \cup {c}
      /\ \A d \in DOMAIN conn : conn'[d] = conn[d]
      /\ conn'[c].pid = p /\ conn'[c].peer = peer /\ conn'[c].first = None
      /\ p \in tree => conn'[c].tree
      /\ conn'[c].due => p \in seen /\ ok /\ peer \notin LocalPeers \cup DnsPeers
      /\ "reconnect" \notin Habits => conn'[c].sock = c /\ fds[p][f] = 0
  <2>1. /\ conn \in Seq(Connects) /\ Len(conn) \in Nat /\ DOMAIN conn = 1..Len(conn)
        /\ fds \in [Pids -> [Fds -> Nat]] /\ fds[p][f] \in 0..Len(conn)
    BY LenProperties DEF Inv, WorldTypes, Known
  <2>2. /\ c \in Nat \ {0} /\ c \notin DOMAIN conn /\ \A d \in DOMAIN conn : d < c /\ d \in Nat
        /\ c <= MaxConns
    BY <2>1 DEF Connect
  <2> DEFINE sock == IF fds[p][f] = 0 THEN c ELSE conn[fds[p][f]].sock
             new == Connection(p, peer, sock, ok)
  <2>3. sock \in Nat
    <3>1. CASE fds[p][f] = 0
      BY <2>2, <3>1
    <3>2. CASE fds[p][f] # 0
      <4>1. fds[p][f] \in DOMAIN conn
        BY <2>1, <3>2
      <4>2. conn[fds[p][f]] \in Connects
        BY <2>1, <4>1
      <4> QED BY <3>2, <4>2 DEF Connects
    <3> QED BY <3>1, <3>2
  <2>4. conn' = Append(conn, new)
    BY DEF Connect
  <2>5. "reconnect" \notin Habits => sock = c /\ fds[p][f] = 0
    BY DEF Connect
  <2> HIDE DEF sock
  <2>6. /\ new \in Connects /\ new.pid = p /\ new.peer = peer /\ new.first = None /\ new.sock = sock
        /\ (p \in tree => new.tree)
        /\ new.due => p \in seen /\ ok /\ peer \notin LocalPeers \cup DnsPeers
    <3> DEFINE ours == p \in tree
               due == p \in seen /\ ok /\ peer \notin LocalPeers \cup DnsPeers
    <3>1. ours \in BOOLEAN /\ due \in BOOLEAN /\ (ours <=> p \in tree)
          /\ (due => p \in seen /\ ok /\ peer \notin LocalPeers \cup DnsPeers)
      OBVIOUS
    <3>2. new = [pid |-> p, peer |-> peer, sock |-> sock, tree |-> ours, due |-> due,
                 sent |-> {}, first |-> None]
      BY DEF Connection
    <3> HIDE DEF ours, due, new
    <3> QED BY <2>3, <3>1, <3>2 DEF Connects
  <2> HIDE DEF new
  <2>7. /\ conn' \in Seq(Connects) /\ Len(conn') = c /\ DOMAIN conn' = DOMAIN conn \cup {c}
        /\ conn'[c] = new /\ \A d \in DOMAIN conn : conn'[d] = conn[d]
    BY <2>1, <2>2, <2>4, <2>6
  <2> QED BY <2>2, <2>5, <2>6, <2>7
<1>2. /\ fds' \in [Pids -> [Fds -> Nat]] /\ fds'[p][f] = c
      /\ \A q \in Pids, g \in Fds : (q # p \/ g # f) => fds'[q][g] = fds[q][g]
      /\ UNCHANGED <<task, used, tree, seen, tracked_pids, goVars>>
      /\ Lives(p) /\ phase \in {"launched", "running"}
      /\ trace_connect(p, f, peer, c, ok)
  <2>1. fds \in [Pids -> [Fds -> Nat]]
    BY DEF Inv, WorldTypes
  <2> DEFINE row == [fds[p] EXCEPT ![f] = c]
  <2>2. row \in [Fds -> Nat] /\ row[f] = c /\ \A g \in Fds : g # f => row[g] = fds[p][g]
    BY <2>1
  <2>3. fds' = [fds EXCEPT ![p] = row]
    BY DEF Connect
  <2> HIDE DEF row
  <2>4. /\ fds' \in [Pids -> [Fds -> Nat]] /\ fds'[p][f] = c
        /\ \A q \in Pids, g \in Fds : (q # p \/ g # f) => fds'[q][g] = fds[q][g]
    BY <2>1, <2>2, <2>3
  <2>5. Lives(p) /\ phase \in {"launched", "running"}
    BY ActiveLives DEF Connect, Calls, Active
  <2>6. /\ UNCHANGED <<task, used, tree, seen, tracked_pids, goVars>>
        /\ trace_connect(p, f, peer, c, ok)
    BY DEF Connect
  <2> QED BY <2>4, <2>5, <2>6
<1>3. UNCHANGED <<phase, netCh, feed, table, waiting, out>>
  BY <1>2 DEF goVars
<1>4. /\ conns' \in [Keys -> ConnStates \cup {None}]
      /\ \A l \in Keys : conns'[l] = conns[l] \/ (l = k /\ FreshEntry(k, peer, c))
      /\ ring' \in Seq(Events) /\ Len(ring') <= RingMax /\ InOrder(Queue')
      /\ Way \subseteq Way' /\ \A r \in Way' : r \in Way \/ Fresh(r, k, peer, c)
      /\ lost \subseteq lost' /\ lost' \subseteq lost \cup {c}
      /\ p \in tracked_pids /\ ok /\ peer \notin LocalPeers
         => c \in lost' \/ FreshEntry(k, peer, c)
      /\ FreshEntry(k, peer, c) => c \in lost' \/ \E r \in Way' : Fresh(r, k, peer, c)
      /\ \A r \in Way' : r.c = c => /\ c \in lost' \/ FreshEntry(k, peer, c)
                                    /\ conns'[k] = None \/ FreshEntry(k, peer, c)
      /\ (Way' # Way \/ FreshEntry(k, peer, c)) => p \in tracked_pids
  <2>1. /\ trace_connect(p, f, peer, c, ok) /\ netCh' = netCh
        /\ c \notin DOMAIN conn /\ \A d \in DOMAIN conn : d < c
    BY <1>1, <1>2, <1>3
  <2>2. k \in Keys /\ conns \in [Keys -> ConnStates \cup {None}] /\ InOrder(Queue) /\ ring \in Seq(Events)
        /\ Len(ring) <= RingMax
    BY DEF Keys, Inv, ProbeTypes, Ordered
  <2>3. /\ \A r \in Way : r.c \in DOMAIN conn /\ r.c # c /\ r.c < c
        /\ \A l \in Keys : conns[l] # None => conns[l].c # c
    BY DEF Inv, Known
  <2>4. CASE p \notin tracked_pids \/ ~ok \/ peer \in LocalPeers
    <3>1. UNCHANGED <<conns, ring, lost>> /\ Queue' = Queue
      BY <2>1, <2>4 DEF trace_connect, Queue
    <3>2. Way' = Way /\ ~FreshEntry(k, peer, c)
      BY <2>2, <2>3, <3>1 DEF Way, FreshEntry
    <3> QED BY <2>2, <2>3, <2>4, <3>1, <3>2
  <2>5. CASE ~(p \notin tracked_pids \/ ~ok \/ peer \in LocalPeers)
    <3> DEFINE e == Event("connect", k, peer, None, c)
               missed == ~HasRoom(k)
               new == ConnState(peer, c)
    <3>1. /\ e \in Events /\ e.type = "connect" /\ e.key = k /\ e.peer = peer /\ e.c = c
          /\ e.payload = None
      BY <2>2 DEF Event, Events
    <3>2. missed \in BOOLEAN /\ (missed <=> ~HasRoom(k))
      BY DEF HasRoom
    <3>3. new \in ConnStates /\ new.c = c /\ new.peer = peer /\ ~new.hello_captured
      BY DEF ConnState, ConnStates
    <3>4. /\ Output(e, missed)
          /\ conns' = IF HasRoom(k) THEN [conns EXCEPT ![k] = new] ELSE conns
      BY <2>1, <2>2, <2>5 DEF trace_connect
    <3> HIDE DEF e, missed, new
    <3>5. Puts(e) /\ (missed => c \in lost') /\ ring' \in Seq(Events) /\ Len(ring') <= RingMax
      BY <2>1, <3>1, <3>2, <3>4, OutputPuts DEF Inv
    <3>6. /\ Way \subseteq Way' /\ Way' \subseteq Way \cup {e}
          /\ e \in Way' \/ c \in lost'
          /\ lost' \subseteq lost \cup {c} /\ lost \subseteq lost'
      BY <3>1, <3>5, PutsFacts DEF Inv
    <3>7. InOrder(Queue')
      <4>1. \A r \in Way : r.key = e.key => Before(r, e)
        BY <2>3, <3>1 DEF Before
      <4> QED BY <2>2, <3>1, <3>5, <4>1, PutsInOrder DEF Inv
    <3>8. \A r \in Way' : r \in Way \/ Fresh(r, k, peer, c)
      BY <3>1, <3>6 DEF Fresh
    <3>9. e \in Way' => \E r \in Way' : Fresh(r, k, peer, c)
      BY <3>1 DEF Fresh
    <3>10. CASE HasRoom(k)
      <4>1. /\ conns' \in [Keys -> ConnStates \cup {None}] /\ conns'[k] = new
            /\ \A l \in Keys : l # k => conns'[l] = conns[l]
        BY <2>2, <3>3, <3>4, <3>10
      <4>2. FreshEntry(k, peer, c)
        BY <3>3, <4>1, NetAssumption DEF FreshEntry
      <4> QED BY <2>3, <2>5, <3>5, <3>6, <3>7, <3>8, <3>9, <4>1, <4>2
    <3>11. CASE ~HasRoom(k)
      <4>1. conns' = conns /\ conns[k] = None /\ c \in lost'
        BY <3>2, <3>4, <3>5, <3>11 DEF HasRoom
      <4>2. ~FreshEntry(k, peer, c)
        BY <4>1 DEF FreshEntry
      <4> QED BY <2>2, <2>5, <3>5, <3>6, <3>7, <3>8, <4>1, <4>2
    <3> QED BY <3>10, <3>11
  <2> QED BY <2>4, <2>5
<1>5. k \in Keys /\ k[1] = p /\ k[2] = f /\ c # 0
  BY <1>1 DEF Keys
<1>6. Told' = Told /\ \A d : Emitted(d)' <=> Emitted(d)
  BY <1>3 DEF Told, Emitted
<1>7. \A q \in Pids : Lives(q)' <=> Lives(q)
  BY <1>2 DEF Lives
<1> USE DEF Inv
<1>8. /\ conn \in Seq(Connects) /\ Len(conn) \in Nat /\ Len(conn) < c /\ DOMAIN conn = 1..Len(conn)
  BY <1>1, LenProperties DEF WorldTypes
<1>9. /\ \A r \in Way : r.c \in DOMAIN conn
      /\ \A o \in Told : o.c \in DOMAIN conn
      /\ \A d : Emitted(d) => d \in DOMAIN conn
      /\ \A l \in Keys : conns[l] # None => conns[l].c \in DOMAIN conn
      /\ \A l \in Keys : table[l] # None => table[l].c \in DOMAIN conn
  BY EmittedTold DEF Known
<1>10. \A l \in Keys : conns'[l] # None => (conns'[l] = conns[l] /\ conns[l] # None /\ conns'[l].c # c)
                                           \/ (l = k /\ FreshEntry(k, peer, c))
  <2> SUFFICES ASSUME NEW l \in Keys, conns'[l] # None
               PROVE  (conns'[l] = conns[l] /\ conns[l] # None /\ conns'[l].c # c)
                      \/ (l = k /\ FreshEntry(k, peer, c))
    OBVIOUS
  <2>1. conns'[l] = conns[l] \/ (l = k /\ FreshEntry(k, peer, c))
    BY <1>4
  <2>2. conns[l] # None => conns[l].c # c
    BY <1>1, <1>9
  <2> QED BY <2>1, <2>2
<1>11. WorldTypes'
  BY <1>1, <1>2, <1>4 DEF WorldTypes
<1>12. ProbeTypes'
  BY <1>3, <1>4 DEF ProbeTypes
<1>13. p \in used
  BY <1>2, NetAssumption DEF Lives, Numbered
<1>14. Numbered'
  <2>1. phase = "launched" => \A l \in Keys : conns'[l] = None
    BY <1>4 DEF Numbered
  <2>2. \A d \in DOMAIN conn' : conn'[d].pid \in used
    BY <1>1, <1>13 DEF Numbered
  <2>3. \A l \in Keys : conns'[l] # None => l[1] \in used
    BY <1>5, <1>10, <1>13 DEF Numbered
  <2> QED BY <1>2, <1>3, <2>1, <2>2, <2>3 DEF Numbered
<1>15. Known'
  <2>1. \A q \in Pids, g \in Fds : fds'[q][g] \in 0..Len(conn')
    <3> SUFFICES ASSUME NEW q \in Pids, NEW g \in Fds
                 PROVE  fds'[q][g] \in 0..Len(conn')
      OBVIOUS
    <3>1. fds[q][g] \in 0..Len(conn)
      BY DEF Known
    <3>2. fds'[q][g] = fds[q][g] \/ fds'[q][g] = c
      BY <1>2
    <3> QED BY <1>1, <1>8, <3>1, <3>2
  <2>2. \A q, r \in Pids, g, h \in Fds : fds'[q][g] = fds'[r][h] /\ fds'[q][g] # 0 => g = h
    <3>1. \A q \in Pids, g \in Fds : fds[q][g] # c
      BY <1>8 DEF Known
    <3>2. \A q \in Pids, g \in Fds : fds'[q][g] = fds[q][g] \/ (fds'[q][g] = c /\ q = p /\ g = f)
      BY <1>2
    <3> QED BY <3>1, <3>2 DEF Known
  <2>3. \A l \in Keys : conns'[l] # None =>
            /\ conns'[l].c \in DOMAIN conn' /\ conns'[l].peer = conn'[conns'[l].c].peer
            /\ conn'[conns'[l].c].pid = l[1]
    <3> SUFFICES ASSUME NEW l \in Keys, conns'[l] # None
                 PROVE  /\ conns'[l].c \in DOMAIN conn' /\ conns'[l].peer = conn'[conns'[l].c].peer
                        /\ conn'[conns'[l].c].pid = l[1]
      OBVIOUS
    <3>1. CASE conns'[l] = conns[l] /\ conns[l] # None
      BY <1>1, <3>1 DEF Known
    <3>2. CASE l = k /\ FreshEntry(k, peer, c)
      BY <1>1, <1>5, <3>2 DEF FreshEntry
    <3> QED BY <1>10, <3>1, <3>2
  <2>4. /\ \A l \in Keys : table'[l] # None =>
               /\ table'[l].c \in DOMAIN conn' /\ table'[l].peer = conn'[table'[l].c].peer
               /\ table'[l].host # None => table'[l].emitted
        /\ \A o \in Told' : o.c \in DOMAIN conn'
    BY <1>1, <1>3, <1>6 DEF Known
  <2>5. \A r \in Way' : r.c \in DOMAIN conn' /\ r.peer = conn'[r.c].peer
    BY <1>1, <1>4 DEF Known, Fresh
  <2> QED BY <2>1, <2>2, <2>3, <2>4, <2>5 DEF Known
<1>16. OneKey'
  <2>1. \A l \in Keys, d \in Nat : About(l, d)' => About(l, d) \/ (l = k /\ d = c)
    BY <1>3, <1>4, <1>10 DEF About, Fresh, FreshEntry
  <2>2. \A l \in Keys : ~About(l, c)
    BY <1>1, <1>9 DEF About
  <2> QED BY <2>1, <2>2 DEF OneKey
<1>17. Ordered'
  <2>1. \A l \in Keys, r \in Way' : conns'[l] # None /\ r.key = l =>
            \/ r.c < conns'[l].c
            \/ /\ r.c = conns'[l].c /\ r.type # "close"
               /\ r.type = "hello" => conns'[l].hello_captured
    <3> SUFFICES ASSUME NEW l \in Keys, NEW r \in Way', conns'[l] # None, r.key = l
                 PROVE  \/ r.c < conns'[l].c
                        \/ /\ r.c = conns'[l].c /\ r.type # "close"
                           /\ r.type = "hello" => conns'[l].hello_captured
      OBVIOUS
    <3>1. CASE r \in Way /\ conns'[l] = conns[l]
      BY <3>1 DEF Ordered
    <3>2. CASE r \in Way /\ conns'[l] # conns[l]
      <4>1. conns'[l].c = c
        BY <1>4, <3>2 DEF FreshEntry
      <4> QED BY <1>1, <1>9, <3>2, <4>1
    <3>3. CASE r \notin Way
      <4>1. r.type = "connect" /\ r.key = k /\ r.c = c
        BY <1>4, <3>3 DEF Fresh
      <4>2. l = k /\ conns'[l].c = c
        BY <1>4, <4>1 DEF FreshEntry
      <4> QED BY <4>1, <4>2
    <3> QED BY <3>1, <3>2, <3>3
  <2>2. \A l \in Keys, r \in Way' : table[l] # None /\ r.key = l =>
            table[l].c < r.c \/ (table[l].c = r.c /\ r.type # "connect")
    <3> SUFFICES ASSUME NEW l \in Keys, NEW r \in Way', table[l] # None, r.key = l
                 PROVE  table[l].c < r.c \/ (table[l].c = r.c /\ r.type # "connect")
      OBVIOUS
    <3>1. CASE r \in Way
      BY <3>1 DEF Ordered
    <3>2. CASE r.c = c
      BY <1>1, <1>9, <3>2
    <3> QED BY <1>4, <3>1, <3>2 DEF Fresh
  <2>3. \A l \in Keys : conns'[l] # None /\ table[l] # None => table[l].c <= conns'[l].c
    <3> SUFFICES ASSUME NEW l \in Keys, conns'[l] # None, table[l] # None
                 PROVE  table[l].c <= conns'[l].c
      OBVIOUS
    <3>1. CASE conns'[l] = conns[l] /\ conns[l] # None
      BY <3>1 DEF Ordered
    <3>2. CASE conns'[l].c = c
      <4>1. table[l].c < c /\ table[l].c \in Nat
        BY <1>1, <1>9
      <4> QED BY <3>2, <4>1
    <3> QED BY <1>10, <3>1, <3>2 DEF FreshEntry
  <2> QED BY <1>3, <1>4, <2>1, <2>2, <2>3 DEF Ordered
<1>18. Once'
  <2>1. ~Emitted(c)
    BY <1>1, <1>9
  <2>2. \A r \in Way' : Emitted(r.c) => r.type = "close"
    BY <1>4, <2>1 DEF Once, Fresh
  <2>3. \A l \in Keys : conns'[l] # None /\ Emitted(conns'[l].c) => conns'[l].hello_captured
    BY <1>10, <2>1 DEF Once, FreshEntry
  <2> QED BY <1>3, <1>6, <2>2, <2>3 DEF Once
<1>19. \A l \in Keys, d \in DOMAIN conn :
           /\ Open(l, d)' => Open(l, d)
           /\ Entered(l, d)' <=> Entered(l, d)
           /\ Closing(l, d)' <=> Closing(l, d)
  <2>1. \A l \in Keys, d \in DOMAIN conn : Open(l, d)' => Open(l, d)
    BY <1>1, <1>4, <1>10 DEF Open, Fresh, FreshEntry
  <2>2. \A l \in Keys, d \in DOMAIN conn : Entered(l, d)' <=> Entered(l, d)
    BY <1>1, <1>3, <1>4 DEF Entered, Fresh
  <2>3. \A l \in Keys, d \in DOMAIN conn : Closing(l, d)' <=> Closing(l, d)
    BY <1>1, <1>4 DEF Closing, Fresh
  <2> QED BY <2>1, <2>2, <2>3
<1>20. Registered'
  <2>1. \A l \in Keys : Open(l, c)' => c \in lost' \/ Entered(l, c)'
    <3> SUFFICES ASSUME NEW l \in Keys, Open(l, c)'
                 PROVE  c \in lost' \/ Entered(l, c)'
      OBVIOUS
    <3>1. \A r \in Way' : r.c = c => r.type = "connect"
      BY <1>1, <1>4, <1>9 DEF Fresh
    <3>2. conns'[l] # None /\ conns'[l].c = c
      BY <3>1 DEF Open
    <3>3. l = k /\ FreshEntry(k, peer, c)
      BY <1>10, <3>2
    <3>4. c \in lost' \/ \E r \in Way' : r.key = l /\ r.c = c /\ r.type = "connect"
      BY <1>4, <3>3 DEF Fresh
    <3> QED BY <3>4 DEF Entered
  <2>2. \A l \in Keys, d \in DOMAIN conn : Open(l, d)' => d \in lost' \/ Entered(l, d)'
    BY <1>4, <1>19 DEF Registered
  <2> QED BY <1>1, <2>1, <2>2 DEF Registered
<1>21. Lineage' /\ Socketed'
  <2>1. "reuse" \notin Habits => (p \in tracked_pids => conn'[c].tree)
    BY <1>1, <1>2 DEF Lineage
  <2>2. tracked_pids \subseteq Pids
    BY DEF WorldTypes
  <2>3. "reuse" \notin Habits => \A q \in tracked_pids' : Lives(q)' => q \in tree'
    BY <1>2, <1>7, <2>2 DEF Lineage
  <2>4. "reuse" \notin Habits => \A l \in Keys : conns'[l] # None => conn'[conns'[l].c].tree
    <3> SUFFICES ASSUME "reuse" \notin Habits, NEW l \in Keys, conns'[l] # None
                 PROVE  conn'[conns'[l].c].tree
      OBVIOUS
    <3>1. CASE conns'[l] = conns[l] /\ conns[l] # None
      BY <1>1, <1>9, <3>1 DEF Lineage
    <3>2. CASE l = k /\ FreshEntry(k, peer, c)
      BY <1>4, <2>1, <3>2 DEF FreshEntry
    <3> QED BY <1>10, <3>1, <3>2
  <2>5. "reuse" \notin Habits => \A r \in Way' : conn'[r.c].tree
    BY <1>1, <1>4, <1>9, <2>1 DEF Lineage, Fresh
  <2>6. "reuse" \notin Habits => /\ \A l \in Keys : table'[l] # None => conn'[table'[l].c].tree
                                 /\ \A o \in Told' : conn'[o.c].tree
    BY <1>1, <1>3, <1>6, <1>9 DEF Lineage
  <2>7. Socketed'
    BY <1>1 DEF Socketed
  <2> QED BY <2>3, <2>4, <2>5, <2>6, <2>7 DEF Lineage
<1>22. Plain => /\ p \in tracked_pids => conns[k] = None
                /\ \A l \in Keys : conns[l] # None => conns'[l] = conns[l]
  <2>1. Plain => fds[p][f] = 0
    BY <1>1 DEF Plain
  <2>2. Plain /\ p \in tracked_pids => conns[k] = None
    <3> SUFFICES ASSUME Plain, p \in tracked_pids, conns[k] # None
                 PROVE  FALSE
      OBVIOUS
    <3>1. conns[k].c \in 1..Len(conn)
      BY <1>5, <1>8, <1>9
    <3>2. fds[p][f] = conns[k].c
      BY <1>2 DEF Agreed
    <3> QED BY <2>1, <3>1, <3>2
  <2> QED BY <1>4, <2>2 DEF FreshEntry
<1>23. Agreed'
  <2> SUFFICES ASSUME Plain, NEW q \in tracked_pids, NEW g \in Fds, Lives(q), conns'[<<q, g>>] # None
               PROVE  fds'[q][g] = conns'[<<q, g>>].c
    BY <1>2, <1>7 DEF Agreed, WorldTypes
  <2>1. q \in Pids /\ <<q, g>> \in Keys
    BY DEF WorldTypes, Keys
  <2>2. CASE q = p /\ g = f
    BY <1>2, <1>10, <1>22, <2>1, <2>2 DEF FreshEntry
  <2>3. CASE ~(q = p /\ g = f)
    <3>1. <<q, g>> # k
      BY <2>3
    <3>2. conns'[<<q, g>>] = conns[<<q, g>>] /\ fds'[q][g] = fds[q][g]
      BY <1>2, <1>4, <2>1, <2>3, <3>1
    <3> QED BY <3>2 DEF Agreed
  <2> QED BY <2>2, <2>3
<1>24. Truthful'
  <2>1. Plain => \A r \in Way' : r.payload \in Names => r.payload \in conn'[r.c].sent
    BY <1>1, <1>4, <1>9, NetAssumption DEF Truthful, Fresh
  <2>2. Plain => \A o \in Told' : o.target \in conn'[o.c].sent \cup {conn'[o.c].peer}
    BY <1>1, <1>6, <1>9 DEF Truthful
  <2> QED BY <2>1, <2>2 DEF Truthful
<1>25. Kept'
  <2> SUFFICES ASSUME Plain, NEW l \in Keys, NEW d \in DOMAIN conn', d \notin lost'
               PROVE  /\ Entered(l, d)' => (conns'[l] # None /\ conns'[l].c = d) \/ Closing(l, d)'
                      /\ table[l] # None /\ table[l].c = d /\ table[l].emitted
                         => Emitted(d) \/ conn'[d].peer \in DnsPeers
    BY <1>3, <1>6 DEF Kept
  <2>1. CASE d \in DOMAIN conn
    <3>1. d \notin lost
      BY <1>4
    <3>2. Entered(l, d) => (conns[l] # None /\ conns[l].c = d) \/ Closing(l, d)
      BY <2>1, <3>1 DEF Kept
    <3>3. table[l] # None /\ table[l].c = d /\ table[l].emitted => Emitted(d) \/ conn[d].peer \in DnsPeers
      BY <2>1, <3>1 DEF Kept
    <3> QED BY <1>1, <1>19, <1>22, <2>1, <3>2, <3>3
  <2>2. CASE d = c
    <3>1. Entered(l, c)' => \E r \in Way' : r.key = l /\ r.c = c
      BY <1>1, <1>3, <1>9 DEF Entered
    <3>2. \A r \in Way' : r.c = c => r.key = k /\ FreshEntry(k, peer, c)
      BY <1>1, <1>4, <1>9, <2>2 DEF Fresh
    <3> QED BY <1>1, <1>9, <2>2, <3>1, <3>2 DEF FreshEntry
  <2> QED BY <1>1, <2>1, <2>2
<1>26. Unsaid'
  <2>1. ASSUME Plain, NEW d \in DOMAIN conn', conn'[d].first = None
        PROVE  /\ \A r \in Way' : r.c = d => r.type # "hello"
               /\ \A l \in Keys : conns'[l] # None /\ conns'[l].c = d => ~conns'[l].hello_captured
    <3>1. CASE d \in DOMAIN conn
      <4>1. d # c /\ conn'[d] = conn[d] /\ conn[d].first = None
        BY <1>1, <2>1, <3>1
      <4>2. /\ \A r \in Way : r.c = d => r.type # "hello"
            /\ \A l \in Keys : conns[l] # None /\ conns[l].c = d => ~conns[l].hello_captured
        BY <2>1, <3>1, <4>1 DEF Unsaid
      <4>3. \A r \in Way' : r \in Way \/ r.c = c
        BY <1>4 DEF Fresh
      <4>4. \A l \in Keys : conns'[l] # None /\ conns'[l].c # c => conns'[l] = conns[l]
        BY <1>10 DEF FreshEntry
      <4>5. \A r \in Way' : r.c = d => r.type # "hello"
        BY <4>1, <4>2, <4>3
      <4>6. \A l \in Keys : conns'[l] # None /\ conns'[l].c = d => ~conns'[l].hello_captured
        BY <4>1, <4>2, <4>4
      <4> QED BY <4>5, <4>6
    <3>2. CASE d = c
      BY <1>1, <1>4, <1>9, <1>10, <3>2 DEF Fresh, FreshEntry
    <3> QED BY <1>1, <2>1, <3>1, <3>2
  <2>2. ASSUME Plain, NEW q \in Pids, NEW g \in Fds, Lives(q), fds'[q][g] # 0,
               conn'[fds'[q][g]].pid = q
        PROVE  /\ \A r \in Way' : r.c = fds'[q][g] => r.type # "close"
               /\ fds'[q][g] \notin lost' /\ conn'[fds'[q][g]].first = None => ~Emitted(fds'[q][g])
    <3>1. CASE q = p /\ g = f
      BY <1>1, <1>2, <1>4, <1>9, <3>1 DEF Fresh
    <3>2. CASE ~(q = p /\ g = f)
      <4>1. fds'[q][g] = fds[q][g]
        BY <1>2, <3>2
      <4>2. fds[q][g] \in DOMAIN conn
        BY <1>8, <2>2, <4>1 DEF Known
      <4>3. conn'[fds[q][g]] = conn[fds[q][g]] /\ fds[q][g] # c
        BY <1>1, <4>2
      <4>4. /\ \A r \in Way : r.c = fds[q][g] => r.type # "close"
            /\ fds[q][g] \notin lost /\ conn[fds[q][g]].first = None => ~Emitted(fds[q][g])
        BY <2>2, <4>1, <4>3 DEF Unsaid
      <4> QED BY <1>4, <4>1, <4>3, <4>4 DEF Fresh
    <3> QED BY <3>1, <3>2
  <2> QED BY <1>6, <1>7, <2>1, <2>2 DEF Unsaid
<1>27. Named'
  <2> SUFFICES ASSUME Plain
               PROVE  Named'
    BY DEF Named, Plain
  <2>1. \A d \in DOMAIN conn' : Clear(d)' => d \in DOMAIN conn /\ Clear(d) /\ conn'[d] = conn[d]
    BY <1>1, <1>4, NetAssumption DEF Clear
  <2>2. \A r \in Way' : r.type = "hello" /\ Clear(r.c)' => r.payload = conn'[r.c].first
    BY <1>1, <1>4, <1>9, <2>1 DEF Named, Fresh
  <2>3. ASSUME NEW l \in Keys, conns'[l] # None, Clear(conns[l].c)', Lives(l[1])',
               ~conns'[l].hello_captured
        PROVE  l[1] \notin tracked_pids'
    <3>1. l[1] \in Pids /\ Lives(l[1])
      BY <1>7, <2>3 DEF Keys
    <3>2. conns'[l] = conns[l] /\ conns[l] # None
      <4>1. conns'[l].c # c
        <5>1. conns'[l].c \in DOMAIN conn'
          BY <1>15, <2>3 DEF Known
        <5> QED BY <1>1, <2>1, <2>3, <5>1
      <4> QED BY <1>10, <2>3, <4>1 DEF FreshEntry
    <3>3. Clear(conns[l].c)
      BY <1>1, <1>9, <2>1, <2>3, <3>2
    <3> QED BY <1>2, <2>3, <3>1, <3>2, <3>3 DEF Named
  <2>4. \A l \in Keys, d \in DOMAIN conn' :
            /\ Clear(d)' /\ conn'[d].peer \notin DnsPeers
            /\ Closing(l, d)' \/ (conns'[l] # None /\ conns'[l].c = d /\ conns'[l].hello_captured)
            => Emitted(d)' \/ \E r \in Way' : r.key = l /\ r.c = d /\ r.type = "hello"
    <3> SUFFICES ASSUME NEW l \in Keys, NEW d \in DOMAIN conn', Clear(d)', conn'[d].peer \notin DnsPeers,
                        Closing(l, d)' \/ (conns'[l] # None /\ conns'[l].c = d /\ conns'[l].hello_captured)
                 PROVE  Emitted(d) \/ \E r \in Way' : r.key = l /\ r.c = d /\ r.type = "hello"
      BY <1>6
    <3>1. d \in DOMAIN conn /\ Clear(d) /\ conn'[d] = conn[d]
      BY <2>1
    <3>2. Closing(l, d) \/ (conns[l] # None /\ conns[l].c = d /\ conns[l].hello_captured)
      BY <1>10, <1>19, <3>1 DEF FreshEntry
    <3>3. Emitted(d) \/ \E r \in Way : r.key = l /\ r.c = d /\ r.type = "hello"
      BY <3>1, <3>2 DEF Named
    <3> QED BY <1>4, <3>3
  <2>5. \A o \in Told' : Clear(o.c)' => o.target = conn'[o.c].first
    BY <1>1, <1>6, <1>9, <2>1 DEF Named
  <2> QED BY <2>2, <2>3, <2>4, <2>5 DEF Named
<1>28. Accounted'
  <2> SUFFICES ASSUME Roomy, Plain, "leave" \notin Habits
               PROVE  Accounted'
    BY DEF Accounted, Roomy, Plain
  <2>1. \A q \in seen' : Lives(q)' => q \in tracked_pids'
    BY <1>2, <1>7 DEF Accounted, WorldTypes
  <2>2. \A d \in DOMAIN conn' : conn'[d].due => conn'[d].peer \notin DnsPeers
    BY <1>1 DEF Accounted
  <2>3. ASSUME NEW d \in DOMAIN conn, conn'[d].due
        PROVE  \/ Emitted(d) \/ d \in lost'
               \/ \E l \in Keys : (conns'[l] # None /\ conns'[l].c = d) \/ Closing(l, d)'
    <3>1. \/ Emitted(d) \/ d \in lost
          \/ \E l \in Keys : (conns[l] # None /\ conns[l].c = d) \/ Closing(l, d)
      BY <1>1, <2>3 DEF Accounted
    <3>2. \A l \in Keys : conns[l] # None => conns'[l] = conns[l]
      BY <1>22
    <3> QED BY <1>4, <1>19, <3>1, <3>2
  <2>4. conn'[c].due => c \in lost' \/ \E l \in Keys : conns'[l] # None /\ conns'[l].c = c
    <3>1. conn'[c].due => p \in tracked_pids
      BY <1>1, <1>2 DEF Accounted
    <3> QED BY <1>1, <1>4, <1>5, <3>1 DEF FreshEntry
  <2> QED BY <1>1, <1>6, <2>1, <2>2, <2>3, <2>4 DEF Accounted
<1> QED BY <1>11, <1>12, <1>14, <1>15, <1>16, <1>17, <1>18, <1>20, <1>21, <1>23, <1>24, <1>25,
           <1>26, <1>27, <1>28

-----------------------------------------------------------------------------
(* correlate handles a record.                                             *)

(* What every handler is given: the first record on the way, r, which is   *)
(* before all that are left of its key.                                    *)
Takes(r) ==
    /\ Way = {r} \cup Way' /\ InOrder(Queue')
    /\ \A s \in Way' : s.key = r.key => Before(r, s)
    /\ netCh' \in Seq(Events) /\ Len(netCh') <= ChanMax
    /\ UNCHANGED <<worldVars, probeVars, phase, feed>>

LEMMA CorrelateTakes ==
    ASSUME Inv, Correlate
    PROVE  \E r \in Events : Takes(r) /\ (HandleConnect(r) \/ HandleHello(r) \/ HandleClose(r))
<1>1. /\ netCh \in Seq(Events) /\ ring \in Seq(Events) /\ netCh # <<>> /\ netCh' = Tail(netCh)
      /\ ring' = ring /\ Queue \in Seq(Events) /\ InOrder(Queue) /\ Len(netCh) <= ChanMax
  BY QueueFacts DEF Inv, ProbeTypes, Correlate, probeVars, Ordered
<1>2. Head(netCh) \in Events /\ netCh' \in Seq(Events) /\ Len(netCh') = Len(netCh) - 1 /\ Len(netCh) \in Nat
  BY <1>1, TailElements
<1>3. Queue # <<>> /\ Head(Queue) = Head(netCh) /\ Queue' = Tail(Queue)
  BY <1>1, ConcatHead DEF Queue
<1>4. PICK r \in Events : r = Head(netCh)
  BY <1>2
<1>5. Way = {r} \cup Elements(Tail(Queue))
  BY <1>1, <1>3, <1>4, TailElements DEF Way
<1>6. Way' = Elements(Tail(Queue))
  BY <1>3 DEF Way
<1>7. InOrder(Queue') /\ \A s \in Way' : s.key = r.key => Before(r, s)
  BY <1>1, <1>3, <1>4, <1>6, InOrderTail
<1>8. Len(netCh') <= ChanMax
  BY <1>1, <1>2, NetAssumption
<1>9. HandleConnect(r) \/ HandleHello(r) \/ HandleClose(r)
  BY <1>4 DEF Correlate
<1>10. Takes(r)
  BY <1>2, <1>5, <1>6, <1>7, <1>8 DEF Correlate, Takes
<1> QED BY <1>9, <1>10

(* What the order of the records says of the one that is taken.            *)
LEMMA TakesFacts ==
    ASSUME Inv, NEW r \in Events, Takes(r)
    PROVE  /\ r \in Way /\ Way' \subseteq Way /\ r.key \in Keys /\ r.c \in DOMAIN conn /\ r.c \in Nat
           /\ r.peer = conn[r.c].peer /\ \A s \in Way : s = r \/ s \in Way'
           /\ \A s \in Way' : s.key = r.key =>
                  r.c < s.c \/ (r.c = s.c /\ s.type # "connect" /\ r.type # "close"
                                          /\ (r.type = "hello" => s.type = "close"))
           /\ \A s \in Way' : s.c = r.c => s.key = r.key
           /\ \A l \in Keys : conns[l] # None /\ conns[l].c = r.c => l = r.key
           /\ \A l \in Keys : table[l] # None /\ table[l].c = r.c => l = r.key
           /\ table[r.key] # None =>
                  table[r.key].c < r.c \/ (table[r.key].c = r.c /\ r.type # "connect")
           /\ conns[r.key] # None =>
                  \/ r.c < conns[r.key].c
                  \/ /\ r.c = conns[r.key].c /\ r.type # "close"
                     /\ r.type = "hello" => conns[r.key].hello_captured
<1>1. r \in Way /\ Way' \subseteq Way /\ \A s \in Way : s = r \/ s \in Way'
  BY DEF Takes
<1> USE DEF Inv
<1>2. Way \subseteq Events /\ r.key \in Keys /\ r.c \in Nat /\ r.c \in DOMAIN conn /\ r.peer = conn[r.c].peer
  BY <1>1, QueueFacts DEF Events, Known
<1>3. ASSUME NEW s \in Way', s.key = r.key
      PROVE  r.c < s.c \/ (r.c = s.c /\ s.type # "connect" /\ r.type # "close"
                                     /\ (r.type = "hello" => s.type = "close"))
  <2>1. s \in Events /\ s.type \in {"connect", "hello", "close"} /\ r.type \in {"connect", "hello", "close"}
    BY <1>1, <1>2 DEF Events
  <2>2. r.c < s.c \/ (r.c = s.c /\ Rank(r) < Rank(s))
    BY <1>3 DEF Takes, Before
  <2> QED BY <2>1, <2>2 DEF Rank
<1>4. About(r.key, r.c)
  BY <1>1 DEF About
<1>5. \A l \in Keys : About(l, r.c) => l = r.key
  BY <1>2, <1>4 DEF OneKey
<1>6. /\ \A s \in Way' : s.c = r.c => s.key = r.key
      /\ \A l \in Keys : conns[l] # None /\ conns[l].c = r.c => l = r.key
      /\ \A l \in Keys : table[l] # None /\ table[l].c = r.c => l = r.key
  <2>1. \A s \in Way' : s.key \in Keys
    BY <1>1, <1>2 DEF Events
  <2> QED BY <1>1, <1>5, <2>1 DEF About
<1>7. /\ table[r.key] # None =>
             table[r.key].c < r.c \/ (table[r.key].c = r.c /\ r.type # "connect")
      /\ conns[r.key] # None =>
             \/ r.c < conns[r.key].c
             \/ /\ r.c = conns[r.key].c /\ r.type # "close"
                /\ r.type = "hello" => conns[r.key].hello_captured
  BY <1>1, <1>2 DEF Ordered
<1> QED BY <1>1, <1>2, <1>3, <1>6, <1>7

(* What is left of its key is later; and when nothing was lost of the      *)
(* connect that the entry of the key is for, the record is about it.       *)
LEMMA TakesMore ==
    ASSUME Inv, NEW r \in Events, Takes(r)
    PROVE  /\ \A c \in DOMAIN conn : Open(r.key, c)' => r.c <= c /\ (r.type = "close" => r.c < c)
           /\ Plain => \A c \in DOMAIN conn \ lost :
                  table[r.key] # None /\ table[r.key].c = c =>
                      r.c = c /\ (r.type = "close" => ~(conns[r.key] # None /\ conns[r.key].c = c))
           /\ r.c \notin lost /\ r.type # "connect" => table[r.key] # None /\ table[r.key].c = r.c
<1> USE TakesFacts DEF Inv
<1>1. \A c \in DOMAIN conn : c \in Nat
  BY DEF WorldTypes
<1>2. UNCHANGED <<conns, lost, conn>>
  BY DEF Takes, worldVars, probeVars
<1>3. ASSUME NEW c \in DOMAIN conn, Open(r.key, c)'
      PROVE  r.c <= c /\ (r.type = "close" => r.c < c)
  <2>1. CASE conns[r.key] # None /\ conns[r.key].c = c
    BY <1>1, <2>1
  <2>2. CASE \E s \in Way' : s.key = r.key /\ s.c = c
    BY <1>1, <2>2
  <2> QED BY <1>2, <1>3, <2>1, <2>2 DEF Open
<1>4. ASSUME Plain, NEW c \in DOMAIN conn \ lost, table[r.key] # None, table[r.key].c = c
      PROVE  r.c = c /\ (r.type = "close" => ~(conns[r.key] # None /\ conns[r.key].c = c))
  <2>1. c < r.c \/ c = r.c
    BY <1>4
  <2>2. (conns[r.key] # None /\ conns[r.key].c = c) \/ Closing(r.key, c)
    BY <1>4 DEF Kept, Entered
  <2>3. conns[r.key] # None /\ conns[r.key].c = c => r.c < c \/ (r.c = c /\ r.type # "close")
    OBVIOUS
  <2>4. Closing(r.key, c) => r.c < c \/ r.c = c
    BY DEF Closing
  <2> QED BY <1>1, <2>1, <2>2, <2>3, <2>4
<1>5. ASSUME r.c \notin lost, r.type # "connect"
      PROVE  table[r.key] # None /\ table[r.key].c = r.c
  <2>1. Open(r.key, r.c)
    BY <1>5 DEF Open
  <2>2. Entered(r.key, r.c)
    BY <1>5, <2>1 DEF Registered
  <2>3. ~\E s \in Way : s.key = r.key /\ s.c = r.c /\ s.type = "connect"
    BY <1>1, <1>5
  <2> QED BY <2>2, <2>3 DEF Entered
<1> QED BY <1>3, <1>4, <1>5

(* What holds after any handler that changes no entry of another key and   *)
(* speaks only of the record's connect or of the entry's.                  *)
LEMMA TakesKeeps ==
    ASSUME Inv, NEW r \in Events, Takes(r),
           table' \in [Keys -> Connections \cup {None}],
           \A l \in Keys : l # r.key => table'[l] = table[l],
           table'[r.key] # None =>
               /\ \/ table[r.key] # None /\ table'[r.key].c = table[r.key].c
                                         /\ table'[r.key].peer = table[r.key].peer
                  \/ table'[r.key].c = r.c /\ table'[r.key].peer = r.peer
               /\ table'[r.key].host # None => table'[r.key].emitted,
           out' \in Seq(Outs), waiting' \in 0..EventBufSize,
           \A o \in Told' : o \in Told \/ About(r.key, o.c)
    PROVE  /\ WorldTypes' /\ ProbeTypes' /\ Numbered' /\ Known' /\ OneKey' /\ Lineage' /\ Socketed'
           /\ Agreed'
<1> USE TakesFacts DEF Inv
<1>1. UNCHANGED <<task, used, fds, tree, seen, conn, tracked_pids, conns, ring, lost, phase, feed>>
  BY DEF Takes, worldVars, probeVars
<1>2. ASSUME NEW l \in Keys, NEW d \in Nat, About(l, d)'
      PROVE  About(l, d)
  <2>1. CASE conns'[l] # None /\ conns'[l].c = d
    BY <1>1, <2>1 DEF About
  <2>2. CASE table'[l] # None /\ table'[l].c = d
    <3>1. CASE l = r.key /\ d = r.c
      BY <3>1 DEF About
    <3>2. CASE table[l] # None /\ table[l].c = d
      BY <3>2 DEF About
    <3> QED BY <2>2, <3>1, <3>2
  <2>3. CASE \E s \in Way' : s.key = l /\ s.c = d
    BY <2>3 DEF About
  <2> QED BY <1>2, <2>1, <2>2, <2>3 DEF About
<1>3. \A d \in Nat : About(r.key, d) => d \in DOMAIN conn /\ ("reuse" \notin Habits => conn[d].tree)
  BY DEF About, Known, Lineage
<1>4. \A o \in Told' : o.c \in Nat
  <2>1. Told' \subseteq Outs
    BY ElementsType DEF Told
  <2> QED BY <2>1 DEF Outs
<1>5. WorldTypes' /\ Socketed' /\ Agreed' /\ Numbered'
  BY <1>1 DEF WorldTypes, Socketed, Agreed, Numbered, Lives
<1>6. ProbeTypes'
  BY <1>1 DEF ProbeTypes, Takes
<1>7. Known'
  BY <1>1, <1>3, <1>4 DEF Known
<1>8. OneKey'
  BY <1>2 DEF OneKey
<1>9. Lineage'
  BY <1>1, <1>3, <1>4 DEF Lineage, Lives
<1> QED BY <1>5, <1>6, <1>7, <1>8, <1>9

(* emit: nothing, or one event, of a connect that has had none.            *)
LEMMA EmitFacts ==
    ASSUME Inv, NEW e \in Connections, NEW d \in Nat, Emit(e, d), Emitted(d) => e.emitted
    PROVE  /\ out' \in Seq(Outs) /\ waiting' \in 0..EventBufSize
           /\ \A c : Emitted(c) => Emitted(c)'
           /\ \A c : Emitted(c)' => Emitted(c) \/ c = d
           /\ e.emitted \/ e.peer \in DnsPeers \/ Emitted(d)'
           /\ \A o \in Told' : \/ o \in Told
                               \/ /\ o.c = d /\ ~e.emitted /\ e.peer \notin DnsPeers
                                  /\ o.target = IF e.host # None THEN e.host ELSE e.peer
           /\ \A m, n \in DOMAIN out' : m # n => out'[m].c # out'[n].c
<1>1. out \in Seq(Outs) /\ waiting \in 0..EventBufSize /\ EventBufSize \in Nat
  BY NetAssumption DEF Inv, ProbeTypes
<1>2. waiting' \in 0..EventBufSize
  BY <1>1 DEF Emit
<1>3. \A m, n \in DOMAIN out : m # n => out[m].c # out[n].c
  BY DEF Inv, Once
<1>4. CASE e.emitted \/ e.peer \in DnsPeers
  <2>1. out' = out
    BY <1>4 DEF Emit
  <2>2. Told' = Told /\ \A c : Emitted(c)' <=> Emitted(c)
    BY <2>1 DEF Told, Emitted
  <2> QED BY <1>1, <1>2, <1>3, <1>4, <2>1, <2>2
<1>5. CASE ~(e.emitted \/ e.peer \in DnsPeers)
  <2> DEFINE target == IF e.host # None THEN e.host ELSE e.peer
             full == waiting >= EventBufSize
             o == [target |-> target, c |-> d, dropped |-> full]
  <2>1. out' = Append(out, o)
    BY <1>5 DEF Emit
  <2>2. o \in Outs /\ o.c = d /\ o.target = target
    <3>1. target \in Names \cup Peers /\ full \in BOOLEAN
      BY DEF Connections
    <3> HIDE DEF target, full
    <3> QED BY <3>1 DEF Outs
  <2> HIDE DEF o
  <2>3. out' \in Seq(Outs) /\ Told' = Told \cup {o}
    BY <1>1, <2>1, <2>2, AppendElements DEF Told
  <2>4. \A c : Emitted(c)' <=> \E q \in Told' : q.c = c
    BY DEF Emitted, Told, Elements
  <2>5. \A c : Emitted(c)' <=> Emitted(c) \/ c = d
    BY <2>2, <2>3, <2>4, EmittedTold
  <2>6. /\ DOMAIN out' = 1..Len(out) + 1 /\ DOMAIN out = 1..Len(out) /\ Len(out) \in Nat
        /\ out'[Len(out) + 1] = o /\ \A n \in 1..Len(out) : out'[n] = out[n]
    BY <1>1, <2>1, <2>2
  <2>7. \A n \in 1..Len(out) : out[n].c # d
    BY <1>5, <2>6 DEF Emitted
  <2>8. \A m, n \in DOMAIN out' : m # n => out'[m].c # out'[n].c
    <3> SUFFICES ASSUME NEW m \in DOMAIN out', NEW n \in DOMAIN out', m # n
                 PROVE  out'[m].c # out'[n].c
      OBVIOUS
    <3>1. CASE m \in 1..Len(out) /\ n \in 1..Len(out)
      BY <1>3, <2>6, <3>1
    <3>2. CASE m = Len(out) + 1 /\ n \in 1..Len(out)
      BY <2>2, <2>6, <2>7, <3>2
    <3>3. CASE n = Len(out) + 1 /\ m \in 1..Len(out)
      BY <2>2, <2>6, <2>7, <3>3
    <3> QED BY <2>6, <3>1, <3>2, <3>3
  <2> QED BY <1>2, <1>5, <2>2, <2>3, <2>5, <2>8
<1> QED BY <1>4, <1>5

LEMMA HandleConnectKeeps ==
    ASSUME Inv, NEW r \in Events, Takes(r), HandleConnect(r)
    PROVE  Inv'
<1> USE TakesFacts DEF Inv
<1>1. UNCHANGED <<task, used, fds, tree, seen, conn, tracked_pids, conns, ring, lost, phase, feed>>
  BY DEF Takes, worldVars, probeVars
<1>2. r.type = "connect" /\ out' = out /\ waiting' = waiting
  BY DEF HandleConnect
<1>3. /\ table' \in [Keys -> Connections \cup {None}] /\ table'[r.key] # None
      /\ table'[r.key].c = r.c /\ table'[r.key].peer = r.peer /\ table'[r.key].host = None
      /\ ~table'[r.key].emitted
      /\ \A l \in Keys : l # r.key => table'[l] = table[l]
  <2> DEFINE e == NewConn(r)
  <2>1. e \in Connections /\ e.c = r.c /\ e.peer = r.peer /\ e.host = None /\ ~e.emitted
    BY DEF NewConn, Connections, Events
  <2>2. table' = [table EXCEPT ![r.key] = e] /\ table \in [Keys -> Connections \cup {None}]
    BY DEF HandleConnect, ProbeTypes
  <2> HIDE DEF e
  <2>3. table'[r.key] = e /\ e # None
    BY <2>1, <2>2, NetAssumption
  <2> QED BY <2>1, <2>2, <2>3
<1>4. Told' = Told /\ \A c : Emitted(c)' <=> Emitted(c)
  BY <1>2 DEF Told, Emitted
<1>5. WorldTypes' /\ ProbeTypes' /\ Numbered' /\ Known' /\ OneKey' /\ Lineage' /\ Socketed' /\ Agreed'
  <2>1. out' \in Seq(Outs) /\ waiting' \in 0..EventBufSize
    BY <1>2 DEF ProbeTypes
  <2> QED BY <1>3, <1>4, <2>1, TakesKeeps
<1>6. ~Emitted(r.c)
  BY <1>2 DEF Once
<1>7. Ordered'
  <2>1. InOrder(Queue')
    BY DEF Takes
  <2>2. \A l \in Keys, s \in Way' : table'[l] # None /\ s.key = l =>
            table'[l].c < s.c \/ (table'[l].c = s.c /\ s.type # "connect")
    BY <1>3 DEF Ordered
  <2>3. \A l \in Keys : conns[l] # None /\ table'[l] # None => table'[l].c <= conns[l].c
    <3> SUFFICES ASSUME NEW l \in Keys, conns[l] # None, table'[l] # None
                 PROVE  table'[l].c <= conns[l].c
      OBVIOUS
    <3>1. CASE l = r.key
      <4>1. conns[l].c \in Nat
        BY DEF WorldTypes, Known
      <4> QED BY <1>3, <3>1, <4>1
    <3>2. CASE l # r.key
      BY <1>3, <3>2 DEF Ordered
    <3> QED BY <3>1, <3>2
  <2> QED BY <1>1, <2>1, <2>2, <2>3 DEF Ordered
<1>8. Once'
  BY <1>1, <1>2, <1>3, <1>4, <1>6 DEF Once
<1>9. \A l \in Keys, c \in DOMAIN conn : Entered(l, c)' => Entered(l, c)
  BY <1>2, <1>3 DEF Entered
<1>10. \A l \in Keys, c \in DOMAIN conn : Closing(l, c) => Closing(l, c)'
  BY <1>2 DEF Closing
<1>11. Registered'
  <2> SUFFICES ASSUME NEW l \in Keys, NEW c \in DOMAIN conn, Open(l, c)', c \notin lost
               PROVE  Entered(l, c)'
    BY <1>1 DEF Registered
  <2>1. Open(l, c)
    BY <1>1 DEF Open
  <2>2. Entered(l, c)
    BY <2>1 DEF Registered
  <2>3. CASE \E s \in Way : s.key = l /\ s.c = c /\ s.type = "connect"
    BY <1>3, <2>3 DEF Entered
  <2>4. CASE table[l] # None /\ table[l].c = c
    <3>1. l # r.key
      <4>1. l = r.key => c < r.c /\ r.c <= c
        BY <1>2, <2>4, TakesMore
      <4>2. c \in Nat
        BY DEF WorldTypes
      <4> QED BY <4>1, <4>2
    <3> QED BY <1>3, <2>4, <3>1 DEF Entered
  <2> QED BY <2>2, <2>3, <2>4 DEF Entered
<1>12. Truthful'
  BY <1>1, <1>4 DEF Truthful
<1>13. Kept'
  <2> SUFFICES ASSUME Plain, NEW l \in Keys, NEW c \in DOMAIN conn, c \notin lost
               PROVE  /\ Entered(l, c)' => (conns[l] # None /\ conns[l].c = c) \/ Closing(l, c)'
                      /\ table'[l] # None /\ table'[l].c = c /\ table'[l].emitted
                         => Emitted(c) \/ conn[c].peer \in DnsPeers
    BY <1>1, <1>4 DEF Kept
  <2> QED BY <1>3, <1>9, <1>10 DEF Kept
<1>14. Unsaid'
  BY <1>1, <1>4 DEF Unsaid, Lives
<1>15. \A c \in Nat : Clear(c)' <=> Clear(c)
  BY <1>1 DEF Clear
<1>16. Named'
  <2> SUFFICES ASSUME Plain
               PROVE  Named'
    BY DEF Named, Plain
  <2>1. \A s \in Way' : s.type = "hello" /\ Clear(s.c)' => s.payload = conn[s.c].first
    BY <1>1 DEF Named, Clear
  <2>2. ASSUME NEW l \in Keys, conns[l] # None, Clear(conns[l].c)', Lives(l[1])',
               ~conns[l].hello_captured
        PROVE  l[1] \notin tracked_pids
    BY <1>1, <2>2 DEF Named, Clear, Lives
  <2>3. ASSUME NEW l \in Keys, NEW c \in DOMAIN conn, Clear(c)', conn[c].peer \notin DnsPeers,
               Closing(l, c)' \/ (conns[l] # None /\ conns[l].c = c /\ conns[l].hello_captured)
        PROVE  Emitted(c) \/ \E s \in Way' : s.key = l /\ s.c = c /\ s.type = "hello"
    <3>1. Closing(l, c) \/ (conns[l] # None /\ conns[l].c = c /\ conns[l].hello_captured)
      BY <2>3 DEF Closing
    <3>2. Clear(c)
      BY <1>1, <2>3 DEF Clear
    <3>3. Emitted(c) \/ \E s \in Way : s.key = l /\ s.c = c /\ s.type = "hello"
      BY <2>3, <3>1, <3>2 DEF Named
    <3> QED BY <1>2, <3>3
  <2>4. \A o \in Told : Clear(o.c)' => o.target = conn[o.c].first
    BY <1>1 DEF Named, Clear
  <2> QED BY <1>1, <1>4, <2>1, <2>2, <2>3, <2>4 DEF Named
<1>17. Accounted'
  <2>1. \A l \in Keys, c \in DOMAIN conn : Closing(l, c) => Closing(l, c)'
    BY <1>10
  <2> QED BY <1>1, <1>4, <2>1 DEF Accounted, Lives
<1> QED BY <1>5, <1>7, <1>8, <1>11, <1>12, <1>13, <1>14, <1>16, <1>17

LEMMA HandleHelloKeeps ==
    ASSUME Inv, NEW r \in Events, Takes(r), HandleHello(r)
    PROVE  Inv'
<1> USE TakesFacts DEF Inv
<1>1. UNCHANGED <<task, used, fds, tree, seen, conn, tracked_pids, conns, ring, lost, phase, feed>>
  BY DEF Takes, worldVars, probeVars
<1>2. r.type = "hello" /\ ~Emitted(r.c)
  BY DEF HandleHello, Once
<1>3. table \in [Keys -> Connections \cup {None}] /\ table[r.key] \in Connections \cup {None}
  BY DEF ProbeTypes
<1>4. /\ table' \in [Keys -> Connections \cup {None}]
      /\ \A l \in Keys : l # r.key => table'[l] = table[l]
      /\ table'[r.key] # None <=> table[r.key] # None
      /\ table'[r.key] # None => /\ table'[r.key].c = table[r.key].c
                                 /\ table'[r.key].peer = table[r.key].peer
                                 /\ table'[r.key].host # None => table'[r.key].emitted
                                 /\ table[r.key].emitted => table'[r.key].emitted
                                 /\ Emitted(r.c)' => table'[r.key].emitted
                                 /\ table'[r.key].emitted =>
                                        \/ table[r.key].emitted \/ table[r.key].peer \in DnsPeers
                                        \/ Emitted(r.c)'
      /\ table[r.key] # None /\ r.payload \in Names =>
             table[r.key].emitted \/ table[r.key].peer \in DnsPeers \/ Emitted(r.c)'
      /\ out' \in Seq(Outs) /\ waiting' \in 0..EventBufSize
      /\ \A c : Emitted(c) => Emitted(c)'
      /\ \A c : Emitted(c)' => Emitted(c) \/ c = r.c
      /\ \A o \in Told' : o \in Told \/ (o.c = r.c /\ o.target = r.payload /\ r.payload \in Names)
      /\ \A m, n \in DOMAIN out' : m # n => out'[m].c # out'[n].c
  <2>1. CASE table[r.key] = None \/ r.payload \notin Names
    <3>1. UNCHANGED <<table, waiting, out>>
      BY <2>1 DEF HandleHello
    <3>2. Told' = Told /\ \A c : Emitted(c)' <=> Emitted(c)
      BY <3>1 DEF Told, Emitted
    <3>3. table[r.key] # None => (table[r.key].host # None => table[r.key].emitted)
      BY DEF Known
    <3>4. /\ out \in Seq(Outs) /\ waiting \in 0..EventBufSize
          /\ \A m, n \in DOMAIN out : m # n => out[m].c # out[n].c
      BY DEF ProbeTypes, Once
    <3> QED BY <1>2, <1>3, <2>1, <3>1, <3>2, <3>3, <3>4
  <2>2. CASE ~(table[r.key] = None \/ r.payload \notin Names)
    <3>1. PICK e \in Connections : e = [table[r.key] EXCEPT !.host = r.payload]
      BY <1>3, <2>2 DEF Connections
    <3>2. /\ e.c = table[r.key].c /\ e.peer = table[r.key].peer /\ e.host = r.payload
          /\ (e.emitted => table[r.key].emitted) /\ (table[r.key].emitted => e.emitted)
      BY <1>3, <2>2, <3>1 DEF Connections
    <3>3. PICK g \in Connections : g = Marked(e)
      BY DEF Marked, Connections
    <3>4. g.c = e.c /\ g.peer = e.peer /\ g.host = e.host /\ g.emitted /\ g # None
      <4>1. g # None
        BY NetAssumption
      <4>2. g = [e EXCEPT !.emitted = TRUE]
        BY <3>3 DEF Marked
      <4> QED BY <4>1, <4>2 DEF Connections
    <3>5. Emit(e, r.c) /\ table' = [table EXCEPT ![r.key] = g]
      BY <2>2, <3>1, <3>3 DEF HandleHello
    <3>6. /\ out' \in Seq(Outs) /\ waiting' \in 0..EventBufSize
          /\ \A c : Emitted(c) => Emitted(c)'
          /\ \A c : Emitted(c)' => Emitted(c) \/ c = r.c
          /\ e.emitted \/ e.peer \in DnsPeers \/ Emitted(r.c)'
          /\ \A o \in Told' : \/ o \in Told
                              \/ /\ o.c = r.c /\ ~e.emitted /\ e.peer \notin DnsPeers
                                 /\ o.target = IF e.host # None THEN e.host ELSE e.peer
          /\ \A m, n \in DOMAIN out' : m # n => out'[m].c # out'[n].c
      BY <1>2, <3>5, EmitFacts
    <3>7. e.host # None /\ r.payload \in Names
      BY <2>2, <3>2, NetAssumption
    <3>8. table'[r.key] = g /\ \A l \in Keys : l # r.key => table'[l] = table[l]
      BY <1>3, <3>5
    <3>9. table' \in [Keys -> Connections \cup {None}]
      BY <1>3, <3>5
    <3>10. \A o \in Told' : o \in Told \/ (o.c = r.c /\ o.target = r.payload /\ r.payload \in Names)
      BY <3>2, <3>6, <3>7
    <3> QED BY <2>2, <3>2, <3>4, <3>6, <3>8, <3>9, <3>10
  <2> QED BY <2>1, <2>2
<1>5. WorldTypes' /\ ProbeTypes' /\ Numbered' /\ Known' /\ OneKey' /\ Lineage' /\ Socketed' /\ Agreed'
  <2>1. \A o \in Told' : o \in Told \/ About(r.key, o.c)
    BY <1>4 DEF About
  <2> QED BY <1>4, <2>1, TakesKeeps
<1>6. Ordered'
  <2>1. InOrder(Queue')
    BY DEF Takes
  <2>2. \A l \in Keys, s \in Way' : table'[l] # None /\ s.key = l =>
            table'[l].c < s.c \/ (table'[l].c = s.c /\ s.type # "connect")
    BY <1>4 DEF Ordered
  <2>3. \A l \in Keys : conns[l] # None /\ table'[l] # None => table'[l].c <= conns[l].c
    BY <1>4 DEF Ordered
  <2> QED BY <1>1, <2>1, <2>2, <2>3 DEF Ordered
<1>7. Once'
  <2>1. \A s \in Way' : Emitted(s.c)' => s.type = "close"
    BY <1>2, <1>4 DEF Once
  <2>2. \A l \in Keys : conns[l] # None /\ Emitted(conns[l].c)' => conns[l].hello_captured
    BY <1>1, <1>2, <1>4 DEF Once
  <2>3. \A l \in Keys : table'[l] # None /\ Emitted(table[l].c)' => table'[l].emitted
    <3> SUFFICES ASSUME NEW l \in Keys, table'[l] # None, Emitted(table[l].c)'
                 PROVE  table'[l].emitted
      OBVIOUS
    <3>1. table[l] # None /\ table'[l].c = table[l].c
      BY <1>4
    <3> PICK c \in DOMAIN conn : c = table'[l].c
      BY <3>1 DEF Known
    <3>2. Emitted(c)' /\ (Emitted(c) \/ c = r.c)
      BY <1>4
    <3>3. CASE l # r.key
      BY <1>4, <3>1, <3>2, <3>3 DEF Once
    <3>4. CASE l = r.key /\ c = r.c
      BY <1>4, <3>2, <3>4
    <3>5. CASE l = r.key /\ Emitted(c)
      BY <1>4, <3>1, <3>5 DEF Once
    <3> QED BY <3>2, <3>3, <3>4, <3>5
  <2> QED BY <1>1, <1>4, <2>1, <2>2, <2>3 DEF Once
<1>8. /\ \A l \in Keys, c \in DOMAIN conn : Entered(l, c)' <=> Entered(l, c)
      /\ \A l \in Keys, c \in DOMAIN conn : Closing(l, c)' <=> Closing(l, c)
  BY <1>2, <1>4 DEF Entered, Closing
<1>9. Registered'
  <2>1. \A l \in Keys, c \in DOMAIN conn : Open(l, c)' => Open(l, c)
    BY <1>1 DEF Open
  <2> QED BY <1>1, <1>8, <2>1 DEF Registered
<1>10. Truthful'
  BY <1>1, <1>4 DEF Truthful
<1>11. Plain => \A c \in DOMAIN conn \ lost :
           table[r.key] # None /\ table[r.key].c = c => c = r.c /\ table[r.key].peer = conn[c].peer
  <2>1. table[r.key] # None => table[r.key].peer = conn[table[r.key].c].peer
    BY DEF Known
  <2> QED BY <2>1, TakesMore
<1>12. Kept'
  <2> SUFFICES ASSUME Plain, NEW l \in Keys, NEW c \in DOMAIN conn \ lost
               PROVE  /\ Entered(l, c)' => (conns[l] # None /\ conns[l].c = c) \/ Closing(l, c)'
                      /\ table'[l] # None /\ table'[l].c = c /\ table'[l].emitted
                         => Emitted(c)' \/ conn[c].peer \in DnsPeers
    BY <1>1 DEF Kept
  <2>1. Entered(l, c)' => (conns[l] # None /\ conns[l].c = c) \/ Closing(l, c)'
    BY <1>8 DEF Kept
  <2>2. ASSUME table'[l] # None, table'[l].c = c, table'[l].emitted
        PROVE  Emitted(c)' \/ conn[c].peer \in DnsPeers
    <3>1. CASE l # r.key \/ table[l].emitted
      <4>1. table[l] # None /\ table[l].c = c /\ table[l].emitted
        BY <1>4, <2>2, <3>1
      <4>2. Emitted(c) \/ conn[c].peer \in DnsPeers
        BY <4>1 DEF Kept
      <4> QED BY <1>4, <4>2
    <3>2. CASE l = r.key /\ ~table[l].emitted
      <4>1. table[l] # None /\ table[l].c = c
        BY <1>4, <2>2, <3>2
      <4>2. c = r.c /\ table[l].peer = conn[c].peer
        BY <1>11, <3>2, <4>1
      <4> QED BY <1>4, <2>2, <3>2, <4>1, <4>2
    <3> QED BY <3>1, <3>2
  <2> QED BY <2>1, <2>2
<1>13. Unsaid'
  <2>1. ASSUME Plain, NEW c \in DOMAIN conn, conn[c].first = None
        PROVE  /\ \A s \in Way' : s.c = c => s.type # "hello"
               /\ \A l \in Keys : conns[l] # None /\ conns[l].c = c => ~conns[l].hello_captured
               /\ c # r.c
    BY <1>2, <2>1 DEF Unsaid
  <2>2. ASSUME Plain, NEW q \in Pids, NEW g \in Fds, Lives(q), fds[q][g] # 0, conn[fds[q][g]].pid = q
        PROVE  /\ \A s \in Way' : s.c = fds[q][g] => s.type # "close"
               /\ fds[q][g] \notin lost /\ conn[fds[q][g]].first = None => ~Emitted(fds[q][g])'
    <3>1. PICK c \in DOMAIN conn : c = fds[q][g]
      BY <2>2 DEF Known, WorldTypes
    <3>2. /\ \A s \in Way : s.c = c => s.type # "close"
          /\ c \notin lost /\ conn[c].first = None => ~Emitted(c)
      BY <2>2, <3>1 DEF Unsaid
    <3>3. c \notin lost /\ conn[c].first = None => ~Emitted(c)'
      BY <1>4, <2>1, <2>2, <3>2
    <3> QED BY <1>1, <3>1, <3>2, <3>3
  <2> QED BY <1>1, <2>1, <2>2 DEF Unsaid, Lives
<1>14. Named'
  <2> SUFFICES ASSUME Plain
               PROVE  Named'
    BY DEF Named, Plain
  <2>1. \A s \in Way' : s.type = "hello" /\ Clear(s.c)' => s.payload = conn[s.c].first
    BY <1>1 DEF Named, Clear
  <2>2. ASSUME NEW l \in Keys, conns[l] # None, Clear(conns[l].c)', Lives(l[1])',
               ~conns[l].hello_captured
        PROVE  l[1] \notin tracked_pids
    BY <1>1, <2>2 DEF Named, Clear, Lives
  <2>3. ASSUME NEW l \in Keys, NEW c \in DOMAIN conn, Clear(c)', conn[c].peer \notin DnsPeers,
               Closing(l, c)' \/ (conns[l] # None /\ conns[l].c = c /\ conns[l].hello_captured)
        PROVE  Emitted(c)' \/ \E s \in Way' : s.key = l /\ s.c = c /\ s.type = "hello"
    <3>1. c \notin lost /\ conn[c].first \in Names /\ Clear(c)
      BY <1>1, <2>3 DEF Clear
    <3>2. Emitted(c) \/ \E s \in Way : s.key = l /\ s.c = c /\ s.type = "hello"
      BY <1>8, <2>3, <3>1 DEF Named
    <3>3. CASE Emitted(c) \/ \E s \in Way' : s.key = l /\ s.c = c /\ s.type = "hello"
      BY <1>4, <3>3
    <3>4. CASE r.key = l /\ r.c = c
      <4>1. r.payload \in Names
        BY <1>2, <3>1, <3>4 DEF Named
      <4>2. table[r.key] # None /\ table[r.key].c = c
        BY <1>2, <3>1, <3>4, TakesMore
      <4>3. table[r.key].peer = conn[c].peer
        BY <1>11, <3>1, <4>2
      <4>4. table[r.key].emitted => Emitted(c)
        BY <2>3, <3>1, <4>2 DEF Kept
      <4> QED BY <1>4, <2>3, <3>4, <4>1, <4>2, <4>3, <4>4
    <3> QED BY <3>2, <3>3, <3>4
  <2>4. \A o \in Told' : Clear(o.c)' => o.target = conn[o.c].first
    <3>1. Clear(r.c) => r.payload = conn[r.c].first
      BY <1>2 DEF Named
    <3> QED BY <1>1, <1>4, <3>1 DEF Named, Clear
  <2> QED BY <1>1, <2>1, <2>2, <2>3, <2>4 DEF Named
<1>15. Accounted'
  <2> SUFFICES ASSUME Roomy, Plain, "leave" \notin Habits
               PROVE  Accounted'
    BY DEF Accounted, Roomy, Plain
  <2>1. ASSUME NEW c \in DOMAIN conn, conn[c].due
        PROVE  \/ Emitted(c)' \/ c \in lost
               \/ \E l \in Keys : (conns[l] # None /\ conns[l].c = c) \/ Closing(l, c)'
    BY <1>4, <1>8, <2>1 DEF Accounted
  <2> QED BY <1>1, <2>1 DEF Accounted, Lives
<1> QED BY <1>5, <1>6, <1>7, <1>9, <1>10, <1>12, <1>13, <1>14, <1>15

LEMMA HandleCloseKeeps ==
    ASSUME Inv, NEW r \in Events, Takes(r), HandleClose(r)
    PROVE  Inv'
<1> USE TakesFacts DEF Inv
<1>1. UNCHANGED <<task, used, fds, tree, seen, conn, tracked_pids, conns, ring, lost, phase, feed>>
  BY DEF Takes, worldVars, probeVars
<1>2. r.type = "close"
  BY DEF HandleClose
<1>3. /\ table \in [Keys -> Connections \cup {None}]
      /\ table' \in [Keys -> Connections \cup {None}]
      /\ \A l \in Keys : l # r.key => table'[l] = table[l]
      /\ table'[r.key] = None
  <2>1. table \in [Keys -> Connections \cup {None}] /\ table' = [table EXCEPT ![r.key] = None]
    BY DEF HandleClose, ProbeTypes
  <2> QED BY <2>1
<1>4. \A c \in DOMAIN conn : c \in Nat
  BY DEF WorldTypes
(* What is told is about the entry, d, that the record takes away.         *)
<1>5. /\ out' \in Seq(Outs) /\ waiting' \in 0..EventBufSize
      /\ \A c : Emitted(c) => Emitted(c)'
      /\ \A c : Emitted(c)' => Emitted(c) \/ (table[r.key] # None /\ c = table[r.key].c)
      /\ table[r.key] # None =>
             \A d \in DOMAIN conn : d = table[r.key].c =>
                 table[r.key].emitted \/ conn[d].peer \in DnsPeers \/ Emitted(d)'
      /\ \A o \in Told' : \/ o \in Told
                          \/ /\ table[r.key] # None /\ ~table[r.key].emitted
                             /\ o.c = table[r.key].c /\ o.c \in DOMAIN conn
                             /\ o.target = conn[o.c].peer /\ conn[o.c].peer \notin DnsPeers
      /\ \A m, n \in DOMAIN out' : m # n => out'[m].c # out'[n].c
  <2>1. CASE table[r.key] = None
    <3>1. UNCHANGED <<waiting, out>>
      BY <2>1 DEF HandleClose
    <3>2. Told' = Told /\ \A c : Emitted(c)' <=> Emitted(c)
      BY <3>1 DEF Told, Emitted
    <3>3. /\ out \in Seq(Outs) /\ waiting \in 0..EventBufSize
          /\ \A m, n \in DOMAIN out : m # n => out[m].c # out[n].c
      BY DEF ProbeTypes, Once
    <3> QED BY <2>1, <3>1, <3>2, <3>3
  <2>2. CASE table[r.key] # None
    <3>1. PICK e \in Connections : e = table[r.key]
      BY <1>3, <2>2
    <3>2. PICK d \in DOMAIN conn : d = e.c
      BY <2>2, <3>1 DEF Known
    <3>3. e.peer = conn[d].peer /\ (e.host # None => e.emitted)
      BY <2>2, <3>1, <3>2 DEF Known
    <3>4. Emitted(d) => e.emitted
      BY <2>2, <3>1, <3>2 DEF Once
    <3>5. Emit(e, d) /\ d \in Nat
      BY <1>4, <2>2, <3>1, <3>2 DEF HandleClose
    <3>6. /\ out' \in Seq(Outs) /\ waiting' \in 0..EventBufSize
          /\ \A c : Emitted(c) => Emitted(c)'
          /\ \A c : Emitted(c)' => Emitted(c) \/ c = d
          /\ e.emitted \/ e.peer \in DnsPeers \/ Emitted(d)'
          /\ \A o \in Told' : \/ o \in Told
                              \/ /\ o.c = d /\ ~e.emitted /\ e.peer \notin DnsPeers
                                 /\ o.target = IF e.host # None THEN e.host ELSE e.peer
          /\ \A m, n \in DOMAIN out' : m # n => out'[m].c # out'[n].c
      BY <3>4, <3>5, EmitFacts
    <3>7. \A o \in Told' : o \in Told \/ (o.c = d /\ ~e.emitted /\ o.target = conn[d].peer
                                          /\ conn[d].peer \notin DnsPeers)
      BY <3>3, <3>6
    <3> QED BY <2>2, <3>1, <3>2, <3>3, <3>6, <3>7
  <2> QED BY <2>1, <2>2
<1>6. WorldTypes' /\ ProbeTypes' /\ Numbered' /\ Known' /\ OneKey' /\ Lineage' /\ Socketed' /\ Agreed'
  <2>1. \A o \in Told' : o \in Told \/ About(r.key, o.c)
    BY <1>5 DEF About
  <2> QED BY <1>3, <1>5, <2>1, TakesKeeps
<1>7. Ordered'
  <2>1. InOrder(Queue')
    BY DEF Takes
  <2> QED BY <1>1, <1>3, <2>1 DEF Ordered
(* The entry that is taken away is not that of any other.                  *)
<1>8. ASSUME NEW l \in Keys, table[r.key] # None, About(l, table[r.key].c)
      PROVE  l = r.key
  <2>1. About(r.key, table[r.key].c) /\ table[r.key].c \in Nat
    BY <1>4, <1>8 DEF About, Known
  <2> QED BY <1>8, <2>1 DEF OneKey
<1>9. Once'
  <2>1. \A s \in Way' : Emitted(s.c)' => s.type = "close"
    <3> SUFFICES ASSUME NEW s \in Way', Emitted(s.c)'
                 PROVE  s.type = "close"
      OBVIOUS
    <3>1. CASE Emitted(s.c)
      BY <3>1 DEF Once
    <3>2. CASE table[r.key] # None /\ s.c = table[r.key].c
      <4>1. s.key \in Keys
        BY QueueFacts DEF Events
      <4>2. s.key = r.key
        BY <1>8, <3>2, <4>1 DEF About
      <4>3. table[r.key].c < r.c \/ table[r.key].c = r.c
        BY <3>2
      <4>4. r.c < s.c /\ s.c \in Nat
        BY <1>2, <1>4, <4>2 DEF Known
      <4> QED BY <3>2, <4>3, <4>4
    <3> QED BY <1>5, <3>1, <3>2
  <2>2. \A l \in Keys : conns[l] # None /\ Emitted(conns[l].c)' => conns[l].hello_captured
    <3> SUFFICES ASSUME NEW l \in Keys, conns[l] # None, Emitted(conns[l].c)'
                 PROVE  conns[l].hello_captured
      OBVIOUS
    <3>1. CASE Emitted(conns[l].c)
      BY <3>1 DEF Once
    <3>2. CASE table[r.key] # None /\ conns[l].c = table[r.key].c
      <4>1. l = r.key
        BY <1>8, <3>2 DEF About
      <4>2. r.c < conns[l].c /\ conns[l].c \in Nat
        BY <1>2, <1>4, <4>1 DEF Known
      <4>3. table[r.key].c < r.c \/ table[r.key].c = r.c
        BY <3>2
      <4> QED BY <3>2, <4>2, <4>3
    <3>3. PICK c \in DOMAIN conn : c = conns[l].c
      BY DEF Known
    <3>4. Emitted(c)'
      BY <1>1, <3>3
    <3> QED BY <1>5, <3>1, <3>2, <3>3, <3>4
  <2>3. \A l \in Keys : table'[l] # None /\ Emitted(table[l].c)' => table'[l].emitted
    <3> SUFFICES ASSUME NEW l \in Keys, table'[l] # None, Emitted(table[l].c)'
                 PROVE  table'[l].emitted
      OBVIOUS
    <3>1. l # r.key /\ table'[l] = table[l]
      BY <1>3
    <3>2. PICK c \in DOMAIN conn : c = table'[l].c
      BY <3>1 DEF Known
    <3>3. Emitted(c)'
      BY <3>2
    <3>4. ~(table[r.key] # None /\ c = table[r.key].c)
      BY <1>8, <3>1, <3>2 DEF About
    <3>5. Emitted(c)
      BY <1>5, <3>3, <3>4
    <3> QED BY <3>1, <3>2, <3>5 DEF Once
  <2> QED BY <1>1, <1>5, <2>1, <2>2, <2>3 DEF Once
<1>10. \A l \in Keys, c \in DOMAIN conn :
           /\ Entered(l, c)' => Entered(l, c)
           /\ Closing(l, c)' => Closing(l, c)
           /\ Closing(l, c) => Closing(l, c)' \/ (l = r.key /\ c = r.c)
  BY <1>2, <1>3 DEF Entered, Closing
<1>11. Registered'
  <2> SUFFICES ASSUME NEW l \in Keys, NEW c \in DOMAIN conn, Open(l, c)', c \notin lost
               PROVE  Entered(l, c)'
    BY <1>1 DEF Registered
  <2>1. Open(l, c)
    BY <1>1 DEF Open
  <2>2. Entered(l, c)
    BY <2>1 DEF Registered
  <2>3. CASE \E s \in Way : s.key = l /\ s.c = c /\ s.type = "connect"
    BY <1>2, <2>3 DEF Entered
  <2>4. CASE table[l] # None /\ table[l].c = c
    <3>1. l # r.key
      <4>1. l = r.key => (c < r.c \/ c = r.c) /\ r.c < c
        BY <1>2, <2>4, TakesMore
      <4> QED BY <1>4, <4>1
    <3> QED BY <1>3, <2>4, <3>1 DEF Entered
  <2> QED BY <2>2, <2>3, <2>4 DEF Entered
<1>12. Truthful'
  BY <1>1, <1>5 DEF Truthful
<1>13. Plain => \A c \in DOMAIN conn \ lost :
           table[r.key] # None /\ table[r.key].c = c =>
               c = r.c /\ ~(conns[r.key] # None /\ conns[r.key].c = c) /\ Closing(r.key, c)
  <2>1. Closing(r.key, r.c)
    BY <1>2 DEF Closing
  <2> QED BY <1>2, <2>1, TakesMore
<1>14. Kept'
  <2> SUFFICES ASSUME Plain, NEW l \in Keys, NEW c \in DOMAIN conn \ lost
               PROVE  /\ Entered(l, c)' => (conns[l] # None /\ conns[l].c = c) \/ Closing(l, c)'
                      /\ table'[l] # None /\ table'[l].c = c /\ table'[l].emitted
                         => Emitted(c)' \/ conn[c].peer \in DnsPeers
    BY <1>1 DEF Kept
  <2>1. Entered(l, c)' => ~(l = r.key /\ c = r.c)
    BY <1>2, <1>3 DEF Entered
  <2>2. Entered(l, c)' => (conns[l] # None /\ conns[l].c = c) \/ Closing(l, c)'
    BY <1>10, <2>1 DEF Kept
  <2>3. table'[l] # None /\ table'[l].c = c /\ table'[l].emitted
           => Emitted(c)' \/ conn[c].peer \in DnsPeers
    BY <1>3, <1>5 DEF Kept
  <2> QED BY <2>2, <2>3
<1>15. Unsaid'
  <2>1. ASSUME Plain, NEW c \in DOMAIN conn, conn[c].first = None
        PROVE  /\ \A s \in Way' : s.c = c => s.type # "hello"
               /\ \A l \in Keys : conns[l] # None /\ conns[l].c = c => ~conns[l].hello_captured
    BY <2>1 DEF Unsaid
  <2>2. ASSUME Plain, NEW q \in Pids, NEW g \in Fds, Lives(q), fds[q][g] # 0, conn[fds[q][g]].pid = q
        PROVE  /\ \A s \in Way' : s.c = fds[q][g] => s.type # "close"
               /\ fds[q][g] \notin lost /\ conn[fds[q][g]].first = None => ~Emitted(fds[q][g])'
    <3>1. PICK c \in DOMAIN conn : c = fds[q][g]
      BY <2>2 DEF Known, WorldTypes
    <3>2. /\ \A s \in Way : s.c = c => s.type # "close"
          /\ c \notin lost /\ conn[c].first = None => ~Emitted(c)
      BY <2>2, <3>1 DEF Unsaid
    <3>3. c # r.c
      BY <1>2, <3>2
    <3>4. c \notin lost => ~(table[r.key] # None /\ table[r.key].c = c)
      BY <1>13, <2>2, <3>3
    <3>5. c \notin lost /\ conn[c].first = None => ~Emitted(c)'
      BY <1>5, <3>2, <3>4
    <3> QED BY <1>1, <3>1, <3>2, <3>5
  <2> QED BY <1>1, <2>1, <2>2 DEF Unsaid, Lives
<1>16. Named'
  <2> SUFFICES ASSUME Plain
               PROVE  Named'
    BY DEF Named, Plain
  <2>1. \A s \in Way' : s.type = "hello" /\ Clear(s.c)' => s.payload = conn[s.c].first
    BY <1>1 DEF Named, Clear
  <2>2. ASSUME NEW l \in Keys, conns[l] # None, Clear(conns[l].c)', Lives(l[1])',
               ~conns[l].hello_captured
        PROVE  l[1] \notin tracked_pids
    BY <1>1, <2>2 DEF Named, Clear, Lives
  <2>3. ASSUME NEW l \in Keys, NEW c \in DOMAIN conn, Clear(c)', conn[c].peer \notin DnsPeers,
               Closing(l, c)' \/ (conns[l] # None /\ conns[l].c = c /\ conns[l].hello_captured)
        PROVE  Emitted(c)' \/ \E s \in Way' : s.key = l /\ s.c = c /\ s.type = "hello"
    <3>1. Clear(c)
      BY <1>1, <2>3 DEF Clear
    <3>2. Emitted(c) \/ \E s \in Way : s.key = l /\ s.c = c /\ s.type = "hello"
      BY <1>10, <2>3, <3>1 DEF Named
    <3> QED BY <1>2, <1>5, <3>2
  (* A name that was sent first is not missed at the close.                *)
  <2>4. ASSUME NEW c \in DOMAIN conn, Clear(c), conn[c].peer \notin DnsPeers,
               table[r.key] # None, table[r.key].c = c
        PROVE  table[r.key].emitted
    <3>1. c = r.c /\ Closing(r.key, c)
      BY <1>13, <2>4 DEF Clear
    <3>2. Emitted(c) \/ \E s \in Way : s.key = r.key /\ s.c = c /\ s.type = "hello"
      BY <2>4, <3>1 DEF Named
    <3>3. Emitted(c)
      BY <1>2, <1>4, <3>1, <3>2
    <3> QED BY <2>4, <3>3 DEF Once
  <2>5. \A o \in Told' : Clear(o.c)' => o.target = conn[o.c].first
    <3> SUFFICES ASSUME NEW o \in Told', Clear(o.c)'
                 PROVE  o.target = conn[o.c].first
      OBVIOUS
    <3>1. Clear(o.c)
      BY <1>1 DEF Clear
    <3> QED BY <1>5, <2>4, <3>1 DEF Named
  <2> QED BY <1>1, <2>1, <2>2, <2>3, <2>5 DEF Named
<1>17. Accounted'
  <2> SUFFICES ASSUME Roomy, Plain, "leave" \notin Habits
               PROVE  Accounted'
    BY DEF Accounted, Roomy, Plain
  <2>1. ASSUME NEW c \in DOMAIN conn, conn[c].due, c \notin lost
        PROVE  \/ Emitted(c)'
               \/ \E l \in Keys : (conns[l] # None /\ conns[l].c = c) \/ Closing(l, c)'
    <3>1. \/ Emitted(c)
          \/ \E l \in Keys : (conns[l] # None /\ conns[l].c = c) \/ Closing(l, c)
      BY <2>1 DEF Accounted
    <3>2. CASE c = r.c
      <4>1. table[r.key] # None /\ table[r.key].c = c
        BY <1>2, <2>1, <3>2, TakesMore
      <4>2. conn[c].peer \notin DnsPeers
        BY <2>1 DEF Accounted
      <4>3. table[r.key].emitted => Emitted(c)
        BY <2>1, <4>1, <4>2 DEF Kept
      <4> QED BY <1>5, <4>1, <4>2, <4>3
    <3>3. CASE c # r.c
      BY <1>5, <1>10, <3>1, <3>3
    <3> QED BY <3>2, <3>3
  <2> QED BY <1>1, <2>1 DEF Accounted, Lives
<1> QED BY <1>6, <1>7, <1>9, <1>11, <1>12, <1>14, <1>15, <1>16, <1>17

-----------------------------------------------------------------------------
(* The theorems.                                                           *)

(* Every step of the processes keeps the invariant.                        *)
LEMMA ProcessesKeep == ASSUME Inv, Processes PROVE Inv'
<1> USE NetAssumption
<1>1. ASSUME NEW p \in Pids, NEW f \in Fds, NEW peer \in Peers, NEW ok \in Readable,
             Connect(p, f, peer, ok)
      PROVE  Inv'
  BY <1>1, ConnectKeeps
<1>2. ASSUME NEW p \in Pids, NEW f \in Fds, NEW buf \in Buffers, NEW ok \in Readable,
             Write(p, f, buf, ok)
      PROVE  Inv'
  <2>1. ok \in BOOLEAN /\ Speaks(p, f, <<buf>>, ok)
    BY <1>2, WriteSpeaks
  <2>2. Unheard(p, f, <<buf>>, ok) \/ Heard(p, f, <<buf>>, ok)
    BY <2>1 DEF Speaks
  <2> QED BY <2>1, <2>2, UnheardKeeps, HeardKeeps
<1>3. ASSUME NEW p \in Pids, NEW f \in Fds, NEW iov \in {<<>>} \cup (Buffers \X Buffers),
             NEW ok \in Readable, SendMsg(p, f, iov, ok)
      PROVE  Inv'
  <2>1. ok \in BOOLEAN /\ Speaks(p, f, iov, ok)
    BY <1>3, SendMsgSpeaks
  <2>2. Unheard(p, f, iov, ok) \/ Heard(p, f, iov, ok)
    BY <2>1 DEF Speaks
  <2> QED BY <2>1, <2>2, UnheardKeeps, HeardKeeps
<1>4. ASSUME NEW p \in Pids, NEW f \in Fds, Close(p, f)
      PROVE  Inv'
  BY <1>4, UnseenCloseKeeps, SeenCloseKeeps
<1>5. ASSUME NEW p \in Pids, NEW c \in Pids, Fork(p, c) \/ CloneThread(p, c)
      PROVE  Inv'
  BY <1>5, ForkKeeps, CloneThreadKeeps
<1>6. ASSUME NEW t \in Pids, TaskExit(t)
      PROVE  Inv'
  BY <1>6, TaskExitKeeps
<1> QED BY <1>1, <1>2, <1>3, <1>4, <1>5, <1>6 DEF Processes

(* What the programs, netFeed and correlate keep of the connections, how   *)
(* their records are ordered, and what is still to come for each connect.  *)
THEOREM Invariance == Spec => []Inv
<1>1. Inv /\ [Next]_vars => Inv'
  <2> SUFFICES ASSUME Inv, [Next]_vars
               PROVE  Inv'
    OBVIOUS
  <2>1. CASE Processes
    BY <2>1, ProcessesKeep
  <2>2. CASE \E ok \in BOOLEAN : StartNet(ok)
    BY <2>2, StartNetKeeps
  <2>3. CASE Correlate
    <3>1. PICK r \in Events : Takes(r) /\ (HandleConnect(r) \/ HandleHello(r) \/ HandleClose(r))
      BY <2>3, CorrelateTakes
    <3> QED BY <3>1, HandleConnectKeeps, HandleHelloKeeps, HandleCloseKeeps
  <2>4. CASE NetFeed \/ Collect \/ StopReader \/ NetFeedEnds \/ Stopped \/ Done \/ UNCHANGED vars
    BY <2>4, FeedKeeps
  <2> QED BY <2>1, <2>2, <2>3, <2>4 DEF Next
<1> QED BY <1>1, InitInv, PTL DEF Spec

(* The types of the variables of the programs, netFeed and correlate.      *)
THEOREM TypeCorrect == Spec => []TypeOK
<1>1. Inv => TypeOK
  <2> SUFFICES ASSUME Inv
               PROVE  TypeOK
    OBVIOUS
  <2> USE DEF Inv
  <2>1. fds \in [Pids -> [Fds -> 0..Len(conn)]]
    <3>1. \A p \in Pids : fds[p] \in [Fds -> 0..Len(conn)]
      BY DEF WorldTypes, Known
    <3> QED BY <3>1 DEF WorldTypes
  <2>2. UNION {tree, seen, tracked_pids} \subseteq used
    BY DEF Numbered
  <2> QED BY <2>1, <2>2 DEF TypeOK, WorldTypes, ProbeTypes, Known
<1> QED BY <1>1, Invariance, PTL

(* What is reported was emitted.                                           *)
LEMMA ReportedTold == \A n \in Reported : out[n] \in Told
BY DEF Reported, Told, Elements

(* Where a socket is connected once and a number used once, correlate      *)
(* never joins the server name of one connection to another, whatever is   *)
(* lost in the ring buffer and the maps.                                   *)
THEOREM TargetTrueHolds ==
    ASSUME Habits \cap {"reuse", "reconnect"} = {} PROVE Spec => []TargetTrue
<1>1. Inv => TargetTrue
  BY ReportedTold DEF Inv, Truthful, Plain, TargetTrue
<1> QED BY <1>1, Invariance, PTL

(* Under the same hypothesis a connection whose first call sent a          *)
(* ClientHello that capture_hello could read is reported by its server     *)
(* name, unless a record or an entry of it found no room.                  *)
THEOREM NameNotMissedHolds ==
    ASSUME Habits \cap {"reuse", "reconnect"} = {} PROVE Spec => []NameNotMissed
<1>1. Inv => NameNotMissed
  BY ReportedTold DEF Inv, Named, Clear, Plain, NameNotMissed
<1> QED BY <1>1, Invariance, PTL

(* emit reports a connection once: where a socket is connected once, also  *)
(* when numbers are reused, records are lost and the descriptor is shared. *)
THEOREM EmitsOnceHolds ==
    ASSUME "reconnect" \notin Habits PROVE Spec => []EmitsOnce
<1>1. Inv => EmitsOnce
  <2> SUFFICES ASSUME Inv, NEW m \in DOMAIN out, NEW n \in DOMAIN out, m # n
               PROVE  conn[out[m].c].sock # conn[out[n].c].sock
    BY DEF EmitsOnce
  <2>1. out[m] \in Told /\ out[n] \in Told
    BY DEF Told, Elements
  <2>2. out[m].c \in DOMAIN conn /\ out[n].c \in DOMAIN conn /\ out[m].c # out[n].c
    BY <2>1 DEF Inv, Known, Once
  <2> QED BY <2>2 DEF Inv, Socketed
<1> QED BY <1>1, Invariance, PTL

(* With room in tracked_pids for every process, and no leader that leaves  *)
(* before its threads, no connect that is due is forgotten by the programs *)
(* and correlate together, unless a record or an entry of it found no room.*)
THEOREM ConnsAccountedHolds ==
    ASSUME Roomy, Habits \cap {"reuse", "reconnect", "leave"} = {} PROVE Spec => []ConnsAccounted
<1>1. Inv => ConnsAccounted
  <2> SUFFICES ASSUME Inv, NEW c \in DOMAIN conn, conn[c].due, ~Emitted(c), c \notin lost
               PROVE  \/ \E k \in Entries : conns[k].c = c
                      \/ \E r \in Queued : r.type = "close" /\ r.c = c
    BY DEF ConnsAccounted
  <2>1. PICK k \in Keys : (conns[k] # None /\ conns[k].c = c) \/ Closing(k, c)
    BY DEF Inv, Accounted, Plain
  <2>2. Way = Queued
    <3>1. netCh \in Seq(Events) /\ ring \in Seq(Events)
      BY DEF Inv, ProbeTypes
    <3>2. Way = Elements(netCh) \cup Elements(ring)
      BY <3>1, ConcatElements DEF Way, Queue
    <3> QED BY <3>2 DEF Queued, Elements
  <2> QED BY <2>1, <2>2 DEF Entries, Closing
<1> QED BY <1>1, Invariance, PTL

(* While no number is used twice, the ground truth holds connections of    *)
(* the agent's descendants only, whatever is lost, with threads, and with  *)
(* leaders that leave early.                                               *)
THEOREM OnlyAgentHolds ==
    ASSUME "reuse" \notin Habits PROVE Spec => []OnlyAgent
<1>1. Inv => OnlyAgent
  BY ReportedTold DEF Inv, Lineage, OnlyAgent
<1> QED BY <1>1, Invariance, PTL
=============================================================================
