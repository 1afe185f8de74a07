------------------------------ MODULE NetProbe ------------------------------
(***************************************************************************)
(* pkg/probe/net without content capture: the eBPF programs of net.bpf.c   *)
(* that follow the connections of the agent's processes, and the goroutines*)
(* netFeed and correlate that turn their records into NetConnect events,   *)
(* from TrackPID to Stop.                                                  *)
(*                                                                         *)
(* The processes and their descriptors are not code of the repository.  A  *)
(* descriptor refers to nothing of interest (0) or to a connection, which  *)
(* is the number of the connect that made it.  What is sent is a buffer: a *)
(* ClientHello, of which only the server name is kept, bytes in which      *)
(* ParseClientHello finds no server name, or nothing at all.  Every        *)
(* tracepoint runs when its call is entered.                               *)
(***************************************************************************)
EXTENDS Integers, Sequences, FiniteSets

CONSTANTS
    Pids,        \* task ids
    Root,        \* the agent that watch launches
    Stranger,    \* a process of the host that the agent did not start
    Fds,         \* descriptors
    Peers,       \* addresses with their ports
    DnsPeers,    \* those with port 53
    LocalPeers,  \* those that are neither AF_INET nor AF_INET6
    Names,       \* server names
    Readable,    \* whether the programs can read the caller's memory
    Habits,      \* which of the calls below the processes make
    MaxConns,    \* bound: connects
    TrackMax,    \* max_entries of tracked_pids
    ConnMax,     \* max_entries of conns
    RingMax,     \* what the ring buffer holds
    ChanMax,     \* capacity of netCh
    EventBufSize,
    None

(* A stranger that forks; clone of a thread; sendmsg; a second connect of  *)
(* a socket; a leader that leaves before its threads; the use of a number  *)
(* once more.                                                              *)
AllHabits == {"stranger", "thread", "sendmsg", "reconnect", "leave", "reuse"}

(* The values of conns and o.conns; c, the connect that made the entry, is *)
(* history.                                                                *)
ConnStates == [peer : Peers, hello_captured : BOOLEAN, c : Nat]
Connections == [peer : Peers, host : Names \cup {None}, emitted : BOOLEAN, c : Nat]

ASSUME NetAssumption ==
    /\ Root \in Pids /\ Stranger \in Pids /\ Root # Stranger
    /\ DnsPeers \subseteq Peers /\ LocalPeers \subseteq Peers
    /\ Readable \subseteq BOOLEAN /\ Habits \subseteq AllHabits
    /\ {MaxConns, TrackMax, ConnMax, RingMax, ChanMax, EventBufSize} \subseteq Nat
    /\ None \notin Peers \cup Names \cup Pids \cup {"plain", "empty", "other"}
    /\ None \notin ConnStates \cup Connections
    /\ Names \cap {"plain", "empty", "other"} = {}

VARIABLES
    task,       \* the process of each live task
    used,       \* numbers used so far
    fds,        \* the descriptors of each process
    tree,       \* history: processes that descend from Root
    seen,       \* history: processes that the probe could follow from their start
    conn,       \* history: every connect so far, see Connection
    tracked_pids, conns,    \* the maps of the eBPF programs
    ring,       \* net_events
    lost,       \* history: connects of which a record or an entry had no room
    phase,      \* where watch is
    netCh,      \* the channel from netFeed to correlate
    feed,       \* netFeed runs
    table,      \* o.conns
    waiting,    \* how many events are in the events channel
    out         \* history: the events that emit has made

worldVars == <<task, used, fds, tree, seen, conn>>
probeVars == <<tracked_pids, conns, ring, lost>>
goVars == <<phase, netCh, feed, table, waiting, out>>
vars == <<worldVars, probeVars, goVars>>

Keys == Pids \X Fds
Buffers == Names \cup {"plain", "empty"}

(* What is true of a connect: who made it, where to and on which socket;   *)
(* whether its process is the agent's; whether it ought to be reported: it *)
(* is by a process the probe can follow, to an address that can be read    *)
(* and is neither local nor a name server's; the server names sent; and    *)
(* the one that the first call sent in full view of the programs, if any.  *)
Connection(p, peer, sock, ok) ==
    [pid |-> p, peer |-> peer, sock |-> sock, tree |-> p \in tree,
     due |-> p \in seen /\ ok /\ peer \notin LocalPeers \cup DnsPeers,
     sent |-> {}, first |-> None]

Init ==
    /\ task = [t \in Pids |-> IF t \in {Root, Stranger} THEN t ELSE None]
    /\ used = {Root, Stranger}
    /\ fds = [p \in Pids |-> [f \in Fds |-> 0]]
    /\ tree = {Root} /\ seen = {} /\ conn = <<>>
    /\ tracked_pids = {}
    /\ conns = [k \in Keys |-> None]
    /\ ring = <<>> /\ lost = {}
    /\ phase = "launched" /\ netCh = <<>> /\ feed = FALSE
    /\ table = [k \in Keys |-> None]
    /\ waiting = 0 /\ out = <<>>

-----------------------------------------------------------------------------
(* The eBPF programs.                                                      *)

Entries == {k \in Keys : conns[k] # None}
HasRoom(k) == conns[k] # None \/ Cardinality(Entries) < ConnMax

(* A record of the ring buffer; c, the connect it is about, is history.    *)
Event(type, k, peer, payload, c) ==
    [type |-> type, key |-> k, peer |-> peer, payload |-> payload, c |-> c]

(* bpf_ringbuf_output fails, unnoticed, when the buffer is full; missed    *)
(* says that the connect has already lost its entry.                       *)
Output(e, missed) ==
    /\ ring' = IF Len(ring) < RingMax THEN Append(ring, e) ELSE ring
    /\ lost' = IF missed \/ Len(ring) >= RingMax THEN lost \cup {e.c} ELSE lost

(* struct conn_state, all zero but for the peer.                           *)
ConnState(peer, c) == [peer |-> peer, hello_captured |-> FALSE, c |-> c]

trace_connect(p, f, peer, c, ok) ==
    LET k == <<p, f>>
    IN IF p \notin tracked_pids \/ ~ok \/ peer \in LocalPeers
       THEN UNCHANGED <<conns, ring, lost>>
       ELSE /\ conns' = IF HasRoom(k) THEN [conns EXCEPT ![k] = ConnState(peer, c)] ELSE conns
            /\ Output(Event("connect", k, peer, None, c), ~HasRoom(k))

(* if (len > 0 && bpf_probe_read_user(...)) return 0                       *)
Reads(buf, ok) == ok \/ buf = "empty"

(* The first buffer that is sent on a connection is recorded, whatever it  *)
(* is; no later one is.                                                    *)
capture_hello(p, f, buf, ok) ==
    LET k == <<p, f>>
        cs == conns[k]
    IN IF cs = None \/ ~Reads(buf, ok) \/ (cs # None /\ cs.hello_captured)
       THEN UNCHANGED <<conns, ring, lost>>
       ELSE /\ Output(Event("hello", k, cs.peer, IF ok THEN buf ELSE "empty", cs.c), FALSE)
            /\ conns' = [conns EXCEPT ![k].hello_captured = TRUE]

(* sys_enter_write, sys_enter_sendto.                                      *)
trace_write(p, f, buf, ok) ==
    IF p \notin tracked_pids THEN UNCHANGED <<conns, ring, lost>>
    ELSE capture_hello(p, f, buf, ok)

(* A bug: the last iovec is looked at.                                     *)
trace_sendmsg_last(p, f, iov, ok) ==
    IF p \notin tracked_pids \/ ~ok \/ iov = <<>> THEN UNCHANGED <<conns, ring, lost>>
    ELSE capture_hello(p, f, iov[Len(iov)], ok)

(* sys_enter_sendmsg: only the first iovec is looked at.                   *)
trace_sendmsg(p, f, iov, ok) ==
    IF p \notin tracked_pids \/ ~ok \/ iov = <<>> THEN UNCHANGED <<conns, ring, lost>>
    ELSE capture_hello(p, f, Head(iov), ok)

trace_close(p, f) ==
    LET k == <<p, f>>
    IN IF p \notin tracked_pids \/ conns[k] = None THEN UNCHANGED <<conns, ring, lost>>
       ELSE /\ Output(Event("close", k, conns[k].peer, None, conns[k].c), FALSE)
            /\ conns' = [conns EXCEPT ![k] = None]

(* A bug: the child of an untracked process is tracked too.                *)
handle_fork_any(parent, child) == tracked_pids' = tracked_pids \cup {child}

(* task_newtask: a new task of a tracked process, also a thread, is        *)
(* tracked by its own number.                                              *)
handle_fork(parent, child) ==
    tracked_pids' = IF parent \in tracked_pids
                       /\ (child \in tracked_pids \/ Cardinality(tracked_pids) < TrackMax)
                    THEN tracked_pids \cup {child} ELSE tracked_pids

(* A bug: the exit of a thread ends the tracking of its process.           *)
handle_exit_any(tid, tgid) == tracked_pids' = tracked_pids \ {tgid}

(* sched_process_exit: only a leader's counts; conns is left alone.        *)
handle_exit(tid, tgid) ==
    tracked_pids' = IF tid = tgid THEN tracked_pids \ {tgid} ELSE tracked_pids

-----------------------------------------------------------------------------
(* The processes, and the program that runs at each of their calls.  What  *)
(* they do once the reader is closed is read by nobody.                    *)

Tasks(p) == {t \in Pids : task[t] = p}
Active(p) == /\ phase \in {"launched", "running"}
             /\ Tasks(p) # {}
             /\ p \in tree \/ "stranger" \in Habits
(* The stranger itself only forks: it is its children that may get a       *)
(* number the probe knows.                                                 *)
Calls(p) == Active(p) /\ p # Stranger
Free(t) == /\ task[t] = None /\ Tasks(t) = {}
           /\ t # Root
           /\ "reuse" \in Habits \/ t \notin used

Connect(p, f, peer, ok) ==
    LET c == Len(conn) + 1
    IN /\ Calls(p) /\ c <= MaxConns
       /\ fds[p][f] = 0 \/ ("reconnect" \in Habits /\ fds[p][f] > 0)
       /\ conn' = Append(conn, Connection(p, peer,
                     IF fds[p][f] = 0 THEN c ELSE conn[fds[p][f]].sock, ok))
       /\ fds' = [fds EXCEPT ![p][f] = c]
       /\ trace_connect(p, f, peer, c, ok)
       /\ UNCHANGED <<task, used, tree, seen, tracked_pids, goVars>>

(* What the call adds to the history of the connection.                    *)
Said(p, f, bufs, ok) ==
    LET c == fds[p][f]
        clear == ok /\ p = conn[c].pid /\ Head(bufs) \in Names
    IN conn' = IF c = 0 \/ bufs = <<>> THEN conn
               ELSE [conn EXCEPT ![c].sent = @ \cup ({bufs[n] : n \in DOMAIN bufs} \cap Names),
                                 ![c].first = IF @ # None THEN @
                                              ELSE IF clear THEN Head(bufs) ELSE "other"]

Write(p, f, buf, ok) ==
    /\ Calls(p) /\ fds[p][f] # 0
    /\ Said(p, f, <<buf>>, ok)
    /\ trace_write(p, f, buf, ok)
    /\ UNCHANGED <<task, used, fds, tree, seen, tracked_pids, goVars>>

SendMsg(p, f, iov, ok) ==
    /\ "sendmsg" \in Habits
    /\ Calls(p) /\ fds[p][f] # 0
    /\ Said(p, f, iov, ok)
    /\ trace_sendmsg(p, f, iov, ok)
    /\ UNCHANGED <<task, used, fds, tree, seen, tracked_pids, goVars>>

Close(p, f) ==
    /\ Calls(p) /\ fds[p][f] # 0
    /\ fds' = [fds EXCEPT ![p][f] = 0]
    /\ trace_close(p, f)
    /\ UNCHANGED <<task, used, tree, seen, conn, tracked_pids, goVars>>

(* The child shares the descriptors of its parent.                         *)
Fork(p, c) ==
    /\ Active(p) /\ Free(c)
    /\ task' = [task EXCEPT ![c] = c]
    /\ used' = used \cup {c}
    /\ fds' = [fds EXCEPT ![c] = fds[p]]
    /\ tree' = IF p \in tree THEN tree \cup {c} ELSE tree \ {c}
    /\ seen' = IF p \in seen THEN seen \cup {c} ELSE seen \ {c}
    /\ handle_fork(p, c)
    /\ UNCHANGED <<conn, conns, ring, lost, goVars>>

CloneThread(p, c) ==
    /\ "thread" \in Habits
    /\ Calls(p) /\ Free(c)
    /\ task' = [task EXCEPT ![c] = p]
    /\ used' = used \cup {c}
    /\ handle_fork(p, c)
    /\ UNCHANGED <<fds, tree, seen, conn, conns, ring, lost, goVars>>

(* A task ends; with the last one its process does, and its descriptors    *)
(* are closed without a call of close.                                     *)
TaskExit(t) ==
    /\ task[t] # None /\ Calls(task[t])
    /\ LET p == task[t]
       IN /\ t = p /\ Tasks(p) # {t} => "leave" \in Habits
          /\ fds' = IF Tasks(p) = {t} THEN [fds EXCEPT ![p] = [f \in Fds |-> 0]] ELSE fds
          /\ handle_exit(t, p)
    /\ task' = [task EXCEPT ![t] = None]
    /\ UNCHANGED <<used, tree, seen, conn, conns, ring, lost, goVars>>

Processes ==
    \/ \E p \in Pids, f \in Fds :
          \/ \E peer \in Peers, ok \in Readable : Connect(p, f, peer, ok)
          \/ \E buf \in Buffers, ok \in Readable : Write(p, f, buf, ok)
          \/ \E iov \in {<<>>} \cup (Buffers \X Buffers), ok \in Readable : SendMsg(p, f, iov, ok)
          \/ Close(p, f)
    \/ \E p, c \in Pids : Fork(p, c) \/ CloneThread(p, c)
    \/ \E t \in Pids : TaskExit(t)

-----------------------------------------------------------------------------
(* The observer and its caller.                                            *)

(* startNet: TrackPID, which may fail, and Start, whose goroutines are     *)
(* netFeed and correlate.                                                  *)
StartNet(ok) ==
    /\ phase = "launched"
    /\ tracked_pids' = IF ok THEN tracked_pids \cup {Root} ELSE tracked_pids
    /\ seen' = IF ok /\ Tasks(Root) # {} THEN seen \cup {Root} ELSE seen
    /\ phase' = "running" /\ feed' = TRUE
    /\ UNCHANGED <<task, used, fds, tree, conn, conns, ring, lost, netCh, table, waiting, out>>

(* netFeed reads the ring buffer and waits for room in netCh.              *)
NetFeed ==
    /\ feed /\ phase = "running" /\ ring # <<>> /\ Len(netCh) < ChanMax
    /\ netCh' = Append(netCh, Head(ring))
    /\ ring' = Tail(ring)
    /\ UNCHANGED <<worldVars, tracked_pids, conns, lost, phase, feed, table, waiting, out>>

(* A bug: a connection does not remember that it was reported.             *)
MarkedNot(e) == e

(* conn.emitted = true                                                     *)
Marked(e) == [e EXCEPT !.emitted = TRUE]

(* emit: at most one event for a connection, none for port 53; the send    *)
(* does not wait.                                                          *)
Emit(e, c) ==
    LET skip == e.emitted \/ e.peer \in DnsPeers
        full == waiting >= EventBufSize
        target == IF e.host # None THEN e.host ELSE e.peer
    IN /\ out' = IF skip THEN out ELSE Append(out, [target |-> target, c |-> c, dropped |-> full])
       /\ waiting' = IF skip \/ full THEN waiting ELSE waiting + 1

(* A bug: the host of the connection that had the descriptor is kept.      *)
NewConnOldHost(r) ==
    [peer |-> r.peer, host |-> IF table[r.key] = None THEN None ELSE table[r.key].host,
     emitted |-> FALSE, c |-> r.c]

(* &connection{...}                                                        *)
NewConn(r) == [peer |-> r.peer, host |-> None, emitted |-> FALSE, c |-> r.c]

(* handleNetRecord.                                                        *)
HandleConnect(r) ==
    /\ r.type = "connect"
    /\ table' = [table EXCEPT ![r.key] = NewConn(r)]
    /\ UNCHANGED <<waiting, out>>

HandleHello(r) ==
    /\ r.type = "hello"
    /\ IF table[r.key] = None \/ r.payload \notin Names THEN UNCHANGED <<table, waiting, out>>
       ELSE LET e == [table[r.key] EXCEPT !.host = r.payload]
            IN /\ Emit(e, r.c)
               /\ table' = [table EXCEPT ![r.key] = Marked(e)]

(* A bug: only a ClientHello makes an event.                               *)
HandleCloseSilent(r) ==
    /\ r.type = "close"
    /\ table' = [table EXCEPT ![r.key] = None]
    /\ UNCHANGED <<waiting, out>>

HandleClose(r) ==
    /\ r.type = "close"
    /\ IF table[r.key] = None THEN UNCHANGED <<waiting, out>>
       ELSE Emit(table[r.key], table[r.key].c)
    /\ table' = [table EXCEPT ![r.key] = None]

Correlate ==
    /\ netCh # <<>>
    /\ netCh' = Tail(netCh)
    /\ \/ HandleConnect(Head(netCh))
       \/ HandleHello(Head(netCh))
       \/ HandleClose(Head(netCh))
    /\ UNCHANGED <<worldVars, probeVars, phase, feed>>

(* watch's collector.                                                      *)
Collect ==
    /\ waiting > 0
    /\ waiting' = waiting - 1
    /\ UNCHANGED <<worldVars, probeVars, phase, netCh, feed, table, out>>

(* Stop closes the reader; netFeed ends, and correlate once netCh is empty.*)
(* The end, Stopped, is that of watch's wg.Wait, too.                      *)
StopReader ==
    /\ phase = "running"
    /\ phase' = "stopping"
    /\ UNCHANGED <<worldVars, probeVars, netCh, feed, table, waiting, out>>

NetFeedEnds ==
    /\ phase = "stopping" /\ feed
    /\ feed' = FALSE
    /\ UNCHANGED <<worldVars, probeVars, phase, netCh, table, waiting, out>>

Stopped ==
    /\ phase = "stopping" /\ ~feed /\ netCh = <<>> /\ waiting = 0
    /\ phase' = "stopped"
    /\ UNCHANGED <<worldVars, probeVars, netCh, feed, table, waiting, out>>

Done == phase = "stopped" /\ UNCHANGED vars

Next == \/ Processes
        \/ \E ok \in BOOLEAN : StartNet(ok)
        \/ StopReader
        \/ NetFeed \/ Correlate \/ Collect \/ NetFeedEnds \/ Stopped
        \/ Done

(* The goroutines of the observer keep running.                            *)
Spec == /\ Init /\ [][Next]_vars
        /\ WF_vars(NetFeed) /\ WF_vars(Correlate) /\ WF_vars(Collect)
        /\ WF_vars(NetFeedEnds) /\ WF_vars(Stopped)
-----------------------------------------------------------------------------
(* Properties.                                                             *)

Reported == {n \in DOMAIN out : ~out[n].dropped}
Queued == {netCh[n] : n \in DOMAIN netCh} \cup {ring[n] : n \in DOMAIN ring}
Emitted(c) == \E n \in DOMAIN out : out[n].c = c

(* The types of the variables.                                             *)
TypeOK ==
    /\ task \in [Pids -> Pids \cup {None}]
    /\ fds \in [Pids -> [Fds -> 0..Len(conn)]]
    /\ UNION {tree, seen, tracked_pids} \subseteq used /\ used \subseteq Pids
    /\ Len(conn) <= MaxConns /\ lost \subseteq DOMAIN conn
    /\ conns \in [Keys -> ConnStates \cup {None}]
    /\ \A k \in Keys : conns[k] # None => conns[k].c \in DOMAIN conn
    /\ table \in [Keys -> Connections \cup {None}]
    /\ \A k \in Keys : table[k] # None => table[k].c \in DOMAIN conn
    /\ Len(ring) <= RingMax /\ Len(netCh) <= ChanMax /\ waiting \in 0..EventBufSize
    /\ phase \in {"launched", "running", "stopping", "stopped"} /\ feed \in BOOLEAN

(* The target of an event is true: a server name was sent on the very      *)
(* connection it stands for, an address is that connection's.              *)
TargetTrue ==
    \A n \in Reported : LET e == out[n] IN
        e.target \in conn[e.c].sent \cup {conn[e.c].peer}

(* README: when the connection is TLS, the SNI hostname is recorded.  A    *)
(* connection whose first call sent a ClientHello that the programs could  *)
(* see is reported by its server name, unless a record was lost.           *)
NameNotMissed ==
    \A n \in Reported : LET e == out[n] IN
        conn[e.c].first \in Names /\ e.c \notin lost => e.target = conn[e.c].first

(* emit's comment: a connection is reported once, at its ClientHello or at *)
(* its close.                                                              *)
EmitsOnce ==
    \A m, n \in DOMAIN out : m # n => conn[out[m].c].sock # conn[out[n].c].sock

(* No connect is forgotten: it was reported, the programs still wait for   *)
(* its close, its close is on the way to correlate, or something of it     *)
(* found no room.                                                          *)
ConnsAccounted ==
    \A c \in DOMAIN conn : conn[c].due =>
        \/ Emitted(c) \/ c \in lost
        \/ \E k \in Entries : conns[k].c = c
        \/ \E r \in Queued : r.type = "close" /\ r.c = c

(* README: only descendants of the launched process count as actions of    *)
(* the agent.                                                              *)
OnlyAgent == \A n \in Reported : conn[out[n].c].tree

(* A connection whose close was recorded is reported in the end, as far as *)
(* emit goes, unless watch stops first: the event is sent, or dropped at a *)
(* full channel, which emit does not wait for, or a record that it needed  *)
(* was lost.                                                               *)
ClosedReported ==
    \A c \in 1..MaxConns :
        (\E r \in Queued : r.type = "close" /\ r.c = c /\ conn[r.c].due)
            ~> (Emitted(c) \/ c \in lost \/ phase # "running")

(* emit's comment: a connection that never yielded a hostname is reported  *)
(* at its close.  Once no process holds a connection open any more, and    *)
(* nothing of it is on its way, it has been reported.                      *)
GoneReported ==
    \A c \in DOMAIN conn :
        conn[c].due /\ (\A p \in Pids, f \in Fds : fds[p][f] # c) /\ Queued = {}
            => Emitted(c) \/ c \in lost
=============================================================================
