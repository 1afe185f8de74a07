----------------------------- MODULE TlsCapture -----------------------------
(***************************************************************************)
(* Content capture of pkg/probe/net: the uprobe of tls.bpf.c, the search   *)
(* for the address of SSL_write among the candidates of the ELF scan, and  *)
(* the way of the captured plaintext through sslFeed and correlate to the  *)
(* HTTP requests that Http1 frames.                                        *)
(*                                                                         *)
(* Every thread of the agent sends the requests of its script, cut into    *)
(* SSL_write calls of any size.  A captured call is a frame: its thread,   *)
(* its tokens and the candidate whose uprobe fired.  Connections, and the  *)
(* events channel that NetRequest events share with them, are NetProbe's.  *)
(***************************************************************************)
EXTENDS Http1, FiniteSets, SequencesExt

CONSTANTS
    Tids,          \* task ids
    Root,          \* the agent that watch launches
    Leader,        \* the process that each task is of
    Setups,        \* what prepareTLS may have found and the agent may do, see below
    SSL_CAP_LEN,   \* tokens that a frame holds
    RingMax,       \* frames that ssl_events holds
    ChanMax,       \* capacity of sslCh
    MaxOther,      \* bound: calls of functions other than SSL_write
    MaxWrite,      \* bound: tokens in one call
    MaxFaults,     \* bound: calls whose buffer cannot be read
    None

(* A captured call: its thread, its tokens, the candidate that captured it.*)
Frames == [tid : Tids, toks : Seq(Tokens), cand : Nat]

(* A setup has the candidates of prepareTLS, in order (the address of      *)
(* SSL_write, of another function, or one where no uprobe fits), or None   *)
(* without content capture, and the requests that each task makes.         *)
ASSUME TlsAssumption ==
    /\ Leader \in [Tids -> Tids] /\ Root \in Tids /\ Leader[Root] = Root
    /\ \A s \in Range(Setups) : s.search = None \/ s.search \in Seq({"right", "other", "bad"})
    /\ \A s \in Range(Setups) : s.script \in [Tids -> Seq(HttpRequests)]
    /\ None \notin Frames
    /\ {SSL_CAP_LEN, RingMax, ChanMax, MaxOther, MaxWrite, MaxFaults} \subseteq Nat

VARIABLES
    alive,     \* live tasks
    pos,       \* how much of its script each task has sent
    others,    \* calls of other functions that were captured
    begin,     \* history: where the capture of a task begins, -1 for nowhere
    gap,       \* history: tasks of which something was not captured as it was sent
    tracked_pids, ssl_events, faulted_reads,    \* the maps of tls.bpf.c
    phase,     \* where watch is
    setup,     \* o.exe and o.tlsCandidates; the scripts of the tasks
    vpc,       \* where Start is
    vi,        \* the candidate it is at
    attached,  \* the candidate at which the uprobe is, 0 for none
    verdict,   \* history: the last candidate judged by a frame, and the frame's
    sslWriteLink,      \* whether the field is set
    validationFrame, tlsActive, tlsReady,
    closed,    \* sslReader is closed
    feed,      \* where sslFeed is
    sslCh,
    pending,   \* what correlate has of each task
    handled    \* history: the requests handed to emitNetRequest, of tasks without gap

worldVars == <<alive, pos, others, begin, gap>>
probeVars == <<tracked_pids, ssl_events, faulted_reads>>
startVars == <<setup, vpc, vi, attached, verdict, sslWriteLink, validationFrame, tlsActive, tlsReady>>
goVars == <<feed, sslCh, pending, handled>>
vars == <<worldVars, probeVars, startVars, goVars, phase, closed>>

(* What the tasks send, and where their requests begin: request i is all   *)
(* from Marks(t)[i] + 1 to Marks(t)[i + 1].                                *)
Wires(s, t, i) == FlattenSeq([j \in 1..i |-> Wire(s.script[t][j])])
SentBy == [n \in DOMAIN Setups |-> [t \in Tids |-> Wires(Setups[n], t, Len(Setups[n].script[t]))]]
MarksOf == [n \in DOMAIN Setups |-> [t \in Tids |->
              [i \in 1..(Len(Setups[n].script[t]) + 1) |-> Len(Wires(Setups[n], t, i - 1))]]]
Search == Setups[setup].search
Script(t) == Setups[setup].script[t]
Sent(t) == SentBy[setup][t]
Marks(t) == MarksOf[setup][t]

Frame(t, toks) == [tid |-> t, toks |-> toks, cand |-> attached]

Init ==
    /\ alive = {Root} /\ pos = [t \in Tids |-> 0] /\ others = 0
    /\ begin = [t \in Tids |-> -1] /\ gap = {}
    /\ tracked_pids = {} /\ ssl_events = <<>> /\ faulted_reads = 0
    /\ phase = "launched" /\ closed = FALSE
    /\ setup \in DOMAIN Setups
    /\ vpc = "off" /\ vi = 1 /\ attached = 0 /\ verdict = <<0, 0>>
    /\ sslWriteLink = FALSE /\ validationFrame = None /\ tlsActive = FALSE /\ tlsReady = FALSE
    /\ feed = "wait" /\ sslCh = <<>>
    /\ pending = [t \in Tids |-> <<>>]
    /\ handled = [t \in Tids |-> <<>>]

-----------------------------------------------------------------------------
(* The eBPF programs.                                                      *)

(* bpf_ringbuf_output fails, unnoticed, when the buffer is full.           *)
Output(f) ==
    ssl_events' = IF Len(ssl_events) < RingMax THEN Append(ssl_events, f) ELSE ssl_events

Capped(toks) == IF Len(toks) > SSL_CAP_LEN THEN SubSeq(toks, 1, SSL_CAP_LEN) ELSE toks

(* A call that runs into the uprobe; toks is not empty.                    *)
probe_ssl_write(t, toks, ok) ==
    CASE Leader[t] \notin tracked_pids -> UNCHANGED <<ssl_events, faulted_reads>>
      [] Leader[t] \in tracked_pids /\ ~ok ->
            faulted_reads' = faulted_reads + 1 /\ UNCHANGED ssl_events
      [] OTHER -> Output(Frame(t, Capped(toks))) /\ UNCHANGED faulted_reads

handle_fork(parent, child) ==
    tracked_pids' = IF Leader[parent] \in tracked_pids THEN tracked_pids \cup {child} ELSE tracked_pids

handle_exit(t) ==
    tracked_pids' = IF Leader[t] = t THEN tracked_pids \ {t} ELSE tracked_pids

-----------------------------------------------------------------------------
(* The agent.  What it does once Stop has closed the readers is read by    *)
(* nobody.                                                                 *)

Watched == phase \in {"launched", "running"}
Kind(i) == IF i = 0 THEN "none" ELSE Search[i]

(* The call makes a frame; the frame has all of it.                        *)
Framed(t, ok) == /\ Kind(attached) = "right" /\ Leader[t] \in tracked_pids
                 /\ ok /\ Len(ssl_events) < RingMax
Whole(t, n, ok) == Framed(t, ok) /\ n <= SSL_CAP_LEN

(* The task's stream is no longer known from here on.                      *)
Missed(ts) ==
    /\ gap' = gap \cup ts
    /\ begin' = [t \in Tids |-> IF t \in ts THEN -1 ELSE begin[t]]
    /\ handled' = [t \in Tids |-> IF t \in ts THEN <<>> ELSE handled[t]]

Begins(t) ==
    /\ begin' = [begin EXCEPT ![t] = IF @ = -1 /\ t \notin gap THEN pos[t] ELSE @]
    /\ UNCHANGED <<gap, handled>>

SslWrite(t, n, ok) ==
    /\ Watched /\ t \in alive
    /\ pos[t] + n <= Len(Sent(t))
    /\ ~ok => faulted_reads < MaxFaults
    /\ pos' = [pos EXCEPT ![t] = @ + n]
    /\ IF Whole(t, n, ok)
       THEN IF begin[t] = -1 /\ pos[t] \notin Range(Marks(t)) THEN Missed({t}) ELSE Begins(t)
       ELSE Missed(IF begin[t] # -1 \/ Framed(t, ok) THEN {t} ELSE {})
    /\ IF Kind(attached) = "right" THEN probe_ssl_write(t, SubSeq(Sent(t), pos[t] + 1, pos[t] + n), ok)
       ELSE UNCHANGED <<ssl_events, faulted_reads>>
    /\ UNCHANGED <<alive, others, tracked_pids, startVars, feed, sslCh, pending, phase, closed>>

(* A call of the function at a wrong candidate.                            *)
OtherCall(t) ==
    /\ Watched /\ t \in alive /\ Kind(attached) = "other" /\ others < MaxOther
    /\ others' = others + 1
    /\ Missed({t})
    /\ probe_ssl_write(t, <<Token("junk", 0, 0)>>, TRUE)
    /\ UNCHANGED <<alive, pos, tracked_pids, startVars, feed, sslCh, pending, phase, closed>>

Fork(t, c) ==
    /\ Watched /\ t \in alive /\ c \notin alive /\ pos[c] = 0
    /\ Leader[c] \in {c, Leader[t]}
    /\ alive' = alive \cup {c}
    /\ handle_fork(t, c)
    /\ UNCHANGED <<pos, others, begin, gap, ssl_events, faulted_reads, startVars, goVars, phase, closed>>

TaskExit(t) ==
    /\ Watched /\ t \in alive
    /\ alive' = alive \ {t}
    /\ handle_exit(t)
    /\ UNCHANGED <<pos, others, begin, gap, ssl_events, faulted_reads, startVars, goVars, phase, closed>>

Agent == \E t \in Tids : \/ \E n \in 1..MaxWrite, ok \in BOOLEAN : SslWrite(t, n, ok)
                         \/ OtherCall(t)
                         \/ \E c \in Tids : Fork(t, c)
                         \/ TaskExit(t)

-----------------------------------------------------------------------------
(* Start, in its own goroutine: attachAndValidateTLS, and close(tlsReady). *)

(* startNet: TrackPID, which may fail, and go Start.                       *)
StartNet(ok) ==
    /\ phase = "launched"
    /\ phase' = "running"
    /\ tracked_pids' = IF ok THEN tracked_pids \cup {Root} ELSE tracked_pids
    /\ vpc' = IF Search = None THEN "done" ELSE "next"
    /\ UNCHANGED <<worldVars, ssl_events, faulted_reads, setup, vi, attached, verdict,
                   sslWriteLink, validationFrame, tlsActive, tlsReady, goVars, closed>>

(* exe.Uprobe at the next candidate; a bad address is passed over.         *)
Attach ==
    /\ vpc = "next" /\ vi <= Len(Search)
    /\ IF Search[vi] = "bad" THEN vi' = vi + 1 /\ UNCHANGED <<vpc, attached>>
       ELSE attached' = vi /\ vpc' = "read" /\ UNCHANGED vi
    /\ UNCHANGED <<worldVars, probeVars, setup, verdict, sslWriteLink, validationFrame,
                   tlsActive, tlsReady, goVars, phase, closed>>

(* validateSSLWriteCandidate: the first frame decides.                     *)
Judge ==
    /\ vpc = "read" /\ ssl_events # <<>> /\ ~closed
    /\ LET f == Head(ssl_events)
           ok == LooksLikeRequest(f.toks)
       IN /\ verdict' = <<vi, f.cand>>
          /\ vpc' = IF ok THEN "store" ELSE "detach"
          /\ sslWriteLink' = ok
          /\ validationFrame' = IF ok THEN f ELSE None
          /\ Missed(IF ok THEN {} ELSE {f.tid})
    /\ ssl_events' = Tail(ssl_events)
    /\ UNCHANGED <<alive, pos, others, tracked_pids, faulted_reads, setup, vi, attached,
                   tlsActive, tlsReady, feed, sslCh, pending, phase, closed>>

(* No frame by the deadline, or Stop has closed the reader.                *)
NoFrame ==
    /\ vpc = "read" /\ (ssl_events = <<>> \/ closed)
    /\ vpc' = "detach"
    /\ UNCHANGED <<worldVars, probeVars, setup, vi, attached, verdict, sslWriteLink,
                   validationFrame, tlsActive, tlsReady, goVars, phase, closed>>

Detach ==
    /\ vpc = "detach"
    /\ attached' = 0
    /\ vi' = vi + 1 /\ vpc' = "next"
    /\ UNCHANGED <<worldVars, probeVars, setup, verdict, sslWriteLink,
                   validationFrame, tlsActive, tlsReady, goVars, phase, closed>>

(* No candidate validated: o.tlsAttachErr is set, the reader closed.       *)
Fail ==
    /\ vpc = "next" /\ vi > Len(Search)
    /\ vpc' = "done" /\ closed' = TRUE
    /\ UNCHANGED <<worldVars, probeVars, setup, vi, attached, verdict, sslWriteLink,
                   validationFrame, tlsActive, tlsReady, goVars, phase>>

(* The candidate is kept, and goes to the cache.                           *)
Store ==
    /\ vpc = "store"
    /\ vpc' = "done" /\ tlsActive' = TRUE
    /\ UNCHANGED <<worldVars, probeVars, setup, vi, attached, verdict, sslWriteLink,
                   validationFrame, tlsReady, goVars, phase, closed>>

(* A bug: only a search that succeeds says so.                             *)
ReadyIfActive ==
    /\ vpc = "done" /\ ~tlsReady /\ tlsActive
    /\ tlsReady' = TRUE
    /\ UNCHANGED <<worldVars, probeVars, setup, vpc, vi, attached, verdict, sslWriteLink,
                   validationFrame, tlsActive, goVars, phase, closed>>

(* close(o.tlsReady)                                                       *)
Ready ==
    /\ vpc = "done" /\ ~tlsReady
    /\ tlsReady' = TRUE
    /\ UNCHANGED <<worldVars, probeVars, setup, vpc, vi, attached, verdict, sslWriteLink,
                   validationFrame, tlsActive, goVars, phase, closed>>

Start == Attach \/ Judge \/ NoFrame \/ Detach \/ Fail \/ Store \/ Ready

-----------------------------------------------------------------------------
(* sslFeed and correlate.                                                  *)

(* A bug: sslFeed looks at tlsActive before Start is done with it.         *)
ReadyAtOnce == phase # "launched"

(* <-o.tlsReady                                                            *)
ReadyClosed == tlsReady

(* With no content capture there is nothing to do.                         *)
FeedStarts ==
    /\ feed = "wait" /\ ReadyClosed
    /\ feed' = IF tlsActive THEN "replay" ELSE "ended"
    /\ UNCHANGED <<worldVars, probeVars, startVars, sslCh, pending, handled, phase, closed>>

(* A bug: the frame that the search has read is not handed on.             *)
FeedReplaysNothing ==
    /\ feed = "replay" /\ feed' = "read" /\ validationFrame' = None
    /\ UNCHANGED <<worldVars, probeVars, setup, vpc, vi, attached, verdict, sslWriteLink,
                   tlsActive, tlsReady, sslCh, pending, handled, phase, closed>>

(* The frame that the search has read goes first.                          *)
FeedReplays ==
    /\ feed = "replay" /\ Len(sslCh) < ChanMax
    /\ sslCh' = Append(sslCh, validationFrame)
    /\ validationFrame' = None
    /\ feed' = "read"
    /\ UNCHANGED <<worldVars, probeVars, setup, vpc, vi, attached, verdict, sslWriteLink,
                   tlsActive, tlsReady, pending, handled, phase, closed>>

FeedReads ==
    /\ feed = "read" /\ ~closed /\ ssl_events # <<>> /\ Len(sslCh) < ChanMax
    /\ sslCh' = Append(sslCh, Head(ssl_events))
    /\ ssl_events' = Tail(ssl_events)
    /\ UNCHANGED <<worldVars, tracked_pids, faulted_reads, startVars, feed, pending,
                   handled, phase, closed>>

FeedEnds ==
    /\ feed = "read" /\ closed
    /\ feed' = "ended"
    /\ UNCHANGED <<worldVars, probeVars, startVars, sslCh, pending, handled, phase, closed>>

(* A bug: one request is taken from a frame.                               *)
RequestsOne(s) ==
    LET p == ParseHTTP1(s)
    IN IF p.st = "ok" THEN [reqs |-> <<p.req>>, rest |-> SubSeq(s, p.n + 1, Len(s))]
       ELSE [reqs |-> <<>>, rest |-> IF p.st = "more" THEN s ELSE <<>>]

(* The requests in s from i on, where after is those behind i.             *)
RequestsFrom(s, after, i) ==
    LET p == ParseHTTP1(SubSeq(s, i + 1, Len(s)))
    IN CASE p.st = "more" -> [reqs |-> <<>>, rest |-> SubSeq(s, i + 1, Len(s))]
         [] p.st = "malformed" -> [reqs |-> <<>>, rest |-> <<>>]
         [] p.st = "ok" -> [reqs |-> <<p.req>> \o after[i + p.n].reqs, rest |-> after[i + p.n].rest]

(* All requests at the front of s; what is malformed is given up.          *)
Requests(s) ==
    LET after[i \in 0..Len(s)] == RequestsFrom(s, after, i) IN after[0]

(* handleSSLFrame; the requests go to emitNetRequest.                      *)
HandleFrame ==
    /\ sslCh # <<>>
    /\ sslCh' = Tail(sslCh)
    /\ LET t == Head(sslCh).tid
           r == Requests(pending[t] \o Head(sslCh).toks)
       IN /\ pending' = [pending EXCEPT ![t] = r.rest]
          /\ handled' = IF t \in gap THEN handled ELSE [handled EXCEPT ![t] = @ \o r.reqs]
    /\ UNCHANGED <<worldVars, probeVars, startVars, feed, phase, closed>>

-----------------------------------------------------------------------------
(* Stop: the reader is closed, correlate ends after sslFeed, and then the  *)
(* links are closed.                                                       *)
StopReader ==
    /\ phase = "running"
    /\ phase' = "stopping" /\ closed' = TRUE
    /\ UNCHANGED <<worldVars, probeVars, startVars, goVars>>

Stopped ==
    /\ phase = "stopping" /\ feed = "ended" /\ sslCh = <<>>
    /\ phase' = "stopped"
    /\ attached' = IF sslWriteLink THEN 0 ELSE attached
    /\ UNCHANGED <<worldVars, probeVars, setup, vpc, vi, verdict, sslWriteLink, validationFrame,
                   tlsActive, tlsReady, goVars, closed>>

Feed == FeedStarts \/ FeedReplays \/ FeedReads \/ FeedEnds

Next == \/ Agent
        \/ \E ok \in BOOLEAN : StartNet(ok)
        \/ Start \/ Feed \/ HandleFrame
        \/ StopReader \/ Stopped

(* The goroutines keep running, and a deadline passes.  Only HandleFrame   *)
(* takes a frame from sslCh.                                               *)
TakesFrame == sslCh # <<>> /\ sslCh' = Tail(sslCh)

Spec == /\ Init /\ [][Next]_vars
        /\ WF_vars(Start) /\ WF_vars(Feed) /\ WF_sslCh(TakesFrame) /\ WF_vars(Stopped)
-----------------------------------------------------------------------------
(* Properties.                                                             *)

FirstRequest(t) == CHOOSE i \in DOMAIN Marks(t) : Marks(t)[i] = begin[t]
Gapless(t) == begin[t] # -1 /\ t \notin gap

(* What has been captured of t and not been seen by correlate yet.         *)
Captured(fs, t) == FlattenSeq([i \in DOMAIN fs |-> IF fs[i].tid = t THEN fs[i].toks ELSE <<>>])
Underway(t) ==
    Captured(sslCh \o (IF validationFrame = None THEN <<>> ELSE <<validationFrame>>) \o ssl_events, t)

(* The types of the variables: what is captured, queued or kept is tokens. *)
TypeOK ==
    /\ alive \subseteq Tids /\ gap \subseteq Tids /\ tracked_pids \subseteq Tids
    /\ \A t \in Tids : pos[t] \in 0..Len(Sent(t)) /\ begin[t] \in -1..pos[t]
    /\ ssl_events \in Seq(Frames) /\ Len(ssl_events) <= RingMax
    /\ sslCh \in Seq(Frames) /\ Len(sslCh) <= ChanMax
    /\ validationFrame \in Frames \cup {None} /\ pending \in [Tids -> Seq(Tokens)]
    /\ phase \in {"launched", "running", "stopping", "stopped"}
    /\ vpc \in {"off", "next", "read", "detach", "store", "done"}
    /\ feed \in {"wait", "replay", "read", "ended"}
    /\ attached \in {0, vi} /\ {closed, tlsActive, tlsReady, sslWriteLink} \subseteq BOOLEAN

(* handleSSLFrame's comment: an event for every complete HTTP/1.1 request. *)
(* However a thread cuts its requests into calls, and whichever frame the  *)
(* search has read, the requests handled are those that the thread made,   *)
(* in order and with their own bodies, and the rest of what was captured   *)
(* of it is kept in order.  No request that has arrived whole is kept back *)
(* until more arrives.                                                     *)
StreamFaithful ==
    \A t \in Tids : Gapless(t) =>
        LET first == FirstRequest(t)
            k == Len(handled[t])
        IN /\ first + k <= Len(Marks(t))
           /\ handled[t] = [i \in 1..k |-> Reference(Script(t)[first + i - 1])]
           /\ pending[t] \o Underway(t) = SubSeq(Sent(t), Marks(t)[first + k] + 1, pos[t])
           /\ first + k < Len(Marks(t)) =>
                  Len(pending[t]) < Marks(t)[first + k + 1] - Marks(t)[first + k]

(* Stop's comment: it releases all resources.  Once it has returned no     *)
(* uprobe is attached, although Start may still have been searching.       *)
StopDetaches == phase = "stopped" => attached = 0

(* Stop returns, also while Start is searching and after its failure.      *)
StopEnds == phase = "stopping" ~> phase = "stopped"

(* A request of which everything was captured waits to be handled.         *)
Owed(t) ==
    Gapless(t) /\ \E i \in DOMAIN Script(t) :
        /\ begin[t] <= Marks(t)[i] /\ pos[t] >= Marks(t)[i + 1]
        /\ \A r \in Range(handled[t]) : r.line # Script(t)[i].id

(* It is handled in the end, without waiting for what its thread may send  *)
(* after it, unless the search fails or Stop comes first.  Scripts end, so *)
(* that there is a time when no request waits.                             *)
RequestsSettle == (\E t \in Tids : Owed(t)) ~> ((\A t \in Tids : ~Owed(t)) \/ closed)

(* attachAndValidateTLS's comment: a candidate is kept if its first        *)
(* captured frame looks like a request.  The frame that decides over a     *)
(* candidate was captured at that candidate.                               *)
OwnFrame == verdict[1] = verdict[2]
=============================================================================
