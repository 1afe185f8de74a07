----------------------------- MODULE FsObserver -----------------------------
(***************************************************************************)
(* pkg/probe/fs.Observer: the readLoop goroutine, with the settle logic    *)
(* that decides when the content of a closed file may be hashed, the       *)
(* shadow hashes reported at opens, the suppression of the observer's own  *)
(* opens, and Stop.                                                        *)
(*                                                                         *)
(* A hash is the content it is the digest of.  The time since a path's     *)
(* lastWriteAt is age, in ticks up to Settle (settleDelay).  The events    *)
(* channel is the set emitted of all that was ever sent, and the number of *)
(* closes among it: watch reads the channel until Stop closes it, and      *)
(* sorts what it read.                                                     *)
(***************************************************************************)
EXTENDS FsWorld, Functions

CONSTANTS
    Settle,      \* settleDelay, in ticks
    HashErrors,  \* how a hash can fail: "open", "read" or neither
    PollErrors,  \* whether readLoop's poll can fail, otherwise than with EINTR
    Stopping     \* whether Stop may be called

Entries == [id : Nat, ino : Inodes \cup {None}, at : Nat]
Jobs == [path : Names, ino : Inodes \cup {None}, at : Nat, link : Names \cup {Gone, None},
         digest : Nat \cup {None}, failed : BOOLEAN, hurdles : SUBSET {"call", "rename"}]

ASSUME ObserverAssumption ==
    /\ Settle \in Nat \ {0} /\ HashErrors \subseteq {"open", "read"}
    /\ {PollErrors, Stopping} \subseteq BOOLEAN
    /\ None \notin Entries \cup Jobs

VARIABLES
    pc,          \* where readLoop is
    ret,         \* where drainNonBlocking returns to
    batch,       \* the events of the last read that are not processed yet
    readAge,     \* ticks since that read: its events carry its time
    pending,     \* pendingCloses: per name, None or the close to judge
    before, todo,         \* resolveSettled: its snapshot, the names left
    force,                \* its flag: not set, or what set it, Stop or a failed poll
    job,         \* hashSettledFD: the close being hashed
    bumped,      \* the names whose pathGeneration grew since job noted it
    age,         \* time since lastWriteAt
    holds,       \* pendingHashOpens
    shadow, shadowIno,    \* shadowHashes, shadowHashesByInode
    overflow,    \* FAN_Q_OVERFLOW was seen
    stopReq,     \* the stop pipe is readable
    regs,        \* closes registered so far; also the identity of an entry
    sent,        \* closes sent on the events channel
    emitted      \* all that was sent on it, without order

obsVars == <<pc, ret, batch, readAge, pending, before, todo, force, job, bumped, age,
             holds, shadow, shadowIno, overflow, stopReq, regs, sent, emitted>>
vars == <<worldVars, obsVars>>

settleVars == <<before, todo, force>>
shadowVars == <<shadow, shadowIno>>

(* An emitted event.  As history, ref is what its hash should be, and      *)
(* hurdles what got in the way of the read: "stop" (the loop was ending),  *)
(* "call" (a system call was in progress), "rename" (the file had been     *)
(* renamed).                                                               *)
Emission(t, p, h, ref, own, hurdles) ==
    [type |-> t, path |-> p, hash |-> h, ref |-> ref, own |-> own, hurdles |-> hurdles]

Cap(n) == IF n < Settle THEN n ELSE Settle

Init ==
    /\ WorldInit
    /\ pc = "start" /\ ret = "resolve" /\ batch = <<>> /\ readAge = 0
    /\ pending = [n \in Names |-> None]
    /\ before = pending /\ todo = {} /\ force = "no" /\ job = None
    /\ bumped = {}
    /\ age = [n \in Names |-> Settle]
    /\ holds = [n \in Names \cup {Gone} |-> 0]
    /\ shadow = [n \in Names |-> None]
    /\ shadowIno = [i \in Inodes |-> None]
    /\ overflow = FALSE /\ stopReq = FALSE /\ regs = 0 /\ sent = 0 /\ emitted = {}

(* An open of path p that the observer itself makes, as fanotify sees it.  *)
OwnOpen(p, i) == [Event(p, i, {"open"}, 0) EXCEPT !.own = TRUE]

(* Start: New has marked the filesystem already, so the opens of the walk  *)
(* that fills the shadow hashes are queued like any other, in the order of *)
(* the walk.  They are the first events, no two of one file.               *)
Start ==
    /\ pc = "start"
    /\ LET found == {p \in Paths : ino[p] # None}
       IN /\ shadow' = [n \in Names |-> IF n \in found THEN content[ino[n]] ELSE None]
          /\ shadowIno' = [i \in Inodes |-> IF i \in Linked THEN content[i] ELSE None]
          /\ \E walk \in Bijection(1..Cardinality(found), found) :
               LET opens == [n \in DOMAIN walk |-> OwnOpen(walk[n], ino[walk[n]])]
               IN queue' = IF Len(opens) <= QueueMax THEN opens
                           ELSE Append(SubSeq(opens, 1, QueueMax), Overflow)
    /\ pc' = "poll"
    /\ UNCHANGED <<ino, content, wr, inflight, revisions, moved, ops, fresh,
                   ret, batch, readAge, pending, settleVars, job, bumped, age, holds,
                   overflow, stopReq, regs, sent, emitted>>

(* A bug: the queue is looked at first.                                    *)
PollQueueFirst ==
    /\ pc = "poll"
    /\ before' = pending
    /\ todo' = {n \in Names : pending[n] # None}
    /\ force' = IF stopReq /\ queue = <<>> THEN "stop" ELSE "no"
    /\ pc' = IF queue # <<>> THEN "drain" ELSE "resolve"
    /\ ret' = "resolve"
    /\ UNCHANGED <<worldVars, batch, readAge, pending, job, bumped, age, holds,
                   shadowVars, overflow, stopReq, regs, sent, emitted>>

(* readLoop's poll: the stop pipe is looked at first, and then every       *)
(* pending close is flushed without another look at the queue.             *)
Poll ==
    /\ pc = "poll"
    /\ before' = pending
    /\ todo' = {n \in Names : pending[n] # None}
    /\ force' = IF stopReq THEN "stop" ELSE "no"
    /\ pc' = IF ~stopReq /\ queue # <<>> THEN "drain" ELSE "resolve"
    /\ ret' = "resolve"
    /\ UNCHANGED <<worldVars, batch, readAge, pending, job, bumped, age, holds,
                   shadowVars, overflow, stopReq, regs, sent, emitted>>

(* Its failure ends the loop as Stop does, except that the drains of the   *)
(* flush still read the queue.                                             *)
PollFails ==
    /\ pc = "poll" /\ PollErrors
    /\ before' = pending
    /\ todo' = {n \in Names : pending[n] # None}
    /\ force' = "error"
    /\ pc' = "resolve"
    /\ UNCHANGED <<worldVars, ret, batch, readAge, pending, job, bumped, age, holds,
                   shadowVars, overflow, stopReq, regs, sent, emitted>>

(* drainNonBlocking: one read takes all that is queued.                    *)
DrainRead ==
    /\ pc = "drain" /\ batch = <<>>
    /\ ~stopReq /\ queue # <<>>
    /\ batch' = queue /\ queue' = <<>> /\ readAge' = 0
    /\ UNCHANGED <<ino, content, wr, inflight, revisions, moved, ops, fresh,
                   pc, ret, pending, settleVars, job, bumped, age, holds, shadowVars,
                   overflow, stopReq, regs, sent, emitted>>

DrainDone ==
    /\ pc = "drain" /\ batch = <<>>
    /\ stopReq \/ queue = <<>>
    /\ pc' = ret /\ readAge' = 0
    /\ UNCHANGED <<worldVars, ret, batch, pending, settleVars, job, bumped, age,
                   holds, shadowVars, overflow, stopReq, regs, sent, emitted>>

-----------------------------------------------------------------------------
(* processRawEvent.                                                        *)

WriteClass == {"create", "modify", "close", "open"}

(* The observer's own hash read, announced.                                *)
Suppressed(e) == e.own /\ "open" \in e.mask /\ holds[e.path] > 0

(* The hash reported at an open: by path, else by inode, else the hash of  *)
(* the empty file.                                                         *)
HitByInode(e) == shadow[e.path] = None /\ e.ino \in Linked /\ shadowIno[e.ino] # None

lookupShadowHash(e) ==
    CASE shadow[e.path] # None -> shadow[e.path]
      [] HitByInode(e) -> shadowIno[e.ino]
      [] OTHER -> 0

(* A bug: a close that is superseded is forgotten.                         *)
SupersededDropped(n) == {}

(* registerClose emits a close that was pending, without a hash.           *)
Superseded(n) ==
    IF pending[n] = None THEN {}
    ELSE {Emission("close", n, None, pending[n].at, FALSE, {})}

(* What one record emits: maskToActionTypes.                               *)
Emissions(e, mask) ==
    LET when(bits, out) == IF mask \cap bits = {} THEN {} ELSE out
        plain(t) == {Emission(t, e.path, None, None, e.own, {})}
    IN when({"create", "modify"}, plain("write"))
          \cup when({"close"}, Superseded(e.path))
          \cup when({"delete"}, plain("delete"))
          \cup when({"movedFrom", "movedTo"}, plain("rename"))
          \cup when({"open"}, {Emission("open", e.path, lookupShadowHash(e), None, e.own, {})})

(* A bug: an entry is given the identity of the one before it.             *)
PendingCloseReused(e) ==
    [id |-> regs, ino |-> IF e.ino \in Linked THEN e.ino ELSE None, at |-> e.at]

(* The entry registerClose allocates; a file that is gone cannot be opened *)
(* by its handle.                                                          *)
PendingClose(e) ==
    [id |-> regs + 1, ino |-> IF e.ino \in Linked THEN e.ino ELSE None, at |-> e.at]

Process ==
    /\ pc = "drain" /\ batch # <<>>
    /\ batch' = Tail(batch)
    /\ LET e == Head(batch)
           mask == IF Suppressed(e) THEN e.mask \ {"open"} ELSE e.mask
       IN /\ overflow' = (overflow \/ e = Overflow)
          /\ holds' = IF Suppressed(e) THEN [holds EXCEPT ![e.path] = @ - 1] ELSE holds
          /\ IF mask \cap WriteClass # {}
             THEN /\ bumped' = IF job = None THEN bumped ELSE bumped \cup {e.path}
                  /\ age' = [age EXCEPT ![e.path] = readAge]
             ELSE UNCHANGED <<bumped, age>>
          /\ emitted' = emitted \cup Emissions(e, mask)
          /\ IF "close" \in mask
             THEN /\ pending' = [pending EXCEPT ![e.path] = PendingClose(e)]
                  /\ regs' = regs + 1
                  /\ sent' = sent + Cardinality(Superseded(e.path))
             ELSE UNCHANGED <<pending, regs, sent>>
          /\ shadow' = IF "open" \in mask /\ HitByInode(e)
                       THEN [shadow EXCEPT ![e.path] = shadowIno[e.ino]] ELSE shadow
    /\ UNCHANGED <<worldVars, pc, ret, readAge, settleVars, job, shadowIno, stopReq>>

-----------------------------------------------------------------------------
(* resolveSettled and hashSettledFD.                                       *)

(* Bugs: the quiet window is not waited for; && stands for ||.             *)
QuietAlways(n) == TRUE
QuietAtStop(n) == force # "no" /\ age[n] >= Settle

Quiet(n) == force # "no" \/ age[n] >= Settle

(* The entry of the snapshot is still the current one.                     *)
Settled(n) == pending[n] # None /\ pending[n] = before[n]

SkipUnsettled(n) ==
    /\ pc = "resolve" /\ n \in todo
    /\ ~(Settled(n) /\ Quiet(n))
    /\ todo' = todo \ {n}
    /\ UNCHANGED <<worldVars, pc, ret, batch, readAge, pending, before, force, job, bumped,
                   age, holds, shadowVars, overflow, stopReq, regs, sent, emitted>>

(* The entry leaves pendingCloses; hashSettledFD notes the generation.     *)
TakeSettled(n) ==
    /\ pc = "resolve" /\ n \in todo
    /\ Settled(n) /\ Quiet(n)
    /\ todo' = todo \ {n}
    /\ pending' = [pending EXCEPT ![n] = None]
    /\ job' = [path |-> n, ino |-> pending[n].ino, at |-> pending[n].at,
               link |-> None, digest |-> None, failed |-> FALSE, hurdles |-> {}]
    /\ bumped' = {}
    /\ pc' = "hash"
    /\ UNCHANGED <<worldVars, ret, batch, readAge, before, force, age, holds,
                   shadowVars, overflow, stopReq, regs, sent, emitted>>

ResolveDone ==
    /\ pc = "resolve" /\ todo = {}
    /\ pc' = IF force = "no" THEN "poll" ELSE "stopped"
    /\ before' = [n \in Names |-> None]
    /\ UNCHANGED <<worldVars, ret, batch, readAge, pending, todo, force, job, bumped, age,
                   holds, shadowVars, overflow, stopReq, regs, sent, emitted>>

(* No descriptor was kept at the close: nothing to hash.                   *)
HashNoFD ==
    /\ pc = "hash" /\ job.ino = None
    /\ job' = [job EXCEPT !.failed = TRUE]
    /\ pc' = "drain" /\ ret' = "check"
    /\ UNCHANGED <<worldVars, batch, readAge, pending, settleVars, bumped, age, holds,
                   shadowVars, overflow, stopReq, regs, sent, emitted>>

(* A bug: the own open is not counted.                                     *)
HashLinkUncounted ==
    /\ pc = "hash" /\ job.ino # None
    /\ job' = [job EXCEPT !.link = NameOf(job.ino)]
    /\ pc' = "open"
    /\ UNCHANGED <<worldVars, ret, batch, readAge, pending, settleVars, bumped, age, holds,
                   shadowVars, overflow, stopReq, regs, sent, emitted>>

(* Readlink: the name under which the own open will be announced.          *)
HashLink ==
    /\ pc = "hash" /\ job.ino # None
    /\ LET link == NameOf(job.ino)
       IN /\ job' = [job EXCEPT !.link = link]
          /\ holds' = [holds EXCEPT ![link] = @ + 1]
    /\ pc' = "open"
    /\ UNCHANGED <<worldVars, ret, batch, readAge, pending, settleVars, bumped, age,
                   shadowVars, overflow, stopReq, regs, sent, emitted>>

(* The open through /proc/self/fd.  It is announced under the file's name  *)
(* of this moment; an unlinked file's under its last name, if at all.      *)
HashOpen ==
    /\ pc = "open"
    /\ LET name == NameOf(job.ino)
       IN \/ /\ name # Gone
             /\ queue' = Enqueue(queue, OwnOpen(name, job.ino))
          \/ /\ name = Gone
             /\ queue' \in {queue, Enqueue(queue, OwnOpen(job.path, job.ino))}
    /\ pc' = "read"
    /\ UNCHANGED <<ino, content, wr, inflight, revisions, moved, ops, fresh, ret, batch, readAge,
                   pending, settleVars, job, bumped, age, holds, shadowVars, overflow,
                   stopReq, regs, sent, emitted>>

HashOpenFails ==
    /\ pc = "open" /\ "open" \in HashErrors
    /\ job' = [job EXCEPT !.failed = TRUE]
    /\ pc' = "drain" /\ ret' = "check"
    /\ UNCHANGED <<worldVars, batch, readAge, pending, settleVars, bumped, age, holds,
                   shadowVars, overflow, stopReq, regs, sent, emitted>>

HashRead ==
    /\ pc = "read"
    /\ \/ job' = [job EXCEPT !.digest = content[job.ino],
                                !.hurdles = (IF inflight # <<>> THEN {"call"} ELSE {})
                                    \cup (IF job.ino \in moved THEN {"rename"} ELSE {})]
       \/ "read" \in HashErrors /\ job' = [job EXCEPT !.failed = TRUE]
    /\ pc' = "drain" /\ ret' = "check"
    /\ UNCHANGED <<worldVars, batch, readAge, pending, settleVars, bumped, age, holds,
                   shadowVars, overflow, stopReq, regs, sent, emitted>>

(* A bug: the generation is not compared.                                  *)
RacedNever == FALSE

Raced == job.path \in bumped

(* Stop has been called, or poll has failed.                               *)
Ending == stopReq \/ force # "no"

(* After the catch-up drain: publish the hash, or the close without it.    *)
HashCheck ==
    /\ pc = "check"
    /\ LET ok == ~job.failed /\ ~Raced
       IN /\ emitted' = emitted \cup
                {Emission("close", job.path, IF ok THEN job.digest ELSE None, job.at,
                          FALSE, job.hurdles \cup (IF Ending THEN {"stop"} ELSE {}))}
          /\ sent' = sent + 1
          /\ shadow' = IF ok THEN [shadow EXCEPT ![job.path] = job.digest] ELSE shadow
          /\ shadowIno' = IF ok THEN [shadowIno EXCEPT ![job.ino] = job.digest] ELSE shadowIno
          /\ holds' = IF job.failed /\ job.link # None
                      THEN [holds EXCEPT ![job.link] = @ - 1] ELSE holds
    /\ job' = None /\ bumped' = {}
    /\ pc' = "resolve"
    /\ UNCHANGED <<worldVars, ret, batch, readAge, pending, settleVars, age,
                   overflow, stopReq, regs>>

-----------------------------------------------------------------------------

(* Stop writes to the pipe and waits for readLoop.                         *)
Stop ==
    /\ Stopping /\ pc # "start" /\ ~stopReq
    /\ stopReq' = TRUE
    /\ UNCHANGED <<worldVars, pc, ret, batch, readAge, pending, settleVars, job, bumped, age,
                   holds, shadowVars, overflow, regs, sent, emitted>>

(* Time passes, but not within a burst of a fast writer.                   *)
Tick ==
    /\ FastWriter => wr = None /\ inflight = <<>>
    /\ age' = [n \in Names |-> Cap(age[n] + 1)]
    /\ readAge' = IF batch = <<>> THEN 0 ELSE Cap(readAge + 1)
    /\ <<age', readAge'>> # <<age, readAge>>
    /\ UNCHANGED <<worldVars, pc, ret, batch, pending, settleVars, job, bumped, holds,
                   shadowVars, overflow, stopReq, regs, sent, emitted>>

(* The inodes that descriptors of the agent and of the observer keep; the  *)
(* handle of a queued event never opens a later file of the same number.   *)
Held == {pending[n].ino : n \in {n \in Names : pending[n] # None}}
          \cup (IF job # None THEN {job.ino} ELSE {})
          \cup (IF wr # None THEN {wr.ino} ELSE {})
          \cup {e.ino : e \in Range(queue) \cup Range(batch)}

(* watch runs the agent after Start has returned.                          *)
World == pc # "start" /\ (Agent(Held) \/ Notify) /\ UNCHANGED obsVars

ReadLoop ==
    \/ Poll \/ PollFails \/ DrainRead \/ DrainDone \/ Process
    \/ \E n \in Names : SkipUnsettled(n) \/ TakeSettled(n)
    \/ ResolveDone \/ HashNoFD \/ HashLink \/ HashOpen \/ HashOpenFails \/ HashRead \/ HashCheck

Next == Start \/ ReadLoop \/ World \/ Stop \/ Tick

(* The goroutine and the kernel keep running, time passes, and a file that *)
(* the agent has open is closed in the end, at its exit at the latest.     *)
Spec == /\ Init /\ [][Next]_vars
        /\ WF_vars(Start \/ ReadLoop)
        /\ WF_vars(Notify /\ UNCHANGED obsVars)
        /\ WF_vars(Tick)
        /\ WF_vars(Close /\ UNCHANGED obsVars)
-----------------------------------------------------------------------------
(* Properties.                                                             *)

(* The kernel has dropped events.                                          *)
Lost == overflow \/ Overflow \in Range(queue) \cup Range(batch)

(* The types of the variables.                                             *)
TypeOK ==
    /\ WorldTypeOK
    /\ pc \in {"start", "poll", "drain", "resolve", "hash", "open", "read", "check", "stopped"}
    /\ ret \in {"resolve", "check"}
    /\ readAge \in 0..Settle /\ age \in [Names -> 0..Settle]
    /\ pending \in [Names -> Entries \cup {None}]
    /\ \A n \in Names : pending[n] # None => pending[n].id \in 1..regs
    /\ todo \subseteq Names /\ force \in {"no", "stop", "error"}
    /\ {overflow, stopReq} \subseteq BOOLEAN
    /\ batch \in Seq(Events) /\ regs \in Nat /\ sent \in Nat /\ job \in Jobs \cup {None}
    /\ job # None <=> pc \in {"hash", "open", "read", "check"} \/ (pc = "drain" /\ ret = "check")
    /\ bumped \subseteq Names /\ holds \in [Names \cup {Gone} -> Int]

(* An OutputHash published while the probe runs is the digest of what the  *)
(* file held when that close happened, whatever the agent did between the  *)
(* close, the settle window and the read: a rewrite either supersedes the  *)
(* close or is caught by the generation check.  Excused are a system call  *)
(* in progress during the read, a file that was renamed, a queue that      *)
(* overflowed, and the flush that ends the loop.                           *)
HashAtClose ==
    ~Lost => \A e \in emitted :
        e.type = "close" /\ e.hash # None /\ e.hurdles = {} => e.hash = e.ref

(* Every close that registerClose took is emitted exactly once: it is      *)
(* pending, or being hashed, or on the channel; after Stop none is left.   *)
(* (After a failed poll a close that the flush itself reads is.)           *)
ClosesAccounted ==
    LET waiting == {n \in Names : pending[n] # None}
    IN /\ regs = sent + Cardinality(waiting) + (IF job = None THEN 0 ELSE 1)
       /\ pc = "stopped" /\ force = "stop" => waiting = {}

(* The comment of processRawEvent: the observer's own hash-read FAN_OPEN   *)
(* is stripped and never reported as an open by the agent.                 *)
OwnOpensSuppressed ==
    \A e \in emitted : e.type = "open" => ~e.own

(* An OutputHash with exactly these hurdles is the hash of a content that  *)
(* the file was closed with.                                               *)
RevisionDespite(hurdles) ==
    \A e \in emitted :
        e.type = "close" /\ e.hash # None /\ e.hurdles = hurdles => e.hash \in revisions

(* The comments of readLoop and flushPendingCloses: once stopping it is    *)
(* always safe to resolve what is pending.                                 *)
FlushSafe == RevisionDespite({"stop"})

(* The comment of registerClose: an OutputHash reflects the content the    *)
(* file ends up with, also when it has been renamed.                       *)
RenameSafe == RevisionDespite({"rename"})

(* A close does not wait for ever.  Once the agent is done, every close    *)
(* that registerClose took is emitted, also when Stop comes.  Unless Stop  *)
(* comes, which leaves unread what is queued, or the queue overflowed,     *)
(* those are all the closes of the agent: the last one of every file is    *)
(* emitted.  A failed poll ends the loop without either.                   *)
LastCloseEmitted(p) ==
    ino[p] # None => \E e \in emitted : e.type = "close" /\ e.path = p /\ e.ref = content[ino[p]]

ClosesEventuallyEmitted ==
    <>[](force = "error" \/ (regs = sent
                                /\ (stopReq \/ Lost \/ \A p \in Paths : LastCloseEmitted(p))))

(* Stop returns: readLoop sees the pipe and finishes the flush.            *)
StopReturns == stopReq ~> pc = "stopped"
=============================================================================
