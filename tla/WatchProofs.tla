---------------------------- MODULE WatchProofs -----------------------------
(***************************************************************************)
(* Proofs about Watch, for any capacity of the channels, any choice of     *)
(* probes and modes, and any number of events.                             *)
(***************************************************************************)
EXTENDS Watch, TLAPS

Labels == {"build", "start", "launch", "seed", "open", "net", "wait", "reap", "stop",
           "stopfs", "stopnet", "stopproc", "collected", "returned"}

(* The types, with the domains of the functions.                           *)
Types ==
    /\ mode \in {"wrap", "attach", "open"} /\ probes \in SUBSET Probes
    /\ pc \in Labels /\ err \in BOOLEAN /\ sig \in BOOLEAN
    /\ agent \in {"none", "running", "killed", "exited"}
    /\ acts \in 0..MaxActs
    /\ loop \in [Probes -> {"none", "built", "spawned", "running", "closing", "ended", "closed"}]
    /\ collector \in [Probes -> {"none", "running", "ended"}]
    /\ kernel \in [Probes -> Nat] /\ sent \in [Probes -> Nat] /\ dropped \in [Probes -> Nat]
    /\ ground \in [Probes -> Nat]
    /\ inLoop \in [Probes -> 0..InLoop] /\ chan \in [Probes -> 0..EventBufSize]
    /\ written \in [Probes -> Nat \cup {-1}]

(* Every record of a probe is in one place: the kernel's queue, the loop,  *)
(* the channel, the ground truth, or dropped.                              *)
Conserved ==
    \A p \in Probes : /\ sent[p] = chan[p] + ground[p]
                      /\ kernel[p] + inLoop[p] + sent[p] + dropped[p] <= acts

(* A loop holds events only while it runs; a collector that has ended has  *)
(* emptied the channel of a probe whose Stop has returned.                 *)
Drained ==
    \A p \in Probes :
        /\ inLoop[p] > 0 => loop[p] \in {"running", "closing"}
        /\ collector[p] = "ended" => loop[p] = "closed" /\ chan[p] = 0

(* The file is the ground truth of collectors that have all ended.         *)
Filed ==
    \A p \in Probes : written[p] # -1 /\ p \in probes =>
        pc = "returned" /\ collector[p] = "ended" /\ written[p] = ground[p]

(* Where runWatch is tells what has become of the agent.                   *)
Followed ==
    /\ mode # "wrap" => agent = "none"
    /\ pc \in {"launch", "reap"} => mode = "wrap"
    /\ pc \in {"build", "start", "launch"} => agent = "none"
    /\ pc \in {"stop", "stopfs", "stopnet", "stopproc", "collected", "returned"} =>
           agent \in {"none", "exited"}

(* Collectors run for the chosen probes only; once runWatch has returned   *)
(* they have ended, unless none was started.                               *)
Settled ==
    \A p \in Probes :
        /\ pc = "build" => loop[p] = "none"
        /\ pc \in {"build", "start"} => collector[p] = "none"
        /\ p \notin probes => collector[p] = "none"
        /\ pc = "returned" => collector[p] \in {"none", "ended"}

Inv == Types /\ Conserved /\ Drained /\ Filed /\ Followed /\ Settled

-----------------------------------------------------------------------------
(* The invariant holds initially.                                          *)
LEMMA InitInv == Init => Inv
<1> SUFFICES ASSUME Init PROVE Inv
  OBVIOUS
<1>1. Types
  <2>1. Zero \in [Probes -> Nat] /\ Zero \in [Probes -> 0..InLoop]
        /\ Zero \in [Probes -> 0..EventBufSize]
    BY WatchAssumption DEF Zero
  <2>2. /\ mode \in {"wrap", "attach", "open"} /\ probes \in SUBSET Probes
        /\ pc \in Labels /\ 0 \in 0..MaxActs
    BY WatchAssumption DEF Init, Labels
  <2>3. /\ loop \in [Probes -> {"none", "built", "spawned", "running", "closing", "ended", "closed"}]
        /\ collector \in [Probes -> {"none", "running", "ended"}]
        /\ written \in [Probes -> Nat \cup {-1}]
    BY DEF Init
  <2> QED BY <2>1, <2>2, <2>3 DEF Init, Types
<1>2. Conserved /\ Drained
  BY WatchAssumption DEF Init, Conserved, Drained, Zero
<1>3. Filed /\ Followed /\ Settled
  BY DEF Init, Filed, Followed, Settled
<1> QED BY <1>1, <1>2, <1>3 DEF Inv

(* What the host and the goroutines of a probe do preserves it.            *)
LEMMA GoroutinesInv ==
    ASSUME Inv, NEW p \in Probes, Act(p) \/ Goroutine(p) \/ Collector(p)
    PROVE  Inv'
<1> USE WatchAssumption DEF Inv, envVars
<1>1. CASE Act(p)
  BY <1>1 DEF Act, Attached, Types, Conserved, Drained, Filed, Followed, Settled
<1>2. CASE Spawned(p)
  BY <1>2 DEF Spawned, Types, Conserved, Drained, Filed, Followed, Settled
<1>3. CASE LoopReads(p)
  BY <1>3 DEF LoopReads, Types, Conserved, Drained, Filed, Followed, Settled
<1>4. CASE LoopSends(p)
  <2>1. Types'
    BY <1>4 DEF LoopSends, Types
  <2>2. Conserved'
    BY <1>4 DEF LoopSends, Types, Conserved
  <2>3. (Drained /\ Filed /\ Followed /\ Settled)'
    BY <1>4 DEF LoopSends, Types, Drained, Filed, Followed, Settled
  <2> QED BY <2>1, <2>2, <2>3
<1>5. CASE LoopEnds(p)
  BY <1>5 DEF LoopEnds, Types, Conserved, Drained, Filed, Followed, Settled
<1>6. CASE Collects(p)
  <2>1. Types'
    BY <1>6 DEF Collects, Types
  <2>2. Conserved'
    BY <1>6 DEF Collects, Types, Conserved
  <2>3. (Drained /\ Filed /\ Followed /\ Settled)'
    BY <1>6 DEF Collects, Types, Drained, Filed, Followed, Settled
  <2> QED BY <2>1, <2>2, <2>3
<1>7. CASE CollectorEnds(p)
  BY <1>7 DEF CollectorEnds, Types, Conserved, Drained, Filed, Followed, Settled
<1> QED BY <1>1, <1>2, <1>3, <1>4, <1>5, <1>6, <1>7 DEF Goroutine, Collector

(* A signal and the end of the agent preserve it.                          *)
LEMMA HostInv == ASSUME Inv, Signal \/ AgentExits PROVE Inv'
BY DEF Inv, Signal, AgentExits, probeVars,
       Types, Conserved, Drained, Filed, Followed, Settled

(* The steps of runWatch preserve it.                                      *)
LEMMA RunWatchInv == ASSUME Inv, RunWatch PROVE Inv'
<1> USE WatchAssumption DEF Inv, envVars, probeVars, QueueVars
<1>1. CASE Rejected
  <2>1. \A p \in Probes : inLoop[p] = 0 /\ collector[p] = "none"
    BY <1>1 DEF Rejected, Types, Drained, Settled
  <2> QED BY <1>1, <2>1 DEF Rejected, Types, Conserved, Drained, Filed, Followed, Settled, Labels
<1>2. CASE Built
  BY <1>2 DEF Built, Types, Conserved, Drained, Filed, Followed, Settled, Labels
<1>3. CASE StartOthers
  BY <1>3 DEF StartOthers, Types, Conserved, Drained, Filed, Followed, Settled, Labels, Probes
<1>4. ASSUME NEW ok \in BOOLEAN, Launch(ok) PROVE Inv'
  BY <1>4 DEF Launch, Types, Conserved, Drained, Filed, Followed, Settled, Labels
<1>5. ASSUME NEW ok \in BOOLEAN, SetRoot(ok) PROVE Inv'
  BY <1>5 DEF SetRoot, Started, Kill, Types, Conserved, Drained, Filed, Followed, Settled,
              Labels, Probes
<1>6. CASE StartNet
  BY <1>6 DEF StartNet, Started, Types, Conserved, Drained, Filed, Followed, Settled, Labels, Probes
<1>7. CASE StartOpen
  BY <1>7 DEF StartOpen, Started, Types, Conserved, Drained, Filed, Followed, Settled, Labels, Probes
<1>8. CASE AgentDone
  BY <1>8 DEF AgentDone, Types, Conserved, Drained, Filed, Followed, Settled, Labels
<1>9. CASE Interrupted
  BY <1>9 DEF Interrupted, Kill, Types, Conserved, Drained, Filed, Followed, Settled, Labels
<1>10. CASE StopStarts
  BY <1>10 DEF StopStarts, Started, Types, Conserved, Drained, Filed, Followed, Settled,
               Labels, Probes
<1>11. CASE StopProbes
  <2>1. ASSUME NEW p \in Probes, NEW at \in {"stopfs", "stopnet", "stopproc"}, StopCalls(p, at)
        PROVE  Inv'
    BY <2>1 DEF StopCalls, Types, Conserved, Drained, Filed, Followed, Settled
  <2>2. ASSUME NEW p \in Probes, NEW at \in {"stopfs", "stopnet", "stopproc"},
               NEW next \in {"stopnet", "stopproc", "collected"}, StopDone(p, at, next)
        PROVE  Inv'
    BY <2>2 DEF StopDone, Types, Conserved, Drained, Filed, Followed, Settled, Labels
  <2> QED BY <1>11, <2>1, <2>2 DEF StopProbes, Probes
<1>12. CASE Return
  BY <1>12 DEF Return, CollectorsDone, Types, Conserved, Drained, Filed, Followed, Settled, Labels
<1> QED BY <1>1, <1>2, <1>3, <1>4, <1>5, <1>6, <1>7, <1>8, <1>9, <1>10, <1>11, <1>12 DEF RunWatch

(* The invariant of runWatch and its goroutines: no event is in two places *)
(* or in none, and each label says what is drained and who is gone.        *)
THEOREM Invariance == Spec => []Inv
<1>1. Inv /\ [Next]_vars => Inv'
  <2> SUFFICES ASSUME Inv, [Next]_vars PROVE Inv'
    OBVIOUS
  <2>1. CASE UNCHANGED vars
    BY <2>1 DEF vars, envVars, probeVars, Inv, Types, Conserved, Drained, Filed, Followed, Settled
  <2> QED BY <2>1, GoroutinesInv, HostInv, RunWatchInv DEF Next
<1> QED BY <1>1, InitInv, PTL DEF Spec

(* runWatch: the file has every event that a probe sent, and no loop or    *)
(* channel still holds one.                                                *)
THEOREM AllCollectedHolds == Spec => []AllCollected
<1>1. Inv => AllCollected
  BY DEF Inv, AllCollected, Types, Conserved, Drained, Filed
<1> QED BY <1>1, Invariance, PTL

(* runWatch: on every way to its return the probes that it started are     *)
(* stopped, and the agent that it launched has ended.                      *)
THEOREM ReleasedHolds == Spec => []Released
<1>1. Inv => Released
  BY DEF Inv, Released, Types, Drained, Followed, Settled
<1> QED BY <1>1, Invariance, PTL

(* The variables keep their types; no queue holds more than has happened.  *)
THEOREM TypeCorrect == Spec => []TypeOK
<1>1. Inv => TypeOK
  BY WatchAssumption DEF Inv, TypeOK, Types, Conserved
<1> QED BY <1>1, Invariance, PTL
=============================================================================
