------------------------------- MODULE Watch --------------------------------
(***************************************************************************)
(* cmd/watch: runWatch, from the choice of the probes to the written       *)
(* ground truth, with the goroutines of the probes and of the collectors.  *)
(*                                                                         *)
(* A probe is what runWatch sees of it: a kernel queue that fills as long  *)
(* as the probe is attached, a loop that reads it and sends events to a    *)
(* channel of bounded size, and Stop, which tells the loop to end, waits   *)
(* for it and closes the channel.  What the loops make of their records is *)
(* the matter of FsObserver, ProcProbe, NetProbe and TlsCapture.           *)
(***************************************************************************)
EXTENDS Integers, FiniteSets

CONSTANTS
    Modes,         \* "wrap" launches the agent, "attach" is --root-pid, "open" is neither
    Selections,    \* values of --probes, as sets
    EventBufSize,
    InLoop,        \* events that a loop has read and not sent yet, at most
    MaxActs        \* bound: what the processes of the host do

Probes == {"fs", "proc", "net"}

ASSUME WatchAssumption ==
    /\ Modes \subseteq {"wrap", "attach", "open"} /\ Selections \subseteq SUBSET Probes
    /\ {EventBufSize, InLoop, MaxActs} \subseteq Nat \ {0}

VARIABLES
    mode, probes,  \* the options
    pc,            \* where runWatch is
    err,           \* it will return an error, and write nothing
    agent,         \* the launched process
    sig,           \* a signal waits in sigCh
    acts,
    loop,          \* the goroutine of each probe
    kernel,        \* how many records its queue holds
    inLoop,        \* how many events its loop holds
    chan,          \* how many events its channel holds
    collector,     \* collect's goroutine
    ground,        \* collected events, by probe
    sent, dropped, \* history: events that entered the channel, and that did not
    written        \* the ground truth file, by probe; -1 if there is none

envVars == <<mode, probes, agent, sig, acts>>
probeVars == <<loop, kernel, inLoop, chan, collector, ground, sent, dropped>>
vars == <<envVars, probeVars, pc, err, written>>

Zero == [p \in Probes |-> 0]

Init ==
    /\ mode \in Modes /\ probes \in Selections
    /\ pc = "build" /\ err = FALSE
    /\ agent = "none" /\ sig = FALSE /\ acts = 0
    /\ loop = [p \in Probes |-> "none"] /\ collector = [p \in Probes |-> "none"]
    /\ kernel = Zero /\ inLoop = Zero /\ chan = Zero
    /\ ground = Zero /\ sent = Zero /\ dropped = Zero
    /\ written = [p \in Probes |-> -1]

-----------------------------------------------------------------------------
(* The host.                                                               *)

Attached(p) == loop[p] \in {"built", "spawned", "running"}

(* Something happens that a probe sees.                                    *)
Act(p) ==
    /\ Attached(p) /\ acts < MaxActs
    /\ acts' = acts + 1
    /\ kernel' = [kernel EXCEPT ![p] = @ + 1]
    /\ UNCHANGED <<mode, probes, agent, sig, loop, inLoop, chan, collector, ground, sent, dropped,
                   pc, err, written>>

(* SIGINT or SIGTERM, once signal.Notify has run.                          *)
Signal ==
    /\ pc \notin {"build", "start", "returned"} /\ ~sig
    /\ sig' = TRUE
    /\ UNCHANGED <<mode, probes, agent, acts, probeVars, pc, err, written>>

AgentExits ==
    /\ agent \in {"running", "killed"}
    /\ agent' = "exited"
    /\ UNCHANGED <<mode, probes, sig, acts, probeVars, pc, err, written>>

-----------------------------------------------------------------------------
(* The probes and the collectors.                                          *)

(* go netObs.Start()                                                       *)
Spawned(p) ==
    /\ loop[p] = "spawned"
    /\ loop' = [loop EXCEPT ![p] = "running"]
    /\ UNCHANGED <<envVars, kernel, inLoop, chan, collector, ground, sent, dropped, pc, err, written>>

LoopReads(p) ==
    /\ loop[p] = "running" /\ kernel[p] > 0 /\ inLoop[p] < InLoop
    /\ kernel' = [kernel EXCEPT ![p] = @ - 1]
    /\ inLoop' = [inLoop EXCEPT ![p] = @ + 1]
    /\ UNCHANGED <<envVars, loop, chan, collector, ground, sent, dropped, pc, err, written>>

(* The filesystem probe waits for room in its channel, the others drop the *)
(* event.                                                                  *)
LoopSends(p) ==
    LET room == chan[p] < EventBufSize
    IN /\ loop[p] \in {"running", "closing"} /\ inLoop[p] > 0
       /\ p = "fs" => room
       /\ inLoop' = [inLoop EXCEPT ![p] = @ - 1]
       /\ chan' = [chan EXCEPT ![p] = IF room THEN @ + 1 ELSE @]
       /\ sent' = [sent EXCEPT ![p] = IF room THEN @ + 1 ELSE @]
       /\ dropped' = [dropped EXCEPT ![p] = IF room THEN @ ELSE @ + 1]
       /\ UNCHANGED <<envVars, loop, kernel, collector, ground, pc, err, written>>

(* The loop has seen that Stop was called, and sent what it had.           *)
LoopEnds(p) ==
    /\ loop[p] = "closing" /\ inLoop[p] = 0
    /\ loop' = [loop EXCEPT ![p] = "ended"]
    /\ UNCHANGED <<envVars, kernel, inLoop, chan, collector, ground, sent, dropped, pc, err, written>>

Collects(p) ==
    /\ collector[p] = "running" /\ chan[p] > 0
    /\ chan' = [chan EXCEPT ![p] = @ - 1]
    /\ ground' = [ground EXCEPT ![p] = @ + 1]
    /\ UNCHANGED <<envVars, loop, kernel, inLoop, collector, sent, dropped, pc, err, written>>

CollectorEnds(p) ==
    /\ collector[p] = "running" /\ chan[p] = 0 /\ loop[p] = "closed"
    /\ collector' = [collector EXCEPT ![p] = "ended"]
    /\ UNCHANGED <<envVars, loop, kernel, inLoop, chan, ground, sent, dropped, pc, err, written>>

Goroutine(p) == LoopReads(p) \/ LoopSends(p) \/ LoopEnds(p) \/ Spawned(p)
Collector(p) == Collects(p) \/ CollectorEnds(p)

-----------------------------------------------------------------------------
(* runWatch.                                                               *)

QueueVars == <<kernel, inLoop, chan, ground, sent, dropped>>

(* New of a probe fails; those built before it stay attached.  Or no probe *)
(* is selected, or --root-pid comes without proc.                          *)
Rejected ==
    /\ pc = "build"
    /\ \E some \in SUBSET probes :
          /\ some = probes => probes = {} \/ (mode = "attach" /\ "proc" \notin probes)
          /\ loop' = [p \in Probes |-> IF p \in some THEN "built" ELSE "none"]
    /\ pc' = "returned" /\ err' = TRUE
    /\ UNCHANGED <<envVars, QueueVars, collector, written>>

Built ==
    /\ pc = "build"
    /\ probes # {} /\ (mode = "attach" => "proc" \in probes)
    /\ loop' = [p \in Probes |-> IF p \in probes THEN "built" ELSE "none"]
    /\ pc' = "start"
    /\ UNCHANGED <<envVars, QueueVars, collector, err, written>>

(* Collectors for all; the filesystem probe is started, too.               *)
StartOthers ==
    /\ pc = "start"
    /\ collector' = [p \in Probes |-> IF p \in probes THEN "running" ELSE "none"]
    /\ loop' = [loop EXCEPT !["fs"] = IF @ = "built" THEN "running" ELSE @]
    /\ pc' = CASE mode = "wrap" -> "launch" [] mode = "attach" -> "seed" [] OTHER -> "open"
    /\ UNCHANGED <<envVars, QueueVars, err, written>>

(* startProc and startNet, each only once.                                 *)
Started(l, p, now) == [l EXCEPT ![p] = IF @ = "built" THEN now ELSE @]

(* A bug: a failed launch returns at once.                                 *)
LaunchAndReturn(ok) ==
    /\ pc = "launch"
    /\ agent' = IF ok THEN "running" ELSE agent
    /\ err' = ~ok
    /\ pc' = IF ~ok THEN "returned" ELSE IF "proc" \in probes THEN "seed" ELSE "net"
    /\ UNCHANGED <<mode, probes, sig, acts, probeVars, written>>

(* cmd.Start                                                               *)
Launch(ok) ==
    /\ pc = "launch"
    /\ agent' = IF ok THEN "running" ELSE agent
    /\ err' = ~ok
    /\ pc' = IF ~ok THEN "stop" ELSE IF "proc" \in probes THEN "seed" ELSE "net"
    /\ UNCHANGED <<mode, probes, sig, acts, probeVars, written>>

(* Process.Kill                                                            *)
Kill(a) == IF a = "running" THEN "killed" ELSE a

(* SetRootPID; if it fails, a launched agent is killed and waited for.     *)
SetRoot(ok) ==
    /\ pc = "seed"
    /\ loop' = IF ok THEN Started(loop, "proc", "running") ELSE loop
    /\ err' = ~ok
    /\ agent' = IF ok THEN agent ELSE Kill(agent)
    /\ pc' = IF ok THEN "net" ELSE IF mode = "wrap" THEN "reap" ELSE "stop"
    /\ UNCHANGED <<mode, probes, sig, acts, QueueVars, collector, written>>

StartNet ==
    /\ pc = "net"
    /\ loop' = Started(loop, "net", "spawned")
    /\ pc' = "wait"
    /\ UNCHANGED <<envVars, QueueVars, collector, err, written>>

StartOpen ==
    /\ pc = "open"
    /\ loop' = Started(Started(loop, "proc", "running"), "net", "spawned")
    /\ pc' = "wait"
    /\ UNCHANGED <<envVars, QueueVars, collector, err, written>>

(* <-done                                                                  *)
AgentDone ==
    /\ pc \in {"wait", "reap"} /\ mode = "wrap" /\ agent = "exited"
    /\ pc' = "stop"
    /\ UNCHANGED <<envVars, probeVars, err, written>>

(* A bug: the agent is killed, and not waited for.                         *)
InterruptedNoWait ==
    /\ pc = "wait" /\ sig
    /\ sig' = FALSE /\ agent' = Kill(agent)
    /\ pc' = "stop"
    /\ UNCHANGED <<mode, probes, acts, probeVars, err, written>>

(* <-sigCh                                                                 *)
Interrupted ==
    /\ pc = "wait" /\ sig
    /\ sig' = FALSE /\ agent' = Kill(agent)
    /\ pc' = IF mode = "wrap" THEN "reap" ELSE "stop"
    /\ UNCHANGED <<mode, probes, acts, probeVars, err, written>>

(* A bug: Stop is called on a probe that has no loop.                      *)
StopStartsNothing ==
    /\ pc = "stop"
    /\ pc' = "stopfs"
    /\ UNCHANGED <<envVars, probeVars, err, written>>

(* stopEverything: what is not started yet is.                             *)
StopStarts ==
    /\ pc = "stop"
    /\ loop' = Started(Started(loop, "proc", "running"), "net", "spawned")
    /\ pc' = "stopfs"
    /\ UNCHANGED <<envVars, QueueVars, collector, err, written>>

(* Stop of a probe: the loop is told to end, and waited for.               *)
StopCalls(p, at) ==
    /\ pc = at /\ loop[p] = "running"
    /\ loop' = [loop EXCEPT ![p] = "closing"]
    /\ UNCHANGED <<envVars, QueueVars, collector, pc, err, written>>

StopDone(p, at, next) ==
    /\ pc = at /\ loop[p] \in {"none", "ended"}
    /\ loop' = [loop EXCEPT ![p] = IF @ = "ended" THEN "closed" ELSE @]
    /\ pc' = next
    /\ UNCHANGED <<envVars, QueueVars, collector, err, written>>

StopProbes == \/ StopCalls("fs", "stopfs") \/ StopDone("fs", "stopfs", "stopnet")
              \/ StopCalls("net", "stopnet") \/ StopDone("net", "stopnet", "stopproc")
              \/ StopCalls("proc", "stopproc") \/ StopDone("proc", "stopproc", "collected")

(* A bug: the collectors are not waited for.                               *)
CollectorsIgnored == TRUE

(* wg.Wait                                                                 *)
CollectorsDone == \A p \in probes : collector[p] = "ended"

Return ==
    /\ pc = "collected" /\ CollectorsDone
    /\ pc' = "returned"
    /\ \/ written' = IF err THEN written ELSE ground
       \/ UNCHANGED written    \* WriteFile fails
    /\ UNCHANGED <<envVars, probeVars, err>>

RunWatch == \/ Rejected \/ Built \/ StartOthers
            \/ \E ok \in BOOLEAN : Launch(ok) \/ SetRoot(ok)
            \/ StartNet \/ StartOpen \/ AgentDone \/ Interrupted
            \/ StopStarts \/ StopProbes \/ Return

Next == \/ \E p \in Probes : Act(p) \/ Goroutine(p) \/ Collector(p)
        \/ Signal \/ AgentExits
        \/ RunWatch

(* runWatch and the goroutines keep running, and a killed agent ends.      *)
Spec == /\ Init /\ [][Next]_vars
        /\ WF_vars(RunWatch)
        /\ \A p \in Probes : WF_vars(Goroutine(p)) /\ WF_vars(Collector(p))
        /\ WF_vars(agent = "killed" /\ AgentExits)
-----------------------------------------------------------------------------
(* Properties.                                                             *)

(* The types of the variables.                                             *)
TypeOK ==
    /\ \A p \in Probes :
          /\ loop[p] \in {"none", "built", "spawned", "running", "closing", "ended", "closed"}
          /\ collector[p] \in {"none", "running", "ended"}
          /\ inLoop[p] \in 0..InLoop /\ chan[p] \in 0..EventBufSize
          /\ {kernel[p], ground[p], sent[p], dropped[p]} \subseteq 0..MaxActs
    /\ agent \in {"none", "running", "killed", "exited"} /\ {sig, err} \subseteq BOOLEAN

(* The ground truth file has every event that a probe sent, also those     *)
(* that its loop had read and not sent when Stop was called.               *)
AllCollected ==
    \A p \in probes : written[p] # -1 => written[p] = sent[p] /\ inLoop[p] = 0 /\ chan[p] = 0

(* However the recording ends, once runWatch returns every probe is        *)
(* stopped, if all could be built, and the agent it has launched is gone.  *)
Released ==
    pc = "returned" =>
        /\ agent \in {"none", "exited"}
        /\ \A p \in probes : collector[p] # "none" => loop[p] = "closed"

(* The usage text: the command runs to completion, or watch records until  *)
(* Ctrl+C, and the ground truth is written.  After a signal, at whatever   *)
(* moment it comes, after the end of the agent and after a failed launch   *)
(* or SetRootPID, runWatch returns.                                        *)
Returns ==
    (sig \/ agent = "exited" \/ err \/ pc = "stop") ~> pc = "returned"
=============================================================================
