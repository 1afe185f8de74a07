----------------------------- MODULE ProcProbe ------------------------------
(***************************************************************************)
(* pkg/probe/proc: the four eBPF programs that follow the agent's process  *)
(* tree, the observer that reads their ring buffer, SetRootPID and Stop,   *)
(* in the order in which cmd/watch calls them around an agent that it      *)
(* launches (exec-wrap).                                                   *)
(*                                                                         *)
(* The processes are not code of the repository.  A task id is the number  *)
(* of a thread; the task whose id is its thread group's number is the      *)
(* leader.  A command line is a model value.  The tracepoint of a system   *)
(* call runs when the call is entered, before it has any effect.           *)
(***************************************************************************)
EXTENDS Integers, Sequences, FiniteSets

CONSTANTS
    Pids,        \* task ids
    Root,        \* the agent that watch launches
    Stranger,    \* a process of the host that the agent did not start
    Commands,    \* what may be executed
    Shells,      \* those for which filename_is_shell holds
    Codes,       \* arguments of exit_group
    Habits,      \* which of the calls below the processes make
    MaxCalls,    \* bound: how many forks, clones and execs they make
    TrackMax,    \* max_entries of tracked_pids
    ExecMax,     \* max_entries of execs
    RingMax,     \* what the ring buffer holds
    EventBufSize,
    None

Signalled == -1     \* the status of a process that a signal ended

(* clone of a thread; an execve that fails; execve by a thread that is not *)
(* the leader; a leader that leaves before its threads; a second           *)
(* exit_group by another thread; SIGKILL; the use of a number once more;   *)
(* calls by the stranger and its children; an execve whose path is not in  *)
(* memory when the program looks.                                          *)
AllHabits == {"stranger", "thread", "fail", "threadExec", "leave", "race", "kill", "reuse",
              "unread"}

(* An exit status is a byte.                                               *)
Status == 0..255

(* The values of tracked_pids and execs, and an execve in progress.         *)
ProcInfo == [is_shell : BOOLEAN, is_toplevel : BOOLEAN]
ExecScratch == [cmd : Commands \cup {None}, top : BOOLEAN, code : Codes \cup {None}]
ExecCall == [by : Pids, cmd : Commands \cup {None}, sure : BOOLEAN]

(* What is true of a process: whether it descends from Root, whether the   *)
(* probe could follow it from the start, whether the chain of its parents  *)
(* up to Root is one of shells, the path of what it executed and the name  *)
(* of the command it last tried (None if nothing could be read of them),   *)
(* the execve in progress, the tasks that have called exit_group, and its  *)
(* exit status.                                                            *)
ProcessState ==
    [tree : BOOLEAN, seen : BOOLEAN, top : BOOLEAN, img : Commands \cup {None},
     last : Commands \cup {None}, exec : ExecCall \cup {None}, quit : SUBSET Pids,
     status : Status \cup {Signalled, None}]

ASSUME ProcAssumption ==
    /\ Root \in Pids /\ Stranger \in Pids /\ Root # Stranger
    /\ Shells \subseteq Commands /\ Codes \subseteq Int /\ Habits \subseteq AllHabits
    /\ {MaxCalls, TrackMax, ExecMax, RingMax, EventBufSize} \subseteq Nat
    /\ None \notin Pids \cup Commands \cup Codes \cup Status \cup {Signalled}
    /\ None \notin ProcInfo \cup ExecScratch \cup ExecCall \cup ProcessState

VARIABLES
    task,       \* the thread group of each live task
    info,       \* each process, also one whose leader has left
    used,       \* numbers used so far
    calls,      \* calls made so far
    rootPid, tracked, execs,    \* the maps of the eBPF programs
    ring,       \* the ring buffer
    lost,       \* history: records that never reached the collector
    owed,       \* history: execs of processes the probe can follow
    phase,      \* where watch is
    pidFilter,  \* cfg.PIDFilter
    failed,     \* runWatch will return an error and write no ground truth
    loop,       \* readLoop: "none", "reads" or "ended"
    closed,     \* the ring buffer's reader is closed
    chan,       \* the events channel
    got         \* the ground truth that watch has collected

procVars == <<task, info, used, calls, owed>>
userVars == <<phase, pidFilter, failed, loop, closed, chan, got>>
vars == <<procVars, rootPid, tracked, execs, ring, lost, userVars>>

(* A process that has just come into being.                                *)
Process(tree, seen, top) ==
    [tree |-> tree, seen |-> seen, top |-> top, img |-> None, last |-> None,
     exec |-> None, quit |-> {}, status |-> None]

Init ==
    /\ task = [p \in Pids |-> IF p = Stranger THEN p ELSE None]
    /\ info = [p \in Pids |-> IF p = Stranger THEN Process(FALSE, FALSE, FALSE) ELSE None]
    /\ used = {Stranger} /\ calls = 0 /\ owed = {}
    /\ rootPid = None
    /\ tracked = [p \in Pids |-> None]
    /\ execs = [p \in Pids |-> None]
    /\ ring = <<>> /\ lost = {}
    /\ phase = "launch" /\ pidFilter = None /\ failed = FALSE
    /\ loop = "none" /\ closed = FALSE /\ chan = <<>> /\ got = {}

-----------------------------------------------------------------------------
(* The eBPF programs.  DeferRootPID has set config_map, so that the pid    *)
(* filter is in use from the start.                                        *)

(* bpf_map_update_elem fails for a new key of a full map.                  *)
Put(map, max, k, v) ==
    IF map[k] # None \/ Cardinality({p \in Pids : map[p] # None}) < max
    THEN [map EXCEPT ![k] = v] ELSE map

(* bpf_ringbuf_output fails, unnoticed, when the buffer is full.           *)
Output(r) ==
    IF Len(ring) < RingMax
    THEN ring' = Append(ring, r) /\ UNCHANGED lost
    ELSE lost' = lost \cup {r} /\ UNCHANGED ring

(* A bug: the new task is top-level whatever its parent runs.              *)
HandleForkFlat(parent, child) ==
    tracked' = IF tracked[parent] = None THEN tracked
               ELSE Put(tracked, TrackMax, child,
                        [is_shell |-> FALSE, is_toplevel |-> tracked[parent].is_toplevel])

(* A bug: only shells pass the tracking on.                                *)
HandleForkShellOnly(parent, child) ==
    tracked' = IF tracked[parent] = None \/ ~tracked[parent].is_shell THEN tracked
               ELSE Put(tracked, TrackMax, child,
                        [is_shell |-> FALSE, is_toplevel |-> tracked[parent].is_toplevel])

(* A bug: the entry of an untracked parent is taken to be zero.            *)
HandleForkAnyone(parent, child) ==
    tracked' = Put(tracked, TrackMax, child, [is_shell |-> FALSE, is_toplevel |-> FALSE])

(* task_newtask: the child of a tracked process is tracked, and top-level  *)
(* if its parent is a top-level shell.                                     *)
HandleFork(parent, child) ==
    tracked' = IF tracked[parent] = None THEN tracked
               ELSE Put(tracked, TrackMax, child,
                        [is_shell |-> FALSE,
                         is_toplevel |-> tracked[parent].is_shell /\ tracked[parent].is_toplevel])

(* A record of the ring buffer; n and who, the truth about the process,    *)
(* are history.                                                            *)
Record(kind, pid, cmd, top, code) ==
    [kind |-> kind, pid |-> pid, cmd |-> cmd, top |-> top, code |-> code,
     n |-> calls,
     who |-> [tree |-> info[pid].tree, top |-> info[pid].top,
              last |-> info[pid].last, status |-> info[pid].status]]

(* A bug: has_exit_code is not cleared, and code 0 is taken for one.       *)
CachedZero(cmd, top) == [cmd |-> cmd, top |-> top, code |-> 0]

(* What execs keeps of an execve until the process exits.                  *)
Cached(cmd, top) == [cmd |-> cmd, top |-> top, code |-> None]

(* What the program may read of an execve: the path, which commandLine     *)
(* makes the target of; or, if that fails, no path and for a target        *)
(* argv[0], which is whatever the caller put there, or nothing either.     *)
Readings(cmd) ==
    {[path |-> cmd, target |-> cmd]}
        \cup {[path |-> None, target |-> argv0] :
                 argv0 \in IF "unread" \in Habits THEN Commands \cup {None} ELSE {}}

(* sys_enter_execve, of a process that is tracked.                         *)
HandleExecve(pid, reading) ==
    IF tracked[pid] = None THEN UNCHANGED <<tracked, execs, ring, lost>>
    ELSE LET e == Record("exec", pid, reading.target, tracked[pid].is_toplevel, None)
         IN /\ tracked' = IF rootPid # None /\ pid # rootPid
                          THEN [tracked EXCEPT ![pid].is_shell = reading.path \in Shells]
                          ELSE tracked
            /\ execs' = Put(execs, ExecMax, pid, Cached(reading.target, e.top))
            /\ Output(e)

(* sys_enter_exit_group: the argument is kept with the cached exec.        *)
HandleExitGroup(tgid, code) ==
    execs' = IF execs[tgid] = None THEN execs ELSE [execs EXCEPT ![tgid].code = code]

(* A bug: the cached exec outlives its process.                            *)
ForgetNothing(tgid) == tracked' = [tracked EXCEPT ![tgid] = None] /\ UNCHANGED execs

Forget(tgid) ==
    /\ execs' = [execs EXCEPT ![tgid] = None]
    /\ tracked' = [tracked EXCEPT ![tgid] = None]

(* A bug: the exit of any thread is taken for the exit of its process.     *)
CountsAnyThread(tid, tgid) == TRUE

(* if (tgid != tid) return 0                                               *)
Counts(tid, tgid) == tid = tgid

(* sched_process_exit: only a leader's counts, and only if its process was *)
(* seen to exec; the entries of the others stay in tracked_pids.           *)
HandleExit(tid, tgid) ==
    IF ~Counts(tid, tgid) \/ execs[tgid] = None THEN UNCHANGED <<tracked, execs, ring, lost>>
    ELSE /\ Output(Record("exit", tgid, execs[tgid].cmd, execs[tgid].top, execs[tgid].code))
         /\ Forget(tgid)

-----------------------------------------------------------------------------
(* The processes, and the program that runs at each of their calls.        *)

Running(t) ==
    /\ task[t] # None
    /\ info[task[t]].tree \/ "stranger" \in Habits
    /\ info[task[t]].status = None
    /\ info[task[t]].exec # None => info[task[t]].exec.by # t

Free(p) == /\ task[p] = None /\ info[p] = None
           /\ p # Root
           /\ "reuse" \in Habits \/ p \notin used

(* The root is tracked, SetRootPID has come so far.                        *)
Seeded == phase = "filter" \/ pidFilter = Root

Called == calls < MaxCalls /\ calls' = calls + 1

Fork(t, c) ==
    /\ Called /\ Running(t) /\ Free(c)
    /\ LET p == info[task[t]]
           root == task[t] = Root
       IN info' = [info EXCEPT ![c] =
              Process(p.tree, p.seen /\ (root => Seeded),
                      root \/ (p.top /\ p.img \in Shells))]
    /\ task' = [task EXCEPT ![c] = c]
    /\ used' = used \cup {c}
    /\ HandleFork(task[t], c)
    /\ UNCHANGED <<owed, rootPid, execs, ring, lost, userVars>>

CloneThread(t, c) ==
    /\ "thread" \in Habits /\ Called /\ Running(t) /\ Free(c)
    /\ task' = [task EXCEPT ![c] = task[t]]
    /\ used' = used \cup {c}
    /\ HandleFork(task[t], c)
    /\ UNCHANGED <<owed, info, rootPid, execs, ring, lost, userVars>>

ExecEnter(t, cmd) ==
    /\ Called /\ Running(t) /\ info[task[t]].exec = None
    /\ t = task[t] \/ "threadExec" \in Habits
    /\ \E reading \in Readings(cmd) :
          /\ info' = [info EXCEPT ![task[t]].exec = [by |-> t, cmd |-> reading.path, sure |-> FALSE],
                                  ![task[t]].last = reading.target]
          /\ owed' = IF info[task[t]].seen /\ task[t] # Root /\ reading.target # None
                     THEN owed \cup {<<task[t], calls>>} ELSE owed
          /\ HandleExecve(task[t], reading)
    /\ UNCHANGED <<task, used, rootPid, userVars>>

ExecFails(g) ==
    /\ "fail" \in Habits
    /\ info[g] # None /\ info[g].exec # None /\ ~info[g].exec.sure
    /\ info' = [info EXCEPT ![g].exec = None]
    /\ UNCHANGED <<task, used, calls, owed, rootPid, tracked, execs, ring, lost, userVars>>

(* An execve that will succeed first ends the other threads, the leader    *)
(* too if it is not the caller.                                            *)
EndedByExec(t) ==
    /\ task[t] # None
    /\ LET g == task[t]
       IN /\ info[g].exec # None /\ info[g].exec.by # t /\ info[g].status = None
          /\ info' = [info EXCEPT ![g].exec.sure = TRUE]
          /\ HandleExit(t, g)
    /\ task' = [task EXCEPT ![t] = None]
    /\ UNCHANGED <<used, calls, owed, rootPid, userVars>>

(* Then the caller becomes the leader, and runs the new image.             *)
ExecDone(t) ==
    /\ task[t] # None
    /\ LET g == task[t]
       IN /\ info[g].exec # None /\ info[g].exec.by = t /\ info[g].status = None
          /\ \A u \in Pids : task[u] = g => u = t
          /\ task' = [[task EXCEPT ![t] = None] EXCEPT ![g] = g]
          /\ info' = [info EXCEPT ![g].img = info[g].exec.cmd, ![g].exec = None]
    /\ UNCHANGED <<used, calls, owed, rootPid, tracked, execs, ring, lost, userVars>>

(* exit_group: the first one decides the exit status, which is the low     *)
(* byte of its argument.                                                   *)
ExitGroup(t, code) ==
    /\ task[t] # None
    /\ \/ Running(t)
       \/ "race" \in Habits /\ info[task[t]].status \in Status /\ t \notin info[task[t]].quit
    /\ info' = [info EXCEPT ![task[t]].status = IF @ = None THEN code % 256 ELSE @,
                            ![task[t]].quit = @ \cup {t}]
    /\ HandleExitGroup(task[t], code)
    /\ UNCHANGED <<task, used, calls, owed, rootPid, tracked, ring, lost, userVars>>

Killed(g) ==
    /\ "kill" \in Habits /\ info[g] # None /\ info[g].status = None
    /\ info[g].tree \/ "stranger" \in Habits
    /\ info' = [info EXCEPT ![g].status = Signalled]
    /\ UNCHANGED <<task, used, calls, owed, rootPid, tracked, execs, ring, lost, userVars>>

(* A task ends: because its process does, or by its own exit.              *)
TaskExit(t) ==
    /\ task[t] # None
    /\ LET g == task[t]
           others == {u \in Pids \ {t} : task[u] = g}
       IN /\ \/ info[g].status # None
             \/ Running(t) /\ others # {} /\ (t = g => "leave" \in Habits)
          /\ task' = [task EXCEPT ![t] = None]
          /\ info' = IF others = {} THEN [info EXCEPT ![g] = None] ELSE info
          /\ HandleExit(t, g)
    /\ UNCHANGED <<used, calls, owed, rootPid, userVars>>

-----------------------------------------------------------------------------
(* The observer and its caller.                                            *)

probeVars == <<tracked, execs, ring, lost>>

(* cmd.Start returns once the agent's image runs; the probe, which tracks  *)
(* nothing yet, has seen nothing of it.                                    *)
Launch ==
    /\ phase = "launch"
    /\ info' = [info EXCEPT ![Root] = Process(TRUE, TRUE, TRUE)]
    /\ task' = [task EXCEPT ![Root] = Root]
    /\ used' = used \cup {Root}
    /\ phase' = "setRoot"
    /\ UNCHANGED <<calls, owed, rootPid, probeVars, pidFilter, failed, loop, closed, chan, got>>

LaunchFails ==
    /\ phase = "launch"
    /\ phase' = "stop" /\ failed' = TRUE
    /\ UNCHANGED <<procVars, rootPid, probeVars, pidFilter, loop, closed, chan, got>>

(* SetRootPID, map by map.                                                 *)
SetRootMap ==
    /\ phase = "setRoot"
    /\ rootPid' = Root
    /\ phase' = "seed"
    /\ UNCHANGED <<procVars, probeVars, pidFilter, failed, loop, closed, chan, got>>

SeedRoot ==
    /\ phase = "seed"
    /\ tracked' = Put(tracked, TrackMax, Root, [is_shell |-> TRUE, is_toplevel |-> TRUE])
    /\ phase' = "filter"
    /\ UNCHANGED <<procVars, rootPid, execs, ring, lost, pidFilter, failed, loop, closed, chan, got>>

Kill(p) == IF p # None /\ p.status = None THEN [p EXCEPT !.status = Signalled] ELSE p

(* One of the map updates of SetRootPID fails: watch kills the agent.      *)
SetRootFails ==
    /\ phase \in {"setRoot", "seed"}
    /\ info' = [info EXCEPT ![Root] = Kill(@)]
    /\ phase' = "wait" /\ failed' = TRUE
    /\ UNCHANGED <<task, used, calls, owed, rootPid, probeVars, pidFilter, loop, closed, chan, got>>

(* A signal comes: watch kills the agent.                                  *)
Interrupted ==
    /\ phase = "run"
    /\ info' = [info EXCEPT ![Root] = Kill(@)]
    /\ phase' = "wait"
    /\ UNCHANGED <<task, used, calls, owed, rootPid, probeVars, pidFilter, failed, loop, closed,
                   chan, got>>

(* cmd.Wait returns.                                                       *)
AgentDone ==
    /\ phase \in {"run", "wait"} /\ info[Root] = None
    /\ phase' = "stop"
    /\ UNCHANGED <<procVars, rootPid, probeVars, pidFilter, failed, loop, closed, chan, got>>

(* A bug: the read loop starts before the filter is set.                   *)
StartProcEarly ==
    /\ phase = "filter"
    /\ loop' = "reads"
    /\ phase' = "run"
    /\ UNCHANGED <<procVars, rootPid, probeVars, pidFilter, failed, closed, chan, got>>

(* The end of SetRootPID, and startProc.                                   *)
StartProc ==
    /\ phase = "filter"
    /\ pidFilter' = Root
    /\ loop' = "reads"
    /\ phase' = "run"
    /\ UNCHANGED <<procVars, rootPid, probeVars, failed, closed, chan, got>>

(* stopEverything first starts a readLoop that was not started.            *)
StopStarts ==
    /\ phase = "stop"
    /\ loop' = "reads"
    /\ phase' = "close"
    /\ UNCHANGED <<procVars, rootPid, probeVars, pidFilter, failed, closed, chan, got>>

(* Stop closes the reader.                                                 *)
StopReader ==
    /\ phase = "close"
    /\ closed' = TRUE
    /\ phase' = "join"
    /\ UNCHANGED <<procVars, rootPid, probeVars, pidFilter, failed, loop, chan, got>>

(* One turn of readLoop: the root's own records and those without a target *)
(* are skipped, the others sent unless the channel is full.                *)
ReadRecord ==
    /\ loop = "reads" /\ ~closed /\ ring # <<>>
    /\ ring' = Tail(ring)
    /\ LET r == Head(ring)
           skipped == r.pid = pidFilter \/ r.cmd = None
       IN CASE skipped -> UNCHANGED <<chan, lost>>
            [] ~skipped /\ Len(chan) < EventBufSize -> chan' = Append(chan, r) /\ UNCHANGED lost
            [] OTHER -> lost' = lost \cup {r} /\ UNCHANGED chan
    /\ UNCHANGED <<procVars, rootPid, tracked, execs, phase, pidFilter, failed, loop, closed, got>>

(* Read returns ErrClosed: what is still in the ring buffer is not read.   *)
ReadClosed ==
    /\ loop = "reads" /\ closed
    /\ loop' = "ended"
    /\ UNCHANGED <<procVars, rootPid, probeVars, phase, pidFilter, failed, closed, chan, got>>

(* Stop's <-o.stopped, and the detaching of the programs.                  *)
Joined ==
    /\ phase = "join" /\ loop = "ended"
    /\ phase' = "stopped"
    /\ UNCHANGED <<procVars, rootPid, probeVars, pidFilter, failed, loop, closed, chan, got>>

(* watch's collector; wg.Wait lets it empty the channel.                   *)
Collect ==
    /\ chan # <<>>
    /\ got' = got \cup {Head(chan)}
    /\ chan' = Tail(chan)
    /\ UNCHANGED <<procVars, rootPid, probeVars, phase, pidFilter, failed, loop, closed>>

(* runWatch writes what it collected, or returns its error.                *)
Report ==
    /\ phase = "stopped" /\ chan = <<>>
    /\ phase' = "done"
    /\ UNCHANGED <<procVars, rootPid, probeVars, pidFilter, failed, loop, closed, chan, got>>
-----------------------------------------------------------------------------

Watch == \/ Launch \/ LaunchFails \/ SetRootMap \/ SeedRoot
         \/ StartProc \/ AgentDone \/ StopStarts \/ StopReader \/ Joined \/ Report
ReadLoop == ReadRecord \/ ReadClosed

(* The processes; what they do once the reader is closed is read by nobody.*)
Processes ==
    /\ ~closed
    /\ \/ \E t, c \in Pids : Fork(t, c) \/ CloneThread(t, c)
       \/ \E t \in Pids, cmd \in Commands : ExecEnter(t, cmd)
       \/ \E t \in Pids, code \in Codes : ExitGroup(t, code)
       \/ \E t \in Pids : ExecFails(t) \/ EndedByExec(t) \/ ExecDone(t) \/ Killed(t) \/ TaskExit(t)

Done == phase = "done" /\ UNCHANGED vars

Next == Watch \/ SetRootFails \/ Interrupted \/ ReadLoop \/ Collect \/ Processes \/ Done

(* That watch returns is checked in Watch.                                 *)
Spec == Init /\ [][Next]_vars
-----------------------------------------------------------------------------
(* Properties.                                                             *)

(* What watch writes, or would write if it were stopped now.               *)
Reported == IF failed THEN {} ELSE got \cup {chan[n] : n \in DOMAIN chan}
InRing == {ring[n] : n \in DOMAIN ring}

(* The types of the variables.                                             *)
TypeOK ==
    /\ task \in [Pids -> Pids \cup {None}]
    /\ info \in [Pids -> ProcessState \cup {None}]
    /\ \A t \in Pids : task[t] # None => info[task[t]] # None
    /\ used \subseteq Pids /\ calls \in 0..MaxCalls
    /\ rootPid \in {Root, None} /\ pidFilter \in {Root, None}
    /\ tracked \in [Pids -> ProcInfo \cup {None}]
    /\ execs \in [Pids -> ExecScratch \cup {None}]
    /\ Len(ring) <= RingMax /\ Len(chan) <= EventBufSize
    /\ phase \in {"launch", "setRoot", "seed", "filter", "run", "wait", "stop", "close", "join",
                  "stopped", "done"}
    /\ loop \in {"none", "reads", "ended"} /\ {closed, failed} \subseteq BOOLEAN

(* The agent's own exec and exit are never in the ground truth, although   *)
(* the programs record them: the filter is in place before the first       *)
(* record is read.                                                         *)
RootSuppressed == \A r \in Reported : r.pid # Root

(* README: only the descendants of the launched process count as actions   *)
(* of the agent.                                                           *)
OnlyDescendants == \A r \in Reported : r.who.tree

(* The tests of the shell chain: an event is verification-grade exactly if *)
(* its process is a child of the agent, or of a shell that is itself       *)
(* verification-grade and was started by an execve of its own, whose path  *)
(* the program could read.                                                 *)
TopLevelChain == \A r \in Reported : r.top = r.who.top

(* Every execve of a process that was forked since SetRootPID, by the      *)
(* agent or by such a process, and of which the program could read the     *)
(* path or argv[0], is reported under that name, waits in the ring buffer, *)
(* or was lost to a full ring buffer or channel.                           *)
ExecsComplete ==
    \A o \in owed : \E r \in Reported \cup InRing \cup lost :
        r.kind = "exec" /\ <<r.pid, r.n>> = o /\ r.cmd # None

(* A ProcessExit has the name that was read of the command its own process *)
(* last tried to execute, never one of an earlier process with that number.*)
ExitBelongs ==
    \A r \in Reported : r.kind = "exit" => r.cmd = r.who.last

(* A ProcessExit is reported for a process that has ended.                 *)
ExitIsEnd ==
    \A r \in Reported : r.kind = "exit" => r.who.status # None

(* The exit code of a ProcessExit is nil if and only if a signal ended the *)
(* process; otherwise it is the argument of the exit_group that ended it,  *)
(* of which the exit status of the process is the low byte.                *)
ExitCodeTrue ==
    \A r \in Reported :
        /\ r.kind = "exit" /\ r.who.status = Signalled => r.code = None
        /\ r.kind = "exit" /\ r.who.status \in Status =>
              r.code # None /\ r.code % 256 = r.who.status
=============================================================================
