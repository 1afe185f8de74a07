-------------------------- MODULE ProcProbeProofs ---------------------------
(***************************************************************************)
(* Proofs about ProcProbe, for any processes, commands and exit calls, and *)
(* any capacity of the maps, the ring buffer and the channel.  What the    *)
(* processes must not do for a property to hold is a hypothesis on Habits. *)
(***************************************************************************)
EXTENDS ProcProbe, QueueLemmas, FiniteSetTheorems

Records ==
    [kind : {"exec", "exit"}, pid : Pids, cmd : Commands \cup {None}, top : BOOLEAN,
     code : Codes \cup {None}, n : Nat,
     who : [tree : BOOLEAN, top : BOOLEAN, last : Commands \cup {None},
            status : Status \cup {Signalled, None}]]

Early == {"launch", "setRoot", "seed", "filter"}
Late == {"run", "wait", "stop", "close", "join", "stopped", "done"}

(* The types of the maps, the processes and watch.                         *)
Types ==
    /\ task \in [Pids -> Pids \cup {None}]
    /\ info \in [Pids -> ProcessState \cup {None}]
    /\ used \subseteq Pids /\ calls \in 0..MaxCalls
    /\ rootPid \in {Root, None} /\ pidFilter \in {Root, None}
    /\ tracked \in [Pids -> ProcInfo \cup {None}]
    /\ execs \in [Pids -> ExecScratch \cup {None}]
    /\ phase \in Early \cup Late
    /\ loop \in {"none", "reads", "ended"} /\ closed \in BOOLEAN /\ failed \in BOOLEAN

(* The records on their way to the ground truth.                           *)
Queues ==
    /\ ring \in Seq(Records) /\ Len(ring) <= RingMax
    /\ chan \in Seq(Records) /\ Len(chan) <= EventBufSize
    /\ lost \subseteq Records /\ got \subseteq Records

InChan == Elements(chan)
Sent == got \cup InChan
Kernel == InRing \cup lost
Everywhere == Sent \cup Kernel

(* A live task belongs to a process, and both have numbers that were used; *)
(* so has whatever the maps have an entry for.  The agent's number is used *)
(* once.                                                                   *)
Numbered ==
    /\ \A t \in Pids : task[t] # None => info[task[t]] # None
    /\ \A p \in Pids : p \in used \/ (/\ task[p] = None /\ info[p] = None
                                      /\ tracked[p] = None /\ execs[p] = None)
    /\ phase = "launch" => Root \notin used
    /\ phase \in {"setRoot", "seed", "filter"} => Root \in used
    /\ info[Root] # None => info[Root].tree /\ info[Root].top

(* The filter is set before the read loop starts, unless watch fails; then *)
(* it is never set.                                                        *)
Filtered ==
    /\ phase \in Early => pidFilter = None /\ loop = "none" /\ ~failed
    /\ phase \in Late => (failed <=> pidFilter = None)
    /\ phase \in {"seed", "filter"} => rootPid = Root
    /\ ~failed => \A r \in Sent : r.pid # Root

(* The maps have entries for descendants of the agent.                     *)
Lineage ==
    "reuse" \notin Habits =>
        /\ \A p \in Pids : info[p] # None /\ (tracked[p] # None \/ execs[p] # None) => info[p].tree
        /\ \A r \in Everywhere : r.who.tree

(* Of a process without threads, tracked_pids tells whether it is          *)
(* verification-grade, and whether what it runs or is about to run is a    *)
(* shell; the agent counts as a shell.                                     *)
Image(p) == IF p.exec # None THEN p.exec.cmd ELSE p.img

Chained ==
    Habits \cap {"thread", "fail", "reuse"} = {} =>
        /\ \A t \in Pids : task[t] \in {t, None}
        /\ \A p \in Pids : info[p] # None /\ info[p].exec # None => info[p].exec.by = p
        /\ \A p \in Pids : tracked[p] # None => rootPid = Root
        /\ tracked[Root] # None => tracked[Root].is_shell
        /\ \A p \in Pids : info[p] # None /\ tracked[p] # None =>
               /\ tracked[p].is_toplevel = info[p].top
               /\ p # Root => (tracked[p].is_shell <=> Image(info[p]) \in Shells)
        /\ \A p \in Pids : info[p] # None /\ execs[p] # None => execs[p].top = info[p].top
        /\ \A r \in Everywhere : r.top = r.who.top

(* Where execve is the leader's, an entry of execs is that of the last     *)
(* execve of a process whose leader lives.                                 *)
Owned ==
    "threadExec" \notin Habits =>
        /\ \A p \in Pids : info[p] # None /\ info[p].exec # None => info[p].exec.by = p
        /\ \A p \in Pids : execs[p] # None =>
               task[p] = p /\ info[p] # None /\ tracked[p] # None /\ execs[p].cmd = info[p].last
        /\ \A r \in Everywhere : r.kind = "exit" => r.cmd = r.who.last

(* And if the leader is the last to leave, a record of an exit is one of a *)
(* process that has ended.                                                 *)
Ended ==
    Habits \cap {"threadExec", "leave"} = {} =>
        \A r \in Everywhere : r.kind = "exit" => r.who.status # None

(* A code that a process may end with, or have ended with, in that status. *)
Fits(code, status) == IF status \in {None, Signalled} THEN code = None
                      ELSE code # None /\ code % 256 = status

(* The exit code that execs keeps is that of the only exit_group.          *)
Coded ==
    Habits \cap {"threadExec", "race"} = {} =>
        /\ \A p \in Pids : execs[p] # None => Fits(execs[p].code, info[p].status)
        /\ \A r \in Everywhere : r.kind = "exit" => Fits(r.code, r.who.status)

(* tracked_pids has room for every process there may be.                   *)
Roomy == IsFiniteSet(Pids) /\ Cardinality(Pids) <= TrackMax

(* A process that the probe could follow from the start is tracked until   *)
(* it has ended, so that none of its execs is missed.                      *)
Tracked ==
    Roomy /\ Habits \cap {"threadExec", "leave"} = {} =>
        /\ \A p \in Pids : info[p] # None /\ (p = Root => Seeded) =>
               (info[p].seen /\ info[p].status = None => tracked[p] # None)
        /\ ~Seeded => owed = {} /\ \A p \in Pids \ {Root} : info[p] # None => ~info[p].seen
        /\ \A o \in owed : /\ o[1] # Root
                           /\ \E r \in Everywhere :
                                  r.kind = "exec" /\ <<r.pid, r.n>> = o /\ r.cmd # None

Inv == /\ Types /\ Queues /\ Numbered /\ Filtered
       /\ Lineage /\ Chained /\ Owned /\ Ended /\ Coded /\ Tracked

-----------------------------------------------------------------------------
(* The assumptions, one by one.                                            *)
LEMMA Constants ==
    /\ Root \in Pids /\ Stranger \in Pids /\ Root # Stranger
    /\ Shells \subseteq Commands /\ Codes \subseteq Int /\ Signalled \notin Status
    /\ MaxCalls \in Nat /\ TrackMax \in Nat /\ RingMax \in Nat /\ EventBufSize \in Nat
    /\ None \notin Pids /\ None \notin Commands /\ None \notin Codes
    /\ None \notin Status /\ None # Signalled
    /\ None \notin ProcInfo /\ None \notin ExecScratch /\ None \notin ExecCall
    /\ None \notin ProcessState
BY ProcAssumption DEF Signalled, Status

(* The records that the programs write.                                    *)

LEMMA InRingElements == InRing = Elements(ring) /\ InRing' = Elements(ring')
BY DEF InRing, Elements

(* bpf_ringbuf_output: the record is in the ring buffer or lost.           *)
LEMMA OutputFlow ==
    ASSUME Queues, NEW r \in Records, Output(r), UNCHANGED <<chan, got>>
    PROVE  Queues' /\ Kernel' = Kernel \cup {r}
<1>1. CASE Len(ring) < RingMax
  <2>1. ring' = Append(ring, r) /\ lost' = lost
    BY <1>1 DEF Output
  <2>2. InRing' = InRing \cup {r} /\ ring' \in Seq(Records) /\ Len(ring') = Len(ring) + 1
    BY <2>1, AppendElements, InRingElements DEF Queues
  <2> QED BY <1>1, <2>1, <2>2, ProcAssumption, LenProperties DEF Queues, Kernel
<1>2. CASE ~(Len(ring) < RingMax)
  BY <1>2 DEF Output, Queues, Kernel, InRing
<1> QED BY <1>1, <1>2

(* What a record says, and the truth about its process.                    *)
LEMMA RecordFields ==
    ASSUME Types, NEW kind \in {"exec", "exit"}, NEW p \in Pids, info[p] # None,
           NEW cmd \in Commands \cup {None}, NEW top \in BOOLEAN, NEW code \in Codes \cup {None}
    PROVE  LET r == Record(kind, p, cmd, top, code)
           IN /\ r \in Records
              /\ r.kind = kind /\ r.pid = p /\ r.cmd = cmd /\ r.top = top /\ r.code = code
              /\ r.n = calls /\ r.who.tree = info[p].tree /\ r.who.top = info[p].top
              /\ r.who.last = info[p].last /\ r.who.status = info[p].status
BY ProcAssumption DEF Types, Record, Records, ProcessState

(* What is read of an execve is a command or nothing.                      *)
LEMMA ReadingType ==
    ASSUME NEW cmd \in Commands, NEW reading \in Readings(cmd)
    PROVE  reading.path \in Commands \cup {None} /\ reading.target \in Commands \cup {None}
BY DEF Readings

(* sys_enter_execve of a tracked process writes a record and an entry.     *)
LEMMA ExecveFlow ==
    ASSUME Types, Queues, NEW g \in Pids, info[g] # None, NEW reading,
           reading.path \in Commands \cup {None}, reading.target \in Commands \cup {None},
           HandleExecve(g, reading), UNCHANGED <<chan, got>>
    PROVE  /\ Queues'
           /\ \/ tracked[g] = None /\ UNCHANGED <<tracked, execs, Kernel>>
              \/ LET r == Record("exec", g, reading.target, tracked[g].is_toplevel, None)
                 IN /\ tracked[g] # None /\ tracked[g] \in ProcInfo
                    /\ r \in Records /\ Kernel' = Kernel \cup {r}
                    /\ execs' = Put(execs, ExecMax, g, Cached(reading.target, tracked[g].is_toplevel))
                    /\ tracked' = IF rootPid # None /\ g # rootPid
                                  THEN [tracked EXCEPT ![g].is_shell = reading.path \in Shells]
                                  ELSE tracked
<1>1. CASE tracked[g] = None
  BY <1>1 DEF HandleExecve, Queues, Kernel, InRing
<1>2. CASE tracked[g] # None
  <2> DEFINE r == Record("exec", g, reading.target, tracked[g].is_toplevel, None)
  <2>1. tracked[g] \in ProcInfo
    BY <1>2 DEF Types
  <2>2. r \in Records /\ r.top = tracked[g].is_toplevel
    BY <2>1, RecordFields DEF ProcInfo
  <2>3. /\ Output(r)
        /\ execs' = Put(execs, ExecMax, g, Cached(reading.target, r.top))
        /\ tracked' = IF rootPid # None /\ g # rootPid
                      THEN [tracked EXCEPT ![g].is_shell = reading.path \in Shells] ELSE tracked
    BY <1>2 DEF HandleExecve
  <2> HIDE DEF r
  <2>4. Queues' /\ Kernel' = Kernel \cup {r}
    BY <2>2, <2>3, OutputFlow
  <2> QED BY <1>2, <2>1, <2>2, <2>3, <2>4 DEF r
<1> QED BY <1>1, <1>2

(* sched_process_exit of the leader of a process that has an entry writes  *)
(* a record and removes the entry.                                         *)
LEMMA ExitFlow ==
    ASSUME Types, Queues, NEW t \in Pids, NEW g \in Pids, info[g] # None,
           HandleExit(t, g), UNCHANGED <<chan, got>>
    PROVE  /\ Queues'
           /\ \/ (t # g \/ execs[g] = None) /\ UNCHANGED <<tracked, execs, Kernel>>
              \/ LET r == Record("exit", g, execs[g].cmd, execs[g].top, execs[g].code)
                 IN /\ t = g /\ execs[g] # None /\ execs[g] \in ExecScratch
                    /\ r \in Records /\ Kernel' = Kernel \cup {r}
                    /\ execs' = [execs EXCEPT ![g] = None]
                    /\ tracked' = [tracked EXCEPT ![g] = None]
<1>1. CASE t # g \/ execs[g] = None
  BY <1>1 DEF HandleExit, Counts, Queues, Kernel, InRing
<1>2. CASE t = g /\ execs[g] # None
  <2> DEFINE r == Record("exit", g, execs[g].cmd, execs[g].top, execs[g].code)
  <2>1. execs[g] \in ExecScratch
    BY <1>2 DEF Types
  <2>2. r \in Records
    BY <2>1, RecordFields DEF ExecScratch
  <2>3. Output(r) /\ execs' = [execs EXCEPT ![g] = None] /\ tracked' = [tracked EXCEPT ![g] = None]
    BY <1>2 DEF HandleExit, Counts, Forget
  <2> HIDE DEF r
  <2>4. Queues' /\ Kernel' = Kernel \cup {r}
    BY <2>2, <2>3, OutputFlow
  <2> QED BY <1>2, <2>1, <2>2, <2>3, <2>4 DEF r
<1> QED BY <1>1, <1>2

(* A map keeps its type, and an entry that it has.                         *)
LEMMA PutType ==
    ASSUME NEW S, NEW map \in [Pids -> S \cup {None}], NEW max, NEW k \in Pids, NEW v \in S
    PROVE  /\ Put(map, max, k, v) \in [Pids -> S \cup {None}]
           /\ \A p \in Pids \ {k} : Put(map, max, k, v)[p] = map[p]
           /\ Put(map, max, k, v)[k] = v \/ (map[k] = None /\ Put(map, max, k, v)[k] = None)
BY DEF Put

(* A map with room for every process takes any entry.                      *)
LEMMA PutSucceeds ==
    ASSUME Roomy, NEW S, NEW map \in [Pids -> S \cup {None}], NEW k \in Pids, NEW v \in S
    PROVE  Put(map, TrackMax, k, v) = [map EXCEPT ![k] = v]
<1> DEFINE full == {p \in Pids : map[p] # None}
<1>1. CASE map[k] # None
  BY <1>1 DEF Put
<1>2. CASE map[k] = None
  <2>1. full \in SUBSET Pids /\ full # Pids
    BY <1>2
  <2>2. /\ IsFiniteSet(full) /\ Cardinality(full) <= Cardinality(Pids)
        /\ Cardinality(full) # Cardinality(Pids)
    BY <2>1, FS_Subset DEF Roomy
  <2>3. Cardinality(full) \in Nat /\ Cardinality(Pids) \in Nat /\ TrackMax \in Nat
    BY <2>2, FS_CardinalityType, ProcAssumption DEF Roomy
  <2>4. Cardinality(full) < TrackMax
    BY <2>2, <2>3 DEF Roomy
  <2> QED BY <2>4 DEF Put
<1> QED BY <1>1, <1>2

-----------------------------------------------------------------------------
(* task_newtask of a tracked parent makes an entry for the child, or finds *)
(* tracked_pids full.                                                      *)
Child(e) == [is_shell |-> FALSE, is_toplevel |-> e.is_shell /\ e.is_toplevel]

LEMMA ForkFlow ==
    ASSUME Types, NEW g \in Pids, NEW c \in Pids, HandleFork(g, c)
    PROVE  /\ tracked' \in [Pids -> ProcInfo \cup {None}]
           /\ \A q \in Pids \ {c} : tracked'[q] = tracked[q]
           /\ tracked'[c] = tracked[c] \/ (tracked[g] # None /\ tracked'[c] = Child(tracked[g]))
           /\ Roomy /\ tracked[g] # None => tracked'[c] # None
<1>1. tracked \in [Pids -> ProcInfo \cup {None}]
  BY DEF Types
<1>2. CASE tracked[g] = None
  BY <1>1, <1>2 DEF HandleFork
<1>3. CASE tracked[g] # None
  <2> DEFINE m == Put(tracked, TrackMax, c, Child(tracked[g]))
  <2>1. tracked' = m
    BY <1>3 DEF HandleFork, Child
  <2>2. Child(tracked[g]) \in ProcInfo
    BY DEF Child, ProcInfo
  <2>3. /\ m \in [Pids -> ProcInfo \cup {None}] /\ \A q \in Pids \ {c} : m[q] = tracked[q]
        /\ m[c] = Child(tracked[g]) \/ (tracked[c] = None /\ m[c] = None)
    BY <1>1, <2>2, PutType
  <2>4. Roomy => m[c] # None
    <3> SUFFICES ASSUME Roomy PROVE m[c] # None
      OBVIOUS
    <3>1. m = [tracked EXCEPT ![c] = Child(tracked[g])]
      BY <1>1, <2>2, PutSucceeds
    <3> QED BY <1>1, <2>2, <3>1, Constants
  <2> HIDE DEF m
  <2> QED BY <1>3, <2>1, <2>3, <2>4
<1> QED BY <1>2, <1>3

LEMMA ProcessFields ==
    ASSUME NEW tree \in BOOLEAN, NEW seen \in BOOLEAN, NEW top \in BOOLEAN
    PROVE  LET p == Process(tree, seen, top)
           IN /\ p \in ProcessState /\ p # None
              /\ p.tree = tree /\ p.seen = seen /\ p.top = top
              /\ p.img = None /\ p.exec = None /\ p.status = None
<1>1. Process(tree, seen, top) \in ProcessState
  BY DEF Process, ProcessState
<1> QED BY <1>1, Constants DEF Process

(* The invariant holds initially.                                          *)
LEMMA InitInv == Init => Inv
<1> SUFFICES ASSUME Init PROVE Inv
  OBVIOUS
<1> USE Constants
<1>1. /\ Process(FALSE, FALSE, FALSE) \in ProcessState
      /\ Process(FALSE, FALSE, FALSE).exec = None /\ Process(FALSE, FALSE, FALSE).seen = FALSE
  BY ProcessFields
<1>2. Types
  <2>1. /\ task \in [Pids -> Pids \cup {None}] /\ info \in [Pids -> ProcessState \cup {None}]
        /\ tracked \in [Pids -> ProcInfo \cup {None}] /\ execs \in [Pids -> ExecScratch \cup {None}]
    BY <1>1 DEF Init
  <2>2. /\ used \subseteq Pids /\ calls \in 0..MaxCalls /\ phase \in Early \cup Late
        /\ rootPid \in {Root, None} /\ pidFilter \in {Root, None}
    BY DEF Init, Early, Late
  <2>3. loop \in {"none", "reads", "ended"} /\ closed \in BOOLEAN /\ failed \in BOOLEAN
    BY DEF Init
  <2> QED BY <2>1, <2>2, <2>3 DEF Types
<1>3. Queues /\ Everywhere = {}
  BY EmptySeq DEF Init, Queues, Everywhere, Sent, InChan, Elements, Kernel, InRing
<1>4. Numbered
  BY <1>1 DEF Init, Numbered
<1>5. Filtered
  BY <1>3 DEF Init, Filtered, Early, Late, Everywhere
<1>6. Lineage /\ Owned /\ Ended /\ Coded
  BY <1>1, <1>3 DEF Init, Lineage, Owned, Ended, Coded
<1>7. Chained
  BY <1>1, <1>3 DEF Init, Chained
<1>8. Tracked
  BY <1>1, <1>3 DEF Init, Tracked, Seeded
<1> QED BY <1>2, <1>3, <1>4, <1>5, <1>6, <1>7, <1>8 DEF Inv

(* A process forks: the new one starts without an entry in execs, and with *)
(* one in tracked_pids if its parent has one.                              *)
LEMMA ForkInv == ASSUME Inv, NEW t \in Pids, NEW c \in Pids, Fork(t, c) PROVE Inv'
<1> USE Constants DEF Inv
<1> DEFINE g == task[t]
           p == info[g]
           new == Child(tracked[g])
           seen == p.seen /\ (g = Root => Seeded)
           graded == g = Root \/ (p.top /\ p.img \in Shells)
           child == Process(p.tree, seen, graded)
<1>1. /\ g \in Pids /\ p # None /\ p \in ProcessState /\ c # Root /\ c # g
      /\ task[c] = None /\ info[c] = None /\ p.status = None
      /\ calls' \in 0..MaxCalls
  BY DEF Fork, Running, Free, Called, Types, Numbered
<1>2. /\ task' = [task EXCEPT ![c] = c] /\ used' = used \cup {c}
      /\ info' = [info EXCEPT ![c] = child]
      /\ HandleFork(g, c)
      /\ UNCHANGED <<owed, rootPid, execs, ring, lost, userVars>>
  BY DEF Fork
<1>3. /\ child \in ProcessState /\ child # None /\ child.tree = p.tree
      /\ child.exec = None /\ child.img = None /\ child.status = None
      /\ child.seen = seen /\ child.top = graded
  <2>1. p.tree \in BOOLEAN /\ seen \in BOOLEAN /\ graded \in BOOLEAN
    BY <1>1 DEF ProcessState
  <2> HIDE DEF p, seen, graded
  <2> QED BY <2>1, ProcessFields
<1>4. /\ new.is_shell = FALSE
      /\ new.is_toplevel = (tracked[g].is_shell /\ tracked[g].is_toplevel)
  BY DEF Child
<1> HIDE DEF child, new
<1>5. /\ tracked' \in [Pids -> ProcInfo \cup {None}]
      /\ \A q \in Pids \ {c} : tracked'[q] = tracked[q]
      /\ tracked'[c] = tracked[c] \/ (tracked[g] # None /\ tracked'[c] = new)
      /\ Roomy /\ tracked[g] # None => tracked'[c] # None
  BY <1>1, <1>2, ForkFlow DEF new
<1>6. /\ info' \in [Pids -> ProcessState \cup {None}] /\ info'[c] = child
      /\ \A q \in Pids \ {c} : info'[q] = info[q]
      /\ task' \in [Pids -> Pids \cup {None}] /\ task'[c] = c
      /\ \A q \in Pids \ {c} : task'[q] = task[q]
  BY <1>2, <1>3 DEF Types
<1>7. Types'
  BY <1>1, <1>2, <1>5, <1>6 DEF Types, userVars
<1>8. Queues' /\ Everywhere' = Everywhere /\ Sent' = Sent /\ (Seeded <=> Seeded')
  BY <1>2 DEF Queues, Everywhere, Sent, InChan, Kernel, InRing, userVars, Seeded
<1>9. Numbered'
  BY <1>1, <1>2, <1>3, <1>5, <1>6 DEF Numbered, userVars, Types
<1>10. Filtered'
  BY <1>2, <1>8 DEF Filtered, userVars
<1>11. Lineage'
  BY <1>1, <1>2, <1>3, <1>5, <1>6, <1>8 DEF Lineage, Fork, Free, Numbered
<1>12. Chained'
  <2> SUFFICES ASSUME Habits \cap {"thread", "fail", "reuse"} = {} PROVE Chained'
    BY DEF Chained
  <2>1. c \notin used /\ tracked[c] = None /\ execs[c] = None
    BY DEF Fork, Free, Numbered
  <2>2. g = t /\ p.exec = None
    BY <1>1 DEF Chained, Fork, Running
  <2>3. tracked'[c] # None => tracked'[c] = new /\ tracked[g] # None /\ rootPid = Root
    BY <1>1, <1>5, <2>1 DEF Chained
  <2>4. tracked[g] # None => new.is_toplevel = graded
    BY <1>1, <1>4, <2>2 DEF Chained, Image, Numbered, Types, ProcInfo, ProcessState
  <2> HIDE DEF graded
  <2> QED BY <1>1, <1>2, <1>3, <1>4, <1>5, <1>6, <1>8, <2>1, <2>3, <2>4 DEF Chained, Image
<1>13. Owned'
  BY <1>1, <1>2, <1>3, <1>5, <1>6, <1>8 DEF Owned
<1>14. Ended'
  BY <1>8 DEF Ended
<1>15. Coded'
  BY <1>1, <1>2, <1>6, <1>8 DEF Coded, Owned
<1>16. Tracked'
  <2> SUFFICES ASSUME Roomy, Habits \cap {"threadExec", "leave"} = {} PROVE Tracked'
    BY DEF Tracked
  <2>1. child.seen => tracked[g] # None
    BY <1>1, <1>3 DEF Tracked
  <2>2. \A q \in Pids : info'[q] # None /\ (q = Root => Seeded') =>
            (info'[q].seen /\ info'[q].status = None => tracked'[q] # None)
    BY <1>1, <1>3, <1>5, <1>6, <1>8, <2>1 DEF Tracked
  <2>3. ~Seeded' => owed' = {} /\ \A q \in Pids \ {Root} : info'[q] # None => ~info'[q].seen
    BY <1>1, <1>2, <1>3, <1>6, <1>8 DEF Tracked
  <2> QED BY <1>2, <1>8, <2>2, <2>3 DEF Tracked
<1> QED BY <1>7, <1>8, <1>9, <1>10, <1>11, <1>12, <1>13, <1>14, <1>15, <1>16

(* A thread is cloned: it gets an entry in tracked_pids, and no process.   *)
LEMMA CloneInv == ASSUME Inv, NEW t \in Pids, NEW c \in Pids, CloneThread(t, c) PROVE Inv'
<1> USE Constants DEF Inv
<1> DEFINE g == task[t]
<1>1. /\ g \in Pids /\ info[g] # None /\ c # Root /\ c # g /\ "thread" \in Habits
      /\ task[c] = None /\ info[c] = None /\ calls' \in 0..MaxCalls
  BY DEF CloneThread, Running, Free, Called, Types, Numbered
<1>2. /\ task' = [task EXCEPT ![c] = g] /\ used' = used \cup {c} /\ HandleFork(g, c)
      /\ UNCHANGED <<owed, info, rootPid, execs, ring, lost, userVars>>
  BY DEF CloneThread
<1>3. /\ tracked' \in [Pids -> ProcInfo \cup {None}]
      /\ \A q \in Pids \ {c} : tracked'[q] = tracked[q]
      /\ tracked[c] = tracked'[c] \/ tracked[g] # None
  BY <1>1, <1>2, ForkFlow
<1>4. /\ task' \in [Pids -> Pids \cup {None}] /\ task'[c] = g
      /\ \A q \in Pids \ {c} : task'[q] = task[q]
  BY <1>1, <1>2 DEF Types
<1>5. Types'
  BY <1>1, <1>2, <1>3, <1>4 DEF Types, userVars
<1>6. Queues' /\ Everywhere' = Everywhere /\ Sent' = Sent /\ (Seeded <=> Seeded')
  BY <1>2 DEF Queues, Everywhere, Sent, InChan, Kernel, InRing, userVars, Seeded
<1>7. Numbered' /\ Filtered'
  BY <1>1, <1>2, <1>3, <1>4, <1>6 DEF Numbered, Filtered, userVars, Types
<1>8. Lineage' /\ Chained' /\ Ended'
  BY <1>1, <1>2, <1>3, <1>6 DEF Lineage, Chained, Ended
<1>9. Owned'
  BY <1>1, <1>2, <1>3, <1>4, <1>6 DEF Owned
<1>10. Coded'
  BY <1>2, <1>6 DEF Coded
<1>11. Tracked'
  BY <1>1, <1>2, <1>3, <1>6 DEF Tracked
<1> QED BY <1>5, <1>6, <1>7, <1>8, <1>9, <1>10, <1>11

(* An execve is entered.                                                   *)
LEMMA ExecEnterInv ==
    ASSUME Inv, NEW t \in Pids, NEW cmd \in Commands, ExecEnter(t, cmd) PROVE Inv'
<1> USE Constants DEF Inv
<1> DEFINE g == task[t]
           p == info[g]
<1>0. PICK reading \in Readings(cmd) :
         /\ info' = [info EXCEPT ![g].exec = [by |-> t, cmd |-> reading.path, sure |-> FALSE],
                                 ![g].last = reading.target]
         /\ owed' = IF p.seen /\ g # Root /\ reading.target # None
                    THEN owed \cup {<<g, calls>>} ELSE owed
         /\ HandleExecve(g, reading)
  BY DEF ExecEnter
<1> DEFINE path == reading.path
           target == reading.target
           call == [by |-> t, cmd |-> path, sure |-> FALSE]
           new == [p EXCEPT !.exec = call, !.last = target]
           entry == Cached(target, tracked[g].is_toplevel)
<1>a. path \in Commands \cup {None} /\ target \in Commands \cup {None}
  BY ReadingType
<1>1. /\ g \in Pids /\ p # None /\ p \in ProcessState /\ p.status = None /\ p.exec = None
      /\ calls' \in 0..MaxCalls /\ ("threadExec" \notin Habits => t = g)
  BY DEF ExecEnter, Running, Called, Types, Numbered
<1>2. /\ info' = [info EXCEPT ![g] = new]
      /\ owed' = IF p.seen /\ g # Root /\ target # None THEN owed \cup {<<g, calls>>} ELSE owed
      /\ HandleExecve(g, reading)
      /\ UNCHANGED <<task, used, rootPid, userVars>>
  BY <1>0 DEF ExecEnter
<1>3. call \in ExecCall /\ call.by = t /\ call.cmd = path
  BY <1>a DEF ExecCall
<1> HIDE DEF call
<1>4. /\ new \in ProcessState /\ new.tree = p.tree /\ new.seen = p.seen /\ new.top = p.top
      /\ new.exec = call /\ new.last = target /\ new.status = None
  BY <1>1, <1>3, <1>a DEF ProcessState
<1> HIDE DEF new
<1>5. /\ info' \in [Pids -> ProcessState \cup {None}] /\ info'[g] = new
      /\ \A q \in Pids \ {g} : info'[q] = info[q]
  BY <1>1, <1>2, <1>4 DEF Types
<1>6. /\ Queues'
      /\ \/ tracked[g] = None /\ UNCHANGED <<tracked, execs, Kernel>>
         \/ LET r == Record("exec", g, target, tracked[g].is_toplevel, None)
            IN /\ tracked[g] # None /\ tracked[g] \in ProcInfo
               /\ r \in Records /\ Kernel' = Kernel \cup {r}
               /\ execs' = Put(execs, ExecMax, g, entry)
               /\ tracked' = IF rootPid # None /\ g # rootPid
                             THEN [tracked EXCEPT ![g].is_shell = path \in Shells]
                             ELSE tracked
  BY <1>1, <1>2, <1>a, ExecveFlow DEF userVars
<1> HIDE DEF path, target
<1>7. Sent' = Sent /\ (Seeded <=> Seeded')
  BY <1>2 DEF Sent, InChan, userVars, Seeded
<1>8. CASE tracked[g] = None
  <2>1. UNCHANGED <<tracked, execs, Kernel>> /\ Everywhere' = Everywhere
    BY <1>6, <1>7, <1>8 DEF Everywhere
  <2>2. Types'
    BY <1>1, <1>2, <1>5, <2>1 DEF Types, userVars
  <2>3. Numbered' /\ Filtered'
    BY <1>1, <1>2, <1>4, <1>5, <1>7, <2>1 DEF Numbered, Filtered, userVars, Types
  <2>4. Lineage' /\ Ended'
    BY <1>1, <1>4, <1>5, <2>1 DEF Lineage, Ended
  <2>5. Chained'
    BY <1>1, <1>2, <1>3, <1>4, <1>5, <1>8, <2>1 DEF Chained, Image
  <2>6. Owned' /\ Coded'
    BY <1>1, <1>2, <1>3, <1>4, <1>5, <1>8, <2>1 DEF Owned, Coded
  <2>7. Tracked'
    BY <1>1, <1>2, <1>4, <1>5, <1>7, <1>8, <2>1 DEF Tracked
  <2> QED BY <1>6, <2>2, <2>3, <2>4, <2>5, <2>6, <2>7
<1>9. CASE tracked[g] # None
  <2> DEFINE top == tracked[g].is_toplevel
             r == Record("exec", g, target, top, None)
  <2>1. /\ tracked[g] \in ProcInfo /\ top \in BOOLEAN
        /\ execs' = Put(execs, ExecMax, g, entry)
        /\ tracked' = IF rootPid # None /\ g # rootPid
                      THEN [tracked EXCEPT ![g].is_shell = path \in Shells] ELSE tracked
    BY <1>6, <1>9 DEF ProcInfo
  <2>2. /\ r.kind = "exec" /\ r.pid = g /\ r.top = top /\ r.n = calls /\ r.cmd = target
        /\ r.who.tree = p.tree /\ r.who.top = p.top
    BY <1>1, <1>a, <2>1, RecordFields
  <2>3. Everywhere' = Everywhere \cup {r}
    BY <1>6, <1>7, <1>9 DEF Everywhere
  <2>4. entry \in ExecScratch /\ entry.cmd = target /\ entry.top = top /\ entry.code = None
    BY <1>a, <2>1 DEF Cached, ExecScratch
  <2> HIDE DEF r, entry
  <2>5. /\ execs' \in [Pids -> ExecScratch \cup {None}]
        /\ \A q \in Pids \ {g} : execs'[q] = execs[q]
        /\ execs'[g] = entry \/ execs'[g] = None
    <3> DEFINE m == Put(execs, ExecMax, g, entry)
    <3>1. execs \in [Pids -> ExecScratch \cup {None}] /\ g \in Pids /\ entry \in ExecScratch
      BY <1>1, <2>4 DEF Types
    <3>2. /\ m \in [Pids -> ExecScratch \cup {None}] /\ \A q \in Pids \ {g} : m[q] = execs[q]
          /\ m[g] = entry \/ (execs[g] = None /\ m[g] = None)
      <4> HIDE DEF Inv, g
      <4> QED BY ONLY <3>1, PutType
    <3> HIDE DEF m
    <3> QED BY <2>1, <3>2 DEF m
  <2>6. /\ tracked' \in [Pids -> ProcInfo \cup {None}]
        /\ \A q \in Pids \ {g} : tracked'[q] = tracked[q]
        /\ tracked'[g] # None /\ tracked'[g].is_toplevel = top
        /\ IF rootPid # None /\ g # rootPid THEN (tracked'[g].is_shell <=> path \in Shells)
           ELSE tracked'[g] = tracked[g]
    <3>1. tracked \in [Pids -> ProcInfo \cup {None}]
      BY DEF Types
    <3> DEFINE shell == path \in Shells
               e == [tracked[g] EXCEPT !.is_shell = shell]
    <3>2. e \in ProcInfo /\ e.is_toplevel = top /\ e.is_shell = shell
      <4>1. shell \in BOOLEAN
        OBVIOUS
      <4> HIDE DEF shell
      <4> QED BY <2>1, <4>1 DEF ProcInfo
    <3>3. tracked' = IF rootPid # None /\ g # rootPid THEN [tracked EXCEPT ![g] = e] ELSE tracked
      BY <2>1
    <3> HIDE DEF e
    <3> QED BY <1>1, <1>9, <3>1, <3>2, <3>3
  <2> HIDE DEF top
  <2>7. Types'
    BY <1>1, <1>2, <1>5, <2>5, <2>6 DEF Types, userVars
  <2>8. Numbered' /\ Filtered'
    BY <1>1, <1>2, <1>4, <1>5, <1>7, <1>9, <2>5, <2>6 DEF Numbered, Filtered, userVars, Types
  <2>9. Lineage' /\ Ended'
    BY <1>1, <1>4, <1>5, <1>9, <2>2, <2>3, <2>5, <2>6 DEF Lineage, Ended
  <2>10. Chained'
    <3> SUFFICES ASSUME Habits \cap {"thread", "fail", "reuse"} = {} PROVE Chained'
      BY DEF Chained
    <3>1. g = t /\ rootPid = Root /\ top = p.top
      BY <1>1, <1>9 DEF Chained, top
    <3>2. /\ \A q \in Pids : task'[q] \in {q, None}
          /\ \A q \in Pids : info'[q] # None /\ info'[q].exec # None => info'[q].exec.by = q
          /\ \A q \in Pids : tracked'[q] # None => rootPid' = Root
          /\ \A q \in Pids : info'[q] # None /\ execs'[q] # None => execs'[q].top = info'[q].top
      BY <1>1, <1>2, <1>3, <1>4, <1>5, <2>4, <2>5, <2>6, <3>1 DEF Chained
    <3>3. tracked'[Root] # None => tracked'[Root].is_shell
      BY <2>6, <3>1 DEF Chained
    <3>4. \A q \in Pids : info'[q] # None /\ tracked'[q] # None =>
               /\ tracked'[q].is_toplevel = info'[q].top
               /\ q # Root => (tracked'[q].is_shell <=> Image(info'[q]) \in Shells)
      BY <1>1, <1>3, <1>4, <1>5, <2>6, <3>1 DEF Chained, Image
    <3>5. \A x \in Everywhere' : x.top = x.who.top
      BY <2>2, <2>3, <3>1 DEF Chained
    <3> QED BY <3>2, <3>3, <3>4, <3>5 DEF Chained
  <2>11. Owned'
    BY <1>1, <1>2, <1>3, <1>4, <1>5, <2>2, <2>3, <2>4, <2>5, <2>6 DEF Owned
  <2>12. Coded'
    BY <1>1, <1>4, <1>5, <2>2, <2>3, <2>4, <2>5 DEF Coded, Fits
  <2>13. Tracked'
    <3> SUFFICES ASSUME Roomy, Habits \cap {"threadExec", "leave"} = {} PROVE Tracked'
      BY DEF Tracked
    <3>1. /\ \A q \in Pids : info'[q] # None /\ (q = Root => Seeded') =>
                 (info'[q].seen /\ info'[q].status = None => tracked'[q] # None)
          /\ ~Seeded' => owed' = {} /\ \A q \in Pids \ {Root} : info'[q] # None => ~info'[q].seen
      BY <1>1, <1>2, <1>4, <1>5, <1>7, <2>6 DEF Tracked
    <3>2. ASSUME NEW o \in owed'
          PROVE  o[1] # Root /\ \E x \in Everywhere' :
                                   x.kind = "exec" /\ <<x.pid, x.n>> = o /\ x.cmd # None
      <4>1. CASE o \in owed
        BY <2>3, <4>1 DEF Tracked
      <4>2. CASE o \notin owed
        BY <1>2, <2>2, <2>3, <3>2, <4>2
      <4> QED BY <4>1, <4>2
    <3> QED BY <3>1, <3>2 DEF Tracked
  <2> QED BY <1>6, <2>7, <2>8, <2>9, <2>10, <2>11, <2>12, <2>13
<1> QED BY <1>8, <1>9

(* An execve fails, or a process is killed: only the process changes.      *)
LEMMA ExecFailsInv == ASSUME Inv, NEW g \in Pids, ExecFails(g) PROVE Inv'
<1> USE Constants DEF Inv
<1> DEFINE p == info[g]
           new == [p EXCEPT !.exec = None]
<1>1. "fail" \in Habits /\ p # None /\ p \in ProcessState
  BY DEF ExecFails, Types
<1>2. /\ info' = [info EXCEPT ![g] = new]
      /\ UNCHANGED <<task, used, calls, owed, rootPid, tracked, execs, ring, lost, userVars>>
  BY DEF ExecFails
<1>3. /\ new \in ProcessState /\ new.tree = p.tree /\ new.seen = p.seen /\ new.top = p.top
      /\ new.exec = None /\ new.last = p.last /\ new.status = p.status
  BY <1>1 DEF ProcessState
<1> HIDE DEF new
<1>4. /\ info' \in [Pids -> ProcessState \cup {None}] /\ info'[g] = new
      /\ \A q \in Pids \ {g} : info'[q] = info[q]
  BY <1>2, <1>3 DEF Types
<1>5. Queues' /\ Everywhere' = Everywhere /\ Sent' = Sent /\ (Seeded <=> Seeded')
  BY <1>2 DEF Queues, Everywhere, Sent, InChan, Kernel, InRing, userVars, Seeded
<1>6. Types'
  BY <1>2, <1>4 DEF Types, userVars
<1>7. Numbered' /\ Filtered'
  BY <1>1, <1>2, <1>3, <1>4, <1>5 DEF Numbered, Filtered, userVars, Types
<1>8. Lineage' /\ Chained' /\ Ended'
  BY <1>1, <1>2, <1>3, <1>4, <1>5 DEF Lineage, Chained, Ended
<1>9. Owned' /\ Coded'
  BY <1>1, <1>2, <1>3, <1>4, <1>5 DEF Owned, Coded
<1>10. Tracked'
  BY <1>1, <1>2, <1>3, <1>4, <1>5 DEF Tracked
<1> QED BY <1>5, <1>6, <1>7, <1>8, <1>9, <1>10

(* A signal ends a process, which has called no exit_group.                *)
LEMMA SignalInv ==
    ASSUME Inv, NEW g \in Pids, info[g] # None, info[g].status = None,
           info' = [info EXCEPT ![g] = [@ EXCEPT !.status = Signalled]],
           UNCHANGED <<task, used, calls, owed, rootPid, tracked, execs, ring, lost, pidFilter,
                       loop, closed, chan, got>>,
           \/ UNCHANGED <<phase, failed>>
           \/ phase = "run" /\ phase' = "wait" /\ failed' = failed
           \/ phase \in {"setRoot", "seed"} /\ phase' = "wait" /\ failed' = TRUE
    PROVE  Inv'
<1> USE Constants DEF Inv
<1> DEFINE p == info[g]
           new == [p EXCEPT !.status = Signalled]
<1>1. p \in ProcessState
  BY DEF Types
<1>2. info' = [info EXCEPT ![g] = new]
  OBVIOUS
<1>3. /\ new \in ProcessState /\ new.tree = p.tree /\ new.seen = p.seen /\ new.top = p.top
      /\ new.exec = p.exec /\ new.img = p.img /\ new.last = p.last /\ new.status = Signalled
  BY <1>1 DEF ProcessState
<1> HIDE DEF new
<1>4. /\ info' \in [Pids -> ProcessState \cup {None}] /\ info'[g] = new
      /\ \A q \in Pids \ {g} : info'[q] = info[q]
  BY <1>2, <1>3 DEF Types
<1>5. Queues' /\ Everywhere' = Everywhere /\ Sent' = Sent
  BY DEF Queues, Everywhere, Sent, InChan, Kernel, InRing
<1>6. Seeded <=> Seeded'
  BY DEF Seeded
<1>7. Types'
  BY <1>4 DEF Types, Early, Late
<1>8. Numbered'
  BY <1>3, <1>4 DEF Numbered, Types
<1>9. Filtered'
  BY <1>5 DEF Filtered, Early, Late
<1>10. Lineage' /\ Ended'
  BY <1>3, <1>4, <1>5 DEF Lineage, Ended
<1>11. Chained'
  BY <1>3, <1>4, <1>5 DEF Chained, Image
<1>12. Owned'
  BY <1>3, <1>4, <1>5 DEF Owned
<1>13. Coded'
  BY <1>3, <1>4, <1>5 DEF Coded, Fits
<1>14. Tracked'
  BY <1>3, <1>4, <1>5, <1>6 DEF Tracked
<1> QED BY <1>5, <1>7, <1>8, <1>9, <1>10, <1>11, <1>12, <1>13, <1>14

LEMMA KilledInv == ASSUME Inv, NEW g \in Pids, Killed(g) PROVE Inv'
BY SignalInv DEF Killed, userVars

(* An execve succeeds, once the caller is the only task of its process.    *)
LEMMA ExecDoneInv == ASSUME Inv, NEW t \in Pids, ExecDone(t) PROVE Inv'
<1> USE Constants DEF Inv
<1> DEFINE g == task[t]
           p == info[g]
           new == [p EXCEPT !.img = p.exec.cmd, !.exec = None]
<1>1. /\ g \in Pids /\ p # None /\ p \in ProcessState /\ p.exec # None /\ p.exec.by = t
      /\ p.exec \in ExecCall
  BY DEF ExecDone, Types, Numbered, ProcessState
<1>2. /\ info' = [info EXCEPT ![g] = new]
      /\ task' = [[task EXCEPT ![t] = None] EXCEPT ![g] = g]
      /\ UNCHANGED <<used, calls, owed, rootPid, tracked, execs, ring, lost, userVars>>
  BY DEF ExecDone
<1>3. /\ new \in ProcessState /\ new.tree = p.tree /\ new.seen = p.seen /\ new.top = p.top
      /\ new.exec = None /\ new.img = p.exec.cmd /\ new.last = p.last /\ new.status = p.status
  <2>1. p.exec.cmd \in Commands \cup {None}
    BY <1>1 DEF ExecCall
  <2> QED BY <1>1, <2>1 DEF ProcessState
<1> HIDE DEF new
<1>4. /\ info' \in [Pids -> ProcessState \cup {None}] /\ info'[g] = new
      /\ \A q \in Pids \ {g} : info'[q] = info[q]
      /\ task' \in [Pids -> Pids \cup {None}] /\ task'[g] = g /\ (t # g => task'[t] = None)
      /\ \A q \in Pids \ {g, t} : task'[q] = task[q]
  BY <1>1, <1>2, <1>3 DEF Types
<1>5. Queues' /\ Everywhere' = Everywhere /\ Sent' = Sent /\ (Seeded <=> Seeded')
  BY <1>2 DEF Queues, Everywhere, Sent, InChan, Kernel, InRing, userVars, Seeded
<1>6. Types'
  BY <1>2, <1>4 DEF Types, userVars
<1>7. Numbered' /\ Filtered'
  BY <1>1, <1>2, <1>3, <1>4, <1>5 DEF Numbered, Filtered, userVars, Types
<1>8. Lineage' /\ Ended'
  BY <1>1, <1>2, <1>3, <1>4, <1>5 DEF Lineage, Ended
<1>9. Chained'
  BY <1>1, <1>2, <1>3, <1>4, <1>5 DEF Chained, Image
<1>10. Owned' /\ Coded'
  BY <1>1, <1>2, <1>3, <1>4, <1>5 DEF Owned, Coded
<1>11. Tracked'
  BY <1>1, <1>2, <1>3, <1>4, <1>5 DEF Tracked
<1> QED BY <1>5, <1>6, <1>7, <1>8, <1>9, <1>10, <1>11

(* exit_group: the code goes into the entry of the process, if it has one. *)
LEMMA ExitGroupInv ==
    ASSUME Inv, NEW t \in Pids, NEW code \in Codes, ExitGroup(t, code) PROVE Inv'
<1> USE Constants DEF Inv
<1> DEFINE g == task[t]
           p == info[g]
           new == [p EXCEPT !.status = IF @ = None THEN code % 256 ELSE @, !.quit = @ \cup {t}]
           entry == [execs[g] EXCEPT !.code = code]
<1>1. /\ g \in Pids /\ p # None /\ p \in ProcessState
      /\ "race" \notin Habits => p.status = None
  BY DEF ExitGroup, Running, Types, Numbered
<1>2. /\ info' = [info EXCEPT ![g] = new]
      /\ execs' = IF execs[g] = None THEN execs ELSE [execs EXCEPT ![g] = entry]
      /\ UNCHANGED <<task, used, calls, owed, rootPid, tracked, ring, lost, userVars>>
  BY DEF ExitGroup, HandleExitGroup
<1>3. /\ new \in ProcessState /\ new.tree = p.tree /\ new.seen = p.seen /\ new.top = p.top
      /\ new.exec = p.exec /\ new.img = p.img /\ new.last = p.last /\ new.status # None
      /\ p.status = None => new.status = code % 256 /\ new.status # Signalled
  <2> DEFINE low == code % 256
  <2>1. low \in Status
    BY DEF Status
  <2> HIDE DEF low
  <2>2. /\ new = [p EXCEPT !.status = IF @ = None THEN low ELSE @, !.quit = @ \cup {t}]
        /\ low # None /\ low # Signalled
    BY <2>1 DEF low
  <2> HIDE DEF new
  <2>3. /\ new \in ProcessState /\ new.tree = p.tree /\ new.seen = p.seen /\ new.top = p.top
        /\ new.exec = p.exec /\ new.img = p.img /\ new.last = p.last /\ new.status # None
        /\ p.status = None => new.status = low
    BY <1>1, <2>1, <2>2 DEF ProcessState
  <2> QED BY <2>2, <2>3 DEF low
<1> HIDE DEF new
<1>4. /\ info' \in [Pids -> ProcessState \cup {None}] /\ info'[g] = new
      /\ \A q \in Pids \ {g} : info'[q] = info[q]
  BY <1>1, <1>2, <1>3 DEF Types
<1>5. /\ execs' \in [Pids -> ExecScratch \cup {None}]
      /\ \A q \in Pids \ {g} : execs'[q] = execs[q]
      /\ execs'[g] # None => /\ execs[g] # None /\ execs'[g].cmd = execs[g].cmd
                             /\ execs'[g].top = execs[g].top /\ execs'[g].code = code
  <2>1. CASE execs[g] = None
    BY <1>1, <1>2, <2>1 DEF Types
  <2>2. CASE execs[g] # None
    <3>1. execs[g] \in ExecScratch
      BY <1>1, <2>2 DEF Types
    <3>2. /\ entry \in ExecScratch /\ entry.cmd = execs[g].cmd /\ entry.top = execs[g].top
          /\ entry.code = code
      BY <3>1 DEF ExecScratch
    <3> HIDE DEF entry
    <3> QED BY <1>1, <1>2, <2>2, <3>2 DEF Types
  <2> QED BY <2>1, <2>2
<1>6. Queues' /\ Everywhere' = Everywhere /\ Sent' = Sent /\ (Seeded <=> Seeded')
  BY <1>2 DEF Queues, Everywhere, Sent, InChan, Kernel, InRing, userVars, Seeded
<1>7. Types'
  BY <1>2, <1>4, <1>5 DEF Types, userVars
<1>8. Numbered' /\ Filtered'
  BY <1>1, <1>2, <1>3, <1>4, <1>5, <1>6 DEF Numbered, Filtered, userVars, Types
<1>9. Lineage' /\ Ended'
  BY <1>1, <1>2, <1>3, <1>4, <1>5, <1>6 DEF Lineage, Ended
<1>10. Chained'
  BY <1>1, <1>2, <1>3, <1>4, <1>5, <1>6 DEF Chained, Image
<1>11. Owned'
  BY <1>1, <1>2, <1>3, <1>4, <1>5, <1>6 DEF Owned
<1>12. Coded'
  BY <1>1, <1>3, <1>4, <1>5, <1>6 DEF Coded, Fits
<1>13. Tracked'
  BY <1>1, <1>2, <1>3, <1>4, <1>6 DEF Tracked
<1> QED BY <1>6, <1>7, <1>8, <1>9, <1>10, <1>11, <1>12, <1>13

(* A task leaves its process, which ends with the last one.  If it is the  *)
(* leader of a process that has an entry, its exit is recorded.            *)
LEMMA LeavesInv ==
    ASSUME Inv, NEW t \in Pids, task[t] # None, NEW new,
           new = None => \A u \in Pids \ {t} : task[u] # task[t],
           new # None =>
               LET p == info[task[t]]
               IN /\ new \in ProcessState /\ new.tree = p.tree /\ new.seen = p.seen
                  /\ new.top = p.top /\ new.img = p.img /\ new.last = p.last
                  /\ new.status = p.status /\ (new.exec = None <=> p.exec = None)
                  /\ new.exec # None => new.exec.by = p.exec.by /\ new.exec.cmd = p.exec.cmd,
           task' = [task EXCEPT ![t] = None],
           info' = [info EXCEPT ![task[t]] = new],
           HandleExit(t, task[t]),
           Habits \cap {"threadExec", "leave"} = {} /\ t = task[t] =>
               info[task[t]].status # None,
           UNCHANGED <<used, calls, owed, rootPid, userVars>>
    PROVE  Inv'
<1> USE Constants DEF Inv
<1> DEFINE g == task[t]
           p == info[g]
<1>1. g \in Pids /\ p # None /\ p \in ProcessState
  BY DEF Types, Numbered
<1>2. /\ info' \in [Pids -> ProcessState \cup {None}] /\ info'[g] = new
      /\ \A q \in Pids \ {g} : info'[q] = info[q]
      /\ task' \in [Pids -> Pids \cup {None}] /\ task'[t] = None
      /\ \A q \in Pids \ {t} : task'[q] = task[q]
  BY <1>1 DEF Types
<1>3. Sent' = Sent /\ (Seeded <=> Seeded')
  BY DEF Sent, InChan, userVars, Seeded
<1>4. /\ Queues'
      /\ \/ (t # g \/ execs[g] = None) /\ UNCHANGED <<tracked, execs, Kernel>>
         \/ LET r == Record("exit", g, execs[g].cmd, execs[g].top, execs[g].code)
            IN /\ t = g /\ execs[g] # None /\ execs[g] \in ExecScratch
               /\ r \in Records /\ Kernel' = Kernel \cup {r}
               /\ execs' = [execs EXCEPT ![g] = None]
               /\ tracked' = [tracked EXCEPT ![g] = None]
  BY <1>1, ExitFlow DEF userVars
<1> HIDE DEF g, p
<1>5. CASE t # g \/ execs[g] = None
  <2>1. UNCHANGED <<tracked, execs, Kernel>> /\ Everywhere' = Everywhere
    BY <1>3, <1>4, <1>5 DEF Everywhere
  <2>2. Types'
    BY <1>2, <2>1 DEF Types, userVars
  <2>3. Numbered'
    BY <1>1, <1>2, <2>1 DEF Numbered, userVars, Types, g, p
  <2>4. Filtered'
    BY <1>3 DEF Filtered, userVars
  <2>5. Lineage' /\ Ended'
    BY <1>1, <1>2, <2>1 DEF Lineage, Ended, g, p
  <2>6. Chained'
    BY <1>1, <1>2, <2>1 DEF Chained, Image, g, p
  <2>7. Owned'
    BY <1>1, <1>2, <1>5, <2>1 DEF Owned, g, p
  <2>8. Coded'
    BY <1>1, <1>2, <1>5, <2>1 DEF Coded, Owned, g, p
  <2>9. Tracked'
    BY <1>1, <1>2, <1>3, <2>1 DEF Tracked, g, p
  <2> QED BY <1>4, <2>2, <2>3, <2>4, <2>5, <2>6, <2>7, <2>8, <2>9
<1>6. CASE t = g /\ execs[g] # None
  <2> DEFINE r == Record("exit", g, execs[g].cmd, execs[g].top, execs[g].code)
  <2>1. /\ execs[g] \in ExecScratch /\ Kernel' = Kernel \cup {r}
        /\ execs' = [execs EXCEPT ![g] = None] /\ tracked' = [tracked EXCEPT ![g] = None]
    BY <1>4, <1>6
  <2>2. /\ r.kind = "exit" /\ r.cmd = execs[g].cmd /\ r.top = execs[g].top
        /\ r.code = execs[g].code /\ r.who.tree = p.tree /\ r.who.top = p.top
        /\ r.who.last = p.last /\ r.who.status = p.status
    BY <1>1, <2>1, RecordFields DEF ExecScratch, p
  <2> HIDE DEF r
  <2>3. Everywhere' = Everywhere \cup {r}
    BY <1>3, <2>1 DEF Everywhere
  <2>4. /\ execs' \in [Pids -> ExecScratch \cup {None}] /\ execs'[g] = None
        /\ tracked' \in [Pids -> ProcInfo \cup {None}] /\ tracked'[g] = None
        /\ \A q \in Pids \ {g} : tracked'[q] = tracked[q] /\ execs'[q] = execs[q]
    BY <1>1, <2>1 DEF Types
  <2>5. Types'
    BY <1>2, <2>4 DEF Types, userVars
  <2>6. Numbered'
    BY <1>1, <1>2, <2>4 DEF Numbered, userVars, Types, g, p
  <2>7. Filtered'
    BY <1>3 DEF Filtered, userVars
  <2>8. Lineage'
    BY <1>1, <1>2, <1>6, <2>2, <2>3, <2>4 DEF Lineage, p
  <2>9. Chained'
    BY <1>1, <1>2, <1>6, <2>2, <2>3, <2>4 DEF Chained, Image, g, p
  <2>10. Owned'
    BY <1>1, <1>2, <1>6, <2>2, <2>3, <2>4 DEF Owned, g, p
  <2>11. Coded'
    BY <1>1, <1>2, <1>6, <2>2, <2>3, <2>4 DEF Coded, p
  <2>12. Ended'
    BY <1>6, <2>2, <2>3 DEF Ended, g, p
  <2>13. Tracked'
    BY <1>1, <1>2, <1>3, <1>6, <2>3, <2>4 DEF Tracked, g, p
  <2> QED BY <1>4, <2>5, <2>6, <2>7, <2>8, <2>9, <2>10, <2>11, <2>12, <2>13
<1> QED BY <1>5, <1>6

LEMMA EndedByExecInv == ASSUME Inv, NEW t \in Pids, EndedByExec(t) PROVE Inv'
<1> USE Constants DEF Inv
<1> DEFINE g == task[t]
           p == info[g]
           call == [p.exec EXCEPT !.sure = TRUE]
           new == [p EXCEPT !.exec = call]
<1>1. /\ g \in Pids /\ p # None /\ p \in ProcessState /\ p.exec # None /\ p.exec \in ExecCall
      /\ p.exec.by # t
  BY DEF EndedByExec, Types, Numbered, ProcessState
<1>2. /\ info' = [info EXCEPT ![g] = new] /\ task' = [task EXCEPT ![t] = None]
      /\ HandleExit(t, g) /\ UNCHANGED <<used, calls, owed, rootPid, userVars>> /\ g # None
  BY DEF EndedByExec
<1>3. call \in ExecCall /\ call.by = p.exec.by /\ call.cmd = p.exec.cmd
  BY <1>1 DEF ExecCall
<1> HIDE DEF call
<1>4. /\ new \in ProcessState /\ new # None /\ new.tree = p.tree /\ new.seen = p.seen
      /\ new.top = p.top /\ new.img = p.img /\ new.last = p.last /\ new.status = p.status
      /\ new.exec = call
  BY <1>1, <1>3 DEF ProcessState
<1>5. "threadExec" \notin Habits => t # g
  BY <1>1 DEF Owned
<1> HIDE DEF new
<1> QED BY <1>1, <1>2, <1>3, <1>4, <1>5, LeavesInv

LEMMA TaskExitInv == ASSUME Inv, NEW t \in Pids, TaskExit(t) PROVE Inv'
<1> USE Constants DEF Inv
<1> DEFINE g == task[t]
           others == {u \in Pids \ {t} : task[u] = g}
           new == IF others = {} THEN None ELSE info[g]
<1>1. g # None /\ g \in Pids /\ info[g] # None /\ info[g] \in ProcessState
  BY DEF TaskExit, Types, Numbered
<1>2. info' = [info EXCEPT ![g] = new]
  BY <1>1 DEF TaskExit, Types
<1>3. /\ task' = [task EXCEPT ![t] = None] /\ HandleExit(t, g)
      /\ UNCHANGED <<used, calls, owed, rootPid, userVars>>
      /\ info[g].status # None \/ (t = g => "leave" \in Habits)
  BY DEF TaskExit
<1>4. /\ new = None => \A u \in Pids \ {t} : task[u] # g
      /\ new # None => new = info[g]
  BY <1>1
<1> HIDE DEF new
<1> QED BY <1>1, <1>2, <1>3, <1>4, LeavesInv

-----------------------------------------------------------------------------
(* watch: the launch, SetRootPID and what follows.                         *)

LEMMA LaunchInv == ASSUME Inv, Launch PROVE Inv'
<1> USE Constants DEF Inv
<1> DEFINE new == Process(TRUE, TRUE, TRUE)
<1>1. /\ phase = "launch" /\ phase' = "setRoot" /\ used' = used \cup {Root}
      /\ info' = [info EXCEPT ![Root] = new] /\ task' = [task EXCEPT ![Root] = Root]
      /\ UNCHANGED <<calls, owed, rootPid, probeVars, pidFilter, failed, loop, closed, chan, got>>
  BY DEF Launch
<1>2. /\ new \in ProcessState /\ new # None /\ new.tree = TRUE /\ new.top = TRUE
      /\ new.img = None /\ new.exec = None /\ new.status = None
  BY ProcessFields
<1> HIDE DEF new
<1>3. /\ info' \in [Pids -> ProcessState \cup {None}] /\ info'[Root] = new
      /\ \A q \in Pids \ {Root} : info'[q] = info[q]
      /\ task' \in [Pids -> Pids \cup {None}] /\ task'[Root] = Root
      /\ \A q \in Pids \ {Root} : task'[q] = task[q]
  BY <1>1, <1>2 DEF Types
<1>4. Root \notin used /\ tracked[Root] = None /\ execs[Root] = None /\ pidFilter = None
  BY <1>1 DEF Numbered, Filtered, Early
<1>5. Queues' /\ Everywhere' = Everywhere /\ Sent' = Sent
  BY <1>1 DEF Queues, Everywhere, Sent, InChan, Kernel, InRing, probeVars
<1>6. ~Seeded /\ ~Seeded'
  BY <1>1, <1>4 DEF Seeded
<1>7. Types'
  BY <1>1, <1>3 DEF Types, probeVars, Early, Late
<1>8. Numbered'
  BY <1>1, <1>2, <1>3, <1>4 DEF Numbered, probeVars, Types
<1>9. Filtered'
  BY <1>1, <1>5 DEF Filtered, Early, Late
<1>10. Lineage' /\ Ended'
  BY <1>1, <1>2, <1>3, <1>5 DEF Lineage, Ended, probeVars
<1>11. Chained'
  BY <1>1, <1>2, <1>3, <1>4, <1>5 DEF Chained, Image, probeVars
<1>12. Owned' /\ Coded'
  BY <1>1, <1>2, <1>3, <1>4, <1>5 DEF Owned, Coded, probeVars
<1>13. Tracked'
  BY <1>1, <1>3, <1>5, <1>6 DEF Tracked, probeVars
<1> QED BY <1>5, <1>7, <1>8, <1>9, <1>10, <1>11, <1>12, <1>13

(* The root's entry is made before its children are followed.              *)
LEMMA SeedRootInv == ASSUME Inv, SeedRoot PROVE Inv'
<1> USE Constants DEF Inv
<1> DEFINE new == [is_shell |-> TRUE, is_toplevel |-> TRUE]
           m == Put(tracked, TrackMax, Root, new)
<1>1. /\ phase = "seed" /\ phase' = "filter" /\ tracked' = m
      /\ UNCHANGED <<procVars, rootPid, execs, ring, lost, pidFilter, failed, loop, closed, chan,
                     got>>
  BY DEF SeedRoot
<1>2. new \in ProcInfo /\ new.is_shell = TRUE /\ new.is_toplevel = TRUE
  BY DEF ProcInfo
<1> HIDE DEF new
<1>3. tracked \in [Pids -> ProcInfo \cup {None}]
  BY DEF Types
<1>4. /\ m \in [Pids -> ProcInfo \cup {None}] /\ \A q \in Pids \ {Root} : m[q] = tracked[q]
      /\ m[Root] = new \/ (tracked[Root] = None /\ m[Root] = None)
  BY <1>2, <1>3, PutType
<1>5. Roomy => m[Root] # None
  <2> SUFFICES ASSUME Roomy PROVE m[Root] # None
    OBVIOUS
  <2>1. m = [tracked EXCEPT ![Root] = new]
    BY <1>2, <1>3, PutSucceeds
  <2> QED BY <1>2, <1>3, <2>1
<1> HIDE DEF m
<1>6. Queues' /\ Everywhere' = Everywhere /\ Sent' = Sent
  BY <1>1 DEF Queues, Everywhere, Sent, InChan, Kernel, InRing
<1>7. ~Seeded /\ Root \in used
  BY <1>1 DEF Seeded, Filtered, Early, Numbered
<1>8. Types'
  BY <1>1, <1>4 DEF Types, procVars, Early, Late
<1>9. Numbered'
  BY <1>1, <1>4, <1>7 DEF Numbered, procVars
<1>10. Filtered'
  BY <1>1, <1>6 DEF Filtered, Early, Late
<1>11. Lineage' /\ Ended'
  BY <1>1, <1>4, <1>6 DEF Lineage, Ended, procVars, Numbered
<1>12. Chained'
  <2>1. rootPid = Root /\ (info[Root] # None => info[Root].top = TRUE)
    BY <1>1 DEF Filtered, Numbered, Types, ProcessState
  <2> QED BY <1>1, <1>2, <1>4, <1>6, <2>1 DEF Chained, procVars
<1>13. Owned' /\ Coded'
  BY <1>1, <1>2, <1>4, <1>6 DEF Owned, Coded, procVars
<1>14. Tracked'
  BY <1>1, <1>4, <1>5, <1>6, <1>7 DEF Tracked, procVars
<1> QED BY <1>6, <1>8, <1>9, <1>10, <1>11, <1>12, <1>13, <1>14

(* The other steps of watch touch neither the processes nor the queues.    *)
LEMMA WatchInv ==
    ASSUME Inv, \/ LaunchFails \/ SetRootMap \/ StartProc \/ AgentDone \/ StopStarts
                \/ StopReader \/ Joined \/ Report
    PROVE  Inv'
<1> USE Constants DEF Inv
<1>1. UNCHANGED <<procVars, probeVars, chan, got>>
  BY DEF LaunchFails, SetRootMap, StartProc, AgentDone, StopStarts, StopReader, Joined, Report
<1>2. Queues' /\ Everywhere' = Everywhere /\ Sent' = Sent
  BY <1>1 DEF Queues, Everywhere, Sent, InChan, Kernel, InRing, probeVars
<1>3. Seeded <=> Seeded'
  BY DEF LaunchFails, SetRootMap, StartProc, AgentDone, StopStarts, StopReader, Joined, Report,
         Seeded, Filtered, Early
<1>4. rootPid' = rootPid \/ rootPid' = Root
  BY DEF LaunchFails, SetRootMap, StartProc, AgentDone, StopStarts, StopReader, Joined, Report
<1>5. Types'
  <2>1. /\ rootPid' \in {Root, None} /\ pidFilter' \in {Root, None} /\ phase' \in Early \cup Late
        /\ loop' \in {"none", "reads", "ended"}
    BY DEF LaunchFails, SetRootMap, StartProc, AgentDone, StopStarts, StopReader, Joined, Report,
           Types, Early, Late
  <2>2. closed' \in BOOLEAN /\ failed' \in BOOLEAN
    BY DEF LaunchFails, SetRootMap, StartProc, AgentDone, StopStarts, StopReader, Joined, Report,
           Types
  <2> QED BY <1>1, <2>1, <2>2 DEF Types, procVars, probeVars
<1>6. Numbered'
  <2>1. /\ phase' = "launch" => phase = "launch"
        /\ phase' \in {"setRoot", "seed", "filter"} => phase \in {"setRoot", "seed", "filter"}
    BY DEF LaunchFails, SetRootMap, StartProc, AgentDone, StopStarts, StopReader, Joined, Report
  <2> QED BY <1>1, <2>1 DEF Numbered, procVars, probeVars
<1>7. Filtered'
  BY <1>2 DEF LaunchFails, SetRootMap, StartProc, AgentDone, StopStarts, StopReader, Joined, Report,
       Filtered, Early, Late
<1>8. Lineage' /\ Ended' /\ Owned' /\ Coded'
  BY <1>1, <1>2 DEF Lineage, Ended, Owned, Coded, procVars, probeVars
<1>9. Chained'
  BY <1>1, <1>2, <1>4 DEF Chained, procVars, probeVars
<1>10. Tracked'
  BY <1>1, <1>2, <1>3 DEF Tracked, procVars, probeVars
<1> QED BY <1>2, <1>5, <1>6, <1>7, <1>8, <1>9, <1>10

(* watch kills the agent, unless it has ended by then.                     *)
LEMMA StopAgentInv == ASSUME Inv, SetRootFails \/ Interrupted PROVE Inv'
<1> USE Constants DEF Inv
<1>1. /\ info' = [info EXCEPT ![Root] = Kill(@)]
      /\ UNCHANGED <<task, used, calls, owed, rootPid, probeVars, pidFilter, loop, closed, chan,
                     got>>
      /\ \/ phase = "run" /\ phase' = "wait" /\ failed' = failed
         \/ phase \in {"setRoot", "seed"} /\ phase' = "wait" /\ failed' = TRUE
  BY DEF SetRootFails, Interrupted
<1>2. CASE info[Root] # None /\ info[Root].status = None
  <2>1. info' = [info EXCEPT ![Root] = [@ EXCEPT !.status = Signalled]]
    BY <1>1, <1>2 DEF Kill
  <2> QED BY <1>1, <1>2, <2>1, SignalInv DEF probeVars
<1>3. CASE ~(info[Root] # None /\ info[Root].status = None)
  <2>1. UNCHANGED <<procVars, probeVars, rootPid, chan, got>>
    BY <1>1, <1>3 DEF Kill, Types, procVars
  <2>2. Queues' /\ Everywhere' = Everywhere /\ Sent' = Sent
    BY <2>1 DEF Queues, Everywhere, Sent, InChan, Kernel, InRing, probeVars
  <2>3. Seeded <=> Seeded'
    BY <1>1 DEF Seeded
  <2>4. UNCHANGED <<pidFilter, loop, closed>>
    BY <1>1
  <2>5. /\ phase' = "wait" /\ phase \in {"setRoot", "seed", "run"}
        /\ failed' = TRUE \/ (failed' = failed /\ phase = "run")
        /\ failed' = TRUE => phase # "run" \/ failed
    BY <1>1
  <2>6. Types' /\ Numbered'
    BY <2>1, <2>4, <2>5 DEF Types, Numbered, procVars, probeVars, Early, Late
  <2>7. Filtered'
    BY <2>1, <2>2, <2>4, <2>5 DEF Filtered, Early, Late
  <2>8. Lineage' /\ Ended' /\ Owned' /\ Coded' /\ Chained'
    BY <2>1, <2>2 DEF Lineage, Ended, Owned, Coded, Chained, procVars, probeVars
  <2>9. Tracked'
    BY <2>1, <2>2, <2>3 DEF Tracked, procVars, probeVars
  <2> QED BY <2>2, <2>6, <2>7, <2>8, <2>9
<1> QED BY <1>2, <1>3

-----------------------------------------------------------------------------
(* The read loop and the collector move records, and suppress the root's.  *)

LEMMA ReadRecordInv == ASSUME Inv, ReadRecord PROVE Inv'
<1> USE Constants DEF Inv
<1> DEFINE r == Head(ring)
<1>1. /\ loop = "reads" /\ ring # <<>> /\ ring' = Tail(ring)
      /\ \/ (r.pid = pidFilter \/ r.cmd = None) /\ UNCHANGED <<chan, lost>>
         \/ /\ r.pid # pidFilter /\ Len(chan) < EventBufSize
            /\ chan' = Append(chan, r) /\ lost' = lost
         \/ r.pid # pidFilter /\ lost' = lost \cup {r} /\ chan' = chan
      /\ UNCHANGED <<procVars, rootPid, tracked, execs, phase, pidFilter, failed, loop, closed, got>>
  BY DEF ReadRecord
<1>2. /\ r \in Records /\ ring' \in Seq(Records) /\ Len(ring') = Len(ring) - 1
      /\ InRing = {r} \cup InRing' /\ Len(ring) \in Nat
  BY <1>1, TailElements, InRingElements DEF Queues
<1> HIDE DEF r
<1>3. \/ (r.pid = pidFilter \/ r.cmd = None) /\ UNCHANGED <<chan, lost>>
      \/ /\ r.pid # pidFilter /\ chan' \in Seq(Records) /\ Len(chan') <= EventBufSize
         /\ InChan' = InChan \cup {r} /\ lost' = lost
      \/ r.pid # pidFilter /\ lost' = lost \cup {r} /\ chan' = chan
  <2>1. chan \in Seq(Records) /\ r \in Records /\ Len(chan) \in Nat
    BY <1>2, LenProperties DEF Queues
  <2>2. /\ Append(chan, r) \in Seq(Records) /\ Len(Append(chan, r)) = Len(chan) + 1
        /\ Elements(Append(chan, r)) = Elements(chan) \cup {r}
    BY <2>1, AppendElements
  <2>3. Len(chan) < EventBufSize => Len(Append(chan, r)) <= EventBufSize
    BY <2>1, <2>2, Constants
  <2>4. CASE r.pid # pidFilter /\ Len(chan) < EventBufSize /\ chan' = Append(chan, r) /\ lost' = lost
    <3>1. InChan' = InChan \cup {r}
      BY <2>2, <2>4 DEF InChan
    <3> QED BY <2>2, <2>3, <2>4, <3>1
  <2> QED BY <1>1, <2>4
<1>4. Queues'
  BY <1>1, <1>2, <1>3 DEF Queues
<1>5. /\ Everywhere' \subseteq Everywhere
      /\ \A x \in Everywhere : x \in Everywhere' \/ x.pid = pidFilter \/ x.cmd = None
      /\ Sent' = Sent \/ (r.pid # pidFilter /\ Sent' = Sent \cup {r})
  BY <1>1, <1>2, <1>3 DEF Everywhere, Kernel, Sent, InChan
<1>6. Types' /\ Numbered' /\ (Seeded <=> Seeded')
  BY <1>1 DEF Types, Numbered, Seeded, procVars
<1>7. Filtered'
  <2>1. ~failed => pidFilter = Root
    BY <1>1 DEF Filtered, Types
  <2> QED BY <1>1, <1>5, <2>1 DEF Filtered
<1>8. Lineage' /\ Ended' /\ Owned' /\ Coded' /\ Chained'
  BY <1>1, <1>5 DEF Lineage, Ended, Owned, Coded, Chained, procVars
<1>9. Tracked'
  <2> SUFFICES ASSUME Roomy, Habits \cap {"threadExec", "leave"} = {} PROVE Tracked'
    BY DEF Tracked
  <2>1. ASSUME NEW o \in owed
        PROVE  o[1] # Root /\ \E x \in Everywhere' :
                                  x.kind = "exec" /\ <<x.pid, x.n>> = o /\ x.cmd # None
    <3>1. PICK x \in Everywhere : x.kind = "exec" /\ <<x.pid, x.n>> = o /\ x.cmd # None
      BY <2>1 DEF Tracked
    <3>2. o[1] # Root /\ o[1] = x.pid
      BY <2>1, <3>1 DEF Tracked
    <3>3. Elements(ring) \subseteq Records /\ Elements(chan) \subseteq Records
      BY ElementsType DEF Queues
    <3>4. x \in Records
      BY <3>3, InRingElements DEF Everywhere, Sent, InChan, Kernel, Queues
    <3>5. x.pid \in Pids
      BY <3>4 DEF Records
    <3> QED BY <1>5, <3>1, <3>2, <3>5 DEF Types
  <2> QED BY <1>1, <1>6, <2>1 DEF Tracked, procVars
<1> QED BY <1>4, <1>6, <1>7, <1>8, <1>9

LEMMA CollectInv == ASSUME Inv, Collect \/ ReadClosed \/ UNCHANGED vars PROVE Inv'
<1> USE DEF Inv
<1>1. /\ UNCHANGED <<procVars, rootPid, probeVars, phase, pidFilter, failed, closed>>
      /\ Queues' /\ Sent' = Sent
  <2>1. CASE Collect
    <3>1. /\ chan # <<>> /\ got' = got \cup {Head(chan)} /\ chan' = Tail(chan)
          /\ UNCHANGED <<procVars, rootPid, probeVars, phase, pidFilter, failed, loop, closed>>
      BY <2>1 DEF Collect
    <3>2. /\ Head(chan) \in Records /\ Tail(chan) \in Seq(Records)
          /\ Len(Tail(chan)) = Len(chan) - 1 /\ InChan = {Head(chan)} \cup InChan'
          /\ Len(chan) \in Nat
      BY <3>1, TailElements DEF Queues, InChan
    <3> QED BY <3>1, <3>2, Constants DEF Queues, Sent, probeVars
  <2>2. CASE ReadClosed
    BY <2>2 DEF ReadClosed, Queues, Sent, InChan, probeVars
  <2>3. CASE UNCHANGED vars
    BY <2>3 DEF vars, userVars, probeVars, Queues, Sent, InChan
  <2> QED BY <2>1, <2>2, <2>3
<1>2. Everywhere' = Everywhere /\ (Seeded <=> Seeded')
  BY <1>1 DEF Everywhere, Kernel, InRing, probeVars, Seeded
<1>3. loop' = loop \/ (loop' = "ended" /\ loop = "reads")
  BY DEF Collect, ReadClosed, vars, userVars
<1>4. Types' /\ Numbered' /\ Filtered'
  BY <1>1, <1>3 DEF Types, Numbered, Filtered, procVars, probeVars
<1>5. Lineage' /\ Ended' /\ Owned' /\ Coded' /\ Chained'
  BY <1>1, <1>2 DEF Lineage, Ended, Owned, Coded, Chained, procVars, probeVars
<1>6. Tracked'
  BY <1>1, <1>2 DEF Tracked, procVars, probeVars
<1> QED BY <1>1, <1>4, <1>5, <1>6

-----------------------------------------------------------------------------
(* Every step preserves the invariant.                                     *)
LEMMA NextInv == Inv /\ [Next]_vars => Inv'
<1> SUFFICES ASSUME Inv, [Next]_vars PROVE Inv'
  OBVIOUS
<1>1. CASE Watch
  BY <1>1, LaunchInv, SeedRootInv, WatchInv DEF Watch
<1>2. CASE SetRootFails \/ Interrupted
  BY <1>2, StopAgentInv
<1>3. CASE ReadLoop \/ Collect
  BY <1>3, ReadRecordInv, CollectInv DEF ReadLoop
<1>4. CASE Processes
  <2>1. CASE \E t, c \in Pids : Fork(t, c) \/ CloneThread(t, c)
    BY <2>1, ForkInv, CloneInv
  <2>2. CASE \E t \in Pids, cmd \in Commands : ExecEnter(t, cmd)
    BY <2>2, ExecEnterInv
  <2>3. CASE \E t \in Pids, code \in Codes : ExitGroup(t, code)
    BY <2>3, ExitGroupInv
  <2>4. CASE \E t \in Pids : ExecFails(t) \/ EndedByExec(t) \/ ExecDone(t) \/ Killed(t) \/ TaskExit(t)
    BY <2>4, ExecFailsInv, EndedByExecInv, ExecDoneInv, KilledInv, TaskExitInv
  <2> QED BY <1>4, <2>1, <2>2, <2>3, <2>4 DEF Processes
<1>5. CASE Done \/ UNCHANGED vars
  BY <1>5, CollectInv DEF Done
<1> QED BY <1>1, <1>2, <1>3, <1>4, <1>5 DEF Next

(* The invariant holds in every state of every behaviour.                  *)
THEOREM Invariance == Spec => []Inv
BY InitInv, NextInv, PTL DEF Spec

(* What watch would write is among the records that it was sent.           *)
LEMMA ReportedSent == Reported \subseteq Sent /\ Reported \subseteq Everywhere
BY DEF Reported, Sent, InChan, Elements, Everywhere

(* The tasks, the maps, the queues and the state of watch have their types,*)
(* and the queues keep within what the ring buffer and the channel hold.   *)
THEOREM TypeCorrect == Spec => []TypeOK
<1>1. Inv => TypeOK
  <2> SUFFICES ASSUME Inv PROVE TypeOK
    OBVIOUS
  <2>1. {closed, failed} \subseteq BOOLEAN
    BY DEF Inv, Types
  <2>2. phase \in {"launch", "setRoot", "seed", "filter", "run", "wait", "stop", "close", "join",
                   "stopped", "done"}
    BY DEF Inv, Types, Early, Late
  <2> QED BY <2>1, <2>2 DEF Inv, Types, Queues, Numbered, TypeOK
<1> QED BY <1>1, Invariance, PTL

(* The agent's own exec and exit are never in the ground truth: the filter *)
(* is set before readLoop takes the first record, whatever SetRootPID's    *)
(* failures and the signals that watch receives.                           *)
THEOREM RootSuppressedHolds == Spec => []RootSuppressed
<1>1. Inv => RootSuppressed
  BY ReportedSent DEF Inv, Filtered, RootSuppressed, Reported
<1> QED BY <1>1, Invariance, PTL

(* While no number is used twice, the ground truth holds events of the     *)
(* agent's descendants only.                                               *)
THEOREM OnlyDescendantsHolds ==
    ASSUME "reuse" \notin Habits PROVE Spec => []OnlyDescendants
<1>1. Inv => OnlyDescendants
  BY ReportedSent DEF Inv, Lineage, OnlyDescendants
<1> QED BY <1>1, Invariance, PTL

(* Of processes without threads, whose execs do not fail, is_toplevel says *)
(* whether every process between it and the agent is a shell that was      *)
(* executed.                                                               *)
THEOREM TopLevelChainHolds ==
    ASSUME Habits \cap {"thread", "fail", "reuse"} = {} PROVE Spec => []TopLevelChain
<1>1. Inv => TopLevelChain
  BY ReportedSent DEF Inv, Chained, TopLevelChain
<1> QED BY <1>1, Invariance, PTL

(* With room in tracked_pids for every process, no execve of a process     *)
(* that was forked once SetRootPID had made the root's entry is missed,    *)
(* unless a queue was full or nothing could be read of it.                 *)
THEOREM ExecsCompleteHolds ==
    ASSUME Roomy, Habits \cap {"threadExec", "leave"} = {} PROVE Spec => []ExecsComplete
<1>1. Inv => ExecsComplete
  <2> SUFFICES ASSUME Inv, NEW o \in owed
               PROVE  \E r \in Reported \cup InRing \cup lost :
                          r.kind = "exec" /\ <<r.pid, r.n>> = o /\ r.cmd # None
    BY DEF ExecsComplete
  <2>1. ~failed
    BY Constants DEF Inv, Tracked, Seeded, Filtered, Types, Early
  <2>2. Everywhere = Reported \cup InRing \cup lost
    BY <2>1 DEF Everywhere, Sent, InChan, Elements, Kernel, Reported
  <2> QED BY <2>2 DEF Inv, Tracked
<1> QED BY <1>1, Invariance, PTL

(* Where execve is the leader's, a ProcessExit has the name that was read  *)
(* of what its process last tried to execute, never one of an earlier      *)
(* process with the same number.                                           *)
THEOREM ExitBelongsHolds ==
    ASSUME "threadExec" \notin Habits PROVE Spec => []ExitBelongs
<1>1. Inv => ExitBelongs
  BY ReportedSent DEF Inv, Owned, ExitBelongs
<1> QED BY <1>1, Invariance, PTL

(* A ProcessExit is that of a process that has ended, where the leader is  *)
(* the last of its threads to go.                                          *)
THEOREM ExitIsEndHolds ==
    ASSUME Habits \cap {"threadExec", "leave"} = {} PROVE Spec => []ExitIsEnd
<1>1. Inv => ExitIsEnd
  BY ReportedSent DEF Inv, Ended, ExitIsEnd
<1> QED BY <1>1, Invariance, PTL

(* The exit code is the argument of the exit_group that ended the process, *)
(* of which the status is the low byte, and absent after a signal, where   *)
(* exit_group is called once.                                              *)
THEOREM ExitCodeTrueHolds ==
    ASSUME Habits \cap {"threadExec", "race"} = {} PROVE Spec => []ExitCodeTrue
<1>1. Inv => ExitCodeTrue
  BY ReportedSent, Constants DEF Inv, Coded, ExitCodeTrue, Fits
<1> QED BY <1>1, Invariance, PTL
=============================================================================
