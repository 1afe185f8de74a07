# A TLA+ model of agent-trace

agent-trace compares what an AI agent *says* it did (a trajectory) with what
host-level probes *saw* it do (a ground truth), and calls the agent faithful
only if the two agree. These modules model the comparison, the three probes and
the command that runs them, and check them with TLC on small instances. Every
invariant and every action property that TLC finds to hold is also proved with
TLAPS: for documents of any length, any number of processes, files and
connections, requests of any length, and buffers of any size.

Everything is in this directory: modules (`*.tla`), TLC configurations
(`*.cfg`), and `PROJECT.json`, which lists the runs, the source lines each
definition models, the hazards and the findings.

    tlc -config MCVerification.cfg MCVerification      # a run
    tlapm VerificationProofs.tla                       # proofs

## 1. Inventory

| component | state | operations | interacts with |
|---|---|---|---|
| `cmd/verify`, `pkg/verification` | the two documents, `matched`, the four lists of the Verdict | load, validate, match greedily, classify, report | `pkg/matching`, `pkg/models` |
| `pkg/matching` | none | `Match`, `targetsMatch` | called for every pair of entry and event |
| `pkg/models` | none | parse, `Validate` | both documents |
| `cmd/watch` | the collected events, what was started | start the probes, launch the agent, seed its pid, wait or be interrupted, stop, sort, write | all three probes, the agent, signals |
| `pkg/probe/fs` | pending closes, last write time and generation per path, own opens expected, shadow hashes | read the fanotify queue, settle, hash, suppress own opens, stop | the kernel's queue, the agent's files, the events channel |
| `pkg/probe/proc` | eBPF maps `tracked_pids`, `execs`, `root_pid_map`; ring buffer; `PIDFilter` | four eBPF programs, `SetRootPID`, `readLoop`, `Stop` | the kernel's tracepoints, the events channel |
| `pkg/probe/net`, connections | eBPF maps `tracked_pids`, `conns`; ring buffer; a table of connections by (tgid, fd) | seven eBPF programs, `TrackPID`, `netFeed`, `correlate`, `Stop` | kernel, `pkg/tlsparse`, the events channel |
| `pkg/probe/net`, content | an uprobe, its maps and ring buffer, a stream per thread, the validation frame | `SSL_write`, the search for its address, `sslFeed`, `correlate`, `Stop` | the agent's TLS library, `pkg/tlsparse`, `pkg/tlsoffset` |
| `pkg/tlsparse` | per-stream buffer | HTTP/1 framing, ClientHello scan | net probe |
| `pkg/tlsoffset` | a cache file | lookup, store, ELF scan | net probe, other watch processes |
| `cmd/simagent` | none | a scripted agent for the tests | - |

What is hard here, and hard to test:

- **fs probe.** A file is hashed some time *after* its close, from a descriptor
  the probe keeps, while the agent goes on writing, renaming and deleting. The
  kernel announces calls late, merges events, drops them at a limit, and
  announces the probe's own opens too. State is keyed partly by path and partly
  by inode. Stop can come at any point.
- **proc probe.** Tracepoints fire when a call is *entered*; processes have
  threads, fail in execve, replace their leader, race in exit_group, are killed,
  and their numbers are used again. The agent already runs while `SetRootPID`
  installs it.
- **verify.** A greedy loop with several pieces of state carried through two
  nested loops; durations that saturate.
- **net probe.** Connections are keyed by process and descriptor, and both are
  used again; a record is lost when a buffer is full, a close when the process
  just exits. Requests are cut into SSL_write calls anywhere, several threads
  alternate, and the first frame is taken by the search for SSL_write, which
  has timeouts and runs while Stop may be called.
- **watch.** Three probes start at different moments, each with a loop, a
  bounded channel and a collector; the launch, the seeding or a probe may fail,
  a signal comes at any moment, and Stop waits for loops that wait for room.
- **offset cache.** A read-modify-write of a file that processes share, through
  one temporary name; a process may die at any step.

`PROJECT.json` lists each of these at its line with the properties that watch
it. A note there says what a property does not cover of its hazard.

## 2. Modules

| module | models | composed from |
|---|---|---|
| `Matching` | `pkg/matching`, validation, `filepath.Clean`, `time.Duration` | - |
| `Documents` | the two documents, `isTopLevel`, agreement of a pair | `Matching` |
| `Assignment` | *abstract*: what a verification promises | - |
| `Verification` | `cmd/verify` and `Verify`, statement by statement | `Documents`; instantiates `Assignment` |
| `FsWorld` | external: the agent's file calls and the fanotify queue | - |
| `FsObserver` | `pkg/probe/fs` | `FsWorld` |
| `ProcProbe` | `pkg/probe/proc`, and `cmd/watch` around it; the processes are external | - |
| `NetProbe` | `net.bpf.c`, `netFeed` and the connections of `correlate`; the processes are external | - |
| `Http1` | `http1.go` and `stream.go`: operators, no state | - |
| `TlsCapture` | `tls.bpf.c`, `attachAndValidateTLS`, `sslFeed` and the streams of `correlate` | `Http1` |
| `OffsetCache` | `cache.go` | - |
| `Watch` | `runWatch` over all three probes | - |
| `VerificationProofs`, `FsObserverProofs`, `ProcProbeProofs`, `NetProbeProofs`, `TlsCaptureProofs`, `OffsetCacheProofs`, `WatchProofs` | the theorems about each module with state | the module; `QueueLemmas` |
| `QueueLemmas` | lemmas about sequences used as queues | - |
| `MC...` | the instances that TLC checks | |

The probes meet in `cmd/watch` only. `Watch` therefore has of a probe what
`runWatch` sees of it (a loop, a channel, Start and Stop), and the probes'
modules have of `cmd/watch` what they see of it (launch, seeding, a collector).
The two rings of the net probe meet in `correlate`, a select over both. Its two
handlers share no state but the events channel, where a send never
waits, and the Host fallback, which is left out: hence two modules.

In every module an operator introduced by "A bug:" is not part of the model:
it is the mutated form of the definition that follows it, used to show that
a property does notice that bug.

### Verification

`pc` is where `main` is; `i`, `j`, `bestIdx`, `bestDiff`, `matched` are the
variables of `Verify`, with 0 for the code's -1. The lists of the Verdict are
sets of indices, because the code appends in index order. One step is one
iteration of the inner loop (`ScanEvent`), the end of one iteration of the
outer loop (`EntryUnwitnessed`, `EntryPaired`), a load, or the report. A
timestamp is an integer, a hash a model value, a path a sequence of components
which `Clean` really cleans. `Sub` saturates at the ends of a Duration range of
`MaxDuration`, and `Negate` maps the least Duration to itself, as in Go.

`Accounts` says of a function from entries to events that by it the agent has
logged every action, honestly, and that no entry is closer to the event of a later
one than to its own. The loops have no part in it: it is what `HonestNotAccused`
means by an honest agent.

`Assignment` has no scan: an entry is judged in one step, by the definition of
the nearest free candidate. `ImplementsAssignment` says that the loops do just
that.

### FsWorld and FsObserver

`FsWorld` makes the agent's system calls. A call changes the file first and is
announced by `Notify` later; `Enqueue` merges events of the same object and
name, and overflows at `QueueMax`. A content is a number, so a hash *is* the
content that it is the digest of. `Nameless` events are resolved to the
directory, as `resolveEventPath` does when the kernel leaves the name out.

`FsObserver` is the `readLoop` goroutine: `pc` says whether it polls, drains,
resolves settled closes, or is within `hashSettledFD`. One step is one `poll`,
one `read`, one event processed, one close judged, or one of the four steps of
a hash (read the link and count the own open; open; read; drain again and check
the generation). `Tick` lets time pass; `age` is the time since `lastWriteAt`,
in ticks up to `Settle`, which stands for `settleDelay` (20 ms). An event
carries the time of the read that returned it (`readAge`). The generation of a
path matters only while a hash is in progress, so `bumped` keeps the paths
whose generation grew since then. `force` is the flag of `resolveSettled` and says
what set it: Stop, or a failed poll, which ends the loop too.

`emitted` is a set, because `cmd/watch` sorts what it receives; the number of
closes is counted apart in `sent`. The fields `ref`, `own` and `hurdles` of an
emission, and `revisions` and `moved`, are history that only properties read.

### ProcProbe

The processes make `task_newtask`, `sys_enter_execve`, `sys_enter_exit_group`
and `sched_process_exit` fire; each handler runs at the point of the call where
the kernel has its tracepoint, in one step with it (an eBPF program is not
preempted by the task it runs in, and the maps it shares with other tasks are
updated by one helper call each). An execve has two steps, entry and outcome,
and the outcome can be failure. `Habits` names which of the harder calls the
processes of a run make, so that a run can say what its property needs.

`phase` is where `runWatch` is: launch, the map updates of `SetRootPID`, run,
interrupted or not, stop. Both failing paths are there: the agent cannot be
started, a map update fails. A failed `runWatch` writes nothing. `who` and `n`
in a record, `lost` and `owed` are history.

A command stands for its path. `Readings` says what the program may get of an
execve: the path; or, with the habit `unread`, no path and for a target `argv[0]`,
which `commandLine` falls back to and the caller chooses, or nothing, in which case
`readLoop` drops the record without counting it. `owed` has the execs of which
something was read. The code of an exit is the argument of exit_group, the
status of a process its low byte: `Codes` of the runs are -1 and 256.

### NetProbe

The operators named like the code's functions (`trace_connect`,
`capture_hello`, `handle_exit`, ...) are the eBPF programs; each runs in one step
with the call that it traces, since its tracepoint is at the call's entry. A
buffer is a server name (a ClientHello), `"plain"` or `"empty"`; `Readable` says
whether `bpf_probe_read_user` can fail. `conns` is the kernel's map, `table` is
`o.conns`: they are updated by the same events at different times, which is where
a reused descriptor could go wrong. `NetFeed`, `Correlate` and `Collect` are the
goroutines, `ring`, `netCh` and `waiting` the queues between them.

A connection is the number of its connect, and carries in `conn` what is true of
it: who made it, whether it ought to be reported, what was sent on it. A record
names it in `c`, which no code reads.

### Http1 and TlsCapture

A stream is a sequence of tokens, the stretches of bytes that the parser tells
apart; a frame may be cut between any two. `Http1` defines what a client sends
(`Wire`: a start line, a head and a body, which Content-Length delimits or which
comes as one chunk and the last, with trailers or without), what `ParseHTTP1` makes of the front of a stream, and what it
should (`Reference`). Where bytes of one request are taken for those of another,
`ParseHTTP1` does so too: letters in front of a request line become part of the
method, a chunk that does not end in CRLF is malformed.

In `TlsCapture` every thread sends its script in calls of 1 to `MaxWrite` tokens.
`vpc` is where `attachAndValidateTLS` is. The uprobe fires from `Attach` to
`Detach`, after a read that timed out too. `Judge` takes the first frame of the
ring buffer, whichever candidate captured it. `feed` is where `sslFeed` is,
`pending` is `o.pending`. `begin` and `gap` say of each thread from where on, and
whether, its calls were captured whole: frames are lost when the ring is full,
truncated at `SSL_CAP_LEN`, and a read may fault. Of a thread with a gap the
frames are followed like the others, and no property speaks of its requests.

### OffsetCache

One step is one system call of `Store`: read, open and truncate `path.tmp`,
write, rename. Names refer to inodes, so that a process writes on to the file
that another has renamed; a shorter document written over a longer one
leaves its end, and does not parse (`Torn`). `StoreFails` is an error of a call or
the death of the process, at any step.

### Watch

`pc` is where `runWatch` is: `build`, `start`, one of the three modes (`launch`
and `seed`, `seed`, `open`), `net`, `wait`, `reap`, `stop`, one label per probe that is
being stopped, `collected`, `returned`. `loop[p]` goes from `built` over `running`
(for the net probe, `spawned` first: its Start runs in a goroutine) to `closing`,
`ended` and `closed`. The fs probe's loop waits for room in its channel, the
others drop. `Rejected` is every error before the probes start.

## 3. Runs

Passing runs:

| run | instance | distinct states | shows |
|---|---|---|---|
| `verify` | all documents of up to 2 entries and 3 events over 4 and 7 records, one entry against one event with every field that `Agree` reads present, absent or different on either side, an agent that logs each of two actions late, and 4 documents that do not validate | 125,086 | one-to-one matching, closest event, complete classification, the meaning of FAITHFUL, no accusation of an honest agent, refinement of `Assignment` |
| `fs_settle` | one file, 4 calls, Stop or a failed poll at any point, opens that fail | 310,481 | published hashes are those of the close, own opens are hidden, no registered close is lost, every one is emitted, Stop or not; without Stop and a failed poll the last close of the file is; Stop returns |
| `fs_churn` | two names, two inodes, renames, deletes, a queue of 2, nameless deletes, failing reads | 906,474 | the same for hashes and closes under churn and overflow |
| `proc_tree` | 2 pids under the agent, a stranger, a shell and another program, 4 calls | 3,479,045 | who is top-level, neither the agent itself nor a stranger is reported |
| `proc_threads` | threads, kills, failing execve, paths that cannot be read, reused pids, exit_group(-1) and (256), `execs` with 2 entries, 3 calls | 491,512 | no followed execve with a name is missed; exits of processes that have ended, with their own commands and codes |
| `net_conns` | agent, stranger and a third pid as child or thread, one descriptor, 2 connects, ring of 2, channels of 1 | 739,045 | targets are true, a name that was sent first is used, one event for a connection, none is forgotten, none is a stranger's, what was closed is reported, or dropped where `emit` finds its channel full |
| `tls_capture` | 6 setups of candidates and scripts, 2 threads, calls of up to 4 tokens, frames of 3, a ring of 2, one faulting read | 471,254 | requests handled are those made, in order and with their bodies; each is handled without waiting for the next; Stop ends and detaches at any point of the search |
| `cache` | 3 processes, 2 builds, 2 offsets, 4 Stores | 671,870 | a Store that no other overlaps loses nothing and damages nothing, whatever was left behind by those before it |
| `watch` | 3 modes, 4 selections of probes, channels of 1, 3 records | 137,816 | `runWatch` returns, with the probes stopped, the agent gone, and all that was sent in the file |

Runs that TLC must find violated; each states a sentence of the repository
(quoted in `PROJECT.json`) that the code does not keep:

| run | what the code does |
|---|---|
| `fs_rename` | after a rename, publishes a half-written content for the close under the old name |
| `net_exit` | never reports a connection without server name whose process exits without closing it |
| `tls_late` | lets a frame captured at one candidate, after its timeout, decide over the next one |

The passing runs exclude known limits of the code by their constants, or, where
one property has to cover the rest of a run, by the history that its premise
reads. Each of these changes to a configuration makes TLC find the
property violated:

| run, change | property | what the code does |
|---|---|---|
| `verify`, `FarTrajectories`, `FarGroundTruths` | `WithinDelta` | pairs timestamps more than 292 years apart: `Sub` saturates, negating the least Duration overflows |
| `fs_settle`, `FastWriter = FALSE` | `HashAtClose` | hashes a pending close, half-written, when the writer of the reopened file pauses for longer than the settle window |
| `fs_settle`, `Existing <- OnePath` | `OwnOpensSuppressed` | reports the opens of the probe's own initial walk |
| `fs_settle`, `HashErrors = {"read"}` or deletes | `OwnOpensSuppressed` | counts an own open twice or under a name no event carries |
| `fs_settle`, checked as it is | `FlushSafe` | at Stop, hashes files whose rewrite is announced but not read |
| `verify`, `Accounts` without `ClosestTo` | `HonestNotAccused` | an agent that logs each of two actions late loses the second event to its first entry, and is called unfaithful |
| `proc_tree`, habit `reuse` | `OnlyDescendants` | keeps tracking the number of a process that exited without execve |
| `proc_tree`, habit `fail` | `TopLevelChain` | a process counts as a shell after an execve of a shell that failed |
| `proc_tree`, habit `unread` for `stranger`, and shells counted by what they execute | `TopLevelChain` | a shell whose path cannot be read does not count as one |
| `proc_threads`, `owed` with the execs of which nothing was read | `ExecsComplete` | drops a record with an empty target, uncounted |
| `proc_threads`, `ExitCodeTrue` without the low byte | `ExitCodeTrue` | reports exit(-1) as -1 and exit(256) as 256, of processes that end with 255 and 0 |
| `proc_threads`, habit `threadExec` or `leave` | `ExitIsEnd` | takes the end of the leader task for that of its process |
| `proc_threads`, habit `race` | `ExitCodeTrue` | keeps the code of the second of two exit_group calls |
| `net_conns`, habit `reconnect` | `EmitsOnce`, `ConnsAccounted` | a second connect of a socket overwrites the entry of the first |
| `net_conns`, habit `reuse` | `OnlyAgent` | keeps the number of a thread in `tracked_pids`, for a stranger to get |
| `net_conns`, habit `leave` | `ConnsAccounted` | stops tracking a process when its leader task leaves |
| `cache`, the premise `alone` dropped | `StoreKeeps`, `CrashKeeps` | overlapping Stores lose entries, or leave a file that does not parse |

A comment at `Config.PIDFilter` calls all deeper descendants forensic-only; the
code and its tests follow the chain of shells instead, and so does
`TopLevelChain`.

### Bounds

- `verify`: two entries can compete for one event and leave one to the other,
  three events hold a best match, a tie on the other side and a spare. The
  records of these documents make the tests of `Match` go both ways; those of
  `Agree` (hashes, exit codes, request hashes, with their opt-outs) do in the
  documents of one entry and one event, `SoloClaims` and `SoloEvents`. What holds
  for longer documents is proved, not extrapolated.
- `fs_*`: `MaxOps` calls besides closes. Four are enough for create, write,
  reopen, write, i.e. a second burst that can fall anywhere in the settling of
  the first. `Settle = 1` distinguishes "within the window" from "after it",
  which is all the code asks. `QueueMax` 4 never overflows with one file,
  2 does. The poll fails in `fs_settle` only.
- `proc_*`: `MaxCalls` forks, clones and execs. Three or four are enough for a
  chain agent - shell - program, and for a number to be used twice. With two
  pids under the agent a process below the top level that forks again is out of
  reach of `proc_tree`: there `TopLevelChain` rests on its proof. `RingMax` 2
  and `EventBufSize` 1 let both overflow. Task ids other than the agent's and
  the stranger's are interchangeable, which both runs use as a symmetry.
- `net_conns`: with one descriptor every second connect of a process reuses it,
  and with `MaxConns` 2 records of the first connection meet those of the second
  in every order. There is one peer and one name, so that a name of the wrong
  connection shows as one where there should be none; that the address is the
  right one rests on the proof of `TargetTrue`. The third pid is a child, a thread, or the stranger's child.
  Peers without events (name servers, local sockets) and unreadable memory are
  in `net_exit`, to keep this run in time.
- `tls_capture`: `SomeSetups` names six situations rather than all products: two
  requests in a row, a chunked body, a search during which two threads write, a
  right candidate passed over by its timeout, no content capture, no valid
  candidate. `SSL_CAP_LEN` 3 and `MaxWrite` 4 let a call hold the end of a
  request and the whole next one, and be truncated. `MaxOther` calls of a wrong
  candidate's function and `MaxFaults` faulting reads happen at most once, at any
  moment.
- `cache`: two overlapping Stores and a third process can leave any remains;
  the fourth Store meets them alone. A Store needs a new inode only if
  `path.tmp` is gone, while the others hold one each: with `path`'s, 4 are enough.
- `watch`: with `EventBufSize` 1 and 3 records a channel is full while its
  loop holds another event and the kernel a third.

Deadlock is checked except in `fs_settle`, `tls_capture` and `watch`, where after
Stop, or the return of `runWatch`, nothing is left to do, and in `cache`, where the
Stores are bounded.

### Fairness

- `FsObserver`: the goroutine is scheduled, time passes, the kernel announces a
  call it has performed, and a file that is open for writing is closed at the
  latest when the agent exits. Nothing obliges the agent to act, or Stop to be
  called. Poll has a timeout, so a pending close is looked at although no
  event arrives.
- `NetProbe`: the goroutines `netFeed`, `correlate` and the collector are
  scheduled. The processes owe nothing.
- `TlsCapture`: `Start`, `sslFeed`, `correlate` and Stop's wait are scheduled, and a
  read with a deadline returns. The fairness of `correlate` is that a frame in
  `sslCh` is taken (`TakesFrame`); `HandleFrame` is the only step that takes
  one, and always can.
- `Watch`: `runWatch` and each goroutine of a probe and of a collector are
  scheduled, and a process that was killed ends. No signal is promised, and no
  end of an agent that is left alone: `Returns` speaks of what follows them.
- `Verification`, `ProcProbe` and `OffsetCache` state no fairness: only safety is checked. That
  watch returns is checked in `Watch`.

## 4. Proofs

Each `...Proofs` module proves about its module `M`, from nothing but the named
assumptions that `M` makes of its constants (TLC evaluates them in every run),

- `Invariance`: `Spec => []Inv`, with one lemma per action for the inductive `Inv`;
- `TypeCorrect`: `Spec => []TypeOK`;
- the safety and action properties that the runs of `M` check.

Where a property holds only if the environment refrains from something, the
theorem has that as a hypothesis on `Habits` or another constant, just as the
runs do. The table in section 3 lists, for each of these hypotheses, what
the code does without it. Every `Inv` was an invariant of a TLC run
before it was proved.

### Verification

For all documents, `Delta` and `MaxDuration` that satisfy the assumptions
of `Matching` and `Documents` (documents are sequences of records with the fields
the code reads; `Delta` is a Duration, `MaxDuration` positive): `OneToOneHolds`,
`ClosestHolds`, `UnwitnessedHolds`, `ClassifiedHolds`, `FaithfulHolds`,
`HonestNotAccusedHolds`, `WithinDeltaHolds` (under `Representable`: every
distance of an entry and an event fits a Duration), and `Implements`, the
refinement `Spec => Abstract!ASpec`.

None of the safety properties is inductive. `Inv` adds what the loops know:
`Scan` (at every moment `bestIdx` is the nearest eligible event *before* `j`, and
`bestDiff` its distance, so that at the end of the inner loop it is the nearest
of all), `Books` (`matched` is exactly the set of paired events, the entries
before `i` are exactly the judged ones) and `Summed` (what the report computed,
once it is out). `PairedWithClosest` and `UnwitnessedJustified` are stated over
the events that were free *when the entry was judged*; that later steps do not
disturb them is `FreeShrinks`. For `HonestNotAccused` consider the first entry that
is not paired with its own event (`OwnEvent`): the events of those before it are
theirs, so its own was free, and nothing that was free is closer. The refinement follows from `Inv`: a scan step is a
stutter, and the end of an inner loop is a `Judge` of `Assignment`.

### FsObserver

For any finite set of names, any inodes, queue length and settle window.

- `ClosesAccountedHolds`, without further hypotheses: no system call of the agent,
  no overflow, no failing hash and no Stop makes a close disappear or be
  emitted twice. Besides the count itself (`Accounted`) it takes `Flushing`: once
  Stop has set `force`, the snapshot of `resolveSettled` still agrees with all that
  is pending. It does because nothing is processed any more. After a failed poll
  it need not: the drains of the flush go on reading.
- `HashAtCloseHolds`, if `FastWriter`, and if no event of a write is reported without
  its name (`Nameless`): a hash published before the loop ends is the content at its
  close, unless the file was renamed, a call was in progress at the read, or the
  queue overflowed. The
  invariant `HashInv` is what the argument of the code's comments rests on.
  `OneName`: the files, the announcements, the pending closes and the job agree on
  the name of an inode that was not renamed. `LastClose`: of a file that is not
  open for writing, the *last* close that is announced or pending has its present
  content. `WriterSeen`: a file that is open for writing has an announcement on
  its way, or `lastWriteAt` says "just now". `ChangeSeen`: if the file of the job
  no longer has the content of the close, an announcement is on its way or the
  generation has grown; after the read, one that the catch-up drain will meet.
  `FastWriter` is needed for `WriterSeen` to survive a `Tick`; the
  names of writes are needed because a generation is counted per path.
- `OwnOpensSuppressedHolds`, if the workspace is empty at Start, no file is deleted or
  renamed and no read fails: `Balance` says that `pendingHashOpens` covers
  each own open that is announced, and one that is counted but not made yet.
  Merging is what makes this delicate: two own opens of one file in the queue
  become one event, but are counted twice. `Expected` excludes a second one.

`Inv` also says that no queue holds two events that the kernel would merge
(`Queues`), and what each step of a hash knows of its close (`Control`).
The lemma `EnqueueTakes` states once what the kernel's merging does to a queue.

### ProcProbe

For any pids, commands, codes and sizes of maps, ring buffer and channel.
`RootSuppressedHolds` has no hypothesis. `OnlyDescendantsHolds` needs that no number is
used again (`reuse`), `TopLevelChainHolds` also that there are no threads and no
failing execve, `ExitBelongsHolds` that execve is the leader's (`threadExec`),
`ExitIsEndHolds` also that leaders are the last to go (`leave`), `ExitCodeTrueHolds` that
exit_group is called once (`race`), `ExecsCompleteHolds` room for every process
in `tracked_pids` (`Roomy`). Each allows that paths cannot be read (`unread`).

`Inv` has one conjunct per property: it ties the maps to the processes
(`tracked` and `is_toplevel` to the tree, `execs` to the last execve of a live
leader), and says of *every* record under way, be it in the ring buffer, the channel,
collected or lost, what the property says of those reported.

### NetProbe

For any pids, descriptors, peers and sizes. `TargetTrueHolds` and
`NameNotMissedHolds` need that a socket is connected once and a number used once;
`EmitsOnceHolds` the former, `OnlyAgentHolds` the latter; `ConnsAccountedHolds` both, no
leader that leaves early, and `Roomy`.

The heart of `Inv` is `Ordered`: along `netCh` and `ring`, the records of one
(tgid, fd) are in the order in which the programs wrote them, `conns` is ahead of
all of them, `o.conns` behind. `Once`, `Registered`, `Kept` and `Named` then say
what has become of each connect, record by record, and `Unsaid` that nothing has
been said of one whose first bytes are still to be written.

### TlsCapture

For any tasks, candidates, buffer sizes and setups whose scripts are sequences of
requests that a client sends, with bodies of any length (`TlsAssumption`).

- `StreamFaithfulHolds`, without further hypotheses: it speaks of the tasks of
  which no call was lost, cut short or skipped, which is where the code promises
  something. `Streams` says it inductively (`Follows`): from its first request
  on, the first `k` requests of the task were handled; what is kept of it
  (`pending`) and, behind that, what is still in `sslCh`, in the search's frame or
  in the ring buffer is, token for token, what it has sent since; and what is
  kept is shorter than the request it belongs to. `Kept` has the frame of
  the search pass into `sslCh` once, in front of all that follow.
- `StopDetachesHolds`: a uprobe that outlives the search is held in `sslWriteLink`, and
  Stop waits for `sslFeed`, which waits for Start (`Sequenced`, `Held`).
- `ParseStable` and `RequestsCut` need no script: they are about any tokens, so also
  about what `correlate` sees of a task that it knows from the middle of a
  request on, or with a gap. What `ParseHTTP1` says, once it does not ask for more,
  no further bytes change; "malformed" is final, as its comment says ("which more
  data cannot fix"). Hence where a stream is cut "carries no framing
  significance" (`stream.go`): two parts one after the other give the requests and
  the rest of both at once. The exception is a stream that is given up: the rest
  is thrown away, and what follows starts anew, while in one piece it would have
  been thrown away with it. TLC has checked both for all sequences of up
  to 6 of 10 tokens.

The model computes with recursive functions: the flattening of frames, the chunks
of a body, the requests of a stream. That such a function exists is proved from
its values at smaller (or later) places, and what it computes by induction; both
go over the least number that fails (`LeastNat`, `InductionUpTo`, `InductionDown` in
`QueueLemmas`), since the library's induction theorems take an operator as a
parameter. From there the module goes up: what is captured of a task in a queue
(`Captured` distributes over queues in a row); how far the parser reads; that it
makes of each request that a client sends, complete and with anything behind it,
just that request, and asks for more before; what `Requests` takes from any part
of a script; the steps.

### OffsetCache, Watch

- `StoreKeepsHolds` and `CrashKeepsHolds`, action properties: for any number of processes,
  builds and Stores. `OwnCopy` says what a Store that is alone has in its hands,
  whatever the Stores before it have left behind.
- `AllCollectedHolds` and `ReleasedHolds`: for any sizes, modes and selections of probes.
  `Conserved` counts every event in one place; `Drained`, `Followed` and
  `Settled` say for each label of `runWatch` what is empty and who is gone.

### Only model-checked

- Every liveness property: `ClosesEventuallyEmitted`,
  `StopReturns`, the settling of connections and requests, `StopEnds`, `Returns`.
  Fairness is beyond the prover.
- The violations of section 3, which are TLC's counterexamples.

## 5. Not modelled

- The byte layout of fanotify records, eBPF structures, ClientHellos and HTTP
  headers, and the text of reports: no property speaks of them. A ClientHello is
  its server name, or none.
- In the net probe: the Host fallback of a request without Host header and the
  syntax of targets, ALPN and the coverage counters, time stamps, a `New` that
  fails. Two TLS connections that one thread writes to alternately, and a thread
  id used again, mix their requests by design (a comment in `correlator.go` says
  so) and are not in the scripts.
- The ELF scan of `pkg/tlsoffset`, a search for machine-code patterns.
  `TlsCapture` takes the candidates as given.
- In `cmd/watch`: the parsing of options, the sort and the wording; a negative
  `--root-pid`, which sets `AncestryPending` and then runs the default mode. After
  an error of one probe's `New` those built before it stay attached until the
  process ends: `Released` leaves that case out.
- `Config`'s path filters and a failing `New` of the fs probe. A poll or a read of
  `drainNonBlocking` that fails ends that drain early, and a catch-up drain that
  ends early leaves a hash unchecked: with its two descriptors open and a
  buffer that is always long enough, that takes a kernel without memory.
- The proc probe's global mode with `CommandFilter`, the words of a command line
  after the first, and the time stamps of its events.
- Values of Content-Length beyond an `int`.
- Generated bindings, `vmlinux.h`, and `cmd/simagent`, a test fixture.

The modules with state of their own define its types as `TypeOK`. `verify` and
`fs_settle` check it; in every module it is proved.

## 6. Plan

Done: the models of all components, and the proofs of their safety properties.

Next, in this order:

1. The abstract promise of the fs probe (every close is reported once, with the
   hash of its content or none) as a specification that `FsObserver` implements,
   and of the net probe likewise (every connection once).
2. The Host fallback in a composition of `NetProbe` and `TlsCapture`, and the proc
   probe's global mode.
