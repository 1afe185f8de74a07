------------------------------ MODULE FsWorld -------------------------------
(***************************************************************************)
(* What the filesystem probe watches: the agent's system calls on a few    *)
(* files, and the fanotify queue in which the kernel announces them.  None *)
(* of this is code of the repository; it is modelled from how              *)
(* pkg/probe/fs uses it.                                                   *)
(*                                                                         *)
(* A system call changes the file first and is announced a moment later    *)
(* (Notify), so a reader may see new content whose event is not queued.    *)
(* A content is a number; 0 is the empty file, and no two writes write the *)
(* same content.                                                           *)
(***************************************************************************)
EXTENDS Integers, Sequences, FiniteSets

CONSTANTS
    Paths,        \* file names in the watched workspace
    Inodes,       \* inode numbers; a deleted file's number is used again
    Existing,     \* the names that exist when the probe starts
    AgentOps,     \* the system calls this agent makes
    MaxOps,       \* bound: how many of them, closes not counted
    QueueMax,     \* length at which the kernel's queue overflows
    FastWriter,   \* a burst of writes never pauses for the settle window
    Nameless,     \* event kinds that may be reported with the directory only
    None

Gone == "gone"     \* a link that no longer names a file: "... (deleted)"
Dir == "dir"       \* the workspace directory itself
Names == Paths \cup {Dir}

Bits == {"create", "open", "modify", "close", "delete", "movedFrom", "movedTo", "overflow"}
Files == [path : Paths, ino : Inodes]
Events == [path : Names, ino : Inodes \cup {None}, mask : SUBSET Bits, own : BOOLEAN, at : Nat]

ASSUME WorldAssumption ==
    /\ IsFiniteSet(Paths) /\ Existing \subseteq Paths
    /\ Cardinality(Existing) <= Cardinality(Inodes)
    /\ MaxOps \in Nat /\ QueueMax \in Nat \ {0}
    /\ FastWriter \in BOOLEAN
    /\ {Gone, Dir, None} \cap Paths = {}
    /\ None \notin Nat \cup Inodes \cup Files \cup {Gone, Dir}

VARIABLES
    ino,        \* the inode each path names, or None
    content,    \* what each inode holds
    wr,         \* the file the agent has open for writing, or None
    inflight,   \* events of the system call in progress
    queue,      \* the fanotify queue
    revisions,  \* history: the contents that files were closed with
    moved,      \* history: the inodes that were renamed
    ops, fresh  \* system calls made, contents used

worldVars == <<ino, content, wr, inflight, queue, revisions, moved, ops, fresh>>

(* An event: its path, its object, the mask bits, whether the observer     *)
(* itself caused it, and (history) the content at a close.                 *)
Event(p, i, m, at) == [path |-> p, ino |-> i, mask |-> m, own |-> FALSE, at |-> at]

Overflow == Event(Dir, None, {"overflow"}, 0)

Linked == {ino[p] : p \in Paths} \ {None}

(* The current name of an inode.                                           *)
NameOf(i) == IF \E p \in Paths : ino[p] = i THEN CHOOSE p \in Paths : ino[p] = i ELSE Gone

(* The kernel ORs a new event into a queued one for the same object, name  *)
(* and process; at the limit it drops the event and says so once.          *)
Enqueue(q, e) ==
    LET same == {n \in DOMAIN q : /\ q[n].path = e.path /\ q[n].ino = e.ino
                                  /\ q[n].own = e.own}
    IN CASE same # {} ->
              LET n == CHOOSE n \in same : TRUE
              IN [q EXCEPT ![n].mask = @ \cup e.mask,
                           ![n].at = IF "close" \in e.mask THEN e.at ELSE @]
         [] same = {} /\ Len(q) < QueueMax -> Append(q, e)
         [] OTHER -> IF \E n \in DOMAIN q : q[n] = Overflow THEN q ELSE Append(q, Overflow)

-----------------------------------------------------------------------------
(* The agent.                                                              *)

Call(op) == op \in AgentOps /\ inflight = <<>> /\ ops < MaxOps /\ ops' = ops + 1

(* open(O_CREAT): held is the set of inodes kept alive by descriptors.     *)
Create(p, held) ==
    /\ Call("create") /\ wr = None /\ ino[p] = None
    /\ \E i \in Inodes \ (Linked \cup held) :
         /\ ino' = [ino EXCEPT ![p] = i]
         /\ content' = [content EXCEPT ![i] = 0]
         /\ wr' = [path |-> p, ino |-> i]
         /\ inflight' = <<Event(p, i, {"create", "open"}, 0)>>
    /\ UNCHANGED <<queue, revisions, moved, fresh>>

(* open(O_TRUNC) of an existing file.                                      *)
Open(p) ==
    /\ Call("open") /\ wr = None /\ ino[p] # None
    /\ content' = [content EXCEPT ![ino[p]] = 0]
    /\ wr' = [path |-> p, ino |-> ino[p]]
    /\ inflight' = <<Event(p, ino[p], {"open", "modify"}, 0)>>
    /\ UNCHANGED <<ino, queue, revisions, moved, fresh>>

(* open(O_RDONLY), whose close the probe does not ask for.                 *)
Read(p) ==
    /\ Call("read") /\ ino[p] # None
    /\ inflight' = <<Event(p, ino[p], {"open"}, 0)>>
    /\ UNCHANGED <<ino, content, wr, queue, revisions, moved, fresh>>

Write ==
    /\ Call("write") /\ wr # None
    /\ fresh' = fresh + 1
    /\ content' = [content EXCEPT ![wr.ino] = fresh + 1]
    /\ inflight' = <<Event(wr.path, wr.ino, {"modify"}, 0)>>
    /\ UNCHANGED <<ino, wr, queue, revisions, moved>>

(* A file that is open is closed in the end, so MaxOps does not count it.  *)
Close ==
    /\ inflight = <<>> /\ wr # None
    /\ revisions' = revisions \cup {content[wr.ino]}
    /\ inflight' = <<Event(wr.path, wr.ino, {"close"}, content[wr.ino])>>
    /\ wr' = None
    /\ UNCHANGED <<ino, content, queue, moved, ops, fresh>>

Delete(p) ==
    /\ Call("delete") /\ ino[p] # None
    /\ ino' = [ino EXCEPT ![p] = None]
    /\ inflight' = <<Event(p, ino[p], {"delete"}, 0)>>
    /\ UNCHANGED <<content, wr, queue, revisions, moved, fresh>>

Rename(p, q) ==
    /\ Call("rename") /\ ino[p] # None /\ ino[q] = None /\ wr = None
    /\ ino' = [ino EXCEPT ![p] = None, ![q] = ino[p]]
    /\ inflight' = <<Event(p, ino[p], {"movedFrom"}, 0), Event(q, ino[p], {"movedTo"}, 0)>>
    /\ moved' = moved \cup {ino[p]}
    /\ UNCHANGED <<content, wr, queue, revisions, fresh>>

Agent(held) ==
    \/ \E p \in Paths : Create(p, held) \/ Open(p) \/ Read(p) \/ Delete(p)
    \/ Write \/ Close
    \/ \E p, q \in Paths : Rename(p, q)

(* The path that resolveEventPath makes of an event's info records: that   *)
(* of the file or, if the kernel left the name out, of its directory.      *)
Resolved(e) == {e.path} \cup (IF e.mask \cap Nameless # {} THEN {Dir} ELSE {})

(* The kernel announces the system call.                                   *)
Notify ==
    /\ inflight # <<>>
    /\ \E n \in Resolved(Head(inflight)) :
         queue' = Enqueue(queue, [Head(inflight) EXCEPT !.path = n])
    /\ inflight' = Tail(inflight)
    /\ UNCHANGED <<ino, content, wr, revisions, moved, ops, fresh>>

WorldInit ==
    /\ \E f \in [Existing -> Inodes] :
         /\ \A p, q \in Existing : f[p] = f[q] => p = q
         /\ ino = [p \in Paths |-> IF p \in Existing THEN f[p] ELSE None]
    /\ content = [i \in Inodes |-> IF i \in Linked THEN 1 ELSE 0]
    /\ wr = None /\ inflight = <<>> /\ queue = <<>>
    /\ revisions = {content[i] : i \in Linked}
    /\ moved = {} /\ ops = 0 /\ fresh = 1

WorldTypeOK ==
    /\ ino \in [Paths -> Inodes \cup {None}]
    /\ content \in [Inodes -> Nat]
    /\ wr \in Files \cup {None}
    /\ inflight \in Seq(Events) /\ queue \in Seq(Events)
    /\ ops \in 0..MaxOps /\ fresh \in Nat /\ revisions \subseteq Nat /\ moved \subseteq Inodes
=============================================================================
