---------------------------- MODULE OffsetCache -----------------------------
(***************************************************************************)
(* pkg/tlsoffset, cache.go: the file in which every watch process of the   *)
(* host keeps the SSL_write offsets that its validation found.             *)
(*                                                                         *)
(* Store reads the file, adds its entry, writes all to path.tmp, which all *)
(* processes share, and renames that over path.  Its mutex is one of the   *)
(* process.  A name refers to an inode, which an open file still writes to *)
(* after a rename; a process may die, or a call of it fail, at any time.   *)
(* A file is read at one moment.                                           *)
(***************************************************************************)
EXTENDS Integers, FiniteSets

CONSTANTS
    Procs,      \* processes that have the cache open
    Builds,     \* build ids
    Offsets,
    Inodes,
    MaxStores,  \* bound: calls of Store
    None

ASSUME CacheAssumption ==
    /\ IsFiniteSet(Builds) /\ MaxStores \in Nat
    /\ None \notin Offsets \cup Inodes \cup [Builds -> Offsets \cup {None}]

VARIABLES
    path, tmp,  \* the inode of each name, or None
    content,    \* of each inode
    pc, job,    \* where each process is in Store, and with which arguments
    targets,    \* the map of Store
    fd,         \* the inode it has open
    stores,     \* calls of Store so far
    base,       \* history: the entries that Store found
    alone       \* history: no other Store was under way since it began

fileVars == <<path, tmp, content>>
vars == <<fileVars, pc, job, targets, fd, stores, base, alone>>

(* The JSON documents: one that says which builds have which offsets, or   *)
(* one that json.Unmarshal refuses: an empty file, one with another's end. *)
Maps == [Builds -> Offsets \cup {None}]
NoTargets == [b \in Builds |-> None]
Torn == None
Size(m) == Cardinality({b \in Builds : m[b] # None})

Init ==
    /\ path = None /\ tmp = None
    /\ content = [i \in Inodes |-> Torn]
    /\ pc = [p \in Procs |-> "idle"]
    /\ job = [p \in Procs |-> None]
    /\ targets = [p \in Procs |-> NoTargets]
    /\ fd = [p \in Procs |-> None]
    /\ stores = 0
    /\ base = [p \in Procs |-> NoTargets]
    /\ alone = [p \in Procs |-> FALSE]

(* ReadFile and Unmarshal; an error of either counts as no entries.        *)
ReadTargets == IF path = None \/ content[path] = Torn THEN NoTargets ELSE content[path]

Lookup(b) == ReadTargets[b]

Storing == {p \in Procs : pc[p] # "idle"}

(* A bug: what the file has is not read.                                   *)
AddedToNothing(b, o) == [NoTargets EXCEPT ![b] = o]

(* targets[buildID] = target                                               *)
Added(b, o) == [ReadTargets EXCEPT ![b] = o]

StoreRead(p, b, o) ==
    /\ pc[p] = "idle" /\ stores < MaxStores
    /\ stores' = stores + 1
    /\ job' = [job EXCEPT ![p] = <<b, o>>]
    /\ targets' = [targets EXCEPT ![p] = Added(b, o)]
    /\ pc' = [pc EXCEPT ![p] = "open"]
    /\ base' = [base EXCEPT ![p] = ReadTargets]
    /\ alone' = [q \in Procs |-> q = p /\ Storing = {}]
    /\ UNCHANGED <<fileVars, fd>>

(* A bug: the file is written in its place.                                *)
StoreOpenInPlace(p) ==
    /\ pc[p] = "open"
    /\ LET i == IF path # None THEN path ELSE CHOOSE j \in Inodes : TRUE
       IN /\ path' = i /\ tmp' = i
          /\ content' = [content EXCEPT ![i] = Torn]
          /\ fd' = [fd EXCEPT ![p] = i]
    /\ pc' = [pc EXCEPT ![p] = "write"]
    /\ UNCHANGED <<job, targets, stores, base, alone>>

(* The open of WriteFile: path.tmp is emptied, or made.                    *)
StoreOpen(p) ==
    /\ pc[p] = "open"
    /\ \E i \in Inodes :
          /\ IF tmp # None THEN i = tmp ELSE i # path /\ \A q \in Procs : fd[q] # i
          /\ tmp' = i
          /\ content' = [content EXCEPT ![i] = Torn]
          /\ fd' = [fd EXCEPT ![p] = i]
    /\ pc' = [pc EXCEPT ![p] = "write"]
    /\ UNCHANGED <<path, job, targets, stores, base, alone>>

(* The data goes to the beginning of the file; if another process has      *)
(* written a longer document since, the end of that one remains.           *)
Overlaid(old, new) ==
    CASE old = Torn -> {new}
      [] old # Torn /\ Size(old) < Size(new) -> {new}
      [] old # Torn /\ Size(old) = Size(new) -> {new, Torn}
      [] OTHER -> {Torn}

StoreWrite(p) ==
    /\ pc[p] = "write"
    /\ \E c \in Overlaid(content[fd[p]], targets[p]) : content' = [content EXCEPT ![fd[p]] = c]
    /\ fd' = [fd EXCEPT ![p] = None]
    /\ pc' = [pc EXCEPT ![p] = "rename"]
    /\ UNCHANGED <<path, tmp, job, targets, stores, base, alone>>

Return(p) ==
    /\ pc' = [pc EXCEPT ![p] = "idle"]
    /\ job' = [job EXCEPT ![p] = None]
    /\ targets' = [targets EXCEPT ![p] = NoTargets]
    /\ fd' = [fd EXCEPT ![p] = None]
    /\ base' = [base EXCEPT ![p] = NoTargets]
    /\ alone' = [alone EXCEPT ![p] = FALSE]

(* The rename, which finds nothing if another process was faster.          *)
StoreRename(p) ==
    /\ pc[p] = "rename"
    /\ path' = IF tmp # None THEN tmp ELSE path
    /\ tmp' = None
    /\ Return(p)
    /\ UNCHANGED <<content, stores>>

(* A call fails, or the process dies; what it did remains.                 *)
StoreFails(p) ==
    /\ p \in Storing
    /\ Return(p)
    /\ UNCHANGED <<fileVars, stores>>

Next == \E p \in Procs :
    \/ \E b \in Builds, o \in Offsets : StoreRead(p, b, o)
    \/ StoreOpen(p) \/ StoreWrite(p) \/ StoreRename(p) \/ StoreFails(p)

Spec == Init /\ [][Next]_vars
-----------------------------------------------------------------------------
(* Properties.                                                             *)

(* The types of the variables; a name is never that of two files.          *)
TypeOK ==
    /\ {path, tmp} \subseteq Inodes \cup {None}
    /\ path = tmp => path = None
    /\ content \in [Inodes -> Maps \cup {Torn}]
    /\ targets \in [Procs -> Maps] /\ base \in [Procs -> Maps]
    /\ fd \in [Procs -> Inodes \cup {None}]
    /\ \A p \in Procs : pc[p] = "write" <=> fd[p] # None

(* Store's comment: existing targets are read so as not to overwrite them. *)
(* When a Store returns that no other process has interfered with, its own *)
(* entry is found, and with it every entry that was found when it began,   *)
(* whatever dead or failed Stores have left behind.                        *)
StoreKeeps ==
    [][\A p \in Procs :
          alone[p] /\ pc[p] = "rename" /\ pc'[p] = "idle" /\ path' # path =>
              /\ ReadTargets'[job[p][1]] = job[p][2]
              /\ \A b \in Builds \ {job[p][1]} : ReadTargets'[b] = base[p][b]]_vars

(* Store's comment: write atomically-ish by writing to temp then renaming. *)
(* Until its rename a Store that is alone changes nothing that Lookup      *)
(* finds, wherever it fails or dies.                                       *)
CrashKeeps ==
    [][(\A p \in Storing : alone[p]) /\ path' = path => ReadTargets' = ReadTargets]_vars
=============================================================================
