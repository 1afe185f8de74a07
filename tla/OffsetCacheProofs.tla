------------------------- MODULE OffsetCacheProofs --------------------------
(***************************************************************************)
(* Proofs about OffsetCache, for any number of processes, builds, offsets  *)
(* and Stores.                                                             *)
(***************************************************************************)
EXTENDS OffsetCache, TLAPS

Steps == {"idle", "open", "write", "rename"}

Types ==
    /\ path \in Inodes \cup {None} /\ tmp \in Inodes \cup {None}
    /\ content \in [Inodes -> Maps \cup {Torn}]
    /\ pc \in [Procs -> Steps]
    /\ job \in [Procs -> (Builds \X Offsets) \cup {None}]
    /\ targets \in [Procs -> Maps] /\ base \in [Procs -> Maps]
    /\ fd \in [Procs -> Inodes \cup {None}]
    /\ alone \in [Procs -> BOOLEAN]

(* The cache and its copy are two files, and a descriptor is open exactly  *)
(* between the open and the write of a Store.                              *)
Apart ==
    /\ path = tmp => path = None
    /\ \A p \in Procs : pc[p] = "write" <=> fd[p] # None

(* A Store that is alone adds its entry to what it found; the file that it *)
(* has open is still the copy, empty until it writes, complete before it   *)
(* renames it.                                                             *)
OwnCopy ==
    \A p \in Procs : alone[p] =>
        /\ pc[p] # "idle" /\ \A q \in Procs : q # p => pc[q] = "idle"
        /\ job[p] \in Builds \X Offsets
        /\ targets[p] = [base[p] EXCEPT ![job[p][1]] = job[p][2]]
        /\ pc[p] = "write" => fd[p] = tmp /\ content[tmp] = Torn
        /\ pc[p] = "rename" => tmp # None /\ content[tmp] = targets[p]

Inv == Types /\ Apart /\ OwnCopy

-----------------------------------------------------------------------------
(* What Lookup finds is always a map, also in a file that does not parse.  *)
LEMMA ReadTargetsType == ASSUME Types PROVE ReadTargets \in Maps
BY DEF Types, ReadTargets, NoTargets, Maps, Torn

(* The invariant holds initially.                                          *)
LEMMA InitInv == Init => Inv
<1> SUFFICES ASSUME Init PROVE Inv
  OBVIOUS
<1>1. NoTargets \in Maps
  BY DEF NoTargets, Maps
<1>2. Types
  BY <1>1 DEF Init, Types, Steps
<1>3. Apart /\ OwnCopy
  BY DEF Init, Apart, OwnCopy
<1> QED BY <1>2, <1>3 DEF Inv

(* The steps of a Store preserve it.                                       *)
LEMMA ReadInv ==
    ASSUME Inv, NEW p \in Procs, NEW b \in Builds, NEW o \in Offsets, StoreRead(p, b, o)
    PROVE  Inv'
<1> USE DEF Inv, fileVars
<1>1. /\ ReadTargets \in Maps /\ Added(b, o) \in Maps
      /\ Added(b, o) = [ReadTargets EXCEPT ![b] = o]
  BY ReadTargetsType DEF Added, Maps
<1>2. Types'
  BY <1>1 DEF StoreRead, Types, Steps
<1>3. Apart'
  BY DEF StoreRead, Apart, Types
<1>4. OwnCopy'
  BY <1>1 DEF StoreRead, OwnCopy, Types, Storing, Steps
<1> QED BY <1>2, <1>3, <1>4

LEMMA OpenInv == ASSUME Inv, NEW p \in Procs, StoreOpen(p) PROVE Inv'
<1> USE CacheAssumption DEF Inv
<1>1. PICK i \in Inodes :
          /\ i # path /\ tmp' = i
          /\ content' = [content EXCEPT ![i] = Torn]
          /\ fd' = [fd EXCEPT ![p] = i]
  BY DEF StoreOpen, Apart, Types
<1>2. Types'
  BY <1>1 DEF StoreOpen, Types, Steps
<1>3. Apart'
  BY <1>1 DEF StoreOpen, Apart, Types
<1>4. OwnCopy'
  BY <1>1 DEF StoreOpen, OwnCopy, Types
<1> QED BY <1>2, <1>3, <1>4

LEMMA WriteInv == ASSUME Inv, NEW p \in Procs, StoreWrite(p) PROVE Inv'
<1> USE CacheAssumption DEF Inv
<1>1. fd[p] \in Inodes
  BY DEF StoreWrite, Apart, Types
<1>2. PICK c \in Overlaid(content[fd[p]], targets[p]) : content' = [content EXCEPT ![fd[p]] = c]
  BY DEF StoreWrite
<1>3. /\ c \in Maps \cup {Torn}
      /\ content[fd[p]] = Torn => c = targets[p]
  BY <1>1, <1>2 DEF Overlaid, Types
<1>4. Types'
  BY <1>1, <1>2, <1>3 DEF StoreWrite, Types, Steps
<1>5. Apart'
  BY DEF StoreWrite, Apart, Types
<1>6. OwnCopy'
  BY <1>1, <1>2, <1>3 DEF StoreWrite, OwnCopy, Types
<1> QED BY <1>4, <1>5, <1>6

LEMMA RenameInv == ASSUME Inv, NEW p \in Procs, StoreRename(p) PROVE Inv'
<1> USE CacheAssumption DEF Inv, Return
<1>1. NoTargets \in Maps
  BY DEF NoTargets, Maps
<1>2. Types'
  BY <1>1 DEF StoreRename, Types, Steps
<1>3. Apart'
  BY DEF StoreRename, Apart, Types
<1>4. OwnCopy'
  BY DEF StoreRename, OwnCopy, Types
<1> QED BY <1>2, <1>3, <1>4

LEMMA FailsInv == ASSUME Inv, NEW p \in Procs, StoreFails(p) PROVE Inv'
<1> USE CacheAssumption DEF Inv, Return, fileVars
<1>1. NoTargets \in Maps
  BY DEF NoTargets, Maps
<1>2. Types'
  BY <1>1 DEF StoreFails, Types, Steps
<1>3. Apart'
  BY DEF StoreFails, Apart, Types
<1>4. OwnCopy'
  BY DEF StoreFails, OwnCopy, Types
<1> QED BY <1>2, <1>3, <1>4

(* The invariant: whatever overlapping, failed and dead Stores have left   *)
(* behind, a Store that is alone works on a copy of its own.               *)
THEOREM Invariance == Spec => []Inv
<1>1. Inv /\ [Next]_vars => Inv'
  <2> SUFFICES ASSUME Inv, [Next]_vars PROVE Inv'
    OBVIOUS
  <2>1. CASE UNCHANGED vars
    BY <2>1 DEF vars, fileVars, Inv, Types, Apart, OwnCopy
  <2> QED BY <2>1, ReadInv, OpenInv, WriteInv, RenameInv, FailsInv DEF Next
<1> QED BY <1>1, InitInv, PTL DEF Spec

(* The variables keep their types; path and path.tmp never name one file.  *)
THEOREM TypeCorrect == Spec => []TypeOK
<1>1. Inv => TypeOK
  BY DEF Inv, TypeOK, Types, Apart
<1> QED BY <1>1, Invariance, PTL

-----------------------------------------------------------------------------
(* Store: one that no other overlaps keeps every entry that it found and   *)
(* adds its own.                                                           *)
THEOREM StoreKeepsHolds == Spec => StoreKeeps
<1>1. ASSUME Inv, [Next]_vars, NEW p \in Procs,
             alone[p], pc[p] = "rename", pc'[p] = "idle", path' # path
      PROVE  /\ ReadTargets'[job[p][1]] = job[p][2]
             /\ \A b \in Builds \ {job[p][1]} : ReadTargets'[b] = base[p][b]
  <2> USE CacheAssumption DEF Inv
  <2>1. tmp \in Inodes /\ content[tmp] = targets[p] /\ targets[p] \in Maps
    BY <1>1 DEF OwnCopy, Types
  <2>2. path' = tmp /\ content' = content
    <3>1. PICK q \in Procs : StoreRename(q)
      BY <1>1 DEF Next, StoreRead, StoreOpen, StoreWrite, StoreFails, fileVars, vars
    <3> QED BY <2>1, <3>1 DEF StoreRename
  <2>3. ReadTargets' = targets[p]
    BY <2>1, <2>2 DEF ReadTargets, Torn, Maps
  <2>4. /\ job[p] \in Builds \X Offsets
        /\ targets[p] = [base[p] EXCEPT ![job[p][1]] = job[p][2]]
        /\ base[p] \in Maps
    BY <1>1 DEF OwnCopy, Types
  <2> QED BY <2>3, <2>4 DEF Maps
<1>2. Inv /\ [Next]_vars =>
        [\A p \in Procs :
            alone[p] /\ pc[p] = "rename" /\ pc'[p] = "idle" /\ path' # path =>
              /\ ReadTargets'[job[p][1]] = job[p][2]
              /\ \A b \in Builds \ {job[p][1]} : ReadTargets'[b] = base[p][b]]_vars
  BY <1>1
<1> QED BY <1>2, Invariance, PTL DEF Spec, StoreKeeps

(* Store: until its rename one that no other overlaps changes nothing that *)
(* Lookup finds, wherever it fails or dies.                                *)
THEOREM CrashKeepsHolds == Spec => CrashKeeps
<1>1. ASSUME Inv, [Next]_vars, \A p \in Storing : alone[p], path' = path
      PROVE  ReadTargets' = ReadTargets
  <2> USE CacheAssumption DEF Inv
  <2>1. ASSUME NEW p \in Procs, StoreOpen(p) PROVE ReadTargets' = ReadTargets
    BY <1>1, <2>1 DEF StoreOpen, ReadTargets, Apart, Types
  <2>2. ASSUME NEW p \in Procs, StoreWrite(p) PROVE ReadTargets' = ReadTargets
    <3>1. alone[p] /\ fd[p] = tmp /\ fd[p] # None
      BY <1>1, <2>2 DEF StoreWrite, Storing, OwnCopy, Apart
    <3> QED BY <1>1, <2>2, <3>1 DEF StoreWrite, ReadTargets, Apart, Types
  <2>3. CASE content' = content
    BY <1>1, <2>3 DEF ReadTargets
  <2> QED BY <1>1, <2>1, <2>2, <2>3
          DEF Next, vars, fileVars, StoreRead, StoreRename, StoreFails
<1>2. Inv /\ [Next]_vars =>
        [(\A p \in Storing : alone[p]) /\ path' = path => ReadTargets' = ReadTargets]_vars
  BY <1>1
<1> QED BY <1>2, Invariance, PTL DEF Spec, CrashKeeps
=============================================================================
