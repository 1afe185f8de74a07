---------------------------- MODULE Verification ----------------------------
(***************************************************************************)
(* cmd/verify and pkg/verification.Verify, statement by statement: the two *)
(* documents are loaded and validated, the outer loop takes the entries in *)
(* order, the inner loop scans every ground-truth event for the closest    *)
(* free match, and the report says whether the trajectory is faithful.     *)
(*                                                                         *)
(* The four lists of the Verdict are kept as sets of indices: the code     *)
(* appends in increasing index order, so the set determines the list.      *)
(* bestIdx is 0 where the code has -1 (indices start at 1 here).           *)
(***************************************************************************)
EXTENDS Documents

VARIABLES
    tr, gt,        \* the two documents; they do not change
    pc,            \* where main is
    i, j,          \* the entry being judged, the event being scanned
    bestIdx,       \* closest match of entry i among the events before j
    bestDiff,      \* its distance
    matched,       \* the events already paired
    corroborated, mismatched, unwitnessed, unrecorded   \* the Verdict

vars == <<tr, gt, pc, i, j, bestIdx, bestDiff, matched,
          corroborated, mismatched, unwitnessed, unrecorded>>

scanVars == <<j, bestIdx, bestDiff>>
lists == <<corroborated, mismatched, unwitnessed, unrecorded>>

Init ==
    /\ tr \in Trajectories \cup {Unreadable}
    /\ gt \in GroundTruths \cup {Unreadable}
    /\ pc = "loadTrajectory"
    /\ i = 1 /\ j = 1
    /\ bestIdx = 0 /\ bestDiff = MaxDuration
    /\ matched = {}
    /\ corroborated = {} /\ mismatched = {} /\ unwitnessed = {} /\ unrecorded = {}

(* loadTrajectory: log.Fatalf if the file cannot be read or parsed.        *)
LoadTrajectory ==
    /\ pc = "loadTrajectory"
    /\ pc' = IF Accepted(tr) THEN "loadGroundTruth" ELSE "fatal"
    /\ UNCHANGED <<tr, gt, i, scanVars, matched, lists>>

LoadGroundTruth ==
    /\ pc = "loadGroundTruth"
    /\ pc' = IF Accepted(gt) THEN "verify" ELSE "fatal"
    /\ UNCHANGED <<tr, gt, i, scanVars, matched, lists>>

(* A bug: the inner loop does not look at isTopLevel.                      *)
EligibleAnyone(k) == k \notin matched /\ Match(tr[i], gt[k])

(* The tests of the inner loop that do not continue past event k.          *)
Eligible(k) ==
    /\ k \notin matched
    /\ isTopLevel(gt[k])
    /\ Match(tr[i], gt[k])

(* A bug: a later event that is as close as the best one replaces it.      *)
CloserOrEqual(diff) == diff <= bestDiff

(* if diff < bestDiff                                                      *)
Closer(diff) == diff < bestDiff

(* One iteration of the inner loop.                                        *)
ScanEvent ==
    /\ pc = "verify" /\ i <= Len(tr) /\ j <= Len(gt)
    /\ LET diff == Diff(tr[i].timestamp, gt[j].timestamp)
       IN IF Eligible(j) /\ Closer(diff)
          THEN bestIdx' = j /\ bestDiff' = diff
          ELSE UNCHANGED <<bestIdx, bestDiff>>
    /\ j' = j + 1
    /\ UNCHANGED <<tr, gt, pc, i, matched, lists>>

(* A bug: bestDiff is declared outside the outer loop, and keeps its value.*)
NextEntryKeepsDiff ==
    i' = i + 1 /\ j' = 1 /\ bestIdx' = 0 /\ bestDiff' = bestDiff

(* The head of the outer loop, for the entry after this one.               *)
NextEntry ==
    i' = i + 1 /\ j' = 1 /\ bestIdx' = 0 /\ bestDiff' = MaxDuration

(* The scan found nothing.                                                 *)
EntryUnwitnessed ==
    /\ pc = "verify" /\ i <= Len(tr) /\ j > Len(gt)
    /\ bestIdx = 0
    /\ unwitnessed' = unwitnessed \cup {i}
    /\ NextEntry
    /\ UNCHANGED <<tr, gt, pc, matched, corroborated, mismatched, unrecorded>>

(* Bugs: matched is indexed by the entry; it is never written.             *)
MarkEntry(k) == matched' = matched \cup {i}
MarkNothing(k) == matched' = matched

(* matched[bestIdx] = true                                                 *)
Mark(k) == matched' = matched \cup {k}

(* The scan found bestIdx: the pair is classified by its fields.           *)
EntryPaired ==
    /\ pc = "verify" /\ i <= Len(tr) /\ j > Len(gt)
    /\ bestIdx # 0
    /\ Mark(bestIdx)
    /\ IF Agree(tr[i], gt[bestIdx])
       THEN /\ corroborated' = corroborated \cup {<<i, bestIdx>>}
            /\ UNCHANGED mismatched
       ELSE /\ mismatched' = mismatched \cup {<<i, bestIdx>>}
            /\ UNCHANGED corroborated
    /\ NextEntry
    /\ UNCHANGED <<tr, gt, pc, unwitnessed, unrecorded>>

(* A bug: the last loop also lists the events of descendants.              *)
LeftoverAll == DOMAIN gt \ matched

(* The events that the last loop appends to Unrecorded.                    *)
Leftover == {k \in DOMAIN gt : k \notin matched /\ isTopLevel(gt[k])}

(* The loop over the leftover events, and main's exit status: 0 only for   *)
(* FAITHFUL (log.Fatal exits with 1 as well).                              *)
Report ==
    /\ pc = "verify" /\ i > Len(tr)
    /\ unrecorded' = Leftover
    /\ pc' = IF unwitnessed = {} /\ Leftover = {} /\ mismatched = {}
             THEN "faithful" ELSE "notFaithful"
    /\ UNCHANGED <<tr, gt, i, scanVars, matched, corroborated, mismatched, unwitnessed>>

Exited == pc \in {"faithful", "notFaithful", "fatal"}

Terminated == Exited /\ UNCHANGED vars

Next ==
    \/ LoadTrajectory \/ LoadGroundTruth
    \/ ScanEvent \/ EntryUnwitnessed \/ EntryPaired
    \/ Report
    \/ Terminated

Spec == Init /\ [][Next]_vars
-----------------------------------------------------------------------------
(* Properties.                                                             *)

Pairs == corroborated \cup mismatched
Entries == IF tr = Unreadable THEN {} ELSE DOMAIN tr
Events == IF gt = Unreadable THEN {} ELSE DOMAIN gt

(* The types of the variables of main and Verify; in particular matched    *)
(* holds indices of events, as the slice it models has length len(g).      *)
TypeOK ==
    /\ tr \in Trajectories \cup {Unreadable}
    /\ gt \in GroundTruths \cup {Unreadable}
    /\ pc \in {"loadTrajectory", "loadGroundTruth", "verify",
              "faithful", "notFaithful", "fatal"}
    /\ i \in Nat \ {0} /\ j \in Nat \ {0}
    /\ bestIdx \in Events \cup {0}
    /\ bestDiff \in MinDuration..MaxDuration
    /\ matched \subseteq Events
    /\ corroborated \subseteq Entries \X Events
    /\ mismatched \subseteq Entries \X Events
    /\ unwitnessed \subseteq Entries
    /\ unrecorded \subseteq Events

(* The matching is one-to-one: no entry is in two pairs, no event backs    *)
(* two claims, and only top-level events back any.                         *)
OneToOne ==
    /\ \A p, q \in Pairs : p[1] = q[1] \/ p[2] = q[2] => p = q
    /\ corroborated \cap mismatched = {}
    /\ \A p \in Pairs : isTopLevel(gt[p[2]])

(* When the report is printed every entry is in exactly one of             *)
(* Corroborated, Mismatched, Unwitnessed, and every top-level event in     *)
(* exactly one of Corroborated, Mismatched, Unrecorded; the events of      *)
(* descendants are in none.                                                *)
EveryoneClassified ==
    pc \in {"faithful", "notFaithful"} =>
        LET pairedEntries == {p[1] : p \in Pairs}
            pairedEvents == {p[2] : p \in Pairs}
        IN /\ pairedEntries \cup unwitnessed = Entries
           /\ pairedEntries \cap unwitnessed = {}
           /\ pairedEvents \cup unrecorded = {k \in Events : isTopLevel(gt[k])}
           /\ pairedEvents \cap unrecorded = {}

(* The events that were free when entry n was judged: those not given to   *)
(* an earlier entry.                                                       *)
FreeFor(n) ==
    {k \in Events : isTopLevel(gt[k]) /\ \A p \in Pairs : p[2] = k => p[1] >= n}

(* Every claim is paired with the closest event that was still free when   *)
(* it was judged, the first of them on a tie, whatever the later claims    *)
(* took.                                                                   *)
PairedWithClosest ==
    \A p \in Pairs : \A k \in FreeFor(p[1]) \ {p[2]} :
        LET d(l) == Diff(tr[p[1]].timestamp, gt[l].timestamp)
        IN Match(tr[p[1]], gt[k]) => d(p[2]) < d(k) \/ (d(p[2]) = d(k) /\ p[2] < k)

(* A claim is called unwitnessed only if no event that was free for it     *)
(* matches (an event at a distance of MaxDuration is never chosen).        *)
UnwitnessedJustified ==
    \A n \in unwitnessed : \A k \in FreeFor(n) :
        Match(tr[n], gt[k]) => Diff(tr[n].timestamp, gt[k].timestamp) = MaxDuration

(* What a claim may say of its event: no field contradicts what the probes *)
(* captured, and a FileClose output hash, a ProcessExit exit code and a    *)
(* NetRequest request hash that they captured are not left out.            *)
Honest(t, g) ==
    /\ \A f \in {"input_hash", "output_hash", "exit_code", "request_hash"} :
          t[f] # g[f] => Nil \in {t[f], g[f]}
    /\ t.action_type = "file_close" /\ g.output_hash # Nil => t.output_hash # Nil
    /\ t.action_type = "process_exit" /\ g.exit_code # Nil => t.exit_code # Nil
    /\ t.action_type = "net_request" /\ g.request_hash # Nil => t.request_hash # Nil

(* What exit status 0 means: the claims and the top-level events are in    *)
(* bijection, and every claim is honest about its event.                   *)
FaithfulSound ==
    pc = "faithful" =>
        /\ \A n \in Entries : \E k \in Events : <<n, k>> \in Pairs
        /\ \A k \in Events : isTopLevel(gt[k]) => \E n \in Entries : <<n, k>> \in Pairs
        /\ \A p \in Pairs : Honest(tr[p[1]], gt[p[2]])

(* Match's comment: the timestamps of a pair are within delta of each      *)
(* other.                                                                  *)
WithinDelta ==
    \A p \in Pairs : LET gap == tr[p[1]].timestamp - gt[p[2]].timestamp
                     IN -Delta <= gap /\ gap <= Delta

(* Event k is closer to claim n than event l, or as close and before it.   *)
ClosestTo(n, k, l) ==
    LET d(e) == Diff(tr[n].timestamp, gt[e].timestamp)
    IN d(k) < d(l) \/ (d(k) = d(l) /\ k < l)

(* f tells which event each claim is about, as the agent means it: every   *)
(* top-level event has its claim, every claim an event of its own that     *)
(* matches it and that it is honest about, and no claim is closer to the   *)
(* event of a later claim than to its own.                                 *)
Accounts(f) ==
    /\ {f[n] : n \in Entries} = {k \in Events : isTopLevel(gt[k])}
    /\ \A n \in Entries :
          /\ Match(tr[n], gt[f[n]]) /\ Honest(tr[n], gt[f[n]])
          /\ Diff(tr[n].timestamp, gt[f[n]].timestamp) < MaxDuration
    /\ \A n, m \in Entries :
          n < m => /\ f[n] # f[m]
                   /\ Match(tr[n], gt[f[m]]) => ClosestTo(n, f[n], f[m])

(* A trajectory that accounts for what was seen is called FAITHFUL: the    *)
(* choices that Verify makes one claim at a time, never to be revised, do  *)
(* not leave a later claim without its event.                              *)
HonestNotAccused ==
    pc = "notFaithful" => ~ \E f \in [Entries -> Events] : Accounts(f)

(* Verify implements Assignment: the loops with matched, bestIdx and       *)
(* bestDiff take exactly the decisions the abstract matching takes.        *)
Abstract == INSTANCE Assignment WITH
    pairs <- Pairs,
    verdict <- CASE pc = "faithful" -> "faithful"
                 [] pc = "notFaithful" -> "not faithful"
                 [] pc = "fatal" -> "rejected"
                 [] OTHER -> "none"

ImplementsAssignment == Abstract!ASpec
=============================================================================
