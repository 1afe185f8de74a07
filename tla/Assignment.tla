----------------------------- MODULE Assignment -----------------------------
(***************************************************************************)
(* What pkg/verification promises, without the loop that computes it: the  *)
(* entries are judged in trajectory order, each by one decision.  An entry *)
(* gets the nearest free event that matches it (the earliest such event of *)
(* the ground truth on a tie) or, if there is none, is unwitnessed.  What  *)
(* is left over is unrecorded.                                             *)
(***************************************************************************)
EXTENDS Integers

CONSTANTS
    Trajectories, GroundTruths,  \* the documents a run may be given
    Unreadable,         \* a file that is missing or is not the expected JSON
    Accepted(_),        \* a document that passes validation
    isTopLevel(_),      \* an event the trajectory has to account for
    Match(_, _),        \* an entry and an event may be the same action
    Diff(_, _),         \* the distance of two timestamps
    MaxDuration,        \* a distance that is never near enough
    Agree(_, _)         \* an entry does not contradict its event

VARIABLES
    tr,           \* the trajectory document
    gt,           \* the ground-truth document
    pairs,        \* the judged pairs: <<entry index, event index>>
    unwitnessed,  \* the entry indices with no event
    verdict       \* "none" until the report; "rejected" if a load failed

avars == <<tr, gt, pairs, unwitnessed, verdict>>

-----------------------------------------------------------------------------

Gap(n, k) == Diff(tr[n].timestamp, gt[k].timestamp)

(* The events that entry n can be paired with while those in used are      *)
(* taken.  A gap of MaxDuration never wins against the initial bestDiff.   *)
Candidates(n, used) ==
    {k \in DOMAIN gt : /\ k \notin used
                       /\ isTopLevel(gt[k])
                       /\ Match(tr[n], gt[k])
                       /\ Gap(n, k) < MaxDuration}

(* k is nearer than l, or as near and earlier in the ground truth.         *)
Nearer(n, k, l) == \/ Gap(n, k) < Gap(n, l)
                   \/ Gap(n, k) = Gap(n, l) /\ k < l

Nearest(n, used) ==
    {k \in Candidates(n, used) : \A l \in Candidates(n, used) \ {k} : Nearer(n, k, l)}

Used(P) == {p[2] : p \in P}

Judged == {p[1] : p \in pairs} \cup unwitnessed

AInit ==
    /\ tr \in Trajectories \cup {Unreadable}
    /\ gt \in GroundTruths \cup {Unreadable}
    /\ pairs = {}
    /\ unwitnessed = {}
    /\ verdict = "none"

Reject ==
    /\ verdict = "none" /\ Judged = {}
    /\ ~(Accepted(tr) /\ Accepted(gt))
    /\ verdict' = "rejected"
    /\ UNCHANGED <<tr, gt, pairs, unwitnessed>>

Judge(n) ==
    /\ verdict = "none" /\ Accepted(gt)
    /\ n \in DOMAIN tr \ Judged
    /\ \A m \in 1..(n - 1) : m \in Judged
    /\ \/ /\ Candidates(n, Used(pairs)) = {}
          /\ unwitnessed' = unwitnessed \cup {n}
          /\ pairs' = pairs
       \/ /\ \E k \in Nearest(n, Used(pairs)) : pairs' = pairs \cup {<<n, k>>}
          /\ unwitnessed' = unwitnessed
    /\ UNCHANGED <<tr, gt, verdict>>

Leftover == {k \in DOMAIN gt : isTopLevel(gt[k]) /\ k \notin Used(pairs)}

Report ==
    /\ verdict = "none"
    /\ Accepted(tr) /\ Accepted(gt)
    /\ Judged = DOMAIN tr
    /\ verdict' = IF /\ unwitnessed = {} /\ Leftover = {}
                     /\ \A p \in pairs : Agree(tr[p[1]], gt[p[2]])
                  THEN "faithful" ELSE "not faithful"
    /\ UNCHANGED <<tr, gt, pairs, unwitnessed>>

ANext ==
    \/ Reject
    \/ Accepted(tr) /\ \E n \in DOMAIN tr : Judge(n)
    \/ Report

ASpec == AInit /\ [][ANext]_avars
=============================================================================
