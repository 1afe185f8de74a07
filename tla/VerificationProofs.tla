------------------------- MODULE VerificationProofs -------------------------
(***************************************************************************)
(* Proofs about Verification, for documents of any length, any Delta and   *)
(* any width of a Duration.                                                *)
(***************************************************************************)
EXTENDS Verification, QueueLemmas

(* What every state after the loading of the documents satisfies.          *)
Loaded == pc \in {"verify", "faithful", "notFaithful"}

Readable ==
    /\ Loaded => /\ Accepted(tr) /\ tr # Unreadable
                 /\ Accepted(gt) /\ gt # Unreadable
    /\ pc = "loadGroundTruth" => Accepted(tr) /\ tr # Unreadable
    /\ ~Loaded => /\ Pairs = {} /\ unwitnessed = {} /\ matched = {} /\ unrecorded = {}
                  /\ i = 1 /\ j = 1 /\ bestIdx = 0 /\ bestDiff = MaxDuration

D(n, k) == Diff(tr[n].timestamp, gt[k].timestamp)

(* The books of the outer loop: what is matched, and by whom.              *)
Books ==
    /\ \A k : k \in matched <=> \E p \in Pairs : p[2] = k
    /\ \A p \in Pairs : p[1] < i /\ isTopLevel(gt[p[2]]) /\ Match(tr[p[1]], gt[p[2]])
    /\ \A n \in unwitnessed : n < i
    /\ \A n \in Entries : n < i => n \in unwitnessed \/ \E p \in Pairs : p[1] = n
    /\ \A p \in Pairs : p[1] \notin unwitnessed
    /\ \A p, q \in Pairs : p[1] = q[1] \/ p[2] = q[2] => p = q
    /\ corroborated \cap mismatched = {}
    /\ \A p \in corroborated : Agree(tr[p[1]], gt[p[2]])
    /\ \A p \in mismatched : ~Agree(tr[p[1]], gt[p[2]])

(* What the inner loop knows after it has scanned the events before j.     *)
Scan ==
    /\ bestIdx = 0 => bestDiff = MaxDuration
    /\ bestIdx # 0 =>
         /\ pc = "verify" /\ i \in Entries
         /\ bestIdx < j /\ Eligible(bestIdx)
         /\ bestDiff = D(i, bestIdx) /\ bestDiff < MaxDuration
    /\ pc = "verify" /\ i \in Entries =>
         \A k \in Events : k < j /\ Eligible(k) /\ k # bestIdx =>
             \/ bestDiff < D(i, k)
             \/ bestDiff = D(i, k) /\ bestIdx < k

(* The report is the sum of the books.                                     *)
Summed ==
    /\ pc \in {"faithful", "notFaithful"} =>
         /\ i > Len(tr)
         /\ unrecorded = Leftover
         /\ pc = "faithful" <=> unwitnessed = {} /\ unrecorded = {} /\ mismatched = {}
    /\ pc = "verify" => unrecorded = {}

-----------------------------------------------------------------------------
(* The distance of two timestamps is a Duration.                           *)
LEMMA DiffType ==
    ASSUME NEW t \in Int, NEW u \in Int
    PROVE  Diff(t, u) \in MinDuration..MaxDuration
BY DurationAssumption DEF Diff, Sub, Negate, MinDuration

(* A loaded document is a sequence of records with integer timestamps.     *)
LEMMA DocumentFacts ==
    ASSUME TypeOK
    PROVE  /\ tr # Unreadable => /\ Len(tr) \in Nat /\ DOMAIN tr = 1..Len(tr)
                                 /\ \A n \in DOMAIN tr : tr[n].timestamp \in Int
           /\ gt # Unreadable => /\ Len(gt) \in Nat /\ DOMAIN gt = 1..Len(gt)
                                 /\ \A n \in DOMAIN gt : gt[n].timestamp \in Int
BY DocumentAssumption DEF TypeOK, IsEntry

(* Indices are numbers, and distances are integers that fit a Duration.    *)
LEMMA IndexFacts ==
    ASSUME TypeOK, NEW n \in Entries, NEW k \in Events
    PROVE  /\ n \in Nat \ {0} /\ k \in Nat \ {0} /\ n <= Len(tr) /\ k <= Len(gt)
           /\ D(n, k) \in Int /\ D(n, k) <= MaxDuration
<1>1. /\ n \in DOMAIN tr /\ k \in DOMAIN gt /\ tr # Unreadable /\ gt # Unreadable
  BY DEF Entries, Events
<1>2. tr[n].timestamp \in Int /\ gt[k].timestamp \in Int
  BY <1>1, DocumentFacts
<1>3. D(n, k) \in MinDuration..MaxDuration
  BY <1>2, DiffType DEF D
<1> QED BY <1>1, <1>3, DocumentFacts, DurationAssumption DEF MinDuration

(* Type correctness, and who has been loaded when.                         *)
TypeInv == TypeOK /\ Readable

(* TypeInv is inductive on its own.                                        *)
LEMMA TypeStep == ASSUME TypeInv, [Next]_vars PROVE TypeInv'
<1> USE DEF TypeInv, TypeOK, Readable, Loaded, Pairs, Entries, Events
<1>1. CASE LoadTrajectory
  BY <1>1 DEF LoadTrajectory, scanVars, lists, Accepted
<1>2. CASE LoadGroundTruth
  BY <1>2 DEF LoadGroundTruth, scanVars, lists, Accepted
<1>3. CASE ScanEvent
  <2>1. /\ i \in DOMAIN tr /\ j \in DOMAIN gt
        /\ tr[i].timestamp \in Int /\ gt[j].timestamp \in Int
    BY <1>3, DocumentFacts DEF ScanEvent
  <2>2. Diff(tr[i].timestamp, gt[j].timestamp) \in MinDuration..MaxDuration
    BY <2>1, DiffType
  <2> QED BY <1>3, <2>1, <2>2 DEF ScanEvent, lists
<1>4. CASE EntryUnwitnessed
  BY <1>4, DocumentFacts, DurationAssumption DEF EntryUnwitnessed, NextEntry, MinDuration
<1>5. CASE EntryPaired
  BY <1>5, DocumentFacts, DurationAssumption DEF EntryPaired, NextEntry, Mark, MinDuration
<1>6. CASE Report
  BY <1>6 DEF Report, scanVars, Leftover
<1>7. CASE UNCHANGED vars
  BY <1>7 DEF vars
<1> QED BY <1>1, <1>2, <1>3, <1>4, <1>5, <1>6, <1>7 DEF Next, Terminated

(* The types of the variables hold in every reachable state.               *)
THEOREM TypeCorrect == Spec => []TypeOK
<1>1. Init => TypeInv
  BY DurationAssumption
  DEF Init, TypeInv, TypeOK, Readable, Loaded, Pairs, Entries, Events, MinDuration
<1>2. TypeInv /\ [Next]_vars => TypeInv'
  BY TypeStep
<1>3. TypeInv => TypeOK
  BY DEF TypeInv
<1> QED BY <1>1, <1>2, <1>3, PTL DEF Spec

-----------------------------------------------------------------------------
(* The scan remembers the closest eligible event before j.                 *)
LEMMA ScanStep == ASSUME TypeInv, Scan, [Next]_vars PROVE Scan'
<1>0. TypeOK /\ TypeInv'
  BY TypeStep DEF TypeInv
<1>1. CASE LoadTrajectory \/ LoadGroundTruth
  <2>1. j' = 1 /\ bestIdx' = 0 /\ bestDiff' = MaxDuration /\ gt' = gt
    BY <1>1 DEF LoadTrajectory, LoadGroundTruth, scanVars, TypeInv, Readable, Loaded
  <2>2. \A k \in Events' : k \in Nat \ {0}
    BY <1>0, DocumentFacts, <2>1 DEF Events
  <2> QED BY <2>1, <2>2 DEF Scan
<1>2. CASE ScanEvent
  <2>0. i \in Entries /\ j \in Events
    BY <1>0, <1>2, DocumentFacts
    DEF ScanEvent, TypeInv, TypeOK, Readable, Loaded, Entries, Events
  <2>1. /\ i \in Entries /\ j \in Events
        /\ \A k \in Events : k \in Nat \ {0} /\ D(i, k) \in Int /\ D(i, k) <= MaxDuration
    BY <1>0, <2>0, IndexFacts
  <2>2. /\ Entries' = Entries /\ Events' = Events /\ i' = i /\ pc' = pc
        /\ tr' = tr /\ gt' = gt /\ matched' = matched
    BY <1>2 DEF ScanEvent, Entries, Events
  <2>3. j' = j + 1 /\ pc = "verify" /\ j \in Nat
    BY <1>2, <2>1 DEF ScanEvent
  <2>4. /\ bestIdx \in Nat /\ bestDiff \in Int /\ bestDiff <= MaxDuration
        /\ MaxDuration \in Int
    BY <1>0, <2>1, DurationAssumption DEF TypeOK, MinDuration
  <2>5. CASE Eligible(j) /\ D(i, j) < bestDiff
    <3>1. bestIdx' = j /\ bestDiff' = D(i, j)
      BY <1>2, <2>5 DEF ScanEvent, Closer, D
    <3>2. bestDiff' < MaxDuration
      BY <2>1, <2>4, <2>5, <3>1
    <3>3. ASSUME NEW k \in Events, k < j + 1, Eligible(k), k # j
          PROVE  D(i, j) < D(i, k)
      <4>1. k < j
        BY <2>1, <2>3, <3>3
      <4>2. bestDiff <= D(i, k)
        BY <2>1, <2>3, <2>4, <3>3, <4>1 DEF Scan
      <4> QED BY <2>1, <2>4, <2>5, <3>3, <4>2
    <3>4. Eligible(bestIdx)' /\ bestDiff' = D(i, bestIdx)' /\ bestIdx' < j'
      BY <2>2, <2>3, <2>5, <3>1 DEF Eligible, D
    <3>5. ASSUME NEW k \in Events', k < j', Eligible(k)', k # j
          PROVE  bestDiff' < D(i, k)'
      BY <2>2, <2>3, <3>1, <3>3, <3>5 DEF Eligible, D
    <3> QED BY <2>1, <2>2, <2>3, <3>1, <3>2, <3>4, <3>5 DEF Scan
  <2>6. CASE ~(Eligible(j) /\ D(i, j) < bestDiff)
    <3>1. bestIdx' = bestIdx /\ bestDiff' = bestDiff
      BY <1>2, <2>6 DEF ScanEvent, Closer, D
    <3>2. ASSUME Eligible(j), j # bestIdx
          PROVE  bestDiff < D(i, j) \/ (bestDiff = D(i, j) /\ bestIdx < j)
      BY <2>1, <2>3, <2>4, <2>6, <3>2 DEF Scan
    <3>3. bestIdx # 0 => bestIdx < j + 1
      BY <2>3, <2>4 DEF Scan
    <3>4. \A k \in Events : k < j + 1 => k < j \/ k = j
      BY <2>1, <2>3
    <3> QED BY <2>1, <2>2, <2>3, <3>1, <3>2, <3>3, <3>4 DEF Scan, Eligible, D
  <2> QED BY <2>5, <2>6
<1>3. CASE EntryUnwitnessed \/ EntryPaired
  <2>1. j' = 1 /\ bestIdx' = 0 /\ bestDiff' = MaxDuration /\ gt' = gt
    BY <1>3 DEF EntryUnwitnessed, EntryPaired, NextEntry
  <2>2. \A k \in Events' : k \in Nat \ {0}
    BY <1>0, DocumentFacts, <2>1 DEF Events
  <2> QED BY <2>1, <2>2 DEF Scan
<1>4. CASE Report
  BY <1>0, <1>4 DEF Report, scanVars, Scan, Entries
<1>5. CASE UNCHANGED vars
  BY <1>5 DEF vars, Scan, Entries, Events, Eligible, D
<1> QED BY <1>1, <1>2, <1>3, <1>4, <1>5 DEF Next, Terminated

-----------------------------------------------------------------------------
(* What the step that judges entry i does to the pairs.                    *)
LEMMA PairedFacts ==
    ASSUME TypeInv, Scan, EntryPaired
    PROVE  /\ i \in Entries /\ bestIdx \in Events /\ Eligible(bestIdx)
           /\ Pairs' = Pairs \cup {<<i, bestIdx>>} /\ matched' = matched \cup {bestIdx}
           /\ tr' = tr /\ gt' = gt /\ pc' = pc /\ i' = i + 1 /\ i \in Nat
           /\ unwitnessed' = unwitnessed /\ unrecorded' = unrecorded
           /\ Entries' = Entries /\ Events' = Events
BY DEF TypeInv, TypeOK, Scan, EntryPaired, Mark, NextEntry, Pairs, Entries, Events

(* What the step that finds no event for entry i does to the books.        *)
LEMMA UnwitnessedFacts ==
    ASSUME TypeInv, Scan, EntryUnwitnessed
    PROVE  /\ i \in Entries /\ pc = "verify" /\ bestIdx = 0
           /\ unwitnessed' = unwitnessed \cup {i}
           /\ corroborated' = corroborated /\ mismatched' = mismatched
           /\ Pairs' = Pairs /\ matched' = matched
           /\ tr' = tr /\ gt' = gt /\ pc' = pc /\ i' = i + 1 /\ i \in Nat
           /\ unrecorded' = unrecorded
           /\ Entries' = Entries /\ Events' = Events
<1>1. tr # Unreadable /\ i \in Nat \ {0} /\ i <= Len(tr)
  BY DEF TypeInv, TypeOK, Readable, Loaded, EntryUnwitnessed
<1>2. i \in Entries
  BY <1>1, DocumentFacts DEF Entries, TypeInv
<1> QED BY <1>1, <1>2 DEF EntryUnwitnessed, NextEntry, Pairs, Entries, Events

(* A pair is a pair of indices.                                            *)
LEMMA PairFacts ==
    ASSUME TypeOK, NEW p \in Pairs
    PROVE  p = <<p[1], p[2]>> /\ p[1] \in Entries /\ p[2] \in Events
BY DEF TypeOK, Pairs

(* The other steps leave the books alone.                                  *)
LEMMA QuietSteps ==
    ASSUME TypeInv, LoadTrajectory \/ LoadGroundTruth \/ ScanEvent \/ Report \/ UNCHANGED vars
    PROVE  /\ tr' = tr /\ gt' = gt /\ i' = i /\ matched' = matched
           /\ corroborated' = corroborated /\ mismatched' = mismatched
           /\ unwitnessed' = unwitnessed
           /\ Pairs' = Pairs /\ Entries' = Entries /\ Events' = Events
BY DEF LoadTrajectory, LoadGroundTruth, ScanEvent, Report, vars, scanVars, lists,
       Pairs, Entries, Events

(* The pairs and the unwitnessed entries keep covering exactly the entries *)
(* before i, one-to-one, and matched keeps listing the paired events.      *)
LEMMA BooksStep == ASSUME TypeInv, Scan, Books, [Next]_vars PROVE Books'
<1>0. TypeOK
  BY DEF TypeInv
<1>1. CASE EntryPaired
  <2>1. \A p \in Pairs : p = <<p[1], p[2]>> /\ p[1] \in Nat /\ p[1] < i /\ p[2] \in Events
    BY <1>0, PairFacts, DocumentFacts DEF Books, Entries
  <2>2. bestIdx \notin matched /\ isTopLevel(gt[bestIdx]) /\ Match(tr[i], gt[bestIdx])
    BY <1>1, PairedFacts DEF Eligible
  <2>3. \A k : k \in matched' <=> \E p \in Pairs' : p[2] = k
    <3> DEFINE new == <<i, bestIdx>>
    <3>1. new[2] = bestIdx /\ Pairs' = Pairs \cup {new} /\ matched' = matched \cup {bestIdx}
      BY <1>1, PairedFacts
    <3> HIDE DEF new
    <3> QED BY <3>1 DEF Books
  <2>4. \A p \in Pairs' : p[1] < i' /\ isTopLevel(gt'[p[2]]) /\ Match(tr'[p[1]], gt'[p[2]])
    BY <1>1, PairedFacts, <2>1, <2>2 DEF Books
  <2>5. /\ \A n \in unwitnessed' : n < i'
        /\ \A p \in Pairs' : p[1] \notin unwitnessed'
    BY <1>0, <1>1, PairedFacts, <2>1, DocumentFacts DEF Books, TypeOK, Entries
  <2>6. \A n \in Entries' : n < i' => n \in unwitnessed' \/ \E p \in Pairs' : p[1] = n
    <3>1. \A n \in Entries : n \in Nat
      BY <1>0, DocumentFacts DEF Entries
    <3>2. <<i, bestIdx>> \in Pairs' /\ <<i, bestIdx>>[1] = i
      BY <1>1, PairedFacts
    <3>3. ASSUME NEW n \in Entries, n < i + 1, n # i, n \notin unwitnessed
          PROVE  \E p \in Pairs : p[1] = n
      BY <1>1, PairedFacts, <3>1, <3>3 DEF Books
    <3> QED BY <1>1, PairedFacts, <3>2, <3>3
  <2>7. \A p, q \in Pairs' : p[1] = q[1] \/ p[2] = q[2] => p = q
    <3>1. \A p \in Pairs : p[1] # i /\ p[2] # bestIdx
      BY <2>1, <2>2, <1>1, PairedFacts DEF Books
    <3> QED BY <1>1, PairedFacts, <3>1 DEF Books
  <2>8. corroborated' \cap mismatched' = {}
    <3>1. <<i, bestIdx>> \notin Pairs
      BY <1>1, <2>1, PairedFacts
    <3> QED BY <1>1, <3>1 DEF Books, EntryPaired, Pairs
  <2>9. /\ \A p \in corroborated' : Agree(tr'[p[1]], gt'[p[2]])
        /\ \A p \in mismatched' : ~Agree(tr'[p[1]], gt'[p[2]])
    BY <1>1 DEF Books, EntryPaired
  <2> QED BY <2>3, <2>4, <2>5, <2>6, <2>7, <2>8, <2>9 DEF Books
<1>2. CASE EntryUnwitnessed
  <2>1. /\ \A n \in Entries : n \in Nat
        /\ \A p \in Pairs : p[1] \in Nat
    BY <1>0, DocumentFacts, PairFacts DEF Entries
  <2>2. \A n \in unwitnessed : n \in Nat
    BY <1>0, <2>1 DEF TypeOK
  <2>3. \A k : k \in matched' <=> \E p \in Pairs' : p[2] = k
    BY <1>2, UnwitnessedFacts DEF Books
  <2>4. \A p \in Pairs' : p[1] < i' /\ isTopLevel(gt'[p[2]]) /\ p[1] \notin unwitnessed'
                         /\ Match(tr'[p[1]], gt'[p[2]])
    BY <1>2, UnwitnessedFacts, <2>1 DEF Books
  <2>5. \A n \in Entries' : n < i' => n \in unwitnessed' \/ \E p \in Pairs' : p[1] = n
    BY <1>2, UnwitnessedFacts, <2>1 DEF Books
  <2>6. \A n \in unwitnessed' : n < i'
    BY <1>2, UnwitnessedFacts, <2>2 DEF Books
  <2> QED BY <1>2, UnwitnessedFacts, <2>3, <2>4, <2>5, <2>6 DEF Books
<1>3. CASE LoadTrajectory \/ LoadGroundTruth \/ ScanEvent \/ Report \/ UNCHANGED vars
  BY <1>3, QuietSteps DEF Books
<1> QED BY <1>1, <1>2, <1>3 DEF Next, Terminated

(* The report sums up the books it finds.                                  *)
LEMMA SummedStep == ASSUME TypeInv, Scan, Books, Summed, [Next]_vars PROVE Summed'
<1>1. CASE LoadTrajectory \/ LoadGroundTruth
  BY <1>1 DEF LoadTrajectory, LoadGroundTruth, lists, Summed, TypeInv, Readable, Loaded
<1>2. CASE ScanEvent \/ EntryUnwitnessed \/ EntryPaired
  BY <1>2 DEF ScanEvent, EntryUnwitnessed, EntryPaired, lists, Summed
<1>3. CASE Report
  BY <1>3 DEF Report, Summed, Leftover
<1>4. CASE UNCHANGED vars
  BY <1>4 DEF vars, Summed, Leftover
<1> QED BY <1>1, <1>2, <1>3, <1>4 DEF Next, Terminated

-----------------------------------------------------------------------------
(* More pairs leave fewer events free.                                     *)
LEMMA FreeShrinks ==
    ASSUME gt' = gt, Pairs \subseteq Pairs', NEW n
    PROVE  FreeFor(n)' \subseteq FreeFor(n)
BY DEF FreeFor, Events

(* The events free for the entry being judged are the unmatched ones.      *)
LEMMA FreeNow ==
    ASSUME TypeOK, Books, NEW k \in FreeFor(i)
    PROVE  k \in Events /\ isTopLevel(gt[k]) /\ k \notin matched
<1>1. \A p \in Pairs : p[1] \in Nat /\ p[1] < i
  BY PairFacts, DocumentFacts DEF Books, Entries
<1>2. i \in Nat
  BY DEF TypeOK
<1> QED BY <1>1, <1>2 DEF FreeFor, Books

(* A new pair is closest among the events free at its time, and later      *)
(* pairs only take events away from earlier entries' alternatives.         *)
LEMMA ClosestStep ==
    ASSUME TypeInv, Scan, Books, PairedWithClosest, [Next]_vars PROVE PairedWithClosest'
<1>0. TypeOK
  BY DEF TypeInv
<1>1. CASE EntryPaired
  <2>1. SUFFICES ASSUME NEW p \in Pairs', NEW k \in FreeFor(p[1])', k # p[2],
                        Match(tr[p[1]], gt[k])
                 PROVE  \/ D(p[1], p[2]) < D(p[1], k)
                        \/ D(p[1], p[2]) = D(p[1], k) /\ p[2] < k
    BY <1>1, PairedFacts DEF PairedWithClosest, D
  <2>2. k \in FreeFor(p[1])
    BY <1>1, PairedFacts, FreeShrinks
  <2>3. CASE p \in Pairs
    BY <2>1, <2>2, <2>3 DEF PairedWithClosest, D
  <2>4. CASE p = <<i, bestIdx>>
    <3>1. p[1] = i /\ p[2] = bestIdx
      BY <2>4
    <3>2. k \in Events /\ Eligible(k)
      BY <1>0, <2>1, <2>2, <3>1, FreeNow DEF Eligible
    <3>3. k < j
      BY <1>0, <1>1, <3>2, DocumentFacts DEF EntryPaired, Events, TypeOK
    <3> QED BY <1>1, <2>1, <3>1, <3>2, <3>3, PairedFacts DEF Scan, EntryPaired
  <2> QED BY <1>1, <2>3, <2>4, PairedFacts
<1>2. CASE EntryUnwitnessed
  BY <1>2, UnwitnessedFacts DEF PairedWithClosest, FreeFor
<1>3. CASE LoadTrajectory \/ LoadGroundTruth \/ ScanEvent \/ Report \/ UNCHANGED vars
  BY <1>3, QuietSteps DEF PairedWithClosest, FreeFor
<1> QED BY <1>1, <1>2, <1>3 DEF Next, Terminated

(* An entry that finds nothing had no eligible event free, and later pairs *)
(* free none.                                                              *)
LEMMA UnwitnessedStep ==
    ASSUME TypeInv, Scan, Books, UnwitnessedJustified, [Next]_vars PROVE UnwitnessedJustified'
<1>0. TypeOK
  BY DEF TypeInv
<1>1. CASE EntryPaired
  BY <1>1, PairedFacts, FreeShrinks DEF UnwitnessedJustified
<1>2. CASE EntryUnwitnessed
  <2>1. SUFFICES ASSUME NEW n \in unwitnessed', NEW k \in FreeFor(n)', Match(tr[n], gt[k])
                 PROVE  D(n, k) = MaxDuration
    BY <1>2, UnwitnessedFacts DEF UnwitnessedJustified, D
  <2>2. k \in FreeFor(n)
    BY <1>2, UnwitnessedFacts, FreeShrinks
  <2>3. CASE n \in unwitnessed
    BY <2>1, <2>2, <2>3 DEF UnwitnessedJustified, D
  <2>4. CASE n = i
    <3>1. k \in Events /\ Eligible(k)
      BY <1>0, <2>1, <2>2, <2>4, FreeNow DEF Eligible
    <3>2. k < j /\ k # 0
      BY <1>0, <1>2, <3>1, DocumentFacts DEF EntryUnwitnessed, Events, TypeOK
    <3>3. i \in Entries /\ pc = "verify" /\ bestIdx = 0 /\ bestDiff = MaxDuration
      BY <1>2, UnwitnessedFacts DEF Scan
    <3>4. bestDiff <= D(i, k) /\ D(i, k) <= MaxDuration /\ D(i, k) \in Int /\ MaxDuration \in Int
      BY <1>0, <3>1, <3>2, <3>3, IndexFacts, DurationAssumption DEF Scan
    <3> QED BY <2>4, <3>3, <3>4
  <2> QED BY <1>2, <2>3, <2>4, UnwitnessedFacts
<1>3. CASE LoadTrajectory \/ LoadGroundTruth \/ ScanEvent \/ Report \/ UNCHANGED vars
  BY <1>3, QuietSteps DEF UnwitnessedJustified, FreeFor
<1> QED BY <1>1, <1>2, <1>3 DEF Next, Terminated

-----------------------------------------------------------------------------
(* The inductive invariant.                                                *)
Inv == /\ TypeInv /\ Scan /\ Books /\ Summed
       /\ PairedWithClosest /\ UnwitnessedJustified

(* Every reachable state satisfies the inductive invariant.                *)
THEOREM Invariance == Spec => []Inv
<1>1. Init => Inv
  <2> SUFFICES ASSUME Init PROVE Inv
    OBVIOUS
  <2>1. TypeInv
    BY DurationAssumption
    DEF Init, TypeInv, TypeOK, Readable, Loaded, Pairs, Entries, Events, MinDuration
  <2>2. Pairs = {} /\ unwitnessed = {} /\ matched = {} /\ pc = "loadTrajectory"
    BY DEF Init, Pairs
  <2>3. Books
    <3>1. i = 1 /\ \A n \in Entries : n \in Nat \ {0}
      BY <2>1, DocumentFacts DEF Init, TypeInv, Entries
    <3> QED BY <2>2, <3>1 DEF Books, Pairs
  <2> QED BY <2>1, <2>2, <2>3
          DEF Inv, Init, Scan, Summed, PairedWithClosest, UnwitnessedJustified
<1>2. Inv /\ [Next]_vars => Inv'
  BY TypeStep, ScanStep, BooksStep, SummedStep, ClosestStep, UnwitnessedStep DEF Inv
<1> QED BY <1>1, <1>2, PTL DEF Spec

(* The matching Verify builds is one-to-one, for all documents.            *)
THEOREM OneToOneHolds == Spec => []OneToOne
<1>1. Inv => OneToOne
  BY DEF Inv, Books, OneToOne
<1> QED BY <1>1, Invariance, PTL

(* Every claim is paired with the closest event that was free for it.      *)
THEOREM ClosestHolds == Spec => []PairedWithClosest
<1>1. Inv => PairedWithClosest
  BY DEF Inv
<1> QED BY <1>1, Invariance, PTL

(* No claim is called unwitnessed while a free event matches it.           *)
THEOREM UnwitnessedHolds == Spec => []UnwitnessedJustified
<1>1. Inv => UnwitnessedJustified
  BY DEF Inv
<1> QED BY <1>1, Invariance, PTL

(* The report classifies every claim and every top-level event once.       *)
THEOREM ClassifiedHolds == Spec => []EveryoneClassified
<1>1. Inv => EveryoneClassified
  <2> SUFFICES ASSUME Inv, pc \in {"faithful", "notFaithful"}
               PROVE  /\ {p[1] : p \in Pairs} \cup unwitnessed = Entries
                      /\ {p[1] : p \in Pairs} \cap unwitnessed = {}
                      /\ {p[2] : p \in Pairs} \cup unrecorded = {k \in Events : isTopLevel(gt[k])}
                      /\ {p[2] : p \in Pairs} \cap unrecorded = {}
    BY DEF EveryoneClassified
  <2>1. TypeOK /\ Books /\ gt # Unreadable /\ tr # Unreadable
    BY DEF Inv, TypeInv, Readable, Loaded
  <2>2. \A n \in Entries : n < i
    BY <2>1, DocumentFacts DEF Inv, Summed, TypeOK, Entries
  <2>3. \A p \in Pairs : p[1] \in Entries /\ p[2] \in Events
    BY <2>1, PairFacts
  <2>4. {p[1] : p \in Pairs} \cup unwitnessed = Entries
    <3>1. \A n \in Entries : n \in unwitnessed \/ \E p \in Pairs : p[1] = n
      BY <2>1, <2>2 DEF Books
    <3> QED BY <2>1, <2>3, <3>1 DEF TypeOK
  <2>5. {p[1] : p \in Pairs} \cap unwitnessed = {}
    BY <2>1 DEF Books
  <2>6. \A k : k \in unrecorded <=> k \in Events /\ k \notin matched /\ isTopLevel(gt[k])
    BY <2>1 DEF Inv, Summed, Leftover, Events
  <2>7. \A k : k \in matched <=> \E p \in Pairs : p[2] = k
    BY <2>1 DEF Books
  <2>8. \A p \in Pairs : isTopLevel(gt[p[2]])
    BY <2>1 DEF Books
  <2> QED BY <2>3, <2>4, <2>5, <2>6, <2>7, <2>8
<1> QED BY <1>1, Invariance, PTL

(* Exit status 0 means a bijection of claims and top-level events, with no *)
(* contradiction and no opt-out.                                           *)
THEOREM FaithfulHolds == Spec => []FaithfulSound
<1>1. Inv => FaithfulSound
  <2> SUFFICES ASSUME Inv, pc = "faithful"
               PROVE  FaithfulSound
    BY DEF FaithfulSound
  <2>1. TypeOK /\ Books /\ gt # Unreadable /\ tr # Unreadable
    BY DEF Inv, TypeInv, Readable, Loaded
  <2>2. unwitnessed = {} /\ unrecorded = {} /\ mismatched = {} /\ unrecorded = Leftover
    BY DEF Inv, Summed
  <2>3. \A n \in Entries : n < i
    BY <2>1, DocumentFacts DEF Inv, Summed, TypeOK, Entries
  <2>4. \A p \in Pairs : p = <<p[1], p[2]>> /\ p[1] \in Entries /\ p[2] \in Events
    BY <2>1, PairFacts
  <2>5. \A n \in Entries : \E k \in Events : <<n, k>> \in Pairs
    BY <2>1, <2>2, <2>3, <2>4 DEF Books
  <2>6. \A k \in Events : isTopLevel(gt[k]) => \E n \in Entries : <<n, k>> \in Pairs
    <3>1. \A k \in Events : isTopLevel(gt[k]) => k \in matched
      BY <2>1, <2>2 DEF Leftover, Events
    <3> QED BY <2>1, <2>4, <3>1 DEF Books
  <2>7. \A p \in Pairs : Agree(tr[p[1]], gt[p[2]])
    BY <2>1, <2>2 DEF Books, Pairs
  <2> QED BY <2>5, <2>6, <2>7 DEF FaithfulSound, Honest, Agree, OptOut, hashesAgree
<1> QED BY <1>1, Invariance, PTL

(* When the report is out, the books are closed on all entries and events. *)
LEMMA Closed ==
    ASSUME Inv, pc \in {"faithful", "notFaithful"}
    PROVE  /\ \A n \in Entries : n \in Nat /\ (n \in unwitnessed \/ \E p \in Pairs : p[1] = n)
           /\ \A p \in Pairs : p = <<p[1], p[2]>> /\ p[1] \in Entries /\ p[2] \in Events
           /\ \A n \in Entries, k \in Events : D(n, k) \in Int /\ k \in Nat
<1>1. TypeOK /\ Books
  BY DEF Inv, TypeInv
<1>2. \A n \in Entries : n \in Nat /\ n < i
  BY <1>1, DocumentFacts DEF Inv, Summed, TypeOK, Entries, TypeInv, Readable, Loaded
<1> QED BY <1>1, <1>2, PairFacts, IndexFacts DEF Books

(* A claim that its event accounts for, with the claims before it all      *)
(* paired with theirs, is paired with its event.                           *)
LEMMA OwnEvent ==
    ASSUME Inv, pc = "notFaithful", NEW f \in [Entries -> Events], Accounts(f),
           NEW n \in Entries, \A m \in Entries : m < n => <<m, f[m]>> \in Pairs
    PROVE  <<n, f[n]>> \in Pairs
<1>1. /\ Books /\ PairedWithClosest /\ UnwitnessedJustified
      /\ \A p, q \in Pairs : p[1] = q[1] \/ p[2] = q[2] => p = q
  BY DEF Inv, Books
<1>2. /\ \A m \in Entries : m \in Nat /\ f[m] \in Events /\ isTopLevel(gt[f[m]])
      /\ \A m \in Entries : Match(tr[m], gt[f[m]]) /\ D(m, f[m]) < MaxDuration
      /\ \A l, m \in Entries : l < m =>
            f[l] # f[m] /\ (Match(tr[l], gt[f[m]]) => ClosestTo(l, f[l], f[m]))
  BY Closed DEF Accounts, D
<1>3. \A p \in Pairs : p = <<p[1], p[2]>> /\ p[1] \in Entries /\ p[2] \in Events
  BY Closed
<1>4. \A m \in Entries : m < n => \A p \in Pairs : p[1] = m \/ p[2] = f[m] => p = <<m, f[m]>>
  <2> SUFFICES ASSUME NEW m \in Entries, m < n, NEW p \in Pairs, p[1] = m \/ p[2] = f[m]
               PROVE  p = <<m, f[m]>>
    OBVIOUS
  <2> DEFINE q == <<m, f[m]>>
  <2>1. q \in Pairs /\ q[1] = m /\ q[2] = f[m]
    OBVIOUS
  <2> HIDE DEF q
  <2> QED BY <1>1, <2>1 DEF q
<1>5. f[n] \in FreeFor(n)
  <2>1. ASSUME NEW p \in Pairs, p[2] = f[n], ~(p[1] >= n) PROVE FALSE
    <3>1. p[1] \in Entries /\ p[1] < n
      BY <1>2, <1>3, <2>1
    <3>2. p = <<p[1], f[p[1]]>>
      BY <1>4, <3>1
    <3>3. p[2] = f[p[1]]
      BY <3>2
    <3> QED BY <1>2, <2>1, <3>1, <3>3
  <2> QED BY <1>2, <2>1 DEF FreeFor
<1>6. n \notin unwitnessed
  <2>1. D(n, f[n]) \in Int /\ MaxDuration \in Int
    BY <1>2, Closed, DurationAssumption
  <2> QED BY <1>1, <1>2, <1>5, <2>1 DEF UnwitnessedJustified, D
<1>7. PICK p \in Pairs : p[1] = n
  BY <1>6, Closed
<1>8. ASSUME p[2] # f[n] PROVE FALSE
  <2>1. ClosestTo(n, p[2], f[n])
    BY <1>1, <1>2, <1>5, <1>7, <1>8 DEF PairedWithClosest, ClosestTo
  <2>2. Match(tr[n], gt[p[2]]) /\ isTopLevel(gt[p[2]]) /\ p[2] \in Events
    BY <1>1, <1>3, <1>7 DEF Books
  <2>3. PICK m \in Entries : f[m] = p[2]
    BY <2>2 DEF Accounts
  <2>4. ~(m < n)
    <3>1. ASSUME m < n PROVE FALSE
      <4>1. p = <<m, f[m]>>
        BY <1>4, <2>3, <3>1
      <4>2. p[1] = m
        BY <4>1
      <4> QED BY <1>2, <1>7, <3>1, <4>2
    <3> QED BY <3>1
  <2>5. n < m
    BY <1>2, <1>8, <2>3, <2>4
  <2>6. ClosestTo(n, f[n], p[2])
    BY <1>2, <2>2, <2>3, <2>5
  <2>7. D(n, f[n]) \in Int /\ D(n, p[2]) \in Int /\ f[n] \in Nat /\ p[2] \in Nat
    BY <1>2, <2>2, Closed
  <2> QED BY <2>1, <2>6, <2>7 DEF ClosestTo, D
<1> QED BY <1>3, <1>7, <1>8

(* An agent that accounts for every top-level event, honestly and with no  *)
(* claim closer to a later claim's event than to its own, gets FAITHFUL:   *)
(* no earlier choice of the greedy matching costs a later claim its event. *)
THEOREM HonestNotAccusedHolds == Spec => []HonestNotAccused
<1>1. Inv => HonestNotAccused
  <2> SUFFICES ASSUME Inv, pc = "notFaithful", NEW f \in [Entries -> Events], Accounts(f)
               PROVE  FALSE
    BY DEF HonestNotAccused
  <2>1. \A n \in Entries : <<n, f[n]>> \in Pairs
    <3> DEFINE Missed == {n \in Entries : <<n, f[n]>> \notin Pairs}
    <3>1. SUFFICES ASSUME Missed # {} PROVE FALSE
      OBVIOUS
    <3>2. \A n \in Entries : n \in Nat
      BY Closed
    <3>3. PICK n \in Missed : \A m \in Missed : n <= m
      BY <3>1, <3>2, LeastNat
    <3>4. \A m \in Entries : m < n => <<m, f[m]>> \in Pairs
      BY <3>2, <3>3
    <3>5. <<n, f[n]>> \in Pairs
      BY <3>4, OwnEvent
    <3> QED BY <3>5
  <2>2. /\ \A p, q \in Pairs : p[1] = q[1] \/ p[2] = q[2] => p = q
        /\ \A p \in Pairs : p[1] \notin unwitnessed
        /\ \A p \in mismatched : ~Agree(tr[p[1]], gt[p[2]])
        /\ \A k : k \in matched <=> \E p \in Pairs : p[2] = k
        /\ unwitnessed \subseteq Entries
    BY DEF Inv, Books, TypeInv, TypeOK
  <2>3. unwitnessed = {}
    <3>1. ASSUME NEW n \in unwitnessed PROVE FALSE
      <4>1. <<n, f[n]>> \in Pairs /\ <<n, f[n]>>[1] = n
        BY <2>1, <2>2
      <4> QED BY <2>2, <4>1
    <3> QED BY <3>1
  <2>4. mismatched = {}
    <3>1. ASSUME NEW p \in mismatched PROVE FALSE
      <4> DEFINE q == <<p[1], f[p[1]]>>
      <4>1. p \in Pairs /\ p[1] \in Entries
        BY Closed DEF Pairs
      <4>2. q \in Pairs /\ q[1] = p[1] /\ q[2] = f[p[1]]
        BY <2>1, <4>1
      <4> HIDE DEF q
      <4>3. p[2] = f[p[1]]
        BY <2>2, <4>1, <4>2
      <4>4. Honest(tr[p[1]], gt[p[2]])
        BY <4>1, <4>3 DEF Accounts
      <4>5. Agree(tr[p[1]], gt[p[2]])
        BY <4>4 DEF Honest, Agree, OptOut, hashesAgree
      <4> QED BY <2>2, <4>5
    <3> QED BY <3>1
  <2>5. Leftover = {}
    <3>1. ASSUME NEW k \in Leftover PROVE FALSE
      <4>1. k \in Events /\ isTopLevel(gt[k]) /\ k \notin matched
        BY DEF Leftover, Events, Inv, TypeInv, Readable, Loaded
      <4>2. PICK n \in Entries : f[n] = k
        BY <4>1 DEF Accounts
      <4>3. <<n, k>> \in Pairs /\ <<n, k>>[2] = k
        BY <2>1, <4>2
      <4> QED BY <2>2, <4>1, <4>3
    <3> QED BY <3>1
  <2> QED BY <2>3, <2>4, <2>5 DEF Inv, Summed
<1> QED BY <1>1, Invariance, PTL

-----------------------------------------------------------------------------
(* The documents whose timestamps are less than a Duration apart.          *)
Representable ==
    \A t \in Trajectories, g \in GroundTruths :
        \A m \in DOMAIN t, n \in DOMAIN g :
            -MaxDuration <= t[m].timestamp - g[n].timestamp
                /\ t[m].timestamp - g[n].timestamp <= MaxDuration

(* On such documents paired timestamps really are within Delta, which is   *)
(* what the comment of Match says and what fails without the hypothesis.   *)
THEOREM WithinDeltaHolds == ASSUME Representable PROVE Spec => []WithinDelta
<1>1. Inv => WithinDelta
  <2> SUFFICES ASSUME Inv, NEW p \in Pairs
               PROVE  LET gap == tr[p[1]].timestamp - gt[p[2]].timestamp
                      IN -Delta <= gap /\ gap <= Delta
    BY DEF WithinDelta
  <2>1. TypeOK /\ p[1] \in Entries /\ p[2] \in Events /\ Match(tr[p[1]], gt[p[2]])
    BY PairFacts DEF Inv, TypeInv, Books
  <2>2. tr \in Trajectories /\ gt \in GroundTruths /\ p[1] \in DOMAIN tr /\ p[2] \in DOMAIN gt
    BY <2>1 DEF TypeOK, Entries, Events
  <2>3. tr[p[1]].timestamp \in Int /\ gt[p[2]].timestamp \in Int
    BY <2>1, <2>2, DocumentFacts DEF Entries, Events
  <2> DEFINE t == tr[p[1]].timestamp  u == gt[p[2]].timestamp
  <2>4. -MaxDuration <= t - u /\ t - u <= MaxDuration
    BY <2>2 DEF Representable
  <2>5. Diff(t, u) <= Delta
    BY <2>1 DEF Match
  <2> HIDE DEF t, u
  <2>6. -Delta <= t - u /\ t - u <= Delta
    BY <2>3, <2>4, <2>5, DurationAssumption DEF t, u, Diff, Sub, Negate, MinDuration
  <2> QED BY <2>6 DEF t, u
<1> QED BY <1>1, Invariance, PTL

-----------------------------------------------------------------------------
(* Verify implements the one-decision-per-entry matching of Assignment.    *)
THEOREM Implements == Spec => ImplementsAssignment
<1>1. Init => Abstract!AInit
  BY DEF Init, Abstract!AInit, Pairs
<1>2. Inv /\ [Next]_vars => [Abstract!ANext]_(Abstract!avars)
  <2> SUFFICES ASSUME Inv, [Next]_vars
               PROVE  Abstract!ANext \/ UNCHANGED Abstract!avars
    OBVIOUS
  <2>0. TypeOK /\ TypeInv /\ Scan /\ Books
    BY DEF Inv, TypeInv
  <2>1. CASE LoadTrajectory \/ LoadGroundTruth
    <3>1. Pairs = {} /\ unwitnessed = {} /\ Pairs' = Pairs /\ UNCHANGED <<tr, gt, unwitnessed>>
      BY <2>0, <2>1, QuietSteps
      DEF LoadTrajectory, LoadGroundTruth, TypeInv, Readable, Loaded
    <3>2. CASE pc' = "fatal"
      <4>1. ~(Accepted(tr) /\ Accepted(gt)) /\ pc \in {"loadTrajectory", "loadGroundTruth"}
        BY <2>1, <3>2 DEF LoadTrajectory, LoadGroundTruth
      <4>2. Abstract!Judged = {}
        BY <3>1 DEF Abstract!Judged
      <4> QED BY <3>1, <3>2, <4>1, <4>2 DEF Abstract!ANext, Abstract!Reject
    <3>3. CASE pc' # "fatal"
      BY <2>1, <3>1, <3>3 DEF LoadTrajectory, LoadGroundTruth, Abstract!avars
    <3> QED BY <3>2, <3>3
  <2>3. CASE ScanEvent
    BY <2>3 DEF ScanEvent, lists, Abstract!avars, Pairs
  <2> DEFINE used == Abstract!Used(Pairs)
  <2>a. \A k : k \in used <=> k \in matched
    BY <2>0 DEF Books, Abstract!Used
  <2>b. ASSUME NEW n \in Entries
        PROVE  n \in Abstract!Judged <=> n < i
    <3>1. \A m : m \in Abstract!Judged <=> m \in unwitnessed \/ \E p \in Pairs : p[1] = m
      BY DEF Abstract!Judged
    <3> QED BY <2>0, <3>1 DEF Books
  <2>c. ASSUME pc = "verify", i \in Entries, EntryPaired \/ EntryUnwitnessed
        PROVE  /\ i \in DOMAIN tr \ Abstract!Judged
               /\ \A m \in 1..(i - 1) : m \in Abstract!Judged
               /\ Accepted(tr) /\ Accepted(gt)
               /\ DOMAIN gt = Events
    <3>1. /\ tr # Unreadable /\ Accepted(tr) /\ Accepted(gt)
          /\ Entries = DOMAIN tr /\ Events = DOMAIN gt
      BY <2>0, <2>c DEF TypeInv, Readable, Loaded, Entries, Events
    <3>2. Entries = 1..Len(tr) /\ Len(tr) \in Nat
      BY <2>0, <3>1, DocumentFacts
    <3> QED BY <2>b, <2>c, <3>1, <3>2
  <2>d. ASSUME NEW k \in Events, pc = "verify", i \in Entries, j > Len(gt)
        PROVE  /\ k \in Nat \ {0} /\ k < j
               /\ D(i, k) = Abstract!Gap(i, k)
               /\ D(i, k) \in Int /\ D(i, k) <= MaxDuration
    BY <2>0, <2>d, IndexFacts, DocumentFacts DEF Events, TypeOK, D, Abstract!Gap
  <2>e. ASSUME NEW k, pc = "verify", i \in Entries, EntryPaired \/ EntryUnwitnessed
        PROVE  k \in Abstract!Candidates(i, used) <=>
                   k \in Events /\ Eligible(k) /\ D(i, k) < MaxDuration
    BY <2>a, <2>c, <2>e DEF Abstract!Candidates, Eligible, D, Abstract!Gap
  <2>4. CASE EntryUnwitnessed
    <3>1. /\ i \in Entries /\ pc = "verify" /\ bestIdx = 0 /\ j > Len(gt)
          /\ unwitnessed' = unwitnessed \cup {i} /\ Pairs' = Pairs
          /\ tr' = tr /\ gt' = gt /\ pc' = pc
      BY <2>0, <2>4, UnwitnessedFacts DEF EntryUnwitnessed
    <3>2. Abstract!Candidates(i, used) = {}
      <4> SUFFICES ASSUME NEW k \in Abstract!Candidates(i, used)
                   PROVE  FALSE
        OBVIOUS
      <4>1. k \in Events /\ Eligible(k) /\ D(i, k) < MaxDuration
        BY <2>4, <2>e, <3>1
      <4>2. k \in Nat \ {0} /\ k < j /\ D(i, k) \in Int /\ MaxDuration \in Int
        BY <2>d, <3>1, <4>1, DurationAssumption
      <4> QED BY <2>0, <3>1, <4>1, <4>2 DEF Scan
    <3>3. Abstract!Judge(i)
      BY <2>4, <2>c, <3>1, <3>2 DEF Abstract!Judge
    <3> QED BY <2>4, <2>c, <3>1, <3>3 DEF Abstract!ANext
  <2>5. CASE EntryPaired
    <3>1. /\ i \in Entries /\ pc = "verify" /\ bestIdx # 0 /\ j > Len(gt)
          /\ bestIdx \in Events /\ Eligible(bestIdx)
          /\ bestDiff = D(i, bestIdx) /\ bestDiff < MaxDuration
          /\ unwitnessed' = unwitnessed /\ Pairs' = Pairs \cup {<<i, bestIdx>>}
          /\ tr' = tr /\ gt' = gt /\ pc' = pc
      BY <2>0, <2>5, PairedFacts DEF EntryPaired, Scan
    <3>2. bestIdx \in Abstract!Nearest(i, used)
      <4>1. bestIdx \in Abstract!Candidates(i, used)
        BY <2>5, <2>e, <3>1
      <4>2. ASSUME NEW l \in Abstract!Candidates(i, used) \ {bestIdx}
            PROVE  Abstract!Nearer(i, bestIdx, l)
        <5>1. l \in Events /\ Eligible(l)
          BY <2>5, <2>e, <3>1
        <5>2. l < j /\ D(i, l) = Abstract!Gap(i, l) /\ D(i, bestIdx) = Abstract!Gap(i, bestIdx)
          BY <2>d, <3>1, <5>1
        <5> QED BY <2>0, <3>1, <4>2, <5>1, <5>2 DEF Scan, Abstract!Nearer
      <4> QED BY <4>1, <4>2 DEF Abstract!Nearest
    <3>3. Abstract!Judge(i)
      BY <2>5, <2>c, <3>1, <3>2 DEF Abstract!Judge
    <3> QED BY <2>5, <2>c, <3>1, <3>3 DEF Abstract!ANext
  <2>6. CASE Report
    <3>1. /\ Accepted(tr) /\ Accepted(gt) /\ Entries = DOMAIN tr /\ Events = DOMAIN gt
          /\ pc = "verify" /\ Entries = 1..Len(tr) /\ Len(tr) \in Nat /\ i \in Nat
      BY <2>0, <2>6, DocumentFacts DEF Report, TypeInv, TypeOK, Readable, Loaded, Entries, Events
    <3>2. Abstract!Judged = DOMAIN tr
      <4>1. \A n \in Entries : n \in Abstract!Judged
        BY <2>6, <2>b, <3>1 DEF Report
      <4>2. \A p \in Pairs : p[1] \in Entries
        BY <2>0, PairFacts
      <4>3. Abstract!Judged \subseteq Entries
        BY <2>0, <4>2 DEF Abstract!Judged, TypeOK
      <4> QED BY <3>1, <4>1, <4>3
    <3>3. Abstract!Leftover = Leftover
      BY <2>a DEF Abstract!Leftover, Leftover
    <3>4. mismatched = {} <=> \A p \in Pairs : Agree(tr[p[1]], gt[p[2]])
      BY <2>0 DEF Books, Pairs
    <3>5. Pairs' = Pairs /\ tr' = tr /\ gt' = gt /\ unwitnessed' = unwitnessed
      BY <2>0, <2>6, QuietSteps
    <3>6. pc' = IF unwitnessed = {} /\ Leftover = {} /\ mismatched = {}
                THEN "faithful" ELSE "notFaithful"
      BY <2>6 DEF Report
    <3>7. Abstract!Report
      BY <3>1, <3>2, <3>3, <3>4, <3>5, <3>6 DEF Abstract!Report
    <3> QED BY <3>7 DEF Abstract!ANext
  <2>7. CASE UNCHANGED vars
    BY <2>7 DEF vars, Abstract!avars, Pairs
  <2> QED BY <2>1, <2>3, <2>4, <2>5, <2>6, <2>7 DEF Next, Terminated
<1> QED BY <1>1, <1>2, Invariance, PTL DEF Spec, ImplementsAssignment, Abstract!ASpec
=============================================================================
