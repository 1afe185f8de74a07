------------------------------ MODULE Matching ------------------------------
(***************************************************************************)
(* pkg/models and pkg/matching: what a trajectory entry and a ground-truth *)
(* event are, when a document is accepted, and when one entry and one      *)
(* event refer to the same action.                                         *)
(*                                                                         *)
(* A target is the string of the source, cut at its slashes: "/a/./b" is   *)
(* [abs |-> TRUE, comps |-> <<"a", ".", "b">>].  Two strings are equal iff *)
(* their records are.                                                      *)
(***************************************************************************)
EXTENDS Integers, Sequences, SequencesExt

CONSTANTS
    Delta,        \* matching.Config.Delta
    MaxDuration,  \* the largest time.Duration (2^63 - 1 in the build)
    Nil           \* the nil pointer of an optional field

(* time.Duration is a two's complement integer; the --delta flag is one.   *)
MinDuration == -MaxDuration - 1

ASSUME DurationAssumption ==
    /\ MaxDuration \in Nat \ {0}
    /\ Delta \in MinDuration..MaxDuration

-----------------------------------------------------------------------------
(* models: action types and validation.                                    *)

FileActions == {"file_open", "file_read", "file_write", "file_close",
                "file_rename", "file_delete"}

ValidActionTypes ==
    FileActions \cup {"net_request", "net_dns", "net_connect",
                      "process_exec", "process_exit", "git_commit"}

(* time.Time's zero value, the instant that Validate rejects.              *)
ZeroTime == 0

EmptyTarget == [abs |-> FALSE, comps |-> <<>>]

(* Both Validate methods make the same three tests.                        *)
Validate(e) ==
    /\ e.timestamp # ZeroTime
    /\ e.action_type \in ValidActionTypes
    /\ e.target # EmptyTarget

-----------------------------------------------------------------------------
(* filepath.Clean and filepath.Dir of a cleaned path.                      *)

CleanStep(abs, out, c) ==
    CASE c \in {"", "."} -> out
      [] c = ".." /\ out # <<>> /\ Last(out) # ".." -> Front(out)
      [] c = ".." /\ abs -> out
      [] OTHER -> Append(out, c)

Clean(p) ==
    [p EXCEPT !.comps = FoldLeft(LAMBDA out, c : CleanStep(p.abs, out, c), <<>>, @)]

Dir(p) == [p EXCEPT !.comps = IF @ = <<>> THEN @ ELSE Front(@)]

-----------------------------------------------------------------------------
(* time.Time.Sub saturates at the ends of the Duration range, and negating *)
(* the least Duration gives it back.                                       *)

Sub(t, u) ==
    CASE t - u > MaxDuration -> MaxDuration
      [] t - u < MinDuration -> MinDuration
      [] OTHER -> t - u

Negate(d) == IF d = MinDuration THEN MinDuration ELSE -d

(* diff := t.Sub(u); if diff < 0 { diff = -diff }                          *)
Diff(t, u) == IF Sub(t, u) < 0 THEN Negate(Sub(t, u)) ELSE Sub(t, u)

-----------------------------------------------------------------------------

targetsMatch(actionType, tTarget, gTarget, gPathIsAmbiguous) ==
    IF actionType \in FileActions
    THEN \/ Clean(tTarget) = Clean(gTarget)
         \/ gPathIsAmbiguous /\ Clean(gTarget) = Dir(Clean(tTarget))
    ELSE tTarget = gTarget

(* A bug: an event after the entry is near, however late.                  *)
MatchSigned(t, g) ==
    /\ t.action_type = g.action_type
    /\ targetsMatch(t.action_type, t.target, g.target, g.path_is_ambiguous)
    /\ Sub(t.timestamp, g.timestamp) <= Delta

(* Match: same action, same target, timestamps near.                       *)
Match(t, g) ==
    /\ t.action_type = g.action_type
    /\ targetsMatch(t.action_type, t.target, g.target, g.path_is_ambiguous)
    /\ Diff(t.timestamp, g.timestamp) <= Delta
=============================================================================
