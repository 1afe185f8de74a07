----------------------------- MODULE Documents ------------------------------
(***************************************************************************)
(* The two documents cmd/verify is given, and the tests pkg/verification   *)
(* makes on one event and on one pair.                                     *)
(***************************************************************************)
EXTENDS Matching, FiniteSets

CONSTANTS
    Trajectories,  \* the trajectory documents a run may be given
    GroundTruths,  \* the ground-truth documents a run may be given
    Unreadable     \* a file that is missing or is not the expected JSON

Opt(S) == S \cup {Nil}

(* The fields that the entries and the events of a document share.         *)
Target == [abs : BOOLEAN, comps : Seq(STRING)]

IsEntry(e) ==
    /\ e.timestamp \in Int
    /\ e.action_type \in STRING
    /\ e.target \in Target

ASSUME DocumentAssumption ==
    /\ \A t \in Trajectories : t \in Seq(Range(t)) /\ \A n \in DOMAIN t : IsEntry(t[n])
    /\ \A g \in GroundTruths :
          /\ g \in Seq(Range(g))
          /\ \A n \in DOMAIN g : /\ IsEntry(g[n])
                                 /\ g[n].is_top_level \in Opt(BOOLEAN)
                                 /\ g[n].path_is_ambiguous \in BOOLEAN
    /\ Unreadable \notin Trajectories \cup GroundTruths

(* isTopLevel: nil is legacy data, and counts as top-level.                *)
isTopLevel(g) == g.is_top_level = Nil \/ g.is_top_level = TRUE

(* json.Unmarshal succeeds and every element passes Validate.              *)
Accepted(doc) == doc # Unreadable /\ \A n \in DOMAIN doc : Validate(doc[n])

-----------------------------------------------------------------------------
(* Agreement of a pair, field by field.                                    *)

hashesAgree(a, b) == a = Nil \/ b = Nil \/ a = b

(* Fields that the agent may not leave out when the probe has them.        *)
OptOut(t, g, actionType, field) ==
    t.action_type = actionType /\ t[field] = Nil /\ g[field] # Nil

(* A bug: leaving an exit code out of the trajectory is always agreement.  *)
AgreeLenient(t, g) ==
    /\ hashesAgree(t.input_hash, g.input_hash)
    /\ hashesAgree(t.output_hash, g.output_hash)
    /\ hashesAgree(t.exit_code, g.exit_code)
    /\ hashesAgree(t.request_hash, g.request_hash)
    /\ ~OptOut(t, g, "file_close", "output_hash")
    /\ ~OptOut(t, g, "net_request", "request_hash")

Agree(t, g) ==
    /\ hashesAgree(t.input_hash, g.input_hash)
    /\ hashesAgree(t.output_hash, g.output_hash)
    /\ hashesAgree(t.exit_code, g.exit_code)
    /\ hashesAgree(t.request_hash, g.request_hash)
    /\ ~OptOut(t, g, "file_close", "output_hash")
    /\ ~OptOut(t, g, "process_exit", "exit_code")
    /\ ~OptOut(t, g, "net_request", "request_hash")
=============================================================================
