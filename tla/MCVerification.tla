--------------------------- MODULE MCVerification ---------------------------
(* Documents of at most MaxEntries claims and MaxEvents events, drawn from *)
(* a few records chosen so that the tests of Match go both ways: two       *)
(* timestamps at the same distance on either side, a file below a          *)
(* directory that an ambiguous event names, a path that needs cleaning,    *)
(* descendants and legacy events.  A claim alone, and an event alone, have *)
(* every field of Agree present, absent, equal and different in turn.      *)
EXTENDS Verification

CONSTANTS MaxEntries, MaxEvents, h1, h2

Path(cs) == [abs |-> TRUE, comps |-> cs]

T(ts, a, p, out, code, req) ==
    [timestamp |-> ts, action_type |-> a, target |-> p, input_hash |-> Nil,
     output_hash |-> out, exit_code |-> code, request_hash |-> req]

G(ts, a, p, out, code, req, top, amb) ==
    [timestamp |-> ts, action_type |-> a, target |-> p, input_hash |-> Nil,
     output_hash |-> out, exit_code |-> code, request_hash |-> req,
     is_top_level |-> top, path_is_ambiguous |-> amb]

(* All the sequences over S of length at most n.                           *)
Upto(S, n) == UNION {[1..m -> S] : m \in 0..n}

(* What one claim, and one event, may say of each field of Agree.          *)
SoloClaims ==
    {[T(2, "file_close", Path(<<"d", "f">>), out, Nil, Nil) EXCEPT !.input_hash = inp] :
        inp \in {Nil, h1}, out \in {Nil, h1}}
    \cup {T(2, "process_exit", Path(<<"f">>), Nil, code, Nil) : code \in {Nil, 0, 1}}
    \cup {T(2, "net_request", Path(<<"f">>), Nil, Nil, req) : req \in {Nil, h1}}

SoloEvents ==
    {[G(2, "file_close", Path(<<"d", "f">>), out, Nil, Nil, TRUE, FALSE)
        EXCEPT !.input_hash = inp] : inp \in {Nil, h1, h2}, out \in {Nil, h1, h2}}
    \cup {G(2, "process_exit", Path(<<"f">>), Nil, code, Nil, TRUE, FALSE) : code \in {Nil, 0, 1}}
    \cup {G(2, "net_request", Path(<<"f">>), Nil, Nil, req, TRUE, FALSE) : req \in {Nil, h1, h2}}

Alone(S) == {<<e>> : e \in S}

(* An agent that logs each of its two actions late: its first claim is     *)
(* closer to the second event than to its own.                             *)
LateClaims == [n \in 1..2 |-> T(2 * n + 1, "process_exit", Path(<<"f">>), Nil, Nil, Nil)]
LateEvents == [n \in 1..2 |-> G(3 * n - 2, "process_exit", Path(<<"f">>), Nil, Nil, Nil, TRUE, FALSE)]

NearTrajectories == {LateClaims} \cup Alone(SoloClaims) \cup Upto(
    {T(2, "file_close", Path(<<"d", ".", "f">>), h1, Nil, Nil),
     T(3, "file_close", Path(<<"d", "g">>), Nil, Nil, Nil),
     T(3, "process_exit", Path(<<"f">>), Nil, Nil, Nil),
     T(2, "net_request", Path(<<"f">>), Nil, Nil, h1)}, MaxEntries)
    \cup {<<T(0, "file_close", Path(<<"f">>), Nil, Nil, Nil)>>,
          <<T(1, "bogus", Path(<<"f">>), Nil, Nil, Nil)>>,
          <<T(1, "net_request", EmptyTarget, Nil, Nil, Nil)>>}

NearGroundTruths == {LateEvents} \cup Alone(SoloEvents) \cup Upto(
    {G(1, "file_close", Path(<<"d", "f">>), h1, Nil, Nil, Nil, FALSE),
     G(3, "file_close", Path(<<"d", "f">>), h2, Nil, Nil, TRUE, FALSE),
     G(5, "file_close", Path(<<"d">>), Nil, Nil, Nil, TRUE, TRUE),
     G(2, "file_close", Path(<<"d">>), Nil, Nil, Nil, TRUE, FALSE),
     G(2, "process_exit", Path(<<"f">>), Nil, 1, Nil, TRUE, FALSE),
     G(2, "process_exit", Path(<<"f">>), Nil, 1, Nil, FALSE, FALSE),
     G(2, "net_request", Path(<<"f">>), Nil, Nil, h1, TRUE, FALSE)}, MaxEvents)
    \cup {<<G(0, "net_dns", Path(<<"f">>), Nil, Nil, Nil, Nil, FALSE)>>}

(* Timestamps further apart than a Duration can say.                       *)
FarTrajectories == Upto(
    {T(n, "process_exit", Path(<<"f">>), Nil, Nil, Nil) : n \in {1, 6, 12}}, MaxEntries)

FarGroundTruths == Upto(
    {G(n, "process_exit", Path(<<"f">>), Nil, Nil, Nil, TRUE, FALSE) : n \in {1, 5, 12}},
    MaxEvents)
=============================================================================
