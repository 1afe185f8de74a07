---------------------------- MODULE MCTlsCapture ----------------------------
(* Small instances of TlsCapture for TLC.                                  *)
EXTENDS TlsCapture

CONSTANTS agent, thr, kid

AgentAndThread == {agent, thr}
AgentAndChild == {agent, kid}
LeaderOfThread == [t \in AgentAndThread |-> agent]
LeaderOfChild == [t \in AgentAndChild |-> t]

Request(id, shape, n) == [id |-> id, shape |-> shape, n |-> n]

Does(a, t) == [x \in AgentAndThread |-> IF x = agent THEN a ELSE t]

(* Requests that follow each other; a chunked body; a search during which  *)
(* the agent and a thread send requests; one that may pass by the right    *)
(* address; no content capture; a search that fails.                       *)
SomeSetups ==
    <<[search |-> <<"right">>,
       script |-> Does(<<Request(1, "trailers", 0), Request(2, "length", 0)>>, <<>>)],
      [search |-> <<"right">>, script |-> Does(<<Request(1, "chunked", 1)>>, <<>>)],
      [search |-> <<"other", "right">>,
       script |-> Does(<<Request(1, "length", 1)>>, <<Request(3, "length", 0)>>)],
      [search |-> <<"right", "other">>, script |-> Does(<<>>, <<Request(1, "length", 1)>>)],
      [search |-> None, script |-> Does(<<>>, <<>>)],
      [search |-> <<"bad">>, script |-> Does(<<>>, <<>>)]>>

RightFirst ==
    <<[search |-> <<"right", "other">>,
       script |-> [t \in AgentAndChild |-> IF t = kid THEN <<Request(1, "length", 0)>> ELSE <<>>]]>>
=============================================================================
