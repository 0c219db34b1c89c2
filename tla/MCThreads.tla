----------------------------- MODULE MCThreads -----------------------------
(* Instances of Threads for TLC: two threads share a session, a third has   *)
(* one of its own; the viewer looks at the session that is shared.           *)
EXTENDS Threads

CONSTANTS t1, t2, t3, s1, s2, v1

MCThread  == {t1, t2, t3}
MCServes  == [t \in MCThread |-> IF t = t3 THEN s2 ELSE s1]

MCViews   == [v \in Viewer |-> s1]

MCScripts ==
  {<<"fail">>, <<"write">>, <<"begin", "read", "fail">>,
   <<"begin", "write", "write", "commit">>, <<"begin", "bulk", "rollback">>}

(* Requests of execute alone *)
MCWrites == {<<"write">>}
=============================================================================
