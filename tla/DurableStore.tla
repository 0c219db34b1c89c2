---------------------------- MODULE DurableStore ----------------------------
(***************************************************************************)
(* What the page store promises: pages that change only by whole           *)
(* transactions, and a transaction that was acknowledged stays.  A crash   *)
(* during a commit may install that transaction or not, but never a part.  *)
(***************************************************************************)
CONSTANTS Page, Txn

VARIABLES content,        \* page -> the transactions whose effect it carries
          effects,        \* transaction -> the pages it wrote, once it is decided
          acknowledged    \* the transactions whose commit returned

vars == <<content, effects, acknowledged>>

Init == /\ content = [n \in Page |-> {}]
        /\ effects = [t \in Txn |-> {}]
        /\ acknowledged = {}

Install(t, S) == content' = [n \in Page |-> IF n \in S THEN content[n] \cup {t} ELSE content[n]]

Decide(t, S) == /\ effects[t] = {} /\ S # {}
                /\ effects' = [effects EXCEPT ![t] = S]

Acknowledge(t, S) == /\ Decide(t, S)
                     /\ Install(t, S)
                     /\ acknowledged' = acknowledged \cup {t}

LeaveInDoubt(t, S) == /\ Decide(t, S)
                      /\ Install(t, S) \/ UNCHANGED content
                      /\ UNCHANGED acknowledged

Next == \E t \in Txn, S \in SUBSET Page : Acknowledge(t, S) \/ LeaveInDoubt(t, S)

Spec == Init /\ [][Next]_vars
=============================================================================
