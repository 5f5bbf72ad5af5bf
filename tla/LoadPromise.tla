----------------------------- MODULE LoadPromise -----------------------------
(***************************************************************************)
(* What GameLoader promises its callers about a request: one answer, which   *)
(* stays, and which is positive only when every player reported that the     *)
(* game started.                                                            *)
(***************************************************************************)
EXTENDS FiniteSets

CONSTANTS Players, Games

VARIABLES
    roster,   \* roster[g]: the players of the request
    ready,    \* ready[g]: the players who reported
    answer    \* answer[g]: "none" before the request, then what it was answered

promiseVars == <<roster, ready, answer>>

Init ==
    /\ roster = [g \in Games |-> {}]
    /\ ready = [g \in Games |-> {}]
    /\ answer = [g \in Games |-> "none"]

Request(g, R) ==
    /\ answer[g] = "none" /\ R # {}
    /\ roster' = [roster EXCEPT ![g] = R]
    /\ answer' = [answer EXCEPT ![g] = "pending"]
    /\ UNCHANGED ready

(* The last report answers the request.                                     *)
Reported(g, p) ==
    LET now == ready[g] \union {p} IN
    /\ answer[g] = "pending" /\ p \in roster[g]
    /\ ready' = [ready EXCEPT ![g] = now]
    /\ answer' = [answer EXCEPT ![g] = IF now = roster[g] THEN "loaded" ELSE @]
    /\ UNCHANGED roster

(* Requests fail; several at once if they wait for one player.              *)
Fail(G) ==
    /\ \A g \in G : answer[g] = "pending"
    /\ answer' = [g \in Games |-> IF g \in G THEN "failed" ELSE answer[g]]
    /\ UNCHANGED <<roster, ready>>

Next ==
    \/ \E g \in Games : \/ \E R \in SUBSET Players : Request(g, R)
                        \/ \E p \in Players : Reported(g, p)
    \/ \E G \in SUBSET Games : Fail(G)

Spec == Init /\ [][Next]_promiseVars
=============================================================================
