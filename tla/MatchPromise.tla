---------------------------- MODULE MatchPromise ----------------------------
(***************************************************************************)
(* What matchmaking promises its users, without the network: a user is      *)
(* idle, searching or matched; a match takes MatchSize users at once, all   *)
(* of them searching; when it is over every member it still has is idle     *)
(* (launched, banned) or searching again.  Matchmaking implements it.        *)
(***************************************************************************)
EXTENDS Naturals, FiniteSets

CONSTANTS
    Players,
    MatchSize,     \* users in a formed match
    MatchIds       \* matches that can ever be formed

VARIABLES
    status,        \* status[p]: "idle", "searching" or "matched"
    members        \* members[m]: the users match m has and has not lost

vars == <<status, members>>

Of(s) == {p \in Players : status[p] = s}

Available == Of("searching")      \* who a new match may take

Init ==
    /\ status = [p \in Players |-> "idle"]
    /\ members = [m \in MatchIds |-> {}]

Search(p) ==
    /\ status[p] = "idle"
    /\ status' = [status EXCEPT ![p] = "searching"]
    /\ UNCHANGED members

(* Users give up, disconnect, or are told that matchmaking failed.          *)
StopSearching(P) ==
    /\ P \subseteq Of("searching")
    /\ status' = [p \in Players |-> IF p \in P THEN "idle" ELSE status[p]]
    /\ UNCHANGED members

Form(m, group) ==
    /\ members[m] = {}
    /\ group \subseteq Available /\ Cardinality(group) = MatchSize
    /\ status' = [p \in Players |-> IF p \in group THEN "matched" ELSE status[p]]
    /\ members' = [members EXCEPT ![m] = group]

(* A user leaves while the match is busy with something it cannot interrupt. *)
Desert(m, p) ==
    /\ p \in members[m]
    /\ status' = [status EXCEPT ![p] = "idle"]
    /\ members' = [members EXCEPT ![m] = @ \ {p}]

(* A match is over: the members of out are idle, the others search again.   *)
End(m, out) ==
    /\ out \subseteq members[m]
    /\ status' = [p \in Players |-> IF p \in out THEN "idle"
                                    ELSE IF p \in members[m] THEN "searching"
                                    ELSE status[p]]
    /\ members' = [members EXCEPT ![m] = {}]

Next ==
    \/ \E p \in Players : Search(p)
    \/ \E P \in SUBSET Players : StopSearching(P)
    \/ \E m \in MatchIds : \/ \E group \in SUBSET Players : Form(m, group)
                           \/ \E p \in members[m] : Desert(m, p)
                           \/ \E out \in SUBSET members[m] : End(m, out)

Spec == Init /\ [][Next]_vars

(* A matched user is a member of exactly one match, and only matched users    *)
(* are members of one.                                                       *)
MatchedOnce ==
    /\ \A m \in MatchIds : members[m] \subseteq Of("matched")
    /\ \A p \in Of("matched") : \E m \in MatchIds : p \in members[m]
    /\ \A m, n \in MatchIds : m # n => members[m] \cap members[n] = {}

=============================================================================
