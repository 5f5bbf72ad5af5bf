------------------------- MODULE MatchPromiseProofs -------------------------
(* What MatchPromise says about users and matches, for any number of both.   *)
EXTENDS MatchPromise, TLAPS

TypeOK ==
    /\ status \in [Players -> {"idle", "searching", "matched"}]
    /\ members \in [MatchIds -> SUBSET Players]

IInv == TypeOK /\ MatchedOnce

LEMMA InitHolds == Init => IInv
BY DEF Init, IInv, TypeOK, MatchedOnce, Of

LEMMA StepHolds == IInv /\ [Next]_vars => IInv'
<1> SUFFICES ASSUME IInv, [Next]_vars PROVE IInv'
  OBVIOUS
<1> USE DEF IInv, TypeOK, MatchedOnce, Of, Available
<1>1. CASE UNCHANGED vars
  BY <1>1 DEF vars
<1>2. ASSUME NEW p \in Players, Search(p) PROVE IInv'
  BY <1>2 DEF Search
<1>3. ASSUME NEW P \in SUBSET Players, StopSearching(P) PROVE IInv'
  BY <1>3 DEF StopSearching
<1>4. ASSUME NEW m \in MatchIds, NEW group \in SUBSET Players, Form(m, group) PROVE IInv'
  <2>1. \A p \in Players : status'[p] = IF p \in group THEN "matched" ELSE status[p]
    BY <1>4 DEF Form
  <2>2. \A n \in MatchIds : members'[n] = IF n = m THEN group ELSE members[n]
    BY <1>4 DEF Form
  <2>3. \A p \in group : status[p] = "searching"
    BY <1>4 DEF Form
  <2>4. TypeOK'
    BY <1>4 DEF Form
  <2>5. \A n \in MatchIds : \A p \in members'[n] : p \in Players /\ status'[p] = "matched"
    BY <2>1, <2>2
  <2>6. \A p \in Players : status'[p] = "matched" => \E n \in MatchIds : p \in members'[n]
    <3>1. members[m] = {}
      BY <1>4 DEF Form
    <3>2. SUFFICES ASSUME NEW p \in Players, status'[p] = "matched"
                   PROVE  \E n \in MatchIds : p \in members'[n]
      OBVIOUS
    <3>3. CASE p \in group
      BY <2>2, <3>3
    <3>4. CASE p \notin group
      <4>1. PICK n \in MatchIds : p \in members[n]
        BY <2>1, <3>2, <3>4
      <4> QED
        BY <2>2, <3>1, <4>1
    <3> QED
      BY <3>3, <3>4
  <2>7. \A n1, n2 \in MatchIds : n1 # n2 => members'[n1] \cap members'[n2] = {}
    <3>1. \A n \in MatchIds : members[n] \cap group = {}
      BY <2>3
    <3> QED
      BY <2>2, <3>1
  <2> QED
    BY <2>4, <2>5, <2>6, <2>7
<1>5. ASSUME NEW m \in MatchIds, NEW p \in members[m], Desert(m, p) PROVE IInv'
  <2>1. p \in Players /\ status[p] = "matched"
    OBVIOUS
  <2>2. \A q \in Players : status'[q] = IF q = p THEN "idle" ELSE status[q]
    BY <1>5 DEF Desert
  <2>3. \A n \in MatchIds : members'[n] = members[n] \ {p}
    <3>1. \A n \in MatchIds : n # m => p \notin members[n]
      OBVIOUS
    <3> QED
      BY <1>5, <3>1 DEF Desert
  <2>4. TypeOK'
    BY <1>5 DEF Desert
  <2> QED
    BY <2>2, <2>3, <2>4
<1>6. ASSUME NEW m \in MatchIds, NEW out \in SUBSET members[m], End(m, out) PROVE IInv'
  <2>1. \A p \in Players : status'[p] = IF p \in out THEN "idle"
                                        ELSE IF p \in members[m] THEN "searching"
                                        ELSE status[p]
    BY <1>6 DEF End
  <2>2. \A n \in MatchIds : members'[n] = IF n = m THEN {} ELSE members[n]
    BY <1>6 DEF End
  <2>3. TypeOK'
    BY <1>6 DEF End
  <2>4. \A p \in Players : status'[p] = "matched"
                              <=> status[p] = "matched" /\ p \notin members[m]
    BY <2>1
  <2>5. \A n \in MatchIds : \A p \in members'[n] : status'[p] = "matched"
    BY <2>2, <2>4
  <2>6. \A p \in Players : status'[p] = "matched" => \E n \in MatchIds : p \in members'[n]
    BY <2>2, <2>4
  <2>7. \A n1, n2 \in MatchIds : n1 # n2 => members'[n1] \cap members'[n2] = {}
    BY <2>2
  <2> QED
    BY <2>3, <2>5, <2>6, <2>7
<1> QED
  BY <1>1, <1>2, <1>3, <1>4, <1>5, <1>6 DEF Next

(* A matched user is a member of exactly one match and only matched users are *)
(* members: what a user of the matchmaking service may rely on, and what      *)
(* every implementation of the promise inherits.                             *)
THEOREM OneMatchEach == Spec => []MatchedOnce
<1>1. IInv => MatchedOnce
  BY DEF IInv
<1> QED
  BY <1>1, InitHolds, StepHolds, PTL DEF Spec

=============================================================================
