-------------------------- MODULE GameResultsProofs -------------------------
(* What holds of the result of every game, for any humans, reports, numbers of  *)
(* desyncs, faults and reconciliations: types, that ratings change once, that no  *)
(* report is missed, and that no report speaks against an undisputed result.    *)
EXTENDS GameResults, FiniteSetTheorems, TLAPS

(* The relay has closed the connection of u, and no report of u may arrive.      *)
Out(u) == u \in left /\ ~MayArrive(u)

Settled(u) == report[u] # None \/ Out(u)

(* Everybody in heard has reported, and whoever is neither in heard nor in        *)
(* diverged never will.                                                     *)
Complete(heard, diverged) ==
    /\ \A u \in heard : report[u] # None
    /\ \A u \in humans \ diverged : u \in heard \/ (Out(u) /\ report[u] = None)

(* Departures are of those who left; their reports are stored first.           *)
Departing ==
    /\ departures \subseteq left /\ departed \subseteq left
    /\ departing # None => departing \in left /\ (sent[departing] = None \/ report[departing] # None)
    /\ \A u \in departed : sent[u] = None \/ report[u] # None

(* A session that ended has no notice under way but that of its end.           *)
Ended == session # "open" =>
            left = humans /\ results = {} /\ departures = {} /\ departing = None

Forced == "force" \in due => \A u \in humans : Settled(u)

TasksComplete == \A t \in tasks : Complete(t.heard, Diverged(t.desyncs))

VerdictComplete == verdict.made => Complete(verdict.heard, verdict.diverged)

Inv ==
    /\ TypeOK /\ Departing /\ Ended /\ Forced /\ TasksComplete /\ VerdictComplete
    /\ RatedOnce /\ NobodyContradicts

-----------------------------------------------------------------------------
(* results.ts.                                                              *)

(* Reports are counted with natural numbers, and nothing counts as nothing.     *)
LEMMA CountZero ==
  ASSUME NEW c, NEW R \in SUBSET Users, NEW u, NEW what
  PROVE  /\ Count(c, R, u, what) \in Nat
         /\ Count(c, R, u, what) = 0 => \A r \in R : c[r].says[u] # what
<1> DEFINE S == {r \in R : c[r].says[u] = what}
<1>1. IsFiniteSet(S)
  BY UsersAssumption, FS_Subset
<1>2. Cardinality(S) \in Nat /\ (Cardinality(S) = 0 => S = {})
  BY <1>1, FS_CardinalityType, FS_EmptySet
<1> QED
  BY <1>2 DEF Count

(* What v says of c, R and H, if it is not disputed.                          *)
Sound(v, c, R, H) ==
    ~v.disputed =>
        /\ v.wins \union v.losses = H /\ v.wins # {}
        /\ ranked => Cardinality({Team[u] : u \in v.wins}) = 1
        /\ \A r \in R : /\ \A u \in v.wins : c[r].says[u] # "d"
                        /\ \A u \in v.losses : c[r].says[u] # "v"
        /\ ~Mismatch(c, R)

(* Winners who are not of several teams are of one.                          *)
LEMMA OneTeam ==
  ASSUME NEW W \in SUBSET Users, W # {}, ~Contested(W), ranked
  PROVE  Cardinality({Team[u] : u \in W}) = 1
<1> DEFINE T == {Team[u] : u \in W}
<1>1. IsFiniteSet(T)
  <2> DEFINE f == [u \in W |-> Team[u]]
  <2>1. IsFiniteSet(W) /\ f \in Surjection(W, T)
    BY UsersAssumption, FS_Subset DEF Surjection
  <2> QED
    BY <2>1, FS_Surjection
<1>2. Cardinality(T) \in Nat /\ (Cardinality(T) = 0 => T = {})
  BY <1>1, FS_CardinalityType, FS_EmptySet
<1>3. PICK u \in W : TRUE
  OBVIOUS
<1>4. Team[u] \in T
  OBVIOUS
<1>5. ~(Cardinality(T) > 1)
  BY DEF Contested
<1>6. Cardinality(T) = 1
  <2> HIDE DEF T
  <2> QED
    BY <1>2, <1>4, <1>5
<1> QED
  BY <1>6

(* reconcileResults contradicts no report when it disputes nothing.            *)
LEMMA ReconcileSound ==
  ASSUME NEW c, NEW R \in SUBSET Users, NEW H \in SUBSET Users
  PROVE  Sound(Reconcile(c, R, H), c, R, H)
<1> DEFINE v(u) == Count(c, R, u, "v")
           d(u) == Count(c, R, u, "d")
           wins   == {u \in H : v(u) > d(u)}
           losses == {u \in H : v(u) < d(u)}
           void   == wins = {} \/ Contested(wins)
           known  == wins \union losses = H /\ ~void
           disputes == void \/ Mismatch(c, R) \/ \E u \in H : Conflicting(c, R, u)
           o == Verdict(disputes, IF known THEN wins ELSE {}, IF known THEN losses ELSE {})
<1>1. Reconcile(c, R, H) = o
  BY DEF Reconcile
<1>2. \A u \in H : v(u) \in Nat /\ d(u) \in Nat
  BY CountZero
<1>3. /\ o.disputed = disputes
      /\ o.wins = (IF known THEN wins ELSE {}) /\ o.losses = (IF known THEN losses ELSE {})
  BY DEF Verdict
<1>4. SUFFICES ASSUME ~o.disputed
               PROVE  /\ o.wins \union o.losses = H /\ o.wins # {}
                      /\ ranked => Cardinality({Team[u] : u \in o.wins}) = 1
                      /\ \A r \in R : /\ \A u \in o.wins : c[r].says[u] # "d"
                                      /\ \A u \in o.losses : c[r].says[u] # "v"
                      /\ ~Mismatch(c, R)
  BY <1>1 DEF Sound
<1>5. /\ wins # {} /\ ~Contested(wins) /\ ~Mismatch(c, R)
      /\ \A u \in H : ~Conflicting(c, R, u)
  BY <1>3, <1>4
<1>6. \A u \in H : (v(u) > 0 /\ d(u) = 0) \/ (v(u) = 0 /\ d(u) > 0)
  <2>1. \A u \in H : ~((v(u) > 0) <=> (d(u) > 0))
    BY <1>5 DEF Conflicting
  <2> HIDE DEF v, d
  <2> QED
    BY <1>2, <2>1
<1>7. wins = {u \in H : d(u) = 0} /\ losses = {u \in H : v(u) = 0} /\ wins \union losses = H
  <2> HIDE DEF v, d
  <2> QED
    BY <1>2, <1>6
<1>8. o.wins = wins /\ o.losses = losses
  BY <1>3, <1>5, <1>7
<1>9. \A r \in R : /\ \A u \in wins : c[r].says[u] # "d"
                   /\ \A u \in losses : c[r].says[u] # "v"
  BY <1>7, CountZero
<1>10. ranked => Cardinality({Team[u] : u \in wins}) = 1
  <2>1. wins \in SUBSET Users
    OBVIOUS
  <2> HIDE DEF wins
  <2> QED
    BY <1>5, <2>1, OneTeam
<1> HIDE DEF wins, losses, o
<1> QED
  BY <1>5, <1>7, <1>8, <1>9, <1>10

(* The parts of a Verdict.                                                  *)
LEMMA VerdictParts ==
  ASSUME NEW a, NEW w, NEW l
  PROVE  Verdict(a, w, l).disputed = a /\ Verdict(a, w, l).wins = w /\ Verdict(a, w, l).losses = l
  BY DEF Verdict

(* A disputed result says nothing.                                          *)
LEMMA DisputedSound ==
  ASSUME NEW v, v.disputed = TRUE, NEW c, NEW R, NEW H
  PROVE  Sound(v, c, R, H)
  BY DEF Sound

LEMMA VoidSound ==
  ASSUME NEW c, NEW R, NEW H
  PROVE  Sound(Void, c, R, H)
<1>1. Void.disputed = TRUE
  BY VerdictParts DEF Void
<1> QED
  BY <1>1, DisputedSound

LEMMA ReconcileAnySound ==
  ASSUME NEW c, NEW R \in SUBSET Users, NEW H \in SUBSET Users
  PROVE  Sound(ReconcileAny(c, R, H), c, R, H)
  BY VoidSound, ReconcileSound DEF ReconcileAny

(* The reports that count, given the desyncs D.                              *)
Counted(R, D) == R \ (IF ranked THEN Diverged(D) ELSE {})

(* applyDesyncPolicy contradicts no report that counts.                      *)
LEMMA PolicySound ==
  ASSUME NEW c, NEW R \in SUBSET Users, NEW H \in SUBSET Users, NEW D
  PROVE  Sound(Policy(c, R, H, D), c, Counted(R, D), H)
<1>1. CASE D = {}
  <2>1. Counted(R, D) = R
    BY <1>1 DEF Counted, Diverged
  <2> QED
    BY <1>1, <2>1, ReconcileAnySound DEF Policy
<1>2. CASE D # {} /\ ~ranked
  <2>1. Policy(c, R, H, D).disputed = TRUE
    BY <1>2, VerdictParts DEF Policy, Disputed
  <2> QED
    BY <2>1, DisputedSound
<1>3. CASE D # {} /\ ranked /\ ({} \in D \/ H \subseteq Diverged(D))
  BY <1>3, VoidSound DEF Policy
<1>4. CASE D # {} /\ ranked /\ ~({} \in D \/ H \subseteq Diverged(D))
  <2>1. R \ Diverged(D) \in SUBSET Users
    OBVIOUS
  <2>2. Sound(ReconcileAny(c, R \ Diverged(D), H), c, R \ Diverged(D), H)
    BY <2>1, ReconcileAnySound
  <2> QED
    BY <1>4, <2>2 DEF Policy, Counted
<1> QED
  BY <1>1, <1>2, <1>3, <1>4

(* Neither does the concession of the one who left.                          *)
LEMMA ResultSound ==
  ASSUME NEW c, NEW R \in SUBSET Users, NEW H \in SUBSET Users, NEW D, NEW gone
  PROVE  Sound(Result(c, R, H, D, gone), c, Counted(R, D), H)
<1> DEFINE policy == Policy(c, R, H, D)
           concedes == /\ policy.disputed \/ policy.wins = {}
                       /\ \E r, l \in H : Concedes(c, R, H, D, gone, r, l)
<1>1. CASE ~concedes
  <2>1. Result(c, R, H, D, gone) = policy
    BY <1>1 DEF Result
  <2> QED
    BY <2>1, PolicySound
<1>2. CASE concedes
  <2>1. PICK r \in H, l \in H : Concedes(c, R, H, D, gone, r, l)
    BY <1>2
  <2>2. H = {r, l} /\ r # l /\ R = {r} /\ c[r].says[r] = "v" /\ c[r].says[l] # "v"
    BY <2>1, Zenon DEF Concedes
  <2>3. H \ R = {l}
    BY <2>2
  <2>4. Result(c, R, H, D, gone) = Verdict(FALSE, R, H \ R)
    BY <1>2 DEF Result
  <2> HIDE DEF policy, concedes
  <2> DEFINE o == Result(c, R, H, D, gone)
  <2>5. o.wins = {r} /\ o.losses = {l}
    <3>1. o = Verdict(FALSE, {r}, {l})
      BY <2>2, <2>3, <2>4
    <3> HIDE DEF o
    <3> QED
      BY <3>1 DEF Verdict
  <2> HIDE DEF o
  <2>6. o.wins \union o.losses = H
    BY <2>2, <2>5
  <2>7. Cardinality({Team[u] : u \in o.wins}) = 1
    <3>1. {Team[u] : u \in o.wins} = {Team[r]}
      BY <2>5
    <3> QED
      BY <3>1, FS_Singleton
  <2>8. /\ \A x \in Counted(R, D) : /\ \A u \in o.wins : c[x].says[u] # "d"
                                    /\ \A u \in o.losses : c[x].says[u] # "v"
        /\ ~Mismatch(c, Counted(R, D))
    BY <2>2, <2>5 DEF Counted, Mismatch
  <2>9. Sound(o, c, Counted(R, D), H)
    BY <2>5, <2>6, <2>7, <2>8 DEF Sound
  <2> QED
    BY <2>9 DEF o
<1> QED
  BY <1>1, <1>2

(* A result names users.                                                    *)
LEMMA ResultType ==
  ASSUME NEW c, NEW R \in SUBSET Users, NEW H \in SUBSET Users, NEW D, NEW gone
  PROVE  /\ Result(c, R, H, D, gone).disputed \in BOOLEAN
         /\ Result(c, R, H, D, gone).wins \subseteq Users /\ Result(c, R, H, D, gone).losses \subseteq Users
<1> DEFINE Typed(v) == v.disputed \in BOOLEAN /\ v.wins \subseteq Users /\ v.losses \subseteq Users
<1>1. \A a \in BOOLEAN : \A w, l \in SUBSET Users : Typed(Verdict(a, w, l))
  BY VerdictParts
<1>2. Typed(Void)
  BY <1>1 DEF Void
<1>3. \A Q : Typed(Reconcile(c, Q, H))
  <2> TAKE Q
  <2>1. \E a \in BOOLEAN : \E w, l \in SUBSET H : Reconcile(c, Q, H) = Verdict(a, w, l)
    BY DEF Reconcile
  <2> QED
    BY <1>1, <2>1
<1> HIDE DEF Typed
<1>4. \A Q : Typed(ReconcileAny(c, Q, H))
  BY <1>2, <1>3 DEF ReconcileAny
<1>5. \A v : Typed(v) => Typed(Disputed(v))
  BY <1>1 DEF Disputed, Typed
<1>6. Typed(Policy(c, R, H, D))
  BY <1>2, <1>4, <1>5 DEF Policy
<1>7. Typed(Verdict(FALSE, R, H \ R))
  BY <1>1
<1>8. Typed(Result(c, R, H, D, gone))
  BY <1>6, <1>7 DEF Result
<1> QED
  BY <1>8 DEF Typed

-----------------------------------------------------------------------------
(* What every step keeps.                                                   *)

LEMMA HumansType == TypeOK => humans \subseteq Users
<1> SUFFICES ASSUME TypeOK PROVE humans \subseteq Users
  OBVIOUS
<1>1. <<humans, ranked>> \in (SUBSET Users) \X BOOLEAN
  BY GamesAssumption DEF TypeOK, Game, gameVars
<1> QED
  BY <1>1

(* No report is taken back, and nobody who is out comes back.                  *)
Stays ==
    \A u \in humans : /\ report[u] # None => report'[u] # None
                      /\ Out(u) /\ report[u] = None => Out(u)' /\ report'[u] = None

(* What is settled stays settled.                                           *)
LEMMA SettledStays ==
  ASSUME Stays, NEW u \in humans, Settled(u)
  PROVE  Settled(u)'
  BY DEF Stays, Settled

LEMMA TasksStay ==
  ASSUME TypeOK, TasksComplete, Stays, humans' = humans, NEW t \in tasks
  PROVE  Complete(t.heard, Diverged(t.desyncs))'
<1>1. t.heard \subseteq humans
  BY DEF TypeOK
<1>2. Complete(t.heard, Diverged(t.desyncs))
  BY DEF TasksComplete
<1> QED
  BY <1>1, <1>2 DEF Stays, Complete

(* A step before the verdict that starts no reconciliation.                    *)
LEMMA Pending ==
  ASSUME Inv, Stays, ~verdict.made, UNCHANGED <<humans, ranked, verdict, rated, counted>>, tasks' \subseteq tasks
  PROVE  TasksComplete' /\ VerdictComplete' /\ RatedOnce' /\ NobodyContradicts'
<1>1. TasksComplete'
  BY TasksStay DEF Inv, TasksComplete
<1> QED
  BY <1>1 DEF Inv, VerdictComplete, RatedOnce, NobodyContradicts, Counting, Mismatch

(* A step that leaves reports, departures and what is under way alone.          *)
LEMMA SameStays ==
  ASSUME UNCHANGED <<sent, left, report>>, results' \subseteq results, departures' \subseteq departures
  PROVE  Stays
  BY DEF Stays, Out, MayArrive

-----------------------------------------------------------------------------
(* Players and coordinator.                                                 *)

LEMMA InitInv == Init => Inv
<1> SUFFICES ASSUME Init PROVE Inv
  OBVIOUS
<1>1. Game \in Games
  BY GamesAssumption DEF Init, Game, gameVars
<1>2. sent \in [Users -> Claims[Game] \union {None}] /\ report \in [Users -> Claims[Game] \union {None}]
  BY DEF Init, NoReports
<1>3. 0 \in 0..MaxFaults[Game]
  BY <1>1, BoundsAssumption
<1>4. TypeOK
  BY <1>1, <1>2, <1>3 DEF Init, TypeOK, NoVerdict
<1>5. Departing /\ Ended /\ Forced /\ TasksComplete
  BY DEF Init, Departing, Ended, Forced, TasksComplete
<1>6. VerdictComplete /\ RatedOnce /\ NobodyContradicts
  BY DEF Init, VerdictComplete, RatedOnce, NobodyContradicts, NoVerdict
<1> QED
  BY <1>4, <1>5, <1>6 DEF Inv

LEMMA ReportInv ==
  ASSUME Inv, ~verdict.made, NEW u \in humans, NEW claim \in Claims[Game], Report(u, claim)
  PROVE  Inv'
<1>0. /\ u \notin left /\ sent' = [sent EXCEPT ![u] = claim] /\ results' = results \union {u}
      /\ UNCHANGED <<humans, ranked, left, session, departures, desyncs, departing, report, departed,
                     desynced, verdict, rated, counted, due, tasks, fresh, faults>>
  BY DEF Report, gameVars, dbVars, effects
<1>1. TypeOK'
  BY <1>0, HumansType DEF Inv, TypeOK, Game, gameVars
<1>2. Stays
  BY <1>0, HumansType DEF Stays, Out, MayArrive, Inv, TypeOK
<1>3. Departing' /\ Ended'
  BY <1>0, HumansType DEF Inv, Departing, Ended, TypeOK
<1>4. Forced'
  BY <1>0, <1>2, SettledStays DEF Inv, Forced
<1> QED
  BY <1>0, <1>1, <1>2, <1>3, <1>4, Pending DEF Inv

LEMMA DepartInv ==
  ASSUME Inv, ~verdict.made, NEW u \in humans, Depart(u)
  PROVE  Inv'
<1>0. /\ u \notin left /\ left' = left \union {u} /\ departures' = departures \union {u}
      /\ UNCHANGED <<humans, ranked, sent, session, results, desyncs, departing, report, departed,
                     desynced, verdict, rated, counted, due, tasks, fresh, faults>>
  BY DEF Depart, gameVars, dbVars, effects
<1>1. TypeOK'
  BY <1>0 DEF Inv, TypeOK, Game, gameVars
<1>2. Stays
  BY <1>0 DEF Stays, Out, MayArrive
<1>3. Departing' /\ Ended'
  BY <1>0 DEF Inv, Departing, Ended, TypeOK
<1>4. Forced'
  BY <1>0, <1>2, SettledStays DEF Inv, Forced
<1> QED
  BY <1>0, <1>1, <1>2, <1>3, <1>4, Pending DEF Inv

LEMMA DesyncInv ==
  ASSUME Inv, ~verdict.made, NEW D \in SUBSET humans, Desync(D)
  PROVE  Inv'
<1>0. /\ desyncs' = desyncs \union {D}
      /\ UNCHANGED <<humans, ranked, sent, left, session, results, departures, departing, report, departed,
                     desynced, verdict, rated, counted, due, tasks, fresh, faults>>
  BY DEF Desync, gameVars, relayVars, dbVars, effects
<1>1. TypeOK'
  BY <1>0 DEF Inv, TypeOK, Game, gameVars
<1>2. Stays
  BY <1>0, SameStays
<1>3. Departing' /\ Ended'
  BY <1>0 DEF Inv, Departing, Ended
<1>4. Forced'
  BY <1>0, <1>2, SettledStays DEF Inv, Forced
<1> QED
  BY <1>0, <1>1, <1>2, <1>3, <1>4, Pending DEF Inv

LEMMA CloseSessionInv ==
  ASSUME Inv, ~verdict.made, CloseSession
  PROVE  Inv'
<1>0. /\ left = humans /\ results = {} /\ departures = {} /\ departing = None
      /\ session' = "closing"
      /\ UNCHANGED <<humans, ranked, sent, left, results, departures, desyncs, departing, report, departed,
                     desynced, verdict, rated, counted, due, tasks, fresh, faults>>
  BY DEF CloseSession, gameVars, noticeVars, dbVars, effects
<1>1. TypeOK'
  BY <1>0 DEF Inv, TypeOK, Game, gameVars
<1>2. Stays
  BY <1>0, SameStays
<1>3. Departing' /\ Ended'
  BY <1>0 DEF Inv, Departing, Ended
<1>4. Forced'
  BY <1>0, <1>2, SettledStays DEF Inv, Forced
<1> QED
  BY <1>0, <1>1, <1>2, <1>3, <1>4, Pending DEF Inv

(* A fault is one of at most MaxFaults.                                      *)
LEMMA FaultType ==
  ASSUME TypeOK, Fault, UNCHANGED gameVars
  PROVE  faults' \in 0..MaxFaults[Game]'
<1>1. MaxFaults[Game] \in Nat /\ Game' = Game
  BY BoundsAssumption DEF TypeOK, Game
<1> QED
  BY <1>1 DEF TypeOK, Fault

LEMMA GiveUpInv ==
  ASSUME Inv, ~verdict.made, GiveUp
  PROVE  Inv'
<1>0. /\ results' \subseteq results /\ departures' \subseteq departures /\ desyncs' \subseteq desyncs
      /\ session' = session \/ (session = "closing" /\ session' = "closed")
      /\ Fault
      /\ UNCHANGED <<humans, ranked, sent, left, departing, report, departed, desynced, verdict, rated, counted,
                     due, tasks, fresh>>
  BY DEF GiveUp, gameVars, noticeVars, dbVars, effects
<1>1. TypeOK'
  BY <1>0, FaultType DEF Inv, TypeOK, Game, gameVars
<1>2. Stays
  BY <1>0, SameStays
<1>3. Departing' /\ Ended'
  BY <1>0 DEF Inv, Departing, Ended
<1>4. Forced'
  BY <1>0, <1>2, SettledStays DEF Inv, Forced
<1> QED
  BY <1>0, <1>1, <1>2, <1>3, <1>4, Pending DEF Inv

-----------------------------------------------------------------------------
(* The webhooks.                                                            *)

(* A report is stored only of somebody whose report was under way.             *)
LEMMA SubmitStays ==
  ASSUME TypeOK, NEW u \in results \union departures, Submit(u),
         UNCHANGED <<humans, sent, left>>, results' \subseteq results, departures' \subseteq departures
  PROVE  /\ Stays
         /\ report' \in [Users -> Claims[Game] \union {None}] /\ fresh' \in BOOLEAN
         /\ sent[u] = None \/ report'[u] # None
         /\ \A w \in humans : report[w] # None => report'[w] = report[w]
<1>1. u \in Users
  BY HumansType DEF TypeOK
<1>2. CASE sent[u] # None /\ report[u] = None
  <2>1. report' = [report EXCEPT ![u] = sent[u]] /\ fresh' = TRUE
    BY <1>2 DEF Submit
  <2> QED
    BY <1>1, <1>2, <2>1, HumansType DEF TypeOK, Stays, Out, MayArrive
<1>3. CASE ~(sent[u] # None /\ report[u] = None)
  <2>1. UNCHANGED <<report, fresh>>
    BY <1>3, Zenon DEF Submit
  <2> QED
    BY <1>3, <2>1, SameStays DEF TypeOK
<1> QED
  BY <1>2, <1>3

(* When the game is known complete, everybody is settled.                      *)
LEMMA KnownSettled ==
  ASSUME Departing', Forced, Stays, UNCHANGED humans,
         NEW D, "force" \in D => "force" \in due, due' = KnownComplete(D)
  PROVE  Forced'
<1>1. CASE "force" \in due
  BY <1>1, SettledStays DEF Forced
<1>2. CASE Accounted({u \in humans : report'[u] # None}, departed')
  BY <1>2 DEF Forced, Settled, Out, MayArrive, Departing, Accounted
<1>3. CASE ~Accounted({u \in humans : report'[u] # None}, departed') /\ "force" \notin due
  BY <1>3 DEF KnownComplete, Forced
<1> QED
  BY <1>1, <1>2, <1>3

LEMMA KnownType ==
  ASSUME NEW D \in SUBSET {"check", "force"}
  PROVE  KnownComplete(D) \subseteq {"check", "force"}
  BY DEF KnownComplete

LEMMA HandledType ==
  ASSUME TypeOK, NEW again, Handled(again), UNCHANGED gameVars
  PROVE  faults' \in 0..MaxFaults[Game]'
<1>1. Game' = Game
  BY DEF Game
<1> QED
  BY <1>1, FaultType DEF Handled, TypeOK

LEMMA ResultArrivesInv ==
  ASSUME Inv, ~verdict.made, NEW u \in humans, ResultArrives(u)
  PROVE  Inv'
<1>0. /\ departing = None /\ u \in results /\ Submit(u)
      /\ \/ due' = KnownComplete(due \union {"check"})
         \/ due' = due
      /\ results' \subseteq results /\ Handled(u \in results')
      /\ UNCHANGED <<humans, ranked, sent, left, session, departures, desyncs, departing, departed,
                     desynced, verdict, rated, counted, tasks>>
  BY DEF ResultArrives, gameVars, relayVars, effects
<1>1. /\ Stays
      /\ report' \in [Users -> Claims[Game] \union {None}] /\ fresh' \in BOOLEAN
      /\ \A w \in humans : report[w] # None => report'[w] = report[w]
  BY <1>0, SubmitStays DEF Inv
<1>2. TypeOK'
  <2>1. due' \subseteq {"check", "force"}
    BY <1>0 DEF Inv, TypeOK, KnownComplete
  <2>2. faults' \in 0..MaxFaults[Game]'
    BY <1>0, HandledType DEF Inv, gameVars
  <2> QED
    BY <1>0, <1>1, <2>1, <2>2 DEF Inv, TypeOK, Game, gameVars
<1>3. Departing' /\ Ended'
  BY <1>0, <1>1 DEF Inv, Departing, Ended, TypeOK, Stays
<1>4. Forced'
  BY <1>0, <1>1, <1>3, SettledStays, KnownSettled DEF Inv, Forced
<1> QED
  BY <1>0, <1>1, <1>2, <1>3, <1>4, Pending DEF Inv

LEMMA DepartureArrivesInv ==
  ASSUME Inv, ~verdict.made, NEW u \in humans, DepartureArrives(u)
  PROVE  Inv'
<1>0. /\ departing = None /\ u \in departures /\ Submit(u) /\ departing' = u
      /\ due' = due \/ due' = due \union {"check"}
      /\ UNCHANGED <<humans, ranked, sent, left, session, results, departures, desyncs, departed,
                     desynced, verdict, rated, counted, tasks, faults>>
  BY DEF DepartureArrives, SubmitInline, gameVars, relayVars, noticeVars, effects
<1>1. /\ Stays
      /\ report' \in [Users -> Claims[Game] \union {None}] /\ fresh' \in BOOLEAN
      /\ sent[u] = None \/ report'[u] # None
  BY <1>0, SubmitStays DEF Inv
<1>2. TypeOK'
  BY <1>0, <1>1 DEF Inv, TypeOK, Game, gameVars
<1>3. Departing' /\ Ended'
  BY <1>0, <1>1 DEF Inv, Departing, Ended, TypeOK, Stays
<1>4. Forced'
  BY <1>0, <1>1, SettledStays DEF Inv, Forced
<1> QED
  BY <1>0, <1>1, <1>2, <1>3, <1>4, Pending DEF Inv

LEMMA RecordDepartureInv ==
  ASSUME Inv, ~verdict.made, RecordDeparture
  PROVE  Inv'
<1>0. /\ departing # None /\ departed' = departed \union {departing} /\ departing' = None
      /\ due' = KnownComplete(due)
      /\ departures' \subseteq departures /\ Handled(departing \in departures')
      /\ UNCHANGED <<humans, ranked, sent, left, session, results, desyncs, report, desynced, verdict,
                     rated, counted, tasks, fresh>>
  BY DEF RecordDeparture, gameVars, relayVars, effects
<1>1. Stays
  BY <1>0, SameStays
<1>2. TypeOK'
  <2>1. due' \subseteq {"check", "force"}
    BY <1>0, KnownType DEF Inv, TypeOK
  <2>2. faults' \in 0..MaxFaults[Game]'
    BY <1>0, HandledType DEF Inv, gameVars
  <2> QED
    BY <1>0, <2>1, <2>2 DEF Inv, TypeOK, Game, gameVars
<1>3. Departing' /\ Ended'
  BY <1>0 DEF Inv, Departing, Ended, TypeOK
<1>4. Forced'
  BY <1>0, <1>1, <1>3, KnownSettled DEF Inv
<1> QED
  BY <1>0, <1>1, <1>2, <1>3, <1>4, Pending DEF Inv

LEMMA DesyncArrivesInv ==
  ASSUME Inv, ~verdict.made, NEW D \in desyncs, DesyncArrives(D)
  PROVE  Inv'
<1>0. /\ desynced' = desynced \union {D} /\ desyncs' \subseteq desyncs /\ Handled(D \in desyncs')
      /\ UNCHANGED <<humans, ranked, sent, left, session, results, departures, departing, report,
                     departed, verdict, rated, counted, due, tasks, fresh>>
  BY DEF DesyncArrives, gameVars, relayVars, effects
<1>1. Stays
  BY <1>0, SameStays
<1>2. TypeOK'
  <2>1. faults' \in 0..MaxFaults[Game]'
    BY <1>0, HandledType DEF Inv, gameVars
  <2> QED
    BY <1>0, <2>1 DEF Inv, TypeOK, Game, gameVars
<1>3. Departing' /\ Ended'
  BY <1>0 DEF Inv, Departing, Ended
<1>4. Forced'
  BY <1>0, <1>1, SettledStays DEF Inv, Forced
<1> QED
  BY <1>0, <1>1, <1>2, <1>3, <1>4, Pending DEF Inv

(* When the session has ended, everybody is out.                               *)
LEMMA EndedOut ==
  ASSUME Inv, session # "open", NEW u \in humans
  PROVE  Settled(u)
  BY DEF Inv, Ended, Settled, Out, MayArrive

LEMMA ClosedArrivesInv ==
  ASSUME Inv, ~verdict.made, ClosedArrives
  PROVE  Inv'
<1>0. /\ session = "closing" /\ session' \in {"closing", "closed"} /\ due' = due \union {"force"}
      /\ Handled(session' = "closing")
      /\ UNCHANGED <<humans, ranked, sent, left, results, departures, desyncs, departing, report,
                     departed, desynced, verdict, rated, counted, tasks, fresh>>
  BY DEF ClosedArrives, gameVars, noticeVars, dbVars, effects
<1>1. Stays
  BY <1>0, SameStays
<1>2. TypeOK'
  <2>1. faults' \in 0..MaxFaults[Game]'
    BY <1>0, HandledType DEF Inv, gameVars
  <2> QED
    BY <1>0, <2>1 DEF Inv, TypeOK, Game, gameVars
<1>3. Departing' /\ Ended'
  BY <1>0 DEF Inv, Departing, Ended
<1>4. Forced'
  BY <1>0, <1>1, EndedOut, SettledStays DEF Forced
<1> QED
  BY <1>0, <1>1, <1>2, <1>3, <1>4, Pending DEF Inv

-----------------------------------------------------------------------------
(* Reconciling.                                                             *)

(* What the gate lets pass has heard of everybody who counts.                  *)
LEMMA StartComplete ==
  ASSUME Inv, NEW d \in due, d = "force" \/ (d = "check" /\ Gate(Reported, desynced))
  PROVE  Complete(Reported, Diverged(desynced))
<1>1. CASE d = "force"
  BY <1>1 DEF Inv, Forced, Settled, Complete, Reported
<1>2. CASE d # "force"
  BY <1>2 DEF Complete, Reported, Gate
<1> QED
  BY <1>1, <1>2

LEMMA StartInv ==
  ASSUME Inv, NEW d \in due, Start(d)
  PROVE  Inv'
<1> DEFINE t0 == [heard |-> Reported, desyncs |-> desynced]
<1>0. /\ due' = due \ {d}
      /\ \/ tasks' = tasks
         \/ /\ tasks' = tasks \union {t0}
            /\ d = "force" \/ (d = "check" /\ Gate(Reported, desynced))
      /\ UNCHANGED <<humans, ranked, sent, left, session, results, departures, desyncs, departing, report,
                     departed, desynced, verdict, rated, counted, fresh, faults>>
  BY DEF Start, Inv, TypeOK, gameVars, relayVars, noticeVars, dbVars, effects
<1>1. t0 \in [heard : SUBSET humans, desyncs : SUBSET SUBSET humans]
  BY DEF Inv, TypeOK, Reported
<1>2. TypeOK'
  BY <1>0, <1>1 DEF Inv, TypeOK, Game, gameVars
<1>3. Departing' /\ Ended' /\ Forced'
  BY <1>0 DEF Inv, Departing, Ended, Forced, Settled, Out, MayArrive
<1>4. RatedOnce' /\ NobodyContradicts' /\ VerdictComplete'
  BY <1>0 DEF Inv, RatedOnce, NobodyContradicts, Counting, Mismatch, VerdictComplete, Complete, Out, MayArrive
<1>5. TasksComplete'
  <2>1. ASSUME NEW t \in tasks PROVE Complete(t.heard, Diverged(t.desyncs))'
    BY <1>0, SameStays, TasksStay DEF Inv
  <2>2. CASE tasks' = tasks
    BY <2>1, <2>2 DEF TasksComplete
  <2>3. CASE tasks' = tasks \union {t0} /\ (d = "force" \/ (d = "check" /\ Gate(Reported, desynced)))
    <3>1. Complete(Reported, Diverged(desynced))
      BY <2>3, StartComplete
    <3>2. PICK h : h = t0
      OBVIOUS
    <3>3. Complete(h.heard, Diverged(h.desyncs))
      BY <3>1, <3>2
    <3>4. Complete(h.heard, Diverged(h.desyncs))'
      BY <1>0, <3>3 DEF Complete, Out, MayArrive
    <3>5. tasks' = tasks \union {h}
      BY <2>3, <3>2
    <3> QED
      BY <2>1, <3>4, <3>5 DEF TasksComplete
  <2> QED
    BY <1>0, <2>2, <2>3
<1> QED
  BY <1>2, <1>3, <1>4, <1>5 DEF Inv

(* The first of the reconciliations that race makes the result, from reports that  *)
(* nobody has to add to and none of which contradicts it.                     *)
LEMMA CommitInv ==
  ASSUME Inv, NEW t \in tasks, Commit(t)
  PROVE  Inv'
<1> DEFINE o == Result(report, t.heard, humans, t.desyncs, departed)
           made(f) == [made |-> TRUE, disputed |-> o.disputed, final |-> f, wins |-> o.wins,
                       losses |-> o.losses, heard |-> t.heard, diverged |-> Diverged(t.desyncs)]
<1>0. /\ tasks' = tasks \ {t}
      /\ UNCHANGED <<humans, ranked, sent, left, session, results, departures, desyncs, departing, report,
                     departed, desynced, due, fresh, faults>>
  BY DEF Commit, gameVars, relayVars, noticeVars, dbVars, effects
<1>1. t.heard \in SUBSET humans /\ t.desyncs \in SUBSET SUBSET humans /\ humans \subseteq Users
  BY HumansType DEF Inv, TypeOK
<1>2. Departing' /\ Ended' /\ Forced'
  BY <1>0 DEF Inv, Departing, Ended, Forced, Settled, Out, MayArrive
<1>3. TasksComplete'
  <2>1. ASSUME NEW s \in tasks PROVE Complete(s.heard, Diverged(s.desyncs))'
    BY <1>0, SameStays, TasksStay DEF Inv
  <2> QED
    BY <1>0, <2>1 DEF TasksComplete
<1>4. CASE verdict.made
  <2>1. UNCHANGED <<verdict, rated, counted>>
    BY <1>4 DEF Commit, Locked, effects
  <2>2. TypeOK'
    BY <1>0, <2>1 DEF Inv, TypeOK, Game, gameVars
  <2>3. RatedOnce' /\ NobodyContradicts' /\ VerdictComplete'
    BY <1>0, <2>1 DEF Inv, RatedOnce, NobodyContradicts, Counting, Mismatch, VerdictComplete, Complete, Out, MayArrive
  <2> QED
    BY <1>2, <1>3, <2>2, <2>3 DEF Inv
<1>5. CASE ~verdict.made
  <2>1. PICK final \in BOOLEAN :
            /\ final => ranked /\ ~o.disputed
            /\ verdict' = made(final)
            /\ rated' = IF ranked /\ ~o.disputed /\ ~final THEN rated + 1 ELSE rated
            /\ counted' = IF ~o.disputed THEN counted + 1 ELSE counted
    BY <1>5 DEF Commit, CommitWrites, Locked
  <2>2. Sound(o, report, Counted(t.heard, t.desyncs), humans)
    BY <1>1, ResultSound
  <2>3. o.disputed \in BOOLEAN /\ o.wins \subseteq Users /\ o.losses \subseteq Users
    BY <1>1, ResultType
  <2> HIDE DEF o
  <2>4. TypeOK'
    <3>1. made(final) \in [made : BOOLEAN, disputed : BOOLEAN, final : BOOLEAN, wins : SUBSET Users,
                    losses : SUBSET Users, heard : SUBSET Users, diverged : SUBSET Users]
      BY <1>1, <2>3 DEF Diverged
    <3>2. rated' \in Nat /\ counted' \in Nat
      BY <2>1 DEF Inv, TypeOK
    <3> HIDE DEF made
    <3> QED
      BY <1>0, <2>1, <3>1, <3>2 DEF Inv, TypeOK, Game, gameVars
  <2>5. RatedOnce'
    BY <1>0, <1>5, <2>1 DEF Inv, RatedOnce
  <2>6. VerdictComplete'
    <3>1. Complete(t.heard, Diverged(t.desyncs))
      BY DEF Inv, TasksComplete
    <3> QED
      BY <1>0, <2>1, <3>1 DEF VerdictComplete, Complete, Out, MayArrive
  <2>7. NobodyContradicts'
    BY <1>0, <2>1, <2>2 DEF NobodyContradicts, Counting, Mismatch, Sound, Counted
  <2> QED
    BY <1>2, <1>3, <2>4, <2>5, <2>6, <2>7 DEF Inv
<1> QED
  BY <1>4, <1>5

(* A failed transaction leaves nothing behind.                                 *)
LEMMA CommitFailsInv ==
  ASSUME Inv, ~verdict.made, NEW t \in tasks, CommitFails(t)
  PROVE  Inv'
<1>0. /\ Fault /\ tasks' = tasks \ {t}
      /\ UNCHANGED <<humans, ranked, sent, left, session, results, departures, desyncs, departing, report,
                     departed, desynced, verdict, rated, counted, due, fresh>>
  BY DEF CommitFails, gameVars, relayVars, noticeVars, dbVars, effects
<1>1. TypeOK'
  BY <1>0, FaultType DEF Inv, TypeOK, Game, gameVars
<1>2. Stays
  BY <1>0, SameStays
<1>3. Departing' /\ Ended' /\ Forced'
  BY <1>0 DEF Inv, Departing, Ended, Forced, Settled, Out, MayArrive
<1> QED
  BY <1>0, <1>1, <1>2, <1>3, Pending DEF Inv

LEMMA GraceEndsInv ==
  ASSUME Inv, ~verdict.made, GraceEnds
  PROVE  Inv'
<1>0. /\ fresh' = FALSE
      /\ UNCHANGED <<humans, ranked, sent, left, session, results, departures, desyncs, departing, report,
                     departed, desynced, verdict, rated, counted, due, tasks, faults>>
  BY DEF GraceEnds, gameVars, relayVars, noticeVars, dbVars, effects
<1>1. TypeOK'
  BY <1>0 DEF Inv, TypeOK, Game, gameVars
<1>2. Stays
  BY <1>0, SameStays
<1>3. Departing' /\ Ended' /\ Forced'
  BY <1>0 DEF Inv, Departing, Ended, Forced, Settled, Out, MayArrive
<1> QED
  BY <1>0, <1>1, <1>2, <1>3, Pending DEF Inv

LEMMA SweepInv ==
  ASSUME Inv, ~verdict.made, Sweep
  PROVE  Inv'
<1>0. /\ \/ due' = due \union {"check"}
         \/ /\ due' = due \union {"force"}
            /\ Accounted(Reported, departed) \/ session # "open"
      /\ UNCHANGED <<humans, ranked, sent, left, session, results, departures, desyncs, departing, report,
                     departed, desynced, verdict, rated, counted, tasks, fresh, faults>>
  BY DEF Sweep, Probed, gameVars, relayVars, noticeVars, dbVars, effects
<1>1. TypeOK'
  BY <1>0 DEF Inv, TypeOK, Game, gameVars
<1>2. Stays
  BY <1>0, SameStays
<1>3. Departing' /\ Ended'
  BY <1>0 DEF Inv, Departing, Ended
<1>4. Forced'
  <2>1. ASSUME NEW u \in humans PROVE "force" \in due' => Settled(u)
    <3>1. CASE "force" \in due
      BY <3>1 DEF Inv, Forced
    <3>2. CASE Accounted(Reported, departed)
      BY <3>2 DEF Inv, Settled, Out, MayArrive, Departing, Accounted, Reported
    <3>3. CASE session # "open"
      BY <3>3, EndedOut
    <3> QED
      BY <1>0, <3>1, <3>2, <3>3
  <2> QED
    BY <1>0, <1>2, <2>1, SettledStays DEF Forced
<1> QED
  BY <1>0, <1>1, <1>2, <1>3, <1>4, Pending DEF Inv

(* A restart loses what was being handled, and no report.                      *)
LEMMA RestartInv ==
  ASSUME Inv, ~verdict.made, Restart
  PROVE  Inv'
<1>0. /\ Fault /\ departing' = None /\ due' = {} /\ tasks' = {}
      /\ UNCHANGED <<humans, ranked, sent, left, session, results, departures, desyncs, report, departed,
                     desynced, verdict, rated, counted, fresh>>
  BY DEF Restart, gameVars, relayVars, noticeVars, dbVars, effects
<1>1. TypeOK'
  BY <1>0, FaultType DEF Inv, TypeOK, Game, gameVars
<1>2. Stays
  BY <1>0, SameStays
<1>3. Departing' /\ Ended' /\ Forced'
  BY <1>0 DEF Inv, Departing, Ended, Forced
<1> QED
  BY <1>0, <1>1, <1>2, <1>3, Pending DEF Inv

-----------------------------------------------------------------------------
LEMMA NextInv == Inv /\ [Next]_vars => Inv'
<1> SUFFICES ASSUME Inv, [Next]_vars PROVE Inv'
  OBVIOUS
<1>1. CASE UNCHANGED vars
  <2>1. UNCHANGED <<humans, ranked, sent, left, session, results, departures, desyncs, departing, report,
                    departed, desynced, verdict, rated, counted, due, tasks, fresh, faults>>
    BY <1>1 DEF vars, gameVars, relayVars, noticeVars, dbVars, effects
  <2>2. TypeOK' /\ Departing' /\ Ended'
    BY <2>1 DEF Inv, TypeOK, Game, gameVars, Departing, Ended
  <2>3. Forced' /\ TasksComplete' /\ VerdictComplete'
    BY <2>1 DEF Inv, Forced, Settled, TasksComplete, VerdictComplete, Complete, Out, MayArrive
  <2>4. RatedOnce' /\ NobodyContradicts'
    BY <2>1 DEF Inv, RatedOnce, NobodyContradicts, Counting, Mismatch
  <2> QED
    BY <2>2, <2>3, <2>4 DEF Inv
<1>2. CASE ~verdict.made /\ PlayerStep
  BY <1>2, ReportInv, DepartInv DEF PlayerStep
<1>3. CASE ~verdict.made /\ Webhook
  BY <1>3, ResultArrivesInv, DepartureArrivesInv, DesyncArrivesInv, RecordDepartureInv, ClosedArrivesInv
     DEF Webhook
<1>4. ASSUME ~verdict.made, NEW D \in SUBSET humans, Desync(D) PROVE Inv'
  BY <1>4, DesyncInv
<1>5. CASE ~verdict.made /\ (CloseSession \/ GiveUp \/ Restart)
  BY <1>5, CloseSessionInv, GiveUpInv, RestartInv
<1>6. CASE ~verdict.made /\ (GraceEnds \/ Sweep)
  BY <1>6, GraceEndsInv, SweepInv
<1>7. ASSUME ~verdict.made, NEW t \in tasks, CommitFails(t) PROVE Inv'
  BY <1>7, CommitFailsInv
<1>8. CASE TaskStep
  BY <1>8, CommitInv DEF TaskStep
<1>9. ASSUME NEW d \in due, Start(d) PROVE Inv'
  BY <1>9, StartInv
<1> QED
  BY <1>1, <1>2, <1>3, <1>4, <1>5, <1>6, <1>7, <1>8, <1>9 DEF Next

(* The inductive invariant holds in every reachable state.                     *)
THEOREM Invariant == Spec => []Inv
<1>1. Init => Inv
  BY InitInv
<1>2. Inv /\ [Next]_vars => Inv'
  BY NextInv
<1> QED
  BY <1>1, <1>2, PTL DEF Spec

(* The variables have their types.                                          *)
THEOREM TypeCorrect == Spec => []TypeOK
<1>1. Inv => TypeOK
  BY DEF Inv
<1> QED
  BY <1>1, Invariant, PTL

(* Ratings change once, however many reconciliations race.                     *)
THEOREM RatesOnce == Spec => []RatedOnce
<1>1. Inv => RatedOnce
  BY DEF Inv
<1> QED
  BY <1>1, Invariant, PTL

(* There is no result while somebody plays whose report would count.             *)
THEOREM NobodyPlaysOn == Spec => []NobodyStillPlays
<1>1. Inv => NobodyStillPlays
  BY DEF Inv, VerdictComplete, NobodyStillPlays, Complete, Out
<1> QED
  BY <1>1, Invariant, PTL

(* Once there is a result, no report that would count is under way or unused.      *)
THEOREM NothingMissed == Spec => []NothingInFlight
<1>1. Inv => NothingInFlight
  BY DEF Inv, VerdictComplete, NothingInFlight, Complete, Out, MayArrive
<1> QED
  BY <1>1, Invariant, PTL

(* No report that counts speaks against a result that is not disputed.             *)
THEOREM NoContradiction == Spec => []NobodyContradicts
<1>1. Inv => NobodyContradicts
  BY DEF Inv
<1> QED
  BY <1>1, Invariant, PTL

=============================================================================
