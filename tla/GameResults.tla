---------------------------- MODULE GameResults -----------------------------
(***************************************************************************)
(* How one game gets its result: the coordinator's webhooks for results,       *)
(* departures, desyncs and the end of the session                            *)
(* (netcode-v2-game-event-service.ts), the rows they write (models/), and the   *)
(* reconciliations they, a timer and the sweep start                         *)
(* (game-result-service.ts, results.ts), in a server that may restart.          *)
(*                                                                         *)
(* The game has a netcode-v2 session and no computers, and is not UMS.  A      *)
(* report says of every player "v", "d" or "n": won, lost, or neither; and      *)
(* which race each of them played.                                          *)
(***************************************************************************)
EXTENDS Integers, FiniteSets

CONSTANTS
    Users,
    Games,        \* the games there may be: <<its humans, whether it is ranked>>
    Team,         \* Team[u]: the team of u
    Races,        \* what a report may say of the races the users played
    Claims,       \* what the clients of a game may report
    None,
    MaxTasks,     \* bound: reconciliations that run at the same time
    MaxFaults,    \* bound: restarts, and notices lost or delivered again
    MaxDesyncs    \* bound: desyncs

ASSUME GamesAssumption == Games \subseteq (SUBSET Users) \X BOOLEAN
ASSUME ClaimsAssumption ==
    /\ Claims \in [Games -> SUBSET [says : [Users -> {"v", "d", "n"}], races : Races]]
    /\ None \notin [says : [Users -> {"v", "d", "n"}], races : Races]
ASSUME UsersAssumption == IsFiniteSet(Users) /\ None \notin Users
ASSUME BoundsAssumption ==
    MaxTasks \in Nat \ {0} /\ MaxFaults \in [Games -> Nat] /\ MaxDesyncs \in [Games -> Nat]

VARIABLES
    humans,     \* the humans of the game
    ranked,     \* TRUE for matchmaking
    sent,       \* sent[u]: what the client of u reported to the relay, or None
    left,       \* humans whose connection the relay has closed
    session,    \* "open", "closing": the closed notice is under way, "closed"
    results,    \* humans whose result notice is under way
    departures, \* humans whose departure notice, with their result, is under way
    desyncs,    \* desync notices under way, each the set of those who diverged
    departing,  \* whose departure is being handled, or None
    report,     \* report[u]: games_users.reported_results, or None
    departed,   \* humans with a departure_kind
    desynced,   \* game_desync_events; {} is one that names no majority
    verdict,    \* games.results with what it was made from, or NoVerdict
    rated,      \* how often ratings were changed for the game
    counted,    \* how often its wins and losses were added to the players' counts
    due,        \* reconciliations about to start: "check", or "force"
    tasks,      \* reconciliations under way
    fresh,      \* the newest report is younger than DESYNC_VERDICT_GRACE_MS
    faults

gameVars == <<humans, ranked>>
Game == gameVars
relayVars == <<sent, left, session>>
noticeVars == <<results, departures, desyncs>>
dbVars == <<report, departed, desynced>>
effects == <<rated, counted>>
vars == <<gameVars, relayVars, noticeVars, departing, dbVars, verdict, effects, due, tasks,
          fresh, faults>>

NoReports == [u \in Users |-> None]
NoVerdict == [made |-> FALSE, disputed |-> FALSE, final |-> FALSE, wins |-> {}, losses |-> {},
              heard |-> {}, diverged |-> {}]

-----------------------------------------------------------------------------
(* results.ts: what the reports c of the users in R make of a game of H.       *)

Count(c, R, u, what) == Cardinality({r \in R : c[r].says[u] = what})

(* Mutant of Conflicting: a majority settles it.                            *)
ConflictingTie(c, R, u) == Count(c, R, u, "v") = Count(c, R, u, "d")

Conflicting(c, R, u) ==
    (Count(c, R, u, "v") > 0) <=> (Count(c, R, u, "d") > 0)

Verdict(disputed, wins, losses) == [disputed |-> disputed, wins |-> wins, losses |-> losses]

(* Some player is said to have played different races.                       *)
Mismatch(c, R) == \E r, q \in R : c[r].races # c[q].races

(* Only a single team may win, where there are teams: getValidationTeams has     *)
(* none for lobbies, whose alliances are not locked.                         *)
Contested(wins) == ranked /\ Cardinality({Team[u] : u \in wins}) > 1

(* reconcileResults, which is never called without reports.                  *)
Reconcile(c, R, H) ==
    LET wins   == {u \in H : Count(c, R, u, "v") > Count(c, R, u, "d")}
        losses == {u \in H : Count(c, R, u, "v") < Count(c, R, u, "d")}
        void   == wins = {} \/ Contested(wins)
        known  == wins \union losses = H /\ ~void
    IN  Verdict(void \/ Mismatch(c, R) \/ \E u \in H : Conflicting(c, R, u),
                IF known THEN wins ELSE {}, IF known THEN losses ELSE {})

Void == Verdict(TRUE, {}, {})
ReconcileAny(c, R, H) == IF R = {} THEN Void ELSE Reconcile(c, R, H)

Disputed(v) == Verdict(TRUE, v.wins, v.losses)
Diverged(D) == UNION D

(* applyDesyncPolicy for the desync events D.                                *)
Policy(c, R, H, D) ==
    IF D = {} THEN ReconcileAny(c, R, H)
    ELSE IF ~ranked THEN Disputed(ReconcileAny(c, R, H))
    ELSE IF {} \in D \/ H \subseteq Diverged(D) THEN Void
    ELSE ReconcileAny(c, R \ Diverged(D), H)

(* applyDepartureConcessionTiebreak: only r reported, a victory, and l is gone. *)
Concedes(c, R, H, D, gone, r, l) ==
    /\ D = {} /\ H = {r, l} /\ r # l /\ R = {r}
    /\ l \in gone /\ c[r].says[r] = "v" /\ c[r].says[l] # "v"

(* The result of a game of H.                                               *)
Result(c, R, H, D, gone) ==
    LET policy == Policy(c, R, H, D)
        open   == policy.disputed \/ policy.wins = {}
    IN  IF open /\ \E r, l \in H : Concedes(c, R, H, D, gone, r, l)
          THEN Verdict(FALSE, R, H \ R) ELSE policy

-----------------------------------------------------------------------------
(* The players and the coordinator.                                         *)

(* The client of u reports, once.                                           *)
Report(u, claim) ==
    /\ u \notin left /\ sent[u] = None
    /\ sent' = [sent EXCEPT ![u] = claim]
    /\ results' = results \union {u}
    /\ UNCHANGED <<gameVars, left, session, departures, desyncs, departing, dbVars, verdict,
                   effects, due, tasks, fresh, faults>>

(* The relay closes the connection of u; the notice carries its report.        *)
Depart(u) ==
    /\ u \notin left
    /\ left' = left \union {u}
    /\ departures' = departures \union {u}
    /\ UNCHANGED <<gameVars, sent, session, results, desyncs, departing, dbVars, verdict,
                   effects, due, tasks, fresh, faults>>

(* The relay sees a desync; D has diverged from a majority, or there is none.    *)
Desync(D) ==
    /\ left # humans /\ 2 * Cardinality(D) < Cardinality(humans)
    /\ Cardinality(desyncs \union desynced) < MaxDesyncs[Game] /\ D \notin desyncs \union desynced
    /\ desyncs' = desyncs \union {D}
    /\ UNCHANGED <<gameVars, relayVars, results, departures, departing, dbVars, verdict,
                   effects, due, tasks, fresh, faults>>

(* The session ends; its notice is sent when no other is under way any more.      *)
CloseSession ==
    /\ session = "open" /\ left = humans
    /\ results = {} /\ departures = {} /\ desyncs = {} /\ departing = None
    /\ session' = "closing"
    /\ UNCHANGED <<gameVars, sent, left, noticeVars, departing, dbVars, verdict, effects, due,
                   tasks, fresh, faults>>

Fault == faults < MaxFaults[Game] /\ faults' = faults + 1

(* The coordinator gives up on a notice.                                     *)
GiveUp ==
    /\ departing = None /\ Fault
    /\ \/ \E u \in results : results' = results \ {u} /\ UNCHANGED <<departures, desyncs, session>>
       \/ \E u \in departures :
              departures' = departures \ {u} /\ UNCHANGED <<results, desyncs, session>>
       \/ \E D \in desyncs : desyncs' = desyncs \ {D} /\ UNCHANGED <<results, departures, session>>
       \/ session = "closing" /\ session' = "closed" /\ UNCHANGED noticeVars
    /\ UNCHANGED <<gameVars, sent, left, departing, dbVars, verdict, effects, due, tasks,
                   fresh>>

-----------------------------------------------------------------------------
(* The webhooks.  They are delivered one after the other; a notice whose         *)
(* response is lost, or that a restart interrupts, is delivered again.           *)

(* submitGameResults: the first report of u wins, and is checked.              *)
Submit(u) ==
    IF sent[u] # None /\ report[u] = None
      THEN /\ report' = [report EXCEPT ![u] = sent[u]]
           /\ fresh' = TRUE
      ELSE UNCHANGED <<report, fresh>>

(* areAllHumansAccountedFor.                                                *)
Accounted(reported, gone) == humans \subseteq reported \union gone

Reported == {u \in humans : report[u] # None}

(* What a handler ends with, maybeScheduleKnownCompleteReconcile: the            *)
(* reconciliations D are about to start already.                             *)
KnownComplete(D) ==
    IF ~verdict.made /\ Accounted({u \in humans : report'[u] # None}, departed')
      THEN D \union {"force"} ELSE D

(* A notice that was handled is delivered again if it is still under way.        *)
Handled(again) == IF again THEN Fault ELSE UNCHANGED faults

ResultArrives(u) ==
    /\ departing = None /\ u \in results
    /\ Submit(u)
    /\ UNCHANGED departed
    /\ due' = IF report[u] = None THEN KnownComplete(due \union {"check"}) ELSE due
    /\ results' \in {results, results \ {u}} /\ Handled(u \in results')
    /\ UNCHANGED <<gameVars, relayVars, departures, desyncs, departing, desynced, verdict,
                   effects, tasks>>

(* Mutant of SubmitInline: the departure is recorded before its result.         *)
SubmitInlineNot(u) == UNCHANGED <<report, fresh>>

SubmitInline(u) == Submit(u)

DepartureArrives(u) ==
    /\ departing = None /\ u \in departures
    /\ SubmitInline(u)
    /\ due' = IF report' = report THEN due ELSE due \union {"check"}
    /\ departing' = u
    /\ UNCHANGED <<gameVars, relayVars, noticeVars, departed, desynced, verdict, effects,
                   tasks, faults>>

(* The rest of the handler: recordUserDeparture.                              *)
RecordDeparture ==
    /\ departing # None
    /\ departed' = departed \union {departing}
    /\ UNCHANGED report
    /\ due' = KnownComplete(due)
    /\ departures' \in {departures, departures \ {departing}}
    /\ Handled(departing \in departures')
    /\ departing' = None
    /\ UNCHANGED <<gameVars, relayVars, results, desyncs, desynced, verdict, effects, tasks,
                   fresh>>

DesyncArrives(D) ==
    /\ departing = None /\ D \in desyncs
    /\ desynced' = desynced \union {D}
    /\ desyncs' \in {desyncs, desyncs \ {D}} /\ Handled(D \in desyncs')
    /\ UNCHANGED <<gameVars, relayVars, results, departures, departing, report, departed,
                   verdict, effects, due, tasks, fresh>>

ClosedArrives ==
    /\ session = "closing"
    /\ due' = due \union {"force"}
    /\ session' \in {"closing", "closed"} /\ Handled(session' = "closing")
    /\ UNCHANGED <<gameVars, sent, left, noticeVars, departing, dbVars, verdict, effects, tasks,
                   fresh>>

-----------------------------------------------------------------------------
(* Reconciling.                                                             *)

(* Mutant of Gate: reports are counted.                                      *)
GateCount(R, D) == Cardinality(R) >= Cardinality(humans \ Diverged(D))

(* haveAllRequiredReportersReported.                                        *)
Gate(R, D) == humans \ Diverged(D) \subseteq R

(* The check waits for a verdict on a desync: scheduleDesyncGraceRecheck puts it   *)
(* off until the newest report is old enough.                                 *)
Waits(d) == d = "check" /\ ranked /\ {} \notin desynced /\ fresh

(* maybeReconcileResults up to its decision.  It reads the reports and then the   *)
(* desync events; both only grow, and here they are read together.  Only a       *)
(* submission comes with a game that was read before it had a result.           *)
Start(d) ==
    /\ d \in due
    /\ due' = due \ {d}
    /\ \/ verdict.made /\ UNCHANGED tasks
       \/ d = "check" /\ ~Gate(Reported, desynced) /\ UNCHANGED tasks
       \/ /\ verdict.made => d = "check"
          /\ d = "force" \/ Gate(Reported, desynced)
          /\ ~Waits(d)
          /\ Cardinality(tasks) < MaxTasks
          /\ tasks' = tasks \union {[heard |-> Reported, desyncs |-> desynced]}
    /\ UNCHANGED <<gameVars, relayVars, noticeVars, departing, dbVars, verdict, effects, fresh,
                   faults>>

(* Mutant of Locked: the result is not looked at again.                      *)
LockedNot == FALSE

(* lockGameAndCheckReconciled.                                              *)
Locked == verdict.made

(* The departures are read and the result is committed, in one transaction with  *)
(* the ratings, if the season is not final, and with the players' counts.        *)
CommitWrites(t) ==
    \E o \in {Result(report, t.heard, humans, t.desyncs, departed)}, final \in BOOLEAN :
        /\ final => ranked /\ ~o.disputed
        /\ verdict' = [made |-> TRUE, disputed |-> o.disputed, final |-> final,
                       wins |-> o.wins, losses |-> o.losses,
                       heard |-> t.heard, diverged |-> Diverged(t.desyncs)]
        /\ rated' = IF ranked /\ ~o.disputed /\ ~final THEN rated + 1 ELSE rated
        /\ counted' = IF ~o.disputed THEN counted + 1 ELSE counted

Commit(t) ==
    /\ tasks' = tasks \ {t}
    /\ IF Locked THEN UNCHANGED <<verdict, effects>> ELSE CommitWrites(t)
    /\ UNCHANGED <<gameVars, relayVars, noticeVars, departing, dbVars, due, fresh, faults>>

(* The transaction fails and is rolled back; whoever started it logs that.       *)
CommitFails(t) ==
    /\ Fault
    /\ tasks' = tasks \ {t}
    /\ UNCHANGED <<gameVars, relayVars, noticeVars, departing, dbVars, verdict, effects, due,
                   fresh>>

(* DESYNC_VERDICT_GRACE_MS after the newest report.                           *)
GraceEnds ==
    /\ fresh
    /\ fresh' = FALSE
    /\ UNCHANGED <<gameVars, relayVars, noticeVars, departing, dbVars, verdict, effects, due,
                   tasks, faults>>

(* Mutant of Probed: sessions are not probed.                                *)
ProbedNot == FALSE

(* The coordinator does not know the session any more.                        *)
Probed == session # "open"

(* The sweep, long after the last report: games that everybody reported, games   *)
(* that are known complete, and games whose session is gone.                    *)
Sweep ==
    /\ ~verdict.made /\ ~fresh
    /\ \/ Reported = humans /\ due' = due \union {"check"}
       \/ Accounted(Reported, departed) /\ due' = due \union {"force"}
       \/ Probed /\ due' = due \union {"force"}
    /\ UNCHANGED <<gameVars, relayVars, noticeVars, departing, dbVars, verdict, effects, tasks,
                   fresh, faults>>

Restart ==
    /\ Fault
    /\ departing' = None /\ due' = {} /\ tasks' = {}
    /\ UNCHANGED <<gameVars, relayVars, noticeVars, dbVars, verdict, effects, fresh>>

-----------------------------------------------------------------------------
Init ==
    /\ \E g \in Games : humans = g[1] /\ ranked = g[2]
    /\ sent = NoReports /\ left = {} /\ session = "open"
    /\ results = {} /\ departures = {} /\ desyncs = {}
    /\ departing = None
    /\ report = NoReports /\ departed = {} /\ desynced = {}
    /\ verdict = NoVerdict /\ rated = 0 /\ counted = 0
    /\ due = {} /\ tasks = {} /\ fresh = FALSE /\ faults = 0

PlayerStep == \E u \in humans : Depart(u) \/ \E claim \in Claims[Game] : Report(u, claim)

Webhook ==
    \/ \E u \in humans : ResultArrives(u) \/ DepartureArrives(u)
    \/ \E D \in desyncs : DesyncArrives(D)
    \/ RecordDeparture \/ ClosedArrives

TaskStep == \E t \in tasks : Commit(t)

(* Bound: once there is a result, only reconciliations are followed.           *)
Next ==
    \/ /\ ~verdict.made
       /\ \/ PlayerStep \/ Webhook
          \/ \E D \in SUBSET humans : Desync(D)
          \/ CloseSession \/ GiveUp \/ Restart \/ \E t \in tasks : CommitFails(t)
          \/ GraceEnds \/ Sweep
    \/ TaskStep \/ \E d \in due : Start(d)

Spec == Init /\ [][Next]_vars

(* What was started goes on, time passes, and the sweep runs every 15 minutes.   *)
FairSpec ==
    /\ Spec
    /\ WF_vars(TaskStep) /\ WF_vars(\E d \in due : Start(d))
    /\ WF_vars(GraceEnds \/ Sweep)

-----------------------------------------------------------------------------
TypeOK ==
    /\ Game \in Games
    /\ sent \in [Users -> Claims[Game] \union {None}]
    /\ report \in [Users -> Claims[Game] \union {None}]
    /\ left \subseteq humans /\ departed \subseteq humans
    /\ results \subseteq humans /\ departures \subseteq humans
    /\ session \in {"open", "closing", "closed"}
    /\ desyncs \subseteq SUBSET humans /\ desynced \subseteq SUBSET humans
    /\ departing \in humans \union {None}
    /\ verdict \in [made : BOOLEAN, disputed : BOOLEAN, final : BOOLEAN, wins : SUBSET Users,
                    losses : SUBSET Users, heard : SUBSET Users, diverged : SUBSET Users]
    /\ rated \in Nat /\ counted \in Nat /\ faults \in 0..MaxFaults[Game]
    /\ due \subseteq {"check", "force"}
    /\ tasks \subseteq [heard : SUBSET humans, desyncs : SUBSET SUBSET humans]
    /\ fresh \in BOOLEAN

(* However many reconciliations race or fail, wins and losses are counted once,   *)
(* and only for a result that nobody disputes; ratings change once, and only for  *)
(* one of a ranked game whose season is not final.                           *)
RatedOnce ==
    /\ counted = IF verdict.made /\ ~verdict.disputed THEN 1 ELSE 0
    /\ rated = IF ranked /\ ~verdict.final THEN counted ELSE 0

(* There is no result while somebody plays whose report would count.          *)
NobodyStillPlays ==
    verdict.made => \A u \in humans : \/ u \in verdict.heard
                                      \/ u \in verdict.diverged
                                      \/ u \in left

(* The report of u may still arrive.                                        *)
MayArrive(u) ==
    sent[u] # None /\ report[u] = None /\ (u \in results \union departures \/ u \notin left)

(* Once there is a result, no report that would have counted is under way, or    *)
(* was recorded but not used.                                               *)
NothingInFlight ==
    verdict.made => \A u \in humans \ verdict.diverged :
        ~MayArrive(u) /\ (report[u] # None => u \in verdict.heard)

(* The reports the result was made from.                                    *)
Counting == verdict.heard \ (IF ranked THEN verdict.diverged ELSE {})

(* A result that is not disputed has winners, of one team if the game is ranked,  *)
(* and leaves nobody out; no report it was made from says otherwise, and these    *)
(* agree about the races.                                                   *)
NobodyContradicts ==
    verdict.made /\ ~verdict.disputed =>
        /\ verdict.wins \union verdict.losses = humans /\ verdict.wins # {}
        /\ ranked => Cardinality({Team[u] : u \in verdict.wins}) = 1
        /\ \A r \in Counting :
              /\ \A u \in verdict.wins : report[r].says[u] # "d"
              /\ \A u \in verdict.losses : report[r].says[u] # "v"
        /\ ~Mismatch(report, Counting)

(* A game that is over gets a result, whatever was lost and however often the     *)
(* server restarted: when its session has ended, and when it is known complete.   *)
ResultsComeIn == (session # "open" \/ Accounted(Reported, departed)) ~> verdict.made

=============================================================================
