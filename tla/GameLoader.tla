----------------------------- MODULE GameLoader -----------------------------
(***************************************************************************)
(* Loading a game: GameLoader in server/lib/games/game-loader.ts, with what  *)
(* its callers (a lobby or a match) do to the activity registry and to the   *)
(* signal they pass, and with the clients that report their status.          *)
(*                                                                         *)
(* Every await of doGameLoad is a phase; the code between two awaits is one  *)
(* action, including the cancellation its error return causes.              *)
(***************************************************************************)
EXTENDS Integers, Sequences, FiniteSets, Functions

CONSTANTS
    Players,
    Games,
    MaxConns,      \* bound: clients one user connects in a behaviour
    Lobbies,       \* the games loaded for lobbies; the others are for matches
    QuickLookups   \* TRUE if the database answers before the load times out

ASSUME PlayersAssumption == IsFiniteSet(Players)
ASSUME FlagsAssumption ==
    MaxConns \in Nat \ {0} /\ Lobbies \subseteq Games /\ QuickLookups \in BOOLEAN

NoClient == 0

VARIABLES
    client,     \* client[p]: the connected client of p, as a number, or NoClient
    conns,      \* conns[p]: how many clients p has connected
    active,     \* GameplayActivityRegistry.userClients
    roster,     \* roster[g]: the players of the request
    phase,      \* phase[g]: the await at which doGameLoad is
    clients,    \* clients[g]: the clients doGameLoad collected
    loading,    \* the keys of loadingGames
    recent,     \* recentlyLoadedGames
    finished,   \* finished[g]: finishedPlayers
    outcome,    \* outcome[g]: what the promise of loadGame is resolved to
    signal,     \* the games whose caller has aborted the signal it passed
    quit,       \* <<g, p>>: p left the lobby or match of g while g was loading
    own,        \* the games whose own abortController is aborted
    subs,       \* <<g, p, c>>: client c of p is subscribed to gameUserPath(g, p)
    got,        \* got[g][p]: what the present client of p was sent about g
    records,    \* the games with database records
    configured  \* the games whose final config is in the database

clientVars == <<client, conns>>
loadVars   == <<loading, recent, finished, outcome>>
dbVars     == <<records, configured>>
callerVars == <<signal, quit>>
vars == <<clientVars, active, roster, phase, clients, loadVars, callerVars, own, subs,
          got, dbVars>>

Codes == {"canceled", "internal", "player", "timeout"}
Unset   == [code |-> "none", blamed |-> {}]
Pending == [code |-> "pending", blamed |-> {}]
Loaded  == [code |-> "loaded", blamed |-> {}]
Error(code, blamed) == [code |-> code, blamed |-> blamed]

Heard(g, p) == Range(got[g][p])

Nobody == [p \in Players |-> NoClient]
Aborted(g) == g \in signal \union own
Multi(g) == Cardinality(roster[g]) > 1

-----------------------------------------------------------------------------
(* got after message m was published to the players of S on the paths of g.   *)
Publish(sent, g, S, m) ==
    [sent EXCEPT ![g] =
        [p \in Players |-> IF p \in S THEN Append(sent[g][p], m) ELSE sent[g][p]]]

Subscribers(s, g) == {p \in Players : \E c \in 1..MaxConns : <<g, p, c>> \in s}

(* Mutant of Unsubscribed: the subscriptions stay.                          *)
UnsubscribedNot(s, G) == s

(* Mutant of Hit: a load that is over is cancelled again.                   *)
HitAlways(G) == G

(* The games of G that are there to be cancelled.                           *)
Hit(G) == G \intersect loading

(* The subscriptions s once those of the games of G are dropped, for every    *)
(* user whose client the registry still knows.                              *)
Unsubscribed(s, G) == {t \in s : ~(t[1] \in G /\ t[3] = active[t[2]])}

(* maybeCancelLoadingFromSystem for every game of G, with the error why[g]:   *)
(* a no-op for games that are not loading.  s are the subscriptions, told     *)
(* those of them that exist when the cancellation is published: unsubscribing *)
(* is a microtask and comes after the caller's own code.  sent is got before  *)
(* the message.  Deleting the records ends later; a failure is only logged.   *)
CancelAll(s, told, sent, G, why) ==
    LET hit == Hit(G) IN
    /\ outcome' = [g \in Games |-> IF g \in hit THEN why[g] ELSE outcome[g]]
    /\ loading' = loading \ hit
    /\ own' = own \union hit
    /\ subs' = Unsubscribed(s, hit)
    /\ got' = [g \in Games |-> IF g \in hit THEN Publish(sent, g, Subscribers(told, g), "cancel")[g]
                                            ELSE sent[g]]
    /\ records' = records \ hit /\ configured' = configured \ hit
    /\ UNCHANGED <<recent, finished>>

CancelWith(s, g, why) == CancelAll(s, s, got, {g}, [h \in Games |-> why])
Cancel(g, why) == CancelWith(subs, g, why)

-----------------------------------------------------------------------------
(* The callers and the clients.                                             *)

Connect(p) ==
    /\ client[p] = NoClient /\ conns[p] < MaxConns
    /\ client' = [client EXCEPT ![p] = conns[p] + 1]
    /\ conns' = [conns EXCEPT ![p] = @ + 1]
    /\ UNCHANGED <<active, roster, phase, clients, loadVars, callerVars, own, subs, got, dbVars>>

(* p joins a lobby or a match queue.                                        *)
Join(p) ==
    /\ client[p] # NoClient /\ active[p] = NoClient
    /\ active' = [active EXCEPT ![p] = client[p]]
    /\ UNCHANGED <<clientVars, roster, phase, clients, loadVars, callerVars, own, subs,
                   got, dbVars>>

LoadsOf(p) == {g \in Games : outcome[g] = Pending /\ p \in roster[g]}

(* The callers lose p: a lobby aborts the signal of its load, a match passes   *)
(* none and lets the load go on.                                            *)
Quits(p) ==
    /\ active' = [active EXCEPT ![p] = NoClient]
    /\ signal' = signal \union (LoadsOf(p) \intersect Lobbies)
    /\ quit' = quit \union (LoadsOf(p) \X {p})

(* p leaves the lobby or match, or is taken out of it once the load is over.  *)
Leave(p) ==
    /\ active[p] # NoClient
    /\ Quits(p)
    /\ UNCHANGED <<clientVars, roster, phase, clients, loadVars, own, subs, got, dbVars>>

(* The client of p is gone: the cleanups of its subscriptions run, the       *)
(* loader's and the caller's.                                               *)
Disconnect(p) ==
    LET G    == {g \in Games : <<g, p, client[p]>> \in subs}
        rest == {t \in subs : t[2] # p}
        sent == [g \in Games |-> [got[g] EXCEPT ![p] = <<>>]]
    IN  /\ client[p] # NoClient
        /\ client' = [client EXCEPT ![p] = NoClient]
        /\ Quits(p)
        /\ CancelAll(rest, rest, sent, G, [g \in Games |-> Error("player", {p})])
        /\ UNCHANGED <<conns, roster, phase, clients>>

(* loadGame(): everybody in the request is active.  A load that is pending    *)
(* and has one of them in it is over for its caller, or for that player.     *)
LoadGame(g, R) ==
    /\ outcome[g] = Unset
    /\ R # {} /\ \A p \in R : active[p] # NoClient
                 /\ \A h \in LoadsOf(p) : h \in signal \/ <<h, p>> \in quit
    /\ outcome' = [outcome EXCEPT ![g] = Pending]
    /\ roster' = [roster EXCEPT ![g] = R]
    /\ phase' = [phase EXCEPT ![g] = "register"]
    /\ UNCHANGED <<clientVars, active, clients, loading, recent, finished, callerVars, own,
                   subs, got, dbVars>>

-----------------------------------------------------------------------------
(* doGameLoad.                                                              *)

gameOnlyUnchanged == UNCHANGED <<clientVars, active, roster, callerVars>>

Move(g, to) == phase' = [phase EXCEPT ![g] = to]

Fails(g, why) == Cancel(g, why) /\ Move(g, "done") /\ UNCHANGED clients

(* The players without a client in the activity registry.                   *)
Absent(g) == {p \in roster[g] : active[p] = NoClient}

(* registerGame() failed, or the game is registered: the load is known from   *)
(* now on, its deadline runs, and every player must have an active client.    *)
Registered(g) ==
    /\ phase[g] = "register"
    /\ \/ /\ outcome' = [outcome EXCEPT ![g] = Error("internal", {})]
          /\ Move(g, "done")
          /\ UNCHANGED <<clients, loading, own, subs, got, records>>
       \/ /\ Absent(g) = {}
          /\ loading' = loading \union {g}
          /\ records' = records \union {g}
          /\ clients' = [clients EXCEPT ![g] = active]
          /\ Move(g, "users")
          /\ UNCHANGED <<outcome, own, subs, got>>
       \/ \E p \in Absent(g) :
             /\ outcome' = [outcome EXCEPT ![g] = Error("player", {p})]
             /\ own' = own \union {g}
             /\ Move(g, "done")
             /\ UNCHANGED <<clients, loading, subs, got, records>>
    /\ UNCHANGED <<recent, finished, configured>>
    /\ gameOnlyUnchanged

(* The users are found: their clients subscribe.  A client that has closed    *)
(* meanwhile runs its cleanup at once, and the code goes on.                 *)
UsersFound(g) ==
    LET live == {<<g, p, clients[g][p]>> : p \in {q \in roster[g] : clients[g][q] = client[q]}}
        gone == {p \in roster[g] : clients[g][p] # client[p]}
        all  == subs \union live
    IN  /\ phase[g] = "users"
        /\ \/ Fails(g, Error("internal", {}))
           \/ /\ gone = {}
              /\ Move(g, "config")
              /\ subs' = all
              /\ UNCHANGED <<clients, loadVars, own, got, dbVars>>
           \/ /\ gone = {} /\ Multi(g)           \* no netcode v2 on this server
              /\ CancelWith(all, g, Error("internal", {}))
              /\ Move(g, "done")
              /\ UNCHANGED clients
           \/ /\ \E p \in gone, told \in SUBSET live :
                    CancelAll(all, told, got, {g}, [h \in Games |-> Error("player", {p})])
              /\ phase' \in {[phase EXCEPT ![g] = to] : to \in {"config", "done"}}
              /\ UNCHANGED clients
        /\ gameOnlyUnchanged

ConfigWritten(g) ==
    /\ phase[g] = "config"
    /\ \/ Fails(g, Error("internal", {}))
       \/ /\ configured' = configured \union ({g} \intersect records)
          /\ Move(g, "map")
          /\ UNCHANGED <<clients, loadVars, own, subs, got, records>>
    /\ gameOnlyUnchanged

MapFound(g) ==
    /\ phase[g] = "map"
    /\ \/ Fails(g, Error("internal", {}))
       \/ Aborted(g) /\ Fails(g, Error("canceled", {}))
       \/ /\ ~Aborted(g)
          /\ Move(g, "restrict")
          /\ UNCHANGED <<clients, loadVars, own, subs, got, dbVars>>
    /\ gameOnlyUnchanged

(* The end of doGameLoad.                                                   *)
FinalCheck(g, sent) ==
    IF Aborted(g) THEN CancelAll(subs, subs, sent, {g}, [h \in Games |-> Error("canceled", {})])
    ELSE got' = sent /\ UNCHANGED <<loadVars, own, subs, dbVars>>

(* The chat restrictions are known, or their lookup failed, which is only     *)
(* logged: everybody is sent the game's setup.                              *)
Configure(g) ==
    LET sent == Publish(got, g, Subscribers(subs, g), "config") IN
    /\ phase[g] = "restrict"
    /\ \/ /\ Multi(g)
          /\ got' = sent
          /\ Move(g, "session")
          /\ UNCHANGED <<loadVars, own, subs, dbVars>>
       \/ ~Multi(g) /\ FinalCheck(g, sent) /\ Move(g, "done")
    /\ UNCHANGED clients
    /\ gameOnlyUnchanged

(* The coordinator answers with a session, or not; an aborted signal ends the *)
(* wait for it.                                                             *)
SessionCreated(g) ==
    /\ phase[g] = "session"
    /\ \/ Fails(g, Error("internal", {}))
       \/ /\ ~Aborted(g)
          /\ Move(g, "store")
          /\ UNCHANGED <<clients, loadVars, own, subs, got, dbVars>>
    /\ gameOnlyUnchanged

(* The session is stored, whatever became of the load in the meantime.       *)
SessionStored(g) ==
    /\ phase[g] = "store"
    /\ \/ Fails(g, Error("internal", {}))     \* a token is missing
       \/ /\ FinalCheck(g, Publish(got, g, Subscribers(subs, g), "setup"))
          /\ Move(g, "done")
          /\ UNCHANGED clients
    /\ gameOnlyUnchanged

-----------------------------------------------------------------------------
(* Reports of the clients, and the deadline.                                *)

(* Mutant of AllFinished: one player is enough.                             *)
AnyFinished(g, done) == done # {}

AllFinished(g, done) == roster[g] \subseteq done

Ready(g, p) ==
    "config" \in Heard(g, p) /\ (Multi(g) => "setup" \in Heard(g, p))

(* registerGameAsLoaded().                                                  *)
Report(g, p) ==
    LET done == finished[g] \union {p} IN
    /\ g \in loading /\ p \in roster[g] /\ Ready(g, p)
    /\ finished' = [finished EXCEPT ![g] = done]
    /\ \/ /\ AllFinished(g, done)
          /\ subs' = Unsubscribed(subs, {g})
          /\ recent' = recent \union {g}
          /\ loading' = loading \ {g}
          /\ outcome' = [outcome EXCEPT ![g] = Loaded]
       \/ ~AllFinished(g, done) /\ UNCHANGED <<subs, recent, loading, outcome>>
    /\ UNCHANGED <<clientVars, active, roster, phase, clients, callerVars, own, got, dbVars>>

RecentExpires(g) ==
    /\ g \in recent
    /\ recent' = recent \ {g}
    /\ UNCHANGED <<clientVars, active, roster, phase, clients, loading, finished, outcome,
                   callerVars, own, subs, got, dbVars>>

(* maybeCancelLoading(): the game of p did not start.                       *)
ReportError(g, p) ==
    /\ g \in loading /\ p \in roster[g]
    /\ "config" \in Heard(g, p)
    /\ Cancel(g, Error("player", {p}))
    /\ UNCHANGED <<clientVars, active, roster, phase, clients, callerVars>>

(* Whom a timeout blames: who has not reported, if about half did.           *)
Unloaded(g) ==
    IF Cardinality(finished[g]) >= Cardinality(roster[g]) \div 2
      THEN roster[g] \ finished[g] ELSE {}

(* Mutant of DeadlineRuns: the first report settles the deadline.            *)
DeadlineRunsUntilReport(g) == g \in loading /\ finished[g] = {}

DeadlineRuns(g) == g \in loading

Deadline(g) ==
    /\ DeadlineRuns(g)
    /\ QuickLookups => phase[g] \in {"session", "store", "done"}
    /\ Cancel(g, Error("timeout", Unloaded(g)))
    /\ UNCHANGED <<clientVars, active, roster, phase, clients, callerVars>>

-----------------------------------------------------------------------------
Init ==
    /\ client = [p \in Players |-> 1] /\ conns = [p \in Players |-> 1]
    /\ active = Nobody
    /\ roster = [g \in Games |-> {}]
    /\ phase = [g \in Games |-> "idle"]
    /\ clients = [g \in Games |-> Nobody]
    /\ loading = {} /\ recent = {}
    /\ finished = [g \in Games |-> {}]
    /\ outcome = [g \in Games |-> Unset]
    /\ signal = {} /\ quit = {} /\ own = {} /\ subs = {}
    /\ got = [g \in Games |-> [p \in Players |-> <<>>]]
    /\ records = {} /\ configured = {}

ClientStep(p) == Connect(p) \/ Join(p) \/ Leave(p) \/ Disconnect(p)

LoadStep(g) ==
    \/ Registered(g) \/ UsersFound(g) \/ ConfigWritten(g) \/ MapFound(g)
    \/ Configure(g) \/ SessionCreated(g) \/ SessionStored(g)

Next ==
    \/ \E p \in Players : ClientStep(p)
    \/ \E g \in Games : \/ \E R \in SUBSET Players : LoadGame(g, R)
                        \/ LoadStep(g)
                        \/ \E p \in Players : Report(g, p) \/ ReportError(g, p)
                        \/ Deadline(g) \/ RecentExpires(g)

Spec == Init /\ [][Next]_vars

(* Database calls, the coordinator and the timer come to an end.            *)
FairSpec ==
    /\ Spec
    /\ \A g \in Games : WF_vars(LoadStep(g)) /\ WF_vars(Deadline(g))

-----------------------------------------------------------------------------
Messages == {"config", "setup", "cancel"}

Outcomes == [code : {"none", "pending", "loaded"} \union Codes, blamed : SUBSET Players]

Phases == {"idle", "register", "users", "config", "map", "restrict", "session",
           "store", "done"}

TypeOK ==
    /\ client \in [Players -> 0..MaxConns] /\ conns \in [Players -> 1..MaxConns]
    /\ active \in [Players -> 0..MaxConns]
    /\ roster \in [Games -> SUBSET Players]
    /\ phase \in [Games -> Phases]
    /\ clients \in [Games -> [Players -> 0..MaxConns]]
    /\ loading \subseteq Games /\ recent \subseteq Games
    /\ finished \in [Games -> SUBSET Players] /\ outcome \in [Games -> Outcomes]
    /\ \A g \in Games : finished[g] \subseteq roster[g] /\ outcome[g].blamed \subseteq roster[g]
    /\ signal \subseteq Lobbies /\ quit \subseteq Games \X Players /\ own \subseteq Games
    /\ subs \subseteq Games \X Players \X (1..MaxConns)
    /\ got \in [Games -> [Players -> Seq(Messages)]]
    /\ records \subseteq Games /\ configured \subseteq Games

(* A game counts as loaded only if every player reported so, was not told of  *)
(* a cancellation, and its records and final config are in the database,      *)
(* where the results of the game will be looked up.                          *)
LoadedByAll ==
    \A g \in Games : outcome[g] = Loaded =>
        /\ finished[g] = roster[g]
        /\ g \in records \intersect configured
        /\ \A p \in roster[g] : "cancel" \notin Heard(g, p)

(* Once a load has failed, no client is left with the game started: whoever   *)
(* was sent the setup and did not walk out was sent the cancellation after it. *)
StartersAreTold ==
    \A g \in Games : outcome[g].code \in Codes =>
        \A p \in Players : got[g][p] # <<>> /\ <<g, p>> \notin quit
                             => got[g][p][Len(got[g][p])] = "cancel"

(* When a load is over, a client stays subscribed to its path only if its     *)
(* user walked out of the load.                                             *)
SubscriptionsEnd ==
    \A g \in Games : outcome[g] # Pending /\ phase[g] = "done" =>
        \A p \in Subscribers(subs, g) : <<g, p>> \in quit

(* What the callers see of outcome.                                         *)
Answer(g) == IF outcome[g].code \in Codes THEN "failed" ELSE outcome[g].code

Promise == INSTANCE LoadPromise
             WITH ready <- finished, answer <- [g \in Games |-> Answer(g)]

(* The loader keeps LoadPromise.                                            *)
KeepsLoadPromise == Promise!Spec

(* Every load request gets an answer.                                       *)
LoadsSettle == \A g \in Games : outcome[g] = Pending ~> outcome[g] # Pending

=============================================================================
