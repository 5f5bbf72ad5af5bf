---------------------------- MODULE Matchmaking ----------------------------
(***************************************************************************)
(* The Node half of matchmaking (MatchmakingService and Match in           *)
(* server/lib/matchmaking/matchmaking-service.ts), the activity registry    *)
(* and client socket groups it reads, the HTTP requests it exchanges with   *)
(* the Rust matchmaker, and the Redis events that come back.  The Rust      *)
(* queue appears here as the set of queued players; MatchmakerQueue models  *)
(* its inside.                                                              *)
(*                                                                         *)
(* Each Node action is one run of the event loop: the code between two      *)
(* awaits, with the promise continuations it settles.  What is awaited      *)
(* (a response, a timer, a database read, a game load) is an action of its  *)
(* own, so everything else may happen in between.                           *)
(***************************************************************************)
EXTENDS Integers, Sequences, FiniteSets

CONSTANTS
    Players,       \* users; each has at most one client connected at a time
    MatchSize,     \* players in a formed match (2 for the 1v1 modes)
    Slots,         \* bound: find() calls one user can have in flight
    MaxFinds,      \* bound: find() calls in a behaviour
    MaxConns,      \* bound: client groups one user connects in a behaviour
    MaxMatches,    \* bound: matches the Rust matchmaker forms
    MaxRestarts,   \* bound: restarts of server-rs
    MaxLosses,     \* bound: HTTP exchanges that end in ServiceUnavailable
    HasDraft,      \* TRUE for the team modes, which draft races before loading
    Prompt,        \* TRUE if HTTP and Redis are faster than people and timers:
                   \* nothing of a user's last search is in flight when the user
                   \* searches again, nobody cancels and no match times out or
                   \* loads before the find() calls of the players concerned
                   \* have returned, no watchdog interval passes before its
                   \* token GET is answered
    Waits,         \* TRUE if a user who left a match searches again only when
                   \* that match is over
    QuietRestart   \* TRUE if no restart of server-rs, and no restart that the
                   \* running watchdog has yet to notice, overlaps a find() call
                   \* that is past its lookups

ASSUME PlayersAssumption == IsFiniteSet(Players)
ASSUME BoundsAssumption ==
    /\ MatchSize \in Nat \ {0}
    /\ MaxFinds \in Nat /\ MaxConns \in Nat \ {0} /\ MaxMatches \in Nat
    /\ MaxRestarts \in Nat /\ MaxLosses \in Nat
    /\ {HasDraft, Prompt, Waits, QuietRestart} \subseteq BOOLEAN

Epochs   == 1..(MaxRestarts + 1)     \* process tokens, in order of issue
MatchIds == 1..MaxMatches
NoEntry   == -1                      \* queueEntries has no entry
Searching == 0                       \* an entry without a matchId
NoToken   == 0                       \* lastKnownProcessToken is undefined
NoTicket  == 0                       \* requeueTickets has no ticket
NoClient  == 0                       \* the registry has no client
PollIdle   == -2
PollSent   == -1
PollFailed == 0

VARIABLES
    up,         \* the users whose latest client group is connected
    gen,        \* gen[p]: number of p's latest client group
    subbed,     \* <<p, g>>: client group g of p holds the matchmaking path
    activity,   \* GameplayActivityRegistry.userClients
    entry,      \* queueEntries: NoEntry, Searching or a match id
    data,       \* the users in playerQueueData
    ticket,     \* requeueTickets, as the token of the process that issued them
    matches,    \* the matches map
    find,       \* find[p][k]: where the k-th find() call of p is
    requeues,   \* requeue POSTs whose response Node has not handled
    pending,    \* pendingRequeues: 0, or the match id of the latest requeue
    token,      \* lastKnownProcessToken
    watchdog,   \* processTokenWatchdog is set
    failures,   \* consecutiveTokenFailures
    poll,       \* the watchdog's token GET: PollIdle, PollSent, PollFailed or
                \* the token in the response
    wire,       \* wire[p]: requests about p sent to server-rs (they may overtake
                \* each other)
    rsQueue,    \* players in the Rust queue
    rsEpoch,    \* the running server-rs process
    events,     \* matchFound events not yet handled by Node
    formed,     \* matches formed so far
    finds,      \* find() calls so far
    losses      \* HTTP exchanges lost so far

clientVars == <<up, gen, subbed>>
queueVars  == <<entry, data, ticket, activity>>
reqVars    == <<requeues, pending>>
tokenVars  == <<token, watchdog, failures, poll>>
rsVars     == <<rsQueue, rsEpoch, events, formed>>
vars == <<clientVars, queueVars, matches, find, reqVars, tokenVars, wire,
          rsVars, finds, losses>>

FindIdle == [pc |-> "idle", conn |-> NoClient, tok |-> NoToken]
NoMatch  == [phase |-> "none", group |-> {}, accepted |-> {}, ban |-> {}]

Live(m)    == matches[m].phase # "none"

Requests == {[kind |-> "delete", id |-> 0]}
        \union {[kind |-> "post", id |-> k] : k \in Slots}
        \union {[kind |-> "requeue", id |-> m] : m \in MatchIds}

Delete == [kind |-> "delete", id |-> 0]
Post(k) == [kind |-> "post", id |-> k]
Requeue(m) == [kind |-> "requeue", id |-> m]

\* the sequence s without its i-th element
Without(s, i) == [j \in 1..(Len(s) - 1) |-> IF j < i THEN s[j] ELSE s[j + 1]]

\* Node sends request r about p
Send(p, r) == wire' = [wire EXCEPT ![p] = Append(@, r)]

-----------------------------------------------------------------------------
(* Building blocks: what the helpers of the service do to its maps.         *)

(* Mutant of CancelInRust: nobody tells server-rs.                          *)
CancelForgotten(p) == UNCHANGED <<wire, requeues>>

(* cancelPlayerInRust(p): a DELETE, held back until a pending requeue ends. *)
CancelInRust(p) ==
    IF pending[p] = 0
      THEN Send(p, Delete) /\ UNCHANGED requeues
      ELSE /\ requeues' = {IF r.p = p /\ r.m = pending[p]
                             THEN [r EXCEPT !.dels = @ + 1] ELSE r : r \in requeues}
           /\ UNCHANGED wire

(* unregisterActivity for every user of P: the registered client also leaves *)
(* the matchmaking path.                                                    *)
Unregister(P) ==
    /\ activity' = [p \in Players |-> IF p \in P THEN NoClient ELSE activity[p]]
    /\ subbed' = subbed \ {<<p, activity[p]>> : p \in P}

(* Mutant of EntryWithout: players in a match are passed over.              *)
EntryWithoutSearching(P) ==
    [p \in Players |-> IF p \in P /\ entry[p] = Searching THEN NoEntry ELSE entry[p]]

(* queueEntries once the players of P are deleted from it.                  *)
EntryWithout(P) == [p \in Players |-> IF p \in P THEN NoEntry ELSE entry[p]]

(* handleRsRestart(P), with n[p] DELETEs held back by a requeue released.   *)
EjectAnd(P, n) ==
    /\ data' = data \ P
    /\ ticket' = [p \in Players |-> IF p \in P THEN NoTicket ELSE ticket[p]]
    /\ entry' = EntryWithout(P)
    /\ Unregister(P)
    /\ wire' = [p \in Players |->
                  wire[p] \o [i \in 1..(n[p] + IF p \in P THEN 1 ELSE 0) |-> Delete]]

(* Mutant of SearchingPlayers: matchId is not looked at.                    *)
QueuedPlayers == {p \in Players : entry[p] # NoEntry}

(* getSearchingPlayerIds.                                                   *)
SearchingPlayers == {p \in Players : entry[p] = Searching}

(* Mutant of Dismissed: the clean-up does not look for a queue entry.        *)
DismissedAll(group, ban) == group

(* Mutant of Returning: whether the player cancelled is not looked at.       *)
ReturningAll(group, ban) == group \ ban

(* The innocent players of a failed match who go back to searching, and the  *)
(* players who are without an entry afterwards.                              *)
Returning(group, ban) == {p \in group \ ban : entry[p] # NoEntry}
Dismissed(group, ban) == {p \in group : p \in ban \/ entry[p] = NoEntry}

(* The catch and finally blocks of runMatch for match m of players group:    *)
(* the players of ban leave, the others return to the search with their      *)
(* ticket, and the queue data of players without an entry goes.              *)
FailMatch(m, group, ban, tickets) ==
    LET stay == Returning(group, ban)
        back == {p \in stay : tickets[p] # NoTicket}
        gone == Dismissed(group, ban)
    IN  /\ entry' = [p \in Players |-> IF p \in ban THEN NoEntry
                                       ELSE IF p \in stay THEN Searching ELSE entry[p]]
        /\ Unregister(ban)
        /\ data' = data \ gone
        /\ ticket' = [p \in Players |-> IF p \in back \union gone
                                          THEN NoTicket ELSE tickets[p]]
        /\ requeues' = requeues \union
              {[p |-> p, m |-> m, tk |-> tickets[p], st |-> "sent", dels |-> 0] : p \in back}
        /\ pending' = [p \in Players |-> IF p \in back THEN m ELSE pending[p]]
        /\ wire' = [p \in Players |-> IF p \in back THEN Append(wire[p], Requeue(m))
                                                    ELSE wire[p]]
        /\ matches' = [matches EXCEPT ![m] = NoMatch]

(* removeClientFromMatchmaking for a client of p.                            *)
RemoveClient(p) ==
    LET m == entry[p] IN
    \/ /\ m = NoEntry
       /\ Unregister({p})
       /\ UNCHANGED <<entry, data, ticket, matches, reqVars, wire>>
    \/ /\ m = Searching
       /\ entry' = [entry EXCEPT ![p] = NoEntry]
       /\ data' = data \ {p}
       /\ CancelInRust(p)
       /\ Unregister({p})
       /\ UNCHANGED <<ticket, matches, pending>>
    \/ /\ m \in MatchIds
       /\ matches[m].phase \in {"accepting", "drafting"}
       /\ FailMatch(m, matches[m].group, matches[m].ban \union {p}, ticket)
    \/ \* the decline is noted, but runMatch awaits the map or the load
       /\ m \in MatchIds
       /\ matches[m].phase \in {"none", "map", "loading"}
       /\ entry' = [entry EXCEPT ![p] = NoEntry]
       /\ matches' = IF Live(m) THEN [matches EXCEPT ![m].ban = @ \union {p}]
                                ELSE matches
       /\ Unregister({p})
       /\ UNCHANGED <<data, ticket, reqVars, wire>>

-----------------------------------------------------------------------------
(* Clients.                                                                 *)

Connect(p) ==
    /\ p \notin up /\ gen[p] < MaxConns
    /\ up' = up \union {p}
    /\ gen' = [gen EXCEPT ![p] = @ + 1]
    /\ UNCHANGED <<subbed, queueVars, matches, find, reqVars, tokenVars, wire,
                   rsVars, finds, losses>>

(* The last socket of the group closes: the cleanups of its subscriptions    *)
(* run, which is removeClientFromMatchmaking for the matchmaking path.       *)
Disconnect(p) ==
    /\ p \in up
    /\ up' = up \ {p}
    /\ \/ <<p, gen[p]>> \in subbed /\ RemoveClient(p)
       \/ <<p, gen[p]>> \notin subbed
          /\ UNCHANGED <<subbed, queueVars, matches, reqVars, wire>>
    /\ UNCHANGED <<gen, find, tokenVars, rsVars, finds, losses>>

Settled(group) == Prompt => \A p \in group, k \in Slots : find[p][k] = FindIdle

(* cancel(): it also takes a search whose find() has yet to return, although  *)
(* the client offers it only from the startSearch event on.                  *)
Cancel(p) ==
    /\ Settled({p})
    /\ activity[p] # NoClient
    /\ entry[p] = Searching
    /\ RemoveClient(p)
    /\ UNCHANGED <<up, gen, find, tokenVars, rsVars, finds, losses>>

-----------------------------------------------------------------------------
(* find() and queueSoloPlayer().                                            *)

SetFind(p, k, f) == find' = [find EXCEPT ![p][k] = f]
MoveFind(p, k, pc) == find' = [find EXCEPT ![p][k].pc = pc]

InFlight(p) ==
    \/ wire[p] # <<>>
    \/ \E r \in requeues : r.p = p
    \/ \E ev \in events : p \in ev.group

FindStart(p, k) ==
    /\ finds < MaxFinds
    /\ Prompt => ~InFlight(p)
    /\ Waits => \A m \in MatchIds : p \notin matches[m].group
    /\ p \in up /\ activity[p] = NoClient /\ find[p][k] = FindIdle
    /\ activity' = [activity EXCEPT ![p] = gen[p]]
    /\ SetFind(p, k, [FindIdle EXCEPT !.pc = "prep", !.conn = gen[p]])
    /\ finds' = finds + 1
    /\ UNCHANGED <<clientVars, entry, data, ticket, matches, reqVars, tokenVars,
                   wire, rsVars, losses>>

(* A season, region or rating lookup throws.                                *)
FindPrepFails(p, k) ==
    /\ find[p][k].pc = "prep"
    /\ activity' = [activity EXCEPT ![p] = NoClient]
    /\ SetFind(p, k, FindIdle)
    /\ UNCHANGED <<clientVars, entry, data, ticket, matches, reqVars, tokenVars,
                   wire, rsVars, finds, losses>>

(* The lookups are done: record the player, then POST to the queue.         *)
FindPost(p, k) ==
    /\ find[p][k].pc = "prep"
    /\ QuietRestart /\ watchdog => token \in {NoToken, rsEpoch}
    /\ data' = data \union {p}
    /\ entry' = [entry EXCEPT ![p] = Searching]
    /\ Send(p, Post(k))
    /\ MoveFind(p, k, "post")
    /\ UNCHANGED <<clientVars, ticket, activity, matches, reqVars, tokenVars,
                   rsVars, finds, losses>>

(* The AlreadyInQueue path of queuePlayerInRust: the DELETE is answered, or  *)
(* lost before or after it takes effect, and the second POST goes out.       *)
FindRetry(p, k) ==
    /\ find[p][k].pc = "duplicate"
    /\ \/ /\ rsQueue' = rsQueue \ {p}
          /\ Send(p, Post(k))
          /\ MoveFind(p, k, "retry")
          /\ UNCHANGED losses
       \/ /\ losses < MaxLosses
          /\ losses' = losses + 1
          /\ rsQueue' \in {rsQueue, rsQueue \ {p}}
          /\ MoveFind(p, k, "failed")
          /\ UNCHANGED wire
    /\ UNCHANGED <<clientVars, queueVars, matches, reqVars, tokenVars, rsEpoch,
                   events, formed, finds>>

(* server-rs, or the network in its place, answers the baseline token GET.  *)
FindToken(p, k) ==
    /\ find[p][k].pc = "token"
    /\ \/ /\ SetFind(p, k, [find[p][k] EXCEPT !.pc = "baseline", !.tok = rsEpoch])
          /\ UNCHANGED losses
       \/ /\ losses < MaxLosses
          /\ losses' = losses + 1
          /\ MoveFind(p, k, "failed")
    /\ UNCHANGED <<clientVars, queueVars, matches, reqVars, tokenVars, wire,
                   rsVars, finds>>

(* The end of a successful find: the watchdog runs and the client group that *)
(* called find joins the matchmaking path; on a closed group subscribe() runs*)
(* the cleanup at once.                                                      *)
FinishFind(p, k) ==
    LET g == find[p][k].conn IN
    /\ SetFind(p, k, FindIdle)
    /\ watchdog' = TRUE
    /\ \/ /\ <<p, g>> \in subbed \/ (p \in up /\ g = gen[p])
          /\ subbed' = subbed \union {<<p, g>>}
          /\ UNCHANGED <<queueVars, matches, reqVars, wire>>
       \/ /\ <<p, g>> \notin subbed /\ ~(p \in up /\ g = gen[p])
          /\ RemoveClient(p)

FindQueued(p, k) ==
    /\ find[p][k].pc = "queued"
    /\ \/ token = NoToken /\ MoveFind(p, k, "token")
          /\ UNCHANGED <<subbed, queueVars, matches, reqVars, wire, watchdog>>
       \/ token # NoToken /\ FinishFind(p, k)
    /\ UNCHANGED <<up, gen, token, failures, poll, rsVars, finds, losses>>

FindBaseline(p, k) ==
    /\ find[p][k].pc = "baseline"
    /\ token' = find[p][k].tok
    /\ FinishFind(p, k)
    /\ UNCHANGED <<up, gen, failures, poll, rsVars, finds, losses>>

(* The error path of queueSoloPlayer, then the catch of find().             *)
FindFailed(p, k) ==
    /\ find[p][k].pc = "failed"
    /\ data' = data \ {p}
    /\ entry' = [entry EXCEPT ![p] = NoEntry]
    /\ CancelInRust(p)
    /\ activity' = [activity EXCEPT ![p] = NoClient]
    /\ SetFind(p, k, FindIdle)
    /\ UNCHANGED <<clientVars, ticket, matches, pending, tokenVars, rsVars,
                   finds, losses>>

-----------------------------------------------------------------------------
(* server-rs.                                                               *)

(* Whether server-rs accepts request r about p.                             *)
Accepts(p, r) ==
    /\ r.kind # "delete" => p \notin rsQueue
    /\ r.kind = "requeue" =>
         \E q \in requeues : q.p = p /\ q.m = r.id /\ q.tk = rsEpoch

(* The i-th request about p is over: answered, or lost on its way there or   *)
(* back.  The caller sees a lost exchange as an error.                       *)
RsReceive(p, i, fate) ==
    /\ LET r  == wire[p][i]
           ok == Accepts(p, r)
       IN  /\ wire' = [wire EXCEPT ![p] = Without(@, i)]
           /\ rsQueue' = IF fate = "undelivered" \/ ~ok THEN rsQueue
                         ELSE IF r.kind = "delete" THEN rsQueue \ {p}
                         ELSE rsQueue \union {p}
           /\ find' = IF r.kind # "post" THEN find
                      ELSE [find EXCEPT ![p][r.id].pc =
                              IF fate = "answered" /\ ok THEN "queued"
                              ELSE IF fate = "answered" /\ @ = "post"
                                THEN "duplicate" ELSE "failed"]
           /\ requeues' = IF r.kind # "requeue" THEN requeues
                          ELSE {IF q.p = p /\ q.m = r.id
                                  THEN [q EXCEPT !.st = IF fate = "answered" /\ ok
                                                          THEN "ok" ELSE "err"]
                                  ELSE q : q \in requeues}
    /\ \/ fate = "answered" /\ UNCHANGED losses
       \/ /\ fate \in {"undelivered", "unanswered"}
          /\ losses < MaxLosses
          /\ losses' = losses + 1
    /\ UNCHANGED <<clientVars, queueVars, matches, pending, tokenVars, rsEpoch,
                   events, formed, finds>>

RsTakeNone(group) == rsQueue      \* mutant of RsTake: the players stay queued
RsTake(group) == rsQueue \ group

(* One match of a search tick: the group leaves the queue and the event goes *)
(* to Redis.  MatchmakerQueue has the whole tick.                            *)
RsFormMatch(group) ==
    /\ formed < MaxMatches
    /\ group \subseteq rsQueue /\ Cardinality(group) = MatchSize
    /\ rsQueue' = RsTake(group)
    /\ formed' = formed + 1
    /\ events' = events \union {[id |-> formed + 1, group |-> group, tk |-> rsEpoch]}
    /\ UNCHANGED <<clientVars, queueVars, matches, find, reqVars, tokenVars, wire,
                   rsEpoch, finds, losses>>

(* server-rs restarts, by itself or by publish_match_or_exit: the queue is   *)
(* gone, and so are the formed matches it had not published (lost).          *)
RsRestart(lost) ==
    /\ rsEpoch <= MaxRestarts
    /\ QuietRestart => \A p \in Players, k \in Slots :
                          find[p][k].pc \in {"idle", "prep"}
    /\ rsEpoch' = rsEpoch + 1
    /\ rsQueue' = {}
    /\ events' = events \ lost
    /\ UNCHANGED <<clientVars, queueVars, matches, find, reqVars, tokenVars, wire,
                   formed, finds, losses>>

-----------------------------------------------------------------------------
(* Node: the responses and events of server-rs.                             *)

NoDeletes == [p \in Players |-> 0]

PendingWithout(r) == [pending EXCEPT ![r.p] = IF @ = r.m THEN 0 ELSE @]

(* A requeue response: an error counts as a restart for that player.  The    *)
(* DELETEs that waited for the requeue go out after it.                      *)
RequeueDone(r) ==
    /\ r.st \in {"ok", "err"}
    /\ EjectAnd(IF r.st = "err" THEN {r.p} ELSE {}, [NoDeletes EXCEPT ![r.p] = r.dels])
    /\ requeues' = requeues \ {r}
    /\ pending' = PendingWithout(r)
    /\ UNCHANGED <<up, gen, matches, find, tokenVars, rsVars, finds, losses>>

(* handleMatchFound without the data of some player: the match is dropped,   *)
(* whoever still has data and an entry is requeued, the rest leaves.  There   *)
(* is one mode: data of other modes than that of the event are left out.      *)
DropMatch(ev) ==
    LET keep == {p \in ev.group : p \in data /\ entry[p] # NoEntry}
        gone == ev.group \ keep
    IN  /\ entry' = EntryWithout(gone)
        /\ data' = data \ gone
        /\ ticket' = [p \in Players |-> IF p \in gone THEN NoTicket ELSE ticket[p]]
        /\ Unregister(gone)
        /\ requeues' = requeues \union
              {[p |-> p, m |-> ev.id, tk |-> ev.tk, st |-> "sent", dels |-> 0] : p \in keep}
        /\ pending' = [p \in Players |-> IF p \in keep THEN ev.id ELSE pending[p]]
        /\ wire' = [p \in Players |-> IF p \in keep THEN Append(wire[p], Requeue(ev.id))
                                                    ELSE wire[p]]
        /\ UNCHANGED matches

TicketsWith(ev) == [p \in Players |-> IF p \in ev.group THEN ev.tk ELSE ticket[p]]

(* handleMatchFound with everybody's data: the Match is made and runMatch    *)
(* runs up to its first await; a player without a client is a decline.       *)
StartMatch(ev) ==
    LET absent == {p \in ev.group : activity[p] = NoClient}
    IN  \/ absent # {} /\ FailMatch(ev.id, ev.group, absent, TicketsWith(ev))
        \/ /\ absent = {}
           /\ ticket' = TicketsWith(ev)
           /\ entry' = [p \in Players |-> IF p \in ev.group /\ entry[p] # NoEntry
                                            THEN ev.id ELSE entry[p]]
           /\ matches' = [matches EXCEPT ![ev.id] =
                            [NoMatch EXCEPT !.phase = "accepting", !.group = ev.group]]
           /\ UNCHANGED <<subbed, data, activity, reqVars, wire>>

MatchFound(ev) ==
    /\ events' = events \ {ev}
    /\ IF ev.group \subseteq data THEN StartMatch(ev) ELSE DropMatch(ev)
    /\ UNCHANGED <<up, gen, find, tokenVars, rsQueue, rsEpoch, formed, finds, losses>>

-----------------------------------------------------------------------------
(* Node: runMatch.                                                          *)

Accept(p) ==
    LET m == entry[p] IN
    /\ m \in MatchIds
    /\ matches[m].phase = "accepting" /\ p \notin matches[m].accepted
    /\ LET acc == matches[m].accepted \union {p}
       IN  matches' = [matches EXCEPT ![m].accepted = acc,
                         ![m].phase = IF acc = matches[m].group THEN "map" ELSE @]
    /\ UNCHANGED <<clientVars, queueVars, find, reqVars, tokenVars, wire, rsVars,
                   finds, losses>>

matchOnlyUnchanged == UNCHANGED <<up, gen, find, tokenVars, rsVars, finds, losses>>

(* Mutant of AcceptTimerRuns: the first accept clears the timeout.           *)
AcceptTimerRunsUntilFirst(m) ==
    matches[m].phase = "accepting" /\ matches[m].accepted = {}

(* The accept timeout is cleared when everybody accepted or somebody left.   *)
AcceptTimerRuns(m) == matches[m].phase = "accepting"

AcceptTimeout(m) ==
    /\ AcceptTimerRuns(m) /\ Settled(matches[m].group)
    /\ FailMatch(m, matches[m].group, matches[m].group \ matches[m].accepted, ticket)
    /\ matchOnlyUnchanged

Fail(m, ban) == FailMatch(m, matches[m].group, matches[m].ban \union ban, ticket)

(* doGameLoad up to loadGame(): everybody must still have a client.         *)
BeginLoad(m) ==
    LET absent == {p \in matches[m].group : activity[p] = NoClient} IN
    \/ absent # {} /\ Fail(m, absent)
    \/ /\ absent = {}
       /\ matches' = [matches EXCEPT ![m].phase = "loading"]
       /\ UNCHANGED <<subbed, queueVars, reqVars, wire>>

(* pickMap() settles after everybody accepted.  A match with a draft stops   *)
(* there if a player left meanwhile, one without goes on to the load.        *)
MapPicked(m) ==
    /\ matches[m].phase = "map"
    /\ \/ ~HasDraft /\ BeginLoad(m)
       \/ HasDraft /\ matches[m].ban # {} /\ Fail(m, {})
       \/ /\ HasDraft /\ matches[m].ban = {}
          /\ matches' = [matches EXCEPT ![m].phase = "drafting"]
          /\ UNCHANGED <<subbed, queueVars, reqVars, wire>>
    /\ matchOnlyUnchanged

MapFails(m) ==
    /\ matches[m].phase = "map"
    /\ Fail(m, {})
    /\ matchOnlyUnchanged

DraftDone(m) ==
    /\ matches[m].phase = "drafting"
    /\ BeginLoad(m)
    /\ matchOnlyUnchanged

LoadSucceeds(m) ==
    LET group == matches[m].group IN
    /\ matches[m].phase = "loading" /\ Settled(group)
    /\ entry' = EntryWithout(group)
    /\ Unregister(group)
    /\ data' = data \ group
    /\ ticket' = [p \in Players |-> IF p \in group THEN NoTicket ELSE ticket[p]]
    /\ matches' = [matches EXCEPT ![m] = NoMatch]
    /\ UNCHANGED <<reqVars, wire>>
    /\ matchOnlyUnchanged

(* The loader gave up: blamed is who did not load in time, the player who    *)
(* failed, or nobody when the load was cancelled or could not be set up.     *)
LoadFails(m, blamed) ==
    /\ matches[m].phase = "loading" /\ Settled(matches[m].group)
    /\ blamed \subseteq matches[m].group
    /\ Fail(m, blamed)
    /\ matchOnlyUnchanged

-----------------------------------------------------------------------------
(* Node: the process token watchdog.  Bound: one token GET of the watchdog   *)
(* at a time.                                                                *)

pollUnchanged == UNCHANGED <<up, gen, matches, find, reqVars, finds>>

PollSend ==
    /\ watchdog /\ poll = PollIdle /\ data # {}
    /\ poll' = PollSent
    /\ UNCHANGED <<subbed, queueVars, token, watchdog, failures, wire, rsVars, losses>>
    /\ pollUnchanged

(* Mutant of WatchdogStops: the baseline survives.                          *)
WatchdogStopsKeepingToken ==
    /\ watchdog /\ data = {} /\ poll = PollIdle
    /\ watchdog' = FALSE
    /\ UNCHANGED <<token, failures, subbed, queueVars, poll, wire, rsVars, losses>>
    /\ pollUnchanged

(* The interval fires with nobody queued: stopProcessTokenWatchdog().       *)
WatchdogStops ==
    /\ watchdog /\ data = {}
    /\ Prompt => poll = PollIdle
    /\ watchdog' = FALSE
    /\ token' = NoToken
    /\ failures' = 0
    /\ UNCHANGED <<subbed, queueVars, poll, wire, rsVars, losses>>
    /\ pollUnchanged

PollAnswer ==
    /\ poll = PollSent
    /\ \/ poll' = rsEpoch /\ UNCHANGED losses
       \/ losses < MaxLosses /\ losses' = losses + 1 /\ poll' = PollFailed
    /\ UNCHANGED <<subbed, queueVars, token, watchdog, failures, wire, rsVars>>
    /\ pollUnchanged

(* The rest of checkProcessToken.                                           *)
MaxTokenFetchFailures == 2

TokenNeverChanged == FALSE        \* mutant of TokenChanged: adopt any token
TokenChanged == token # NoToken /\ poll # token

PollDone ==
    LET toofew == failures + 1 < MaxTokenFetchFailures IN
    /\ poll \in {PollFailed} \union Epochs
    /\ poll' = PollIdle
    /\ \/ /\ poll = PollFailed /\ toofew
          /\ failures' = failures + 1
          /\ UNCHANGED <<token, subbed, queueVars, wire>>
       \/ /\ poll = PollFailed /\ ~toofew
          /\ failures' = 0
          /\ token' = NoToken
          /\ EjectAnd(SearchingPlayers, NoDeletes)
       \/ /\ poll \in Epochs
          /\ failures' = 0
          /\ token' = poll
          /\ EjectAnd(IF TokenChanged THEN SearchingPlayers ELSE {}, NoDeletes)
    /\ UNCHANGED <<watchdog, rsVars, losses>>
    /\ pollUnchanged

-----------------------------------------------------------------------------
Init ==
    /\ up = Players
    /\ gen = [p \in Players |-> 1]
    /\ subbed = {}
    /\ activity = [p \in Players |-> NoClient]
    /\ entry = [p \in Players |-> NoEntry]
    /\ data = {}
    /\ ticket = [p \in Players |-> NoTicket]
    /\ matches = [m \in MatchIds |-> NoMatch]
    /\ find = [p \in Players |-> [k \in Slots |-> FindIdle]]
    /\ requeues = {}
    /\ pending = [p \in Players |-> 0]
    /\ token = NoToken /\ watchdog = FALSE /\ failures = 0 /\ poll = PollIdle
    /\ wire = [p \in Players |-> <<>>]
    /\ rsQueue = {} /\ rsEpoch = 1 /\ events = {} /\ formed = 0
    /\ finds = 0 /\ losses = 0

FindStep(p, k) ==
    \/ FindStart(p, k) \/ FindPrepFails(p, k) \/ FindPost(p, k) \/ FindRetry(p, k)
    \/ FindQueued(p, k) \/ FindToken(p, k) \/ FindBaseline(p, k) \/ FindFailed(p, k)

ClientStep(p) == Connect(p) \/ Disconnect(p) \/ Cancel(p) \/ Accept(p)

MatchStep(m) ==
    \/ AcceptTimeout(m) \/ MapPicked(m) \/ MapFails(m) \/ DraftDone(m)
    \/ LoadSucceeds(m)
    \/ \E blamed \in SUBSET matches[m].group : LoadFails(m, blamed)

WatchdogStep == PollSend \/ WatchdogStops \/ PollAnswer \/ PollDone

Fates == {"answered", "undelivered", "unanswered"}

RsStep ==
    \/ \E p \in Players : \E i \in 1..Len(wire[p]), fate \in Fates : RsReceive(p, i, fate)
    \/ \E group \in SUBSET Players : RsFormMatch(group)
    \/ \E lost \in SUBSET events : RsRestart(lost)

Next ==
    \/ \E p \in Players : ClientStep(p)
    \/ \E p \in Players, k \in Slots : FindStep(p, k)
    \/ \E r \in requeues : RequeueDone(r)
    \/ \E ev \in events : MatchFound(ev)
    \/ \E m \in MatchIds : MatchStep(m)
    \/ WatchdogStep
    \/ RsStep

Spec == Init /\ [][Next]_vars

-----------------------------------------------------------------------------
FindPcs == {"idle", "prep", "post", "retry", "duplicate", "queued", "token",
            "baseline", "failed"}
Phases == {"none", "accepting", "map", "drafting", "loading"}

TypeOK ==
    /\ up \subseteq Players
    /\ gen \in [Players -> Nat]
    /\ subbed \subseteq Players \X Nat
    /\ activity \in [Players -> Nat]
    /\ entry \in [Players -> {NoEntry, Searching} \union MatchIds]
    /\ data \subseteq Players
    /\ ticket \in [Players -> {NoTicket} \union Epochs]
    /\ matches \in [MatchIds -> [phase : Phases, group : SUBSET Players,
                                 accepted : SUBSET Players, ban : SUBSET Players]]
    /\ find \in [Players -> [Slots -> [pc : FindPcs, conn : Nat,
                                       tok : {NoToken} \union Epochs]]]
    /\ requeues \subseteq [p : Players, m : MatchIds, tk : {NoTicket} \union Epochs,
                           st : {"sent", "ok", "err"}, dels : Nat]
    /\ pending \in [Players -> {0} \union MatchIds]
    /\ token \in {NoToken} \union Epochs
    /\ watchdog \in BOOLEAN
    /\ failures \in {0, 1}
    /\ poll \in {PollIdle, PollSent, PollFailed} \union Epochs
    /\ wire \in [Players -> Seq(Requests)]
    /\ rsQueue \subseteq Players
    /\ rsEpoch \in Epochs
    /\ events \subseteq [id : MatchIds, group : SUBSET Players, tk : Epochs]
    /\ formed \in 0..MaxMatches
    /\ finds \in Nat /\ losses \in Nat

-----------------------------------------------------------------------------
(* What must hold whatever the network and the users do.                    *)

(* A queue entry always comes with the player's queue data: a match event    *)
(* for a searching player can be turned into a match (queueSoloPlayer sets   *)
(* both before the POST, and every way out removes both).                    *)
EntryHasData == \A p \in Players : entry[p] # NoEntry => p \in data

(* A queue entry's matchId names a match that is still running and that the  *)
(* player belongs to.  Otherwise cancel() would refuse with                  *)
(* MatchAlreadyStarting for ever, and no runMatch would ever free the player. *)
EntryNamesLiveMatch ==
    \A p \in Players : entry[p] \in MatchIds =>
        Live(entry[p]) /\ p \in matches[entry[p]].group

(* Whoever is in a match holds a requeue ticket, so that runMatch can put an *)
(* innocent player back ("no requeue ticket found" is never logged for one).  *)
TicketInHand == \A p \in Players : entry[p] \in MatchIds => ticket[p] # NoTicket

(* A DELETE is held back only by a requeue whose response is still to come,  *)
(* so cancelPlayerInRust never waits for a promise nobody settles.           *)
PendingIsInFlight ==
    \A p \in Players : pending[p] # 0 =>
        \E r \in requeues : r.p = p /\ r.m = pending[p]

(* Whoever cancelled, disconnected or was dismissed stays out until a search   *)
(* of their own gets to its POST: no late match event, failed match or requeue *)
(* brings their queue entry back.                                            *)
LeaversStayOut ==
    [][\A p \in Players : entry[p] = NoEntry /\ entry'[p] # NoEntry =>
         \E k \in Slots : find[p][k].pc = "prep" /\ find'[p][k].pc = "post"]_vars

-----------------------------------------------------------------------------
(* What holds when messages are prompt, players who left a match wait for    *)
(* its end, and restarts do not overlap find() calls (see the constants).    *)

Finding(p) == \E k \in Slots : find[p][k] # FindIdle

(* Whoever has a queue entry is registered as the active gameplay client;    *)
(* without it cancel() refuses and runMatch counts the player as absent.     *)
EntryIsRegistered == \A p \in Players : entry[p] # NoEntry => activity[p] # NoClient

(* A player of a running match who did not leave it can still accept it and   *)
(* is still registered: the only players runMatch bans are those who left,    *)
(* did not accept in time, or failed to load.                                *)
MembersCanAccept ==
    \A m \in MatchIds : \A p \in matches[m].group \ matches[m].ban :
        entry[p] = m /\ activity[p] # NoClient

(* Something in server-rs or in flight answers for a searching player, or    *)
(* the watchdog's baseline differs from the running process, in which case    *)
(* the next poll ejects the player.                                          *)
Backed(p) == p \in rsQueue \/ InFlight(p) \/ Finding(p)
SearchIsBacked ==
    \A p \in Players : entry[p] = Searching => Backed(p) \/ token # rsEpoch

(* Whoever is queued in server-rs has queue data in Node, or something is    *)
(* still in flight that settles the difference.                              *)
QueuedHasData ==
    \A p \in rsQueue : p \in data \/ InFlight(p) \/ Finding(p)

(* A token that reached the watchdog ejects only players whom the running    *)
(* server-rs does not have in its queue: the victims of its restart.         *)
WatchdogKicksOnlyLost ==
    [][PollDone /\ poll # PollFailed =>
         \A p \in Players : entry[p] = Searching /\ entry'[p] = NoEntry =>
                              p \notin rsQueue]_vars

-----------------------------------------------------------------------------
(* Liveness.  Responses come back (as an answer or as an error), timers fire, *)
(* published events arrive, and map lookups, drafts and loads end.           *)
Fairness ==
    /\ \A p \in Players : WF_vars(\E i \in 1..Len(wire[p]), fate \in Fates :
                                      RsReceive(p, i, fate))
    /\ \A p \in Players, k \in Slots :
         /\ WF_vars(FindPost(p, k) \/ FindPrepFails(p, k))
         /\ WF_vars(FindRetry(p, k) \/ FindToken(p, k))
         /\ WF_vars(FindQueued(p, k) \/ FindBaseline(p, k) \/ FindFailed(p, k))
    /\ WF_vars(\E r \in requeues : RequeueDone(r))
    /\ WF_vars(\E ev \in events : MatchFound(ev))
    /\ \A m \in MatchIds : WF_vars(MatchStep(m))
    /\ WF_vars(WatchdogStep)

FairSpec == Spec /\ Fairness

(* Every formed match comes to an end: it launches or fails.                *)
MatchesEnd == \A m \in MatchIds : Live(m) ~> ~Live(m)

(* A player whose queue entry server-rs lost does not search for ever.       *)
LostSearchEnds ==
    \A p \in Players : (entry[p] = Searching /\ ~Backed(p)) ~> entry[p] # Searching

(* A player who stopped searching does not stay in the Rust queue.           *)
GhostsVanish ==
    \A p \in Players : (p \in rsQueue /\ entry[p] # Searching)
                          ~> (p \notin rsQueue \/ entry[p] = Searching)

-----------------------------------------------------------------------------
(* What the service promises its users, which MatchPromise states without    *)
(* the network: the status of a user is read off the queue entry, the members *)
(* of a match off the matches map.                                          *)
StatusOf(p) == IF entry[p] = NoEntry THEN "idle"
               ELSE IF entry[p] = Searching THEN "searching" ELSE "matched"
Statuses == [p \in Players |-> StatusOf(p)]
Members  == [m \in MatchIds |-> matches[m].group \ matches[m].ban]

Promise == INSTANCE MatchPromise WITH status <- Statuses, members <- Members

(* Every step of the service is a step of the promise or leaves its state    *)
(* alone: a match takes only searching users, all at once, and when it is    *)
(* over its remaining members launched, left or search again.                *)
KeepsPromise == Promise!Spec

=============================================================================
