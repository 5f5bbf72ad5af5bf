# Formal models of ShieldBattery

TLA+ models of the parts of ShieldBattery in which several processes, users
and requests run into each other, their TLC configurations, and theorems about
them that TLAPS checks. Paths are relative to the repository (`src/` here).

## The system

ShieldBattery is a StarCraft platform: a Node server (`server/lib`), a Rust
server beside it (`server-rs`), an Electron app (`app`) that starts the game, a
DLL injected into the game (`game`), and a web client (`client`).

| Component | State | Operations | Talks to |
|---|---|---|---|
| Matchmaking service (`server/lib/matchmaking/matchmaking-service.ts`) | `queueEntries`, `playerQueueData`, `requeueTickets`, `matches`, `pendingRequeues`, process token, watchdog | `find`, `cancel`, `accept`, client removal, match events, `runMatch`, token poll | Rust matchmaker (HTTP out, Redis in), activity registry, sockets, game loader |
| Matchmaker queue (`server-rs/src/matchmaking`) | queue, id set, per-mode sizes, population peaks, process token | insert, requeue, cancel, search tick, restart | Node (HTTP in, Redis out) |
| Activity registry (`games/gameplay-activity-registry.ts`) | one client per user | register, unregister | matchmaking, lobbies, game loader |
| Client sockets (`websockets/socket-groups.ts`) | sockets and subscriptions per client | add, delete, subscribe, unsubscribe | everything that publishes |
| Draft (`matchmaking/draft-state.ts`) | picks per team, deadlines | provisional pick, lock in, timeout | matchmaking |
| Game loader (`games/game-loader.ts`) | loading games, who finished, deadline | load, loaded, failed, cancel, time out | netcode service, registry, clients |
| Lobbies (`lobbies/*`) | lobbies, slots, countdown, loading, bans | create, join, leave, kick, ban, slot operations, start | game loader, registry, members' screens, list browsers |
| Game results (`games/game-result-service.ts`, `results.ts`) | reports, departures and desyncs per game, reconciled result | webhooks, reconcile, grace, sweep | coordinator, database, matchmaking ratings |
| Netcode v2 (`netcode-v2/*`, `game/src/netcode_v2`) | sessions, relays, rehoming | create, events, rehome | coordinator, game |
| App (`app/game/active-game-manager.ts`) | the active game process | configure, launch, status, exit | game DLL, server |
| Chat, relationships, whispers, notifications, leagues, maps, replays, files | database rows | statements and transactions | clients |

What is hard, by component:

* **Matchmaking.** Two servers hold the queue: Node the players' data, Rust the
  order. Requests overtake each other, responses and events arrive after the
  search they belong to, server-rs restarts and loses its queue, and Node
  learns of it only by polling a process token. Correct means: a player who
  searches is queued or will be told otherwise; a player matched can accept;
  nobody is in two matches; nobody stays queued who does not want to; players
  are banned only for what they did.
* **Matchmaker queue.** Bookkeeping in four places that has to agree, sorted
  insertion by binary search, tickets that outlive the process.
* **Game loader, draft.** Timeouts against late answers, cancellation at every
  await, updates computed from state read before one.
* **Lobbies.** The slots of team games have owners who may leave, move or become
  observers; screens follow by diffs that are told by ids; a join awaits the map
  between reading the lobby and storing it, and a countdown or load may be
  cancelled or end meanwhile. Correct means: the maps of the service and the
  registry agree, a game starts with those who sit in the lobby, every countdown
  ends, and screens and list rows show what there is.
* **Game results.** Reports, departures and desyncs come by webhooks in any
  order, repeatedly or never, four things start a reconciliation, and the server
  may restart. Correct means: one result, never before it is known, made from
  everything that was reported, rated once, and always some result.

## Modules

| Module | Models |
|---|---|
| `Matchmaking` | the service in Node with the registry, the client groups, the requests and events between Node and Rust, and the Rust queue as a set; it ends with the refinement mapping to `MatchPromise` |
| `MCMatchmaking` | symmetry for TLC |
| `MatchPromise` | what the service promises a user: idle, searching or in exactly one match |
| `MatchmakerQueue`, `MCMatchmakerQueue` | the Rust queue from the inside |
| `GameLoader`, `MCGameLoader` | loading a game, with its callers, its clients and the database |
| `LoadPromise` | what the loader promises its callers: one answer, positive only if everybody reported |
| `DraftState`, `MCDraftState` | the race draft of a match and the draft screen of one client |
| `LobbySlots`, `MCLobbySlots` | the slots of one lobby and the screen of a member |
| `LobbyService`, `MCLobbyService` | lobbies, members, registrations, countdowns, loads and the rows of a list browser |
| `GameResults`, `MCGameResults` | how one game gets its result |
| `MatchmakingProofs`, `MatchPromiseProofs`, `GameLoaderProofs`, `DraftStateProofs`, `LobbyServiceProofs`, `GameResultsProofs`, `LobbySlotsProofs`, `MatchmakerQueueProofs` | theorems |

### Matchmaking

One action is one run of Node's event loop: the code between two awaits with
the continuations it settles. A `find()` call is a slot `find[p][k]` whose `pc`
says which await it is at:

    idle -FindStart-> prep -FindPost-> post -(response)-> queued
                                         `-AlreadyInQueue-> duplicate -FindRetry-> retry -> queued
    queued -> (FinishFind, a baseline token is known) idle
    queued -> token -FindToken-> baseline -FindBaseline-> idle
    any error -> failed -FindFailed-> idle

`wire[p]` holds the requests about `p` in flight; `RsReceive(p, i, fate)` takes
any of them, so that requests overtake each other, and answers it, drops it, or
lets it take effect and drops the answer. `events` is the set of `matchFound`
events between Redis and `handleMatchFound`; it is a set, so events may arrive
in any order. A match goes through `accepting`, `map`, `drafting`, `loading`;
`FailMatch` is the catch and the finally block of `runMatch`, which run in one
go after whatever rejected, and `RemoveClient` is
`removeClientFromMatchmaking`, called by `Cancel`, `Disconnect` and by a
subscription on a closed client group. A process token is the number of the
server-rs process (`rsEpoch`), and so is the process in a requeue ticket.

The watchdog is `PollSend`, `PollAnswer`, `PollDone` and `WatchdogStops`: the
interval, the GET, what follows its await, and the interval that finds nobody
queued.

`Prompt`, `Waits` and `QuietRestart` are the assumptions under which stronger
properties hold. `Prompt`: network round trips are shorter than a person's
reactions and the timers; in particular nobody cancels before their `find()` has
returned, which `cancel()` itself does not ask. `Waits`: a user who walks out of a match does not
search again before that match has ended. `QuietRestart`: server-rs does not
restart while a `find()` is past its lookups, and a player does not post to a
new process before a running watchdog has seen it. The runs `core` and
`live` assume them, and so do the theorems whose names end in `UnderPromptness`;
`free` and every other theorem do not. The list under Findings says what
happens when one does not hold.

### MatchmakerQueue

The mutex in `api.rs` makes every handler and every tick one action. Time is
the monotonic clock in units of which `Grain` make a millisecond, so that the
rounding in `build_ticket` is visible. A tick is given any sequence of rosters
that the search could produce (players queued for the mode, modes searched one
after the other, `Examined` players at most) and the model does what the code
does with them: claim in order, drop the overlapping ones, remove the players
(`Remaining` is the `remaining` of the code), issue tickets.

### GameLoader

`phase[g]` is the await at which `doGameLoad` is:

    idle -LoadGame-> register -Registered-> users -UsersFound-> config -ConfigWritten-> map
    map -MapFound-> restrict -Configure-> (several players) session -SessionCreated-> store
    store -SessionStored-> done;  (one player) restrict -Configure-> done

`CancelAll` is `maybeCancelLoadingFromSystem`; every error return goes through
it in the action that meets the error (`Fails`), and so do the deadline, a
client's error report and the cleanup that a closing client runs. `subs` are the
subscriptions of client groups and `got` what the published messages made of a
client's queue, so that a message to a path nobody is subscribed to is lost, as
it is in the code. A cancellation publishes to the subscribers it finds and
unsubscribes in a microtask, after the rest of the caller's code. In `UsersFound`
that is the loop that subscribes the other players, so whom the cancellation
reaches depends on the order of the roster (`told`).

`Quits` is what the callers do when a player leaves: a lobby (`Lobbies`) aborts
the signal of its load; a match passes no signal and lets the load go on. Both
take the player out of the activity registry, after which the loader cannot
unsubscribe the player's client any more (`quit` remembers who).

`QuickLookups` is the assumption that the database answers before the load
times out; only `load_live` makes it.

### DraftState

A player is a team and a slot, the slots of a team in the order of the ratings,
so that the pick order is arithmetic. `timers` are the timers that can still call
back, each with the turn it was set in, and `pickTimeout` is the handle the code
keeps of one of them: clearing the handle is not assumed to clear the right
timer, that is `OneClock`. An abort, the rejection and cleanup it causes and the
failure of the match are one action, for they are one turn of the event loop.

`chan` and `view` are the socket and the draft screen of one player, who may be
any: the messages of the match path and of the team's path in the order they
were published, and the reducers of `draft-atoms.ts`. `Reconnect` is a client
whose server has not noticed that its old socket is dead, and which is sent the
draft as `getClientDraftState` has it at that moment.

### LobbySlots

A slot is a record at a place `<<team, index>>`; the observer team is the last.
Every handler of `lobby-service.ts` that changes slots is an action: its guard
is the handler's checks, its effect the function of `lobby.ts` it calls
(`AddPlayer`, `Remove`, `Move`, `Reopened`, `Shut`, `WithRace`), then the choice
of a new host, then the diff that is published. An occupant's id is a number in
the order of joining, so that `id <= id` is the code's comparison of `joinedAt`;
a slot that was just created has the id `Fresh`, and one that was there before
`Kept`, which is what the diff of the code looks at: it sends a slot whose id was
not at that place before, and otherwise only the race. `view` is a member's
screen that applies those diffs. Closing an occupied slot is two changes with
two diffs, as in the code.

### LobbyService

Of the slots only the occupants are kept (`lobbies`), beside `lobbyClients`
(`member`), the registry, `lobbyBannedUsers`, countdowns and loads (`phase`,
`crew`), and the rows of a browser of the list as `lobby-list-reducer.ts` makes
them. `JoinLobby` is `joinLobby` up to its await, `JoinLands` what follows it:
it stores the lobby as it was read with the joiner added. `overtaken` names the
joins whose lobby has changed since; when one of them lands it overwrites the
change. The model sets `torn` and ends there: every law of this module says
"unless torn", and what can happen then is listed under Findings. `crew` is for
whom `_runCountdownAndLoad` runs, `changed` the lobbies that were stored again in
the countdown (the object the code compares is then another), `late` the loads
that were aborted after their last check.

### GameResults

One game from its start to its result. `sent`, `left` and `session` are the
relay; `results`, `departures`, `desyncs` the notices under way; `report`,
`departed`, `desynced` the rows in the database. Webhooks are handled one at a
time; a departure with its report is two steps, because it is two transactions. A report
says of every player whether they won and, as one value for all of them, which
races they played. `Contested` asks for a single winning team only where there
are teams to ask about: `getValidationTeams` has none for lobby games, whose
alliances are not locked (`lobby-service.ts:1077`).
`due` are the reconciliations about to start (`check`: everybody whose report
counts must have reported; `force`: known complete, session gone), `tasks` those
that have read the reports and not yet committed. `Result` is the decision:
`reconcileResults`, `applyDesyncPolicy` and the concession of a player who left.
`CommitWrites` is the transaction: the result, the players' counts of wins and
losses (`counted`) and, unless the season is `final`, which may be the case at any
commit, the ratings (`rated`). `CommitFails` is a transaction that is rolled back
and whose starter logs the error.

What is abstracted: the reports and the desyncs of one reconciliation are read
together; tasks that read the same are one; the timer of the desync grace is a
guard (`Waits`) on the check, which the code puts off and repeats; after there is
a result only the reconciliations still running are followed, since nothing else
changes it. A fault is a restart, a lost notice, a repeated one or a failed
transaction. A transaction that fails every time (`missing MMR for some users`,
when a player has no rating in the season) is beyond the bound on faults: such a
game has no result in the code either, whatever the sweep tries.

## Runs

| Run | Module | Shows | Bounds |
|---|---|---|---|
| `core` | MCMatchmaking | registry, entries, data and Rust queue stay in step; a matched player can accept; after a restart exactly its victims are ejected; implements MatchPromise | 2 users, 3 finds, 2 connections, 2 matches, 1 restart, with the draft |
| `free` | MCMatchmaking | the service's maps are consistent whatever is lost, delayed or restarted; nobody who left is put back among those who search by anything that comes late | 2 users with 2 finds each in flight, 2 finds, 1 match, 1 restart, 2 losses |
| `live` | MCMatchmaking | matches end, lost searches are noticed, ghosts leave the queue | 2 users, 2 finds, 2 matches, 1 restart |
| `queue` | MCMatchmakerQueue | id set, sizes, order, times, peaks and ticks of the Rust queue | 4 users, 2 modes of 2, 3 instants, 4 insertions, 2 rosters a tick, 2 processes |
| `load` | MCGameLoader | one consistent answer per load, whatever leaves, cancels or times out; implements LoadPromise | 2 users, a match load and a lobby load, 1 connection |
| `load_live` | MCGameLoader | every load is answered; no subscription outlives it, except of users who walked out | 3 users, 1 load, 2 connections each |
| `draft` | MCDraftState | pick order, one clock, the screen catches up, drafts end | 2 teams of 2, 2 races, 2 changes, 1 reconnect, 4 messages in flight |
| `lobby_slots` | MCLobbySlots | teams stay whole, the host is the senior, screens follow, the map is kept, nobody else is moved | melee, team and UMS lobbies of 3 + 1 slots and an observer, 3 users, 3 joins, 2 races, one forced race, one map computer |
| `lobby` | MCLobbyService | slots, clients, registry, games and list rows agree unless a join is torn; bans hold; every countdown ends | 3 users, a listed and an unlisted lobby, 1 failed join, 1 late load |
| `results` | MCGameResults | one result, not too early, from all reports, contradicted by none, counted and rated once, and always one | games of 2 with 1 fault and 1 desync, of 3 with 1 desync or with conflicting reports, 2 reconciliations at a time |
| `token_lost` | MCMatchmaking | violation, finding 1 | 1 loss |
| `lobby_cancel` | MCLobbyService | violation, finding 2 | 2 users, 1 lobby |

Why the bounds are enough: every state law relates one user, one match and the
search before or after it. Two users form a match; a third find lets one of
them search again around it; a second match and a second connection let the old
one and the new one coexist; one restart separates tickets and tokens into old
and new. `free` has two finds only, because losses, restarts and unordered
messages make a third too much for TLC: there a user may have two finds in flight
at the same time, but does not search a second time around a match of the first
search. `core` has that with prompt messages, and `EntriesHaveData`,
`EntriesNameLiveMatches` and `LeaversStayOutside` prove the properties of `free`
for every number of finds. In the queue, two modes and four players are what two overlapping
rosters take. A second load is what a player who walked out of the first can be
in at the same time; a second connection is a client that closed before it was
subscribed; three players let one leave and one close around the one who stays.
A team of three has an owner, an heir and a third slot that changes hands; a
team of one is the smallest that a leaver empties. Two lobbies are what one may
leave for the other; a third user joins while the other two leave, ban and start.
A game of three has a majority and somebody to be outvoted; two reconciliations
race. Faults are combined with the games of two, and desyncs of a minority and
conflicting reports with separate games of three, to keep the run short; the
theorems about `GameResults` have neither restriction. Deadlock checking is off
where bounded counters or the end of a lobby or game stop the system.

### Fairness

`Matchmaking!Fairness` is weak fairness of the network (an HTTP exchange ends,
as an answer or as an error), of the continuations of `find()`, requeues and
events, of the steps of a match (each of its awaits has a timer or ends by
itself: accept timeout, draft clock, load timeout) and of the watchdog interval.
Users are not assumed to do anything, and server-rs is not assumed to form
matches. `GameLoader!FairSpec` is weak fairness of the steps of `doGameLoad`
(database calls and the coordinator answer or fail; the poll for a session has a
ceiling) and of the load deadline. `DraftState!FairSpec` is weak fairness of the
timers, of the start of the draft and of the socket. `LobbyService!FairSpec` is
weak fairness of the countdown's timer and of the answer of a load, which
`load_live` shows. `GameResults!FairSpec` is weak fairness of reconciliations that
were started and of time passing (the grace, and the sweep, which runs every 15
minutes); of players, relay and webhooks nothing is assumed.

### Findings

1. `token_lost`: if the GET of the process token fails after the player has been
   matched, the error path (`matchmaking-service.ts:635`) deletes the entry with
   the match id, and the player cannot accept.
2. `lobby_cancel`: a race may be changed in the countdown (`setRace` is refused
   only while loading); if the load then fails, the catch at
   `lobby-service.ts:1164` finds another lobby object and cancels nothing. The
   lobby stays in `loadingLobbies`, cannot be started, joined or listed, until
   somebody leaves. The comment above it says that contents cannot change.

Seen while modelling, without a run of their own:

* A restart of server-rs between the POST to the queue and the GET of the token
  makes the new process the baseline; the search is lost unnoticed
  (`QuietRestart` excludes it).
* A player who leaves a match that is loading and searches again loses the new
  entry and its data when the old match fails (`Waits` excludes it).
* A token poll that is in flight when the watchdog stops writes the old baseline
  back; after a restart the next queuer is ejected (`QuietRestart`).
* A cancel that overtakes the POST of its own `find()` deletes nothing in the Rust
  queue; the POST then leaves a player there who is not searching, and `find()`
  goes on to subscribe a client without an entry (`Prompt` excludes it).
* The events of two matches of one user, one of an earlier search, may both be
  handled, and the second overwrites the `matchId` of the first (`Prompt`).
* Without `Prompt`, `EntryIsRegistered` fails: the event of an earlier search,
  dropped while the next `find()` is before its POST, unregisters the client.
* `doGameLoad` last looks at its signal before the players start their games: a
  lobby that aborts it then cancels nothing (`late` in `LobbyService`).
* `Unloaded` rounds half of an odd number of players down, so that of three
  players one report makes a timeout blame the other two.
* `joinLobby` overwrites whatever changed while it waited for the map: a member
  who left sits in the slots again, a kicked or banned joiner gets in, and a lobby
  that began its countdown has a player who is not part of the game (`torn`).
* A join whose map lookup fails leaves its user registered for ever, as long as
  the server runs: they cannot join, create or search (`stranded`).
* When the control of a slot of a team passes to another player nothing is
  published, so that screens show the old controller (`ViewFollows` leaves `by`
  out).
* A leave that cancels the countdown updates the row of the list and then adds
  the lobby as it was before the leave: a browser shows the leaver until the next
  change (`RowsFollow` has `\subseteq`). A browser that subscribes during a
  countdown keeps the row after the game has started (`early`).
* A game that is known complete is reconciled at once, without the 15 seconds in
  which a desync verdict may still arrive (`KnownComplete` adds `force`).

Other hazards the models do not decide yet are listed under `hazards` in
`PROJECT.json`, with their lines.

## Proofs

`MatchmakingProofs` proves for every number of users, slots, finds,
connections, matches, restarts and losses, whether or not messages are prompt:
`TypeOK`, `EntryHasData`, `EntryNamesLiveMatch`, `TicketInHand`,
`PendingIsInFlight` and the action property `LeaversStayOut`. They assume
only `PlayersAssumption` and `BoundsAssumption`.

The inductive invariant `IInv` is `TypeOK`, the four state laws and
`EventsFresh`. The laws need each other: a match that starts sets `matchId` only
for players with an entry (`EntryNamesLiveMatch`) and needs their ticket
(`TicketInHand`); a failed match gives those of its members back to the search who
have an entry, and deletes the data of those who do not (`EntryHasData`).
`EventsFresh` says that the event of a match and the match never coexist and
that two events never share an id, without which a second event could overwrite
a running match and orphan its players. `LeaversStayOut` goes through the handlers
that write `queueEntries`: a match that starts or fails looks for the entry first,
what else comes late only removes one, and only the POST of a `find()` makes one. `FailMatch` and `RemoveClient` have one
lemma each because half of the actions end in them; every other action has its
own lemma, one step per conjunct it can disturb.

The second part of `MatchmakingProofs` proves what depends on timing, under `Prompted`: `Prompt`, `Waits`,
`QuietRestart` and no losses, as in the run `core`, still for every number of users,
finds, connections, matches and restarts. Each of the four excludes something that
does break one of these properties: finding 1 is what a loss does, the list under
Findings has an example for each of the others. The theorems are
`EntryIsRegistered`, `MembersCanAccept`, `QueuedHasData`, `SearchIsBacked`,
`WatchdogKicksOnlyLost` and that `Matchmaking` implements `MatchPromise`
(`KeepsPromise`). None of them is inductive, nor is their conjunction. `PInv` is
`IInv` with `TokensLaw` about the watchdog, `MatchesLaw` about events and requeues
of different matches, and `PlayerOk(p)`, fifteen laws about one player:

* where a `find()` of the player stands and what there can be beside it
  (`FindLaw`, `PrepLaw`, `PastLaw`): during the lookups nothing is left of an
  earlier search or match;
* a player is in at most one place, which is the Rust queue, the event of a match,
  a running match, or a POST or requeue that has not arrived (`PlaceLaw`); calls
  and messages on the wire correspond (`WireLaw`, `RequeueLaw`);
* who is registered, with which client, and which clean-ups of that client wait
  (`RegisteredLaw`, `SubsLaw`): no clean-up of an earlier search is left when a
  new one starts, so none can take a player out of a match;
* what an entry goes with: data, the match, no DELETE on its way, a watchdog, and
  something that backs the search (`DataLaw`, `GamesLaw`, `DeleteLaw`, `QueuedLaw`,
  `WatchLaw`, `SearchLaw`);
* what a process token says (`EpochLaw`): once the baseline is stale nobody in the
  queue, in a match or in a requeue has a ticket of the running process, which is
  why the watchdog ejects nobody whom the new process knows.

Most actions do to one player one of a few things: nothing (`SameKeeps`), take
them out (`ExitKeeps`), give them back to the search (`ReturnKeeps`), put them into
a match (`MatchedKeeps`), or move a call of theirs one await further. There is one
lemma for each of those effects, then one for each action, which says what effect
it has on whom. The refinement has one lemma for each step of the promise
(`StutterPromise`, `StopPromise`, `EndPromise`, ...) and reads off `PInv` that the
members of a match are exactly the matched users.

`MatchPromiseProofs` proves `MatchedOnce`, which everything that implements
the promise inherits, and so the service with prompt messages.

`GameLoaderProofs` proves, for every number of users, games and clients,
`TypeOK`, `LoadedByAll` and that `GameLoader` implements `LoadPromise`. Its
invariant adds to them what the steps of one load know of each other: a load in
`loadingGames` is pending, has its records, and has its config in the database
from the moment a client can have heard it (`KnownInv`); nobody has heard of a
cancellation of it; the collected clients exist and only players subscribe
(`ClientsInv`). Every step is either one that cancels a set of pending loads
(`EffectKeeps`, of which `QuietKeeps` is the empty set) or one that touches a
single load (`OneLoadKeeps`). `StartersAreTold`, and `SubscriptionsEnd` under
`QuickLookups`, follow from a second invariant, `TellInv`: before the config is
written nothing has been published, and a load that ended there has its signal
aborted, so that `MapFound` stops it (`BeforeInv`); while a load is pending,
whoever heard of it and did not walk out is subscribed with the client that the
registry knows, so that the cancellation reaches them and then unsubscribes them
(`DuringInv`); after its end only those who walked out are still subscribed, so
that what `doGameLoad` still publishes reaches nobody else (`AfterInv`).

`DraftStateProofs` proves `TypeOK`, `OneClock`, `PicksAreInOrder`,
`LocksAreFinal` and `ScreensCatchUp` for teams of any size. Its invariant says where a draft can
stand: before the first pick, at the pick of turn i with the i - 1 picks before
it locked, or in the pause after it with i locked. That every player has exactly
one turn (`PickerOnce`) is what turns "the first unlocked player" into "the next
turn". `ScreensCatchUp` follows from a second invariant, `ScreenInv`: whatever is
on its socket brings the watched client to what the server would send it now (but
for the player who has just locked), and a draft that runs has lost no client.
`AfterAppend` says that a message published makes its change to that screen and
`AfterHead` that a message delivered leaves it as it is, by induction over the
messages with `Least` and `UpTo` (see `MatchmakerQueueProofs`).

`LobbyServiceProofs` proves `TypeOK`, `SeatsAreHeld`, `CrewIsSeated`,
`BannedStayOut` and `RowsFollow` for any number of users and lobbies. The invariant adds that
whoever waits to join is in no lobby (`Waiting`), that a lobby not yet created is
empty (`Fresh`), and, the heart of it, that what a join has read is still what is
stored, and the lobby idle, unless the join is marked overtaken (`Current`): every
action that stores a lobby or moves its phase marks the joins that wait for it, so
that a join that is not marked overwrites nothing. `RowsFollow` follows from it and
from `Shown`: a row a browser shows for a lobby with somebody in it has them all
(`RowAs`, kept by whoever leaves: `RowLeaves`), a lobby that was not created does not
start, and a join has read a lobby that somebody sat in, so that it lands on a row
that is there.

`GameResultsProofs` proves `TypeOK`, `RatedOnce`, `NobodyStillPlays`,
`NothingInFlight` and `NobodyContradicts` for any humans, teams, reports and
bounds. Two arguments meet in `CommitInv`. One is about time: whoever is `Out` has
left and has no report under way, and stays so (`Stays`); every reconciliation
under way has heard of everybody who counts and is not out (`TasksComplete`),
because `force` is due only when everybody is settled (`Forced`), which rests on a
departure's report being stored before the departure (`Departing`) and on the end
of the session being the last notice (`Ended`). The other is about the decision:
`ReconcileSound`, `PolicySound` and `ResultSound` show that each stage of
`results.ts` disputes or agrees with every report it counts, about winners and
about races; `OneTeam` is why the winners of a ranked game are of one team. In a
lobby game an undisputed result may have several winning teams, and
`NobodyContradicts` does not ask for one.

`LobbySlotsProofs` proves `TypeOK` and every property of the run `lobby_slots`,
`TeamsAreWhole`, `HostIsSenior`, `ViewFollows`, `MapIsKept` and the action
property `OthersStay`, for lobbies with any number of teams of any sizes, any
users and any races. It assumes what the module does of its constants; of these
`ForcedAssumption` (a map that forces a race has one to force) is what makes the
race of a forced slot a race. What a change of slots must keep is `Good`: every
slot may be at its place (`OkAt`), and in a team game every team is whole
(`Whole`). One lemma for each function of `lobby.ts` (`AddGood`, `RemoveGood`,
`MoveGood`, `RacesGood`, ...) shows that it keeps `Good` and what it leaves alone:
elsewhere a slot stays, or is new with nobody in it (`Rest`). From that follow the
three things a handler needs: a slot with the same id differs in its race and its
controller only, so that the diff suffices (`Follows`, `Publishes`); the ids of
those who sit are the old ones, without the one who left or with one given out
later (`SeatIds`), so that the least of them is still the host's (`Senior`); and
nobody but the user of the action sits elsewhere (`Only`). The invariant says that
what is stored is `Good`, that the screen shows it, that no id exceeds the number
of joins, that the host has the least and that nobody sits twice.

`MatchmakerQueueProofs` proves `TypeOK`, `CountsAgree`, `QueueSorted` and the
action properties `PeakCoversWindow` and `TickConserves` for any users, modes,
sizes of matches, units of the clock and numbers of entries and restarts. The
invariant adds that no size is above the peak of its window (`PeakCovers`) and
that no ticket of this process lies in the future (`TicketsPast`), which is what
keeps a requeued player's `queue_time` within the queue's order. Every handler is
one of two changes: an entry is put at a place that keeps the order (`Inserted`)
or some entries are kept in their order (`Picks`); `InsertedKeeps`, `PickedKeeps`,
`NamedAdd` and `NamedDrop` say what each does to the order, the ids and the
counts, and `KeptCounts` is why no size can go below zero. What `Remaining` computes,
a recursive function over the queue, is proved without an induction theorem that
takes an operator: `Least` is the least element of a set of naturals, from the
well-foundedness of `<`, and `UpTo` induction on membership in a set.

Only model-checked: all liveness (TLAPS proves no liveness under fairness), which
is `MatchesEnd`, `LostSearchEnds`, `GhostsVanish`, `LoadsSettle`, `DraftEnds`,
`GamesStart` and `ResultsComeIn`; every safety property of a passing run is proved. `token_lost` and `lobby_cancel` are counterexamples, which need no proof.

## Not modelled

Ratings and match quality, metrics, database queries, the client but for the
reducers named above, and the components listed as `not_modelled` in
`PROJECT.json`, with the reason. Most of the repository is user interface,
database access and parsing, of which no state machine worth checking is left
once the data is abstracted. What is left out of the parts that are modelled, and parts
with a state machine of their own that are left:

* in `handleMatchFound`, queue data for another mode than the event's
  (`matchmaking-service.ts:1348-1355`): there is one mode in `Matchmaking`;
* the first snapshot of a lobby subscription (`lobby-service.ts:475-500`), which is
  read and then awaited while diffs go out: in `LobbySlots` a screen starts in
  step with the lobby;
* the app's active game manager and its protocol with the game DLL,
* the rehoming of relays in the game (`game/src/netcode_v2`),
* points refunds after a match is voided,
* chat channels and user relationships, as concurrent transactions,
* games without a session and UMS games in `GameResults`, whose results come from
  raw reports,
* the compositions of `Matchmaking` with `DraftState` and `GameLoader`, whose
  draft and load are one step there, and of `LobbyService` with `LobbySlots`.
