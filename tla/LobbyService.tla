---------------------------- MODULE LobbyService ----------------------------
(***************************************************************************)
(* The bookkeeping of lobby-service.ts: which lobbies there are, who sits in  *)
(* which, who is registered for an activity, the countdown and the load of a   *)
(* game, and the rows a browser of the public list is shown.                 *)
(*                                                                         *)
(* Of the slots of a lobby only their occupants are kept; LobbySlots models   *)
(* the rest.  One of the occupants is always the host (LobbySlots'           *)
(* HostIsSenior), so what a host may do, somebody in the lobby may do.         *)
(*                                                                         *)
(* A join reads the lobby, waits for the map and then stores what it read with *)
(* the joiner added.  If the lobby changed, or began its countdown, in the     *)
(* meantime, that store overwrites the change; the model records this in torn   *)
(* and stops there: from then on the maps of the service contradict each other. *)
(***************************************************************************)
EXTENDS Integers, FiniteSets

CONSTANTS
    Users,      \* each with the one client that may be registered; others are refused
    Lobbies,    \* the ids of lobbies; each is used once
    Listed,     \* the lobbies that are on the public list
    None,
    MaxLate,    \* bound: loads that were aborted and may still succeed
    MaxFailures \* bound: joins that fail

ASSUME ListedAssumption == Listed \subseteq Lobbies
ASSUME NoneAssumption == None \notin Lobbies
ASSUME MaxAssumption == MaxLate \in Nat /\ MaxFailures \in Nat

VARIABLES
    created,    \* lobbies that have been created
    lobbies,    \* lobbies[l]: the occupants of l, {} if there is no such lobby (lobbies)
    member,     \* member[u]: the lobby of the client of u (lobbyClients)
    registered, \* users with an active client (GameplayActivityRegistry)
    bans,       \* lobbyBannedUsers
    join,       \* join[u]: the join of u that waits for the map
    overtaken,  \* users whose waiting join read a lobby that has changed since
    stranded,   \* users whose join failed after it had registered them
    phase,      \* phase[l]: "counting" (lobbyCountdowns), "loading" (loadingLobbies), "idle"
    crew,       \* crew[l]: for whom _runCountdownAndLoad runs, {} if it does not
    changed,    \* lobbies that were stored again since their countdown began (until it is cancelled)
    late,       \* aborted loads that passed the last check of their signal
    rows,       \* rows[l]: the occupants a browser shows for l, {} if it shows no row
    early,      \* lobbies that were counting or loading when the browser subscribed
    torn        \* a join or a load has overwritten what happened since it began

seatVars == <<created, lobbies, member, registered, bans>>
joinVars == <<join, overtaken, stranded>>
gameVars == <<phase, crew, changed, late>>
listVars == <<rows, early>>
vars == <<seatVars, joinVars, gameVars, listVars, torn>>

NoJoin == [lobby |-> None, read |-> {}, cut |-> FALSE]

Init ==
    /\ created = {} /\ registered = {}
    /\ lobbies = [l \in Lobbies |-> {}]
    /\ member = [u \in Users |-> None]
    /\ bans = [l \in Lobbies |-> {}]
    /\ join = [u \in Users |-> NoJoin] /\ overtaken = {} /\ stranded = {}
    /\ phase = [l \in Lobbies |-> "idle"]
    /\ crew = [l \in Lobbies |-> {}] /\ changed = {} /\ late = {}
    /\ rows = [l \in Lobbies |-> {}] /\ early = {}
    /\ torn = FALSE

Joiners(l) == {v \in Users : join[v].lobby = l}

-----------------------------------------------------------------------------
(* What the rows of a browser become (lobby-list-reducer.ts).               *)

Show(l, who) == rows' = IF l \in Listed THEN [rows EXCEPT ![l] = who] ELSE rows
RowAdded(row, who) == IF row = {} THEN who ELSE row
RowUpdated(row, who) == IF row = {} THEN {} ELSE who

(* Mutant of RowLeft: a cancelled countdown does not put the lobby back.       *)
RowLeftOff(l, old, rest) == RowUpdated(rows[l], rest)

(* Somebody left old and rest remains: an update, and if that cancels a         *)
(* countdown or load, old is added to the list again.                       *)
RowLeft(l, old, rest) ==
    IF rest = {} THEN {}
    ELSE IF phase[l] = "idle" THEN RowUpdated(rows[l], rest)
    ELSE RowAdded(RowUpdated(rows[l], rest), old)

-----------------------------------------------------------------------------
(* Leaving.                                                                 *)

(* Mutant of Aborts: the load goes on.                                      *)
AbortsNot(l) == UNCHANGED gameVars

(* _maybeCancelCountdown and _maybeCancelLoading.  A load that is aborted ends  *)
(* without effect, but for one whose signal was checked for the last time.     *)
Aborts(l) ==
    /\ phase' = [phase EXCEPT ![l] = "idle"]
    /\ crew' = [crew EXCEPT ![l] = {}]
    /\ changed' = changed \ {l}
    /\ \/ UNCHANGED late
       \/ /\ phase[l] = "loading" /\ crew[l] # {} /\ Cardinality(late) < MaxLate
          /\ late' = late \union {[lobby |-> l, crew |-> crew[l]]}

(* _removeClientFromLobby(old, the client of u).  The caller says what becomes  *)
(* of the registration of u.                                                *)
Removes(l, old, u) ==
    LET rest == old \ {u} IN
    /\ lobbies' = [lobbies EXCEPT ![l] = rest]
    /\ bans' = IF rest = {} THEN [bans EXCEPT ![l] = {}] ELSE bans
    /\ member' = [member EXCEPT ![u] = None]
    /\ overtaken' = overtaken \union (Joiners(l) \ {u})
    /\ Show(l, RowLeft(l, old, rest))
    /\ early' = IF rest = {} THEN early \ {l} ELSE early
    /\ Aborts(l)

Leaves(u) == Removes(member[u], lobbies[member[u]], u)

LeaveLobby(u) ==
    /\ member[u] # None
    /\ Leaves(u)
    /\ registered' = registered \ {u}
    /\ UNCHANGED <<created, join, stranded, torn>>

(* The host kicks u, or closes its slot.                                    *)
Kick(u) ==
    /\ member[u] # None /\ phase[member[u]] = "idle"
    /\ Leaves(u)
    /\ registered' = registered \ {u}
    /\ UNCHANGED <<created, join, stranded, torn>>

(* The host bans u.  Whoever is alone in the lobby just leaves it.             *)
Ban(u) ==
    LET l == member[u] IN
    /\ l # None /\ lobbies[l] # {u} /\ phase[l] = "idle"
    /\ lobbies' = [lobbies EXCEPT ![l] = @ \ {u}]
    /\ bans' = [bans EXCEPT ![l] = @ \union {u}]
    /\ member' = [member EXCEPT ![u] = None]
    /\ registered' = registered \ {u}
    /\ overtaken' = overtaken \union Joiners(l)
    /\ Show(l, RowLeft(l, lobbies[l], lobbies[l] \ {u}))
    /\ UNCHANGED <<created, join, stranded, gameVars, early, torn>>

(* The client of u is gone: the clean-up of its subscription to the lobby runs.  *)
Disconnect(u) ==
    /\ member[u] # None
    /\ Leaves(u)
    /\ registered' = registered \ {u}
    /\ UNCHANGED <<created, join, stranded, torn>>

(* The same while u waits to join: it is not subscribed to anything yet.        *)
DisconnectJoining(u) ==
    /\ join[u].lobby # None
    /\ join' = [join EXCEPT ![u].cut = TRUE]
    /\ UNCHANGED <<seatVars, overtaken, stranded, gameVars, listVars, torn>>

-----------------------------------------------------------------------------
(* Creating and joining.                                                    *)

(* Mutant of MayRegister: whoever is in no lobby may join one.                 *)
MayRegisterAny(u) == TRUE

(* registerActiveClient succeeds, if need be after _leaveCurrentLobby.         *)
MayRegister(u) == member[u] # None \/ u \notin registered

CreateLobby(u, l) ==
    /\ MayRegister(u) /\ member[u] = None /\ l \notin created
    /\ created' = created \union {l}
    /\ lobbies' = [lobbies EXCEPT ![l] = {u}]
    /\ member' = [member EXCEPT ![u] = l]
    /\ registered' = registered \union {u}
    /\ Show(l, {u})
    /\ UNCHANGED <<bans, joinVars, gameVars, early, torn>>

(* createLobby with leaveCurrentLobby.                                       *)
CreateInstead(u, l) ==
    LET from == member[u]
        rest == lobbies[from] \ {u}
        left == [rows EXCEPT ![from] =
                    IF from \in Listed THEN RowLeft(from, lobbies[from], rest) ELSE @]
    IN  /\ MayRegister(u) /\ from # None /\ l \notin created
        /\ created' = created \union {l}
        /\ lobbies' = [lobbies EXCEPT ![from] = rest, ![l] = {u}]
        /\ bans' = IF rest = {} THEN [bans EXCEPT ![from] = {}] ELSE bans
        /\ member' = [member EXCEPT ![u] = l]
        /\ overtaken' = overtaken \union Joiners(from)
        /\ rows' = IF l \in Listed THEN [left EXCEPT ![l] = {u}] ELSE left
        /\ early' = IF rest = {} THEN early \ {from} ELSE early
        /\ Aborts(from)
        /\ UNCHANGED <<registered, join, stranded, torn>>

(* Mutant of MayJoin: bans are not checked.                                  *)
MayJoinBanned(u, l) == lobbies[l] # {} /\ member[u] # l /\ phase[l] = "idle"

MayJoin(u, l) ==
    /\ lobbies[l] # {} /\ member[u] # l
    /\ phase[l] = "idle"              \* ensureLobbyNotTransient
    /\ u \notin bans[l]

(* joinLobby up to its await; a lobby in which no slot is free is not joined.   *)
JoinLobby(u, l) ==
    /\ MayRegister(u) /\ MayJoin(u, l)
    /\ join' = [join EXCEPT ![u] = [lobby |-> l, read |-> lobbies[l], cut |-> FALSE]]
    /\ registered' = registered \union {u}
    /\ \/ /\ member[u] # None
          /\ Leaves(u)
       \/ /\ member[u] = None
          /\ UNCHANGED <<lobbies, bans, member, overtaken, gameVars, listVars>>
    /\ UNCHANGED <<created, stranded, torn>>

(* The map has been found: the joiner is seated in the lobby as it was read.    *)
JoinLands(u) ==
    LET l == join[u].lobby
        updated == join[u].read \union {u}
    IN  /\ l # None /\ ~join[u].cut
        /\ join' = [join EXCEPT ![u] = NoJoin]
        /\ lobbies' = [lobbies EXCEPT ![l] = updated]
        /\ member' = [member EXCEPT ![u] = l]
        /\ overtaken' = (overtaken \union Joiners(l)) \ {u}
        /\ changed' = IF crew[l] # {} THEN changed \union {l} ELSE changed
        /\ Show(l, RowUpdated(rows[l], updated))
        /\ torn' = (u \in overtaken)
        /\ UNCHANGED <<created, registered, bans, stranded, phase, crew, late, early>>

(* As JoinLands, but the client is gone: subscribing it to the lobby runs its   *)
(* clean-up at once.                                                        *)
JoinLandsCut(u) ==
    LET l == join[u].lobby IN
    /\ l # None /\ join[u].cut
    /\ join' = [join EXCEPT ![u] = NoJoin]
    /\ lobbies' = [lobbies EXCEPT ![l] = join[u].read]
    /\ registered' = registered \ {u}
    /\ overtaken' = (overtaken \union Joiners(l)) \ {u}
    /\ Show(l, RowLeft(l, join[u].read \union {u}, join[u].read))
    /\ Aborts(l)
    /\ torn' = (u \in overtaken)
    /\ UNCHANGED <<created, member, bans, stranded, early>>

(* The map could not be looked up: nothing takes the registration back.        *)
JoinFails(u) ==
    /\ join[u].lobby # None /\ Cardinality(stranded) < MaxFailures
    /\ join' = [join EXCEPT ![u] = NoJoin]
    /\ overtaken' = overtaken \ {u}
    /\ stranded' = stranded \union {u}
    /\ UNCHANGED <<seatVars, gameVars, listVars, torn>>

-----------------------------------------------------------------------------
(* Changes of the slots, countdown and load.                                *)

(* A handler changes slots of the lobby, and no occupants: setRace, which is     *)
(* refused only while the game loads, or one that is refused in the countdown.   *)
Edit(l) ==
    /\ lobbies[l] # {} /\ phase[l] # "loading"
    /\ overtaken' = overtaken \union Joiners(l)
    /\ changed' = IF crew[l] # {} THEN changed \union {l} ELSE changed
    /\ UNCHANGED <<seatVars, join, stranded, phase, crew, late, listVars, torn>>

StartCountdown(l) ==
    /\ lobbies[l] # {} /\ phase[l] = "idle"
    /\ phase' = [phase EXCEPT ![l] = "counting"]
    /\ crew' = [crew EXCEPT ![l] = lobbies[l]]
    /\ overtaken' = overtaken \union Joiners(l)
    /\ Show(l, {})
    /\ early' = early \ {l}
    /\ UNCHANGED <<seatVars, join, stranded, changed, late, torn>>

CountdownEnds(l) ==
    /\ phase[l] = "counting"
    /\ phase' = [phase EXCEPT ![l] = "loading"]
    /\ UNCHANGED <<seatVars, joinVars, crew, changed, late, listVars, torn>>

(* _onGameLoaded for those who sat in l when the countdown began.  It stops at   *)
(* the first of them who has no client any more, which leaves the lobby.        *)
GameLoaded(l, players) ==
    \E done \in SUBSET (players \intersect registered) :
        /\ players \subseteq registered => done = players
        /\ member' = [u \in Users |-> IF u \in done THEN None ELSE member[u]]
        /\ registered' = registered \ done
        /\ IF done = players
             THEN /\ lobbies' = [lobbies EXCEPT ![l] = {}]
                  /\ bans' = [bans EXCEPT ![l] = {}]
                  /\ phase' = [phase EXCEPT ![l] = IF @ = "loading" THEN "idle" ELSE @]
             ELSE UNCHANGED <<lobbies, bans, phase>>

LoadSucceeds(l) ==
    /\ phase[l] = "loading" /\ crew[l] # {}
    /\ GameLoaded(l, crew[l])
    /\ crew' = [crew EXCEPT ![l] = {}]
    /\ changed' = changed \ {l}
    /\ overtaken' = overtaken \union Joiners(l)
    /\ UNCHANGED <<created, join, stranded, late, listVars, torn>>

(* Mutant of CancelsLoad: the lobby is not made ready again.                  *)
CancelsLoadNot(l) == FALSE

(* The catch of _runCountdownAndLoad: the lobby is still the one that was loaded. *)
CancelsLoad(l) == l \notin changed

LoadFails(l) ==
    /\ phase[l] = "loading" /\ crew[l] # {}
    /\ crew' = [crew EXCEPT ![l] = {}]
    /\ UNCHANGED changed
    /\ IF CancelsLoad(l)
         THEN /\ phase' = [phase EXCEPT ![l] = "idle"]
              /\ Show(l, RowAdded(rows[l], lobbies[l]))
         ELSE UNCHANGED <<phase, rows>>
    /\ UNCHANGED <<seatVars, joinVars, late, early, torn>>

(* A load succeeds although it had been aborted.                             *)
LateLoadSucceeds(r) ==
    /\ late' = late \ {r}
    /\ GameLoaded(r.lobby, r.crew)
    /\ torn' = TRUE
    /\ UNCHANGED <<created, joinVars, crew, changed, listVars>>

-----------------------------------------------------------------------------
(* The browser subscribes to the list and is sent every listed lobby.          *)
Browse ==
    /\ rows' = [l \in Lobbies |-> IF l \in Listed THEN lobbies[l] ELSE {}]
    /\ early' = {l \in Listed : lobbies[l] # {} /\ phase[l] # "idle"}
    /\ UNCHANGED <<seatVars, joinVars, gameVars, torn>>

UserStep(u) ==
    \/ LeaveLobby(u) \/ Kick(u) \/ Ban(u) \/ Disconnect(u) \/ DisconnectJoining(u)
    \/ JoinLands(u) \/ JoinLandsCut(u) \/ JoinFails(u)
    \/ \E l \in Lobbies : CreateLobby(u, l) \/ CreateInstead(u, l) \/ JoinLobby(u, l)

LobbyStep(l) ==
    \/ Edit(l) \/ StartCountdown(l) \/ CountdownEnds(l) \/ LoadSucceeds(l) \/ LoadFails(l)

Next ==
    /\ ~torn
    /\ \/ \E u \in Users : UserStep(u)
       \/ \E l \in Lobbies : LobbyStep(l)
       \/ \E r \in late : LateLoadSucceeds(r)
       \/ Browse

Spec == Init /\ [][Next]_vars

(* The countdown is a timer, and every load is answered (GameLoader, LoadsSettle). *)
LoadStep(l) == ~torn /\ (CountdownEnds(l) \/ LoadSucceeds(l) \/ LoadFails(l))
FairSpec == Spec /\ \A l \in Lobbies : WF_vars(LoadStep(l))

-----------------------------------------------------------------------------
Joins == [lobby : Lobbies \union {None}, read : SUBSET Users, cut : BOOLEAN]

TypeOK ==
    /\ registered \subseteq Users
    /\ created \subseteq Lobbies /\ changed \subseteq Lobbies /\ early \subseteq Lobbies
    /\ overtaken \subseteq Users /\ stranded \subseteq Users
    /\ lobbies \in [Lobbies -> SUBSET Users] /\ bans \in [Lobbies -> SUBSET Users]
    /\ crew \in [Lobbies -> SUBSET Users] /\ rows \in [Lobbies -> SUBSET Users]
    /\ member \in [Users -> Lobbies \union {None}]
    /\ join \in [Users -> Joins]
    /\ phase \in [Lobbies -> {"idle", "counting", "loading"}]
    /\ late \subseteq [lobby : Lobbies, crew : SUBSET Users]
    /\ torn \in BOOLEAN

(* Unless a join or load was torn, lobbyClients and the slots name the same      *)
(* lobby for every user, and exactly those who sit in a lobby or wait to join    *)
(* one are registered - and those whose join failed, for ever.                *)
SeatsAreHeld ==
    ~torn =>
    /\ \A l \in Lobbies : lobbies[l] = {u \in Users : member[u] = l}
    /\ registered = {u \in Users : member[u] # None \/ join[u].lobby # None} \union stranded

(* Unless torn, a countdown or load is for exactly those who sit in the lobby.    *)
CrewIsSeated ==
    ~torn => \A l \in Lobbies : /\ crew[l] # {} => crew[l] = lobbies[l] /\ phase[l] # "idle"
                                /\ phase[l] = "counting" => crew[l] # {}

(* Unless torn, nobody who was banned sits in the lobby or is about to.           *)
BannedStayOut ==
    ~torn => \A l \in Lobbies : \A u \in bans[l] : member[u] # l /\ join[u].lobby # l

(* Unless torn, the browser shows every listed lobby that can be joined, with    *)
(* everybody in it (and perhaps somebody whose leaving cancelled the game), and   *)
(* no other, but for those that were starting when it subscribed.              *)
RowsFollow ==
    ~torn => \A l \in Listed :
        IF lobbies[l] # {} /\ phase[l] = "idle" THEN lobbies[l] \subseteq rows[l]
        ELSE rows[l] # {} => l \in early

Stuck(l) == phase[l] = "loading" /\ crew[l] = {}

(* Every countdown and load ends, but for those of a lobby whose races were       *)
(* changed in the countdown.                                                *)
GamesStart ==
    \A l \in Lobbies : []<>(torn \/ phase[l] = "idle" \/ (Stuck(l) /\ l \in changed))

(* A lobby is loading only while its load is running: every failure cancels.      *)
FailureCancels == \A l \in Lobbies : ~Stuck(l)

=============================================================================
