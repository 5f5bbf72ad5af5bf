----------------------------- MODULE DraftState -----------------------------
(***************************************************************************)
(* The race draft of a team match: DraftState in                            *)
(* server/lib/matchmaking/draft-state.ts, with the match that runs it and    *)
(* the draft screen of one client (client/matchmaking/draft-atoms.ts), which *)
(* sees the draft only through the messages its socket carries.             *)
(*                                                                         *)
(* A player is <<team, slot>>, the slots of a team sorted by rating.  One    *)
(* action is one turn of the event loop with its microtasks: an abort         *)
(* rejects the draft, cleans it up and ends the match before anything else.  *)
(***************************************************************************)
EXTENDS Integers, Sequences

CONSTANTS
    TeamSize,
    Races,
    Hidden,        \* what a client sees of an opponent who has not locked
    MaxChanges,    \* bound: changes of a race in a behaviour
    MaxReconnects, \* bound: sockets the watched client loses
    MaxInFlight,   \* bound: messages on its socket when another is sent
    Watchers       \* the players whose clients may be the watched one

ASSUME SizeAssumption == TeamSize \in Nat \ {0}
ASSUME RacesAssumption == Hidden \notin Races /\ Races # {}
ASSUME BoundsAssumption == MaxChanges \in Nat /\ MaxReconnects \in Nat /\ MaxInFlight \in Nat

Players == {1, 2} \X (1..TeamSize)
Turns == 1..(2 * TeamSize)
NoTurn == 0

ASSUME WatchersAssumption == Watchers \subseteq Players

VARIABLES
    first,        \* the team with the higher effective rating
    race,         \* race[p]: provisionalRace, or finalRace once p has locked
    locked,       \* the players with hasLocked
    current,      \* currentPickerIndex, from 1; NoTurn before the first pick
    timers,       \* the timers that run: <<kind, the turn it was set in>>
    pickTimeout,  \* the turn of the timer pickTimeout refers to, or NoTurn
    result,       \* of the draft: "none" before runDraft, "running", "done", "failed"
    aborted,      \* the signal of the match
    gone,         \* players whose clients are gone
    changes,
    watcher,      \* the player whose client is followed
    chan,         \* the messages on the socket of that client
    view,         \* its draftStateAtom
    reconnects

draftVars  == <<race, locked, current, timers, pickTimeout, result>>
matchVars  == <<first, aborted, gone>>
clientVars == <<watcher, chan, view, reconnects>>
vars == <<draftVars, matchVars, changes, clientVars>>

-----------------------------------------------------------------------------
(* The pick order: A0 B0 A1 B1 ..., the lowest rated of each team first.     *)
Picker(i) == <<IF i % 2 = 1 THEN first ELSE 3 - first, (i + 1) \div 2>>

Unlocked == {i \in Turns : Picker(i) \notin locked}
IsNext(i) == i \in Unlocked /\ \A j \in Unlocked : i <= j

(* getCurrentPicker().                                                      *)
IsCurrent(p) == result = "running" /\ current # NoTurn /\ Picker(current) = p

-----------------------------------------------------------------------------
(* What the watched client is sent and what it makes of it.                 *)

Blank == [open |-> FALSE, complete |-> FALSE, picker |-> NoTurn, locked |-> {},
          shown |-> [p \in Players |-> Hidden]]

(* getClientDraftState(): opponents are anonymous and hide their races.       *)
Snapshot ==
    [open |-> TRUE, complete |-> FALSE, picker |-> current, locked |-> locked,
     shown |-> [p \in Players |-> IF p[1] = watcher[1] \/ p \in locked THEN race[p] ELSE Hidden]]

Started == [type |-> "draftStarted", draft |-> Snapshot]
PickStarted(i) == [type |-> "draftPickStarted", turn |-> i]
Provisional(p, r) == [type |-> "draftProvisionalPick", player |-> p, race |-> r]
PickLocked(p, r) == [type |-> "draftPickLocked", player |-> p, race |-> r]
Completed == [type |-> "draftCompleted"]
Canceled == [type |-> "draftCancel"]

(* The reducers of draft-atoms.ts.                                          *)
Reduce(v, m) ==
    CASE m.type = "draftStarted" -> m.draft
      [] m.type = "draftCancel" -> Blank
      [] m.type = "draftPickStarted" /\ v.open -> [v EXCEPT !.picker = m.turn]
      [] m.type = "draftProvisionalPick" /\ v.open /\ m.player \notin v.locked
            -> [v EXCEPT !.shown[m.player] = m.race]
      [] m.type = "draftPickLocked" /\ v.open
            -> [v EXCEPT !.locked = @ \union {m.player}, !.shown[m.player] = m.race,
                         !.picker = NoTurn]
      [] m.type = "draftCompleted" /\ v.open
            -> [v EXCEPT !.complete = TRUE, !.picker = NoTurn]
      [] OTHER -> v

Watching == watcher \notin gone

(* m is published to the watched client, if it is still there.              *)
Send(ms) ==
    /\ Len(chan) < MaxInFlight
    /\ chan' = IF Watching THEN chan \o ms ELSE chan
    /\ UNCHANGED <<watcher, view, reconnects>>

-----------------------------------------------------------------------------
(* The draft.                                                               *)

(* The timers once the draft is over.  Those of the start and of the pauses    *)
(* still elapse after an abort, but nobody waits for them any more.          *)
RunsOut == {}

(* Mutant of ClearPickTimeout: a lock-in leaves the timer running.            *)
ClearPickTimeoutNot == timers

ClearPickTimeout == timers \ {<<"pick", pickTimeout>>}

(* Mutant of PickTimer: startPickTimer() is forgotten.                      *)
NoPickTimer(i) == {}

PickTimer(i) == {<<"pick", i>>}

(* advanceToNextPicker(), called when timer t elapses.                       *)
AdvanceToNextPicker(t) ==
    /\ t \in timers
    /\ \/ /\ locked = Players
          /\ result' = "done" /\ timers' = RunsOut /\ pickTimeout' = NoTurn
          /\ Send(<<Completed>>)
          /\ UNCHANGED current
       \/ \E i \in Turns :
             /\ IsNext(i)
             /\ current' = i
             /\ timers' = (timers \ {t}) \union PickTimer(i) /\ pickTimeout' = i
             /\ Send(<<PickStarted(i)>>)
             /\ UNCHANGED result
    /\ UNCHANGED <<race, locked, matchVars, changes>>

(* Five seconds of animations, then the first pick.                         *)
StartElapsed == AdvanceToNextPicker(<<"start", NoTurn>>)

(* Two seconds after each pick.                                             *)
PauseElapsed(i) == AdvanceToNextPicker(<<"pause", i>>)

(* Mutant of MayLock: it need not be the turn of p.                         *)
MayLockAnytime(p) == result = "running" /\ p \notin locked

MayLock(p) == p \notin locked /\ IsCurrent(p)

(* Mutant of LockNews: the pick is published to the team of p only.          *)
LockNewsForTeam(p, r) == IF p[1] = watcher[1] THEN <<PickLocked(p, r)>> ELSE <<>>

LockNews(p, r) == <<PickLocked(p, r)>>

LockPick(p, r, running) ==
    /\ MayLock(p)
    /\ race' = [race EXCEPT ![p] = r]
    /\ locked' = locked \union {p}
    /\ timers' = running \union {<<"pause", current>>}
    /\ pickTimeout' = NoTurn
    /\ Send(LockNews(p, r))
    /\ UNCHANGED <<current, result, matchVars, changes>>

(* lockInPick(), on a request of p.                                         *)
LockInPick(p, r) == p \notin gone /\ LockPick(p, r, ClearPickTimeout)

(* handlePickTimeout(): the provisional race of the picker is locked.  The    *)
(* picker cannot have locked: the timer would have been cleared (OneClock).  *)
PickTimesOut(i) ==
    /\ <<"pick", i>> \in timers
    /\ current # NoTurn
    /\ LockPick(Picker(current), race[Picker(current)], ClearPickTimeout \ {<<"pick", i>>})

MayChange(p) == result = "running" /\ p \notin gone /\ p \notin locked

(* updateProvisionalRace(): the team of p is told.                          *)
UpdateProvisionalRace(p, r) ==
    /\ changes < MaxChanges
    /\ MayChange(p) /\ race[p] # r
    /\ race' = [race EXCEPT ![p] = r]
    /\ changes' = changes + 1
    /\ Send(IF p[1] = watcher[1] THEN <<Provisional(p, r)>> ELSE <<>>)
    /\ UNCHANGED <<locked, current, timers, pickTimeout, result, matchVars>>

-----------------------------------------------------------------------------
(* The match and the watched client.                                        *)

(* runDraft(): the clients subscribe to the path of their team and are sent    *)
(* the draft.  A player who left while the map was being picked has aborted    *)
(* the signal: the draft fails at once, and the match with it.              *)
RunDraft ==
    /\ result = "none"
    /\ IF aborted
       THEN /\ result' = "failed" /\ timers' = RunsOut
            /\ Send(<<Started, Canceled>>)
       ELSE /\ result' = "running" /\ timers' = {<<"start", NoTurn>>}
            /\ Send(<<Started>>)
    /\ UNCHANGED <<race, locked, current, pickTimeout, matchVars, changes>>

(* The client of p is gone: registerDecline() aborts the match.  If the draft  *)
(* runs, it is cleaned up, runMatch fails and tells the clients that are       *)
(* left; afterwards the match is forgotten.                                 *)
ClientLeaves(p) ==
    /\ p \notin gone /\ result \in {"none", "running"}
    /\ gone' = gone \union {p}
    /\ aborted' = TRUE
    /\ \/ /\ result = "running"
          /\ result' = "failed" /\ timers' = RunsOut /\ pickTimeout' = NoTurn
          /\ chan' = IF watcher \in gone' THEN <<>> ELSE Append(chan, Canceled)
          /\ view' = IF watcher \in gone' THEN Blank ELSE view
       \/ /\ result = "none"
          /\ UNCHANGED <<result, timers, pickTimeout, chan, view>>
    /\ UNCHANGED <<race, locked, current, first, changes, watcher, reconnects>>

(* The watched client replaces its socket before the server has noticed that   *)
(* the old one is dead: it starts from nothing, and if it is still subscribed  *)
(* to its team it is sent the draft as it is now.                           *)
Reconnect ==
    /\ Watching /\ reconnects < MaxReconnects
    /\ reconnects' = reconnects + 1
    /\ view' = Blank
    /\ chan' = IF result = "running" THEN <<Started>> ELSE <<>>
    /\ UNCHANGED <<draftVars, matchVars, changes, watcher>>

Deliver ==
    /\ chan # <<>>
    /\ view' = Reduce(view, Head(chan))
    /\ chan' = Tail(chan)
    /\ UNCHANGED <<draftVars, matchVars, changes, watcher, reconnects>>

-----------------------------------------------------------------------------
Init ==
    /\ first \in {1, 2}
    /\ race \in [Players -> Races]
    /\ locked = {} /\ current = NoTurn
    /\ timers = {} /\ pickTimeout = NoTurn
    /\ result = "none" /\ aborted = FALSE /\ gone = {} /\ changes = 0
    /\ watcher \in Watchers /\ chan = <<>> /\ view = Blank /\ reconnects = 0

Elapses == StartElapsed \/ \E i \in Turns : PauseElapsed(i) \/ PickTimesOut(i)

Next ==
    \/ RunDraft \/ Elapses \/ Reconnect \/ Deliver
    \/ \E p \in Players : \/ ClientLeaves(p)
                          \/ \E r \in Races : LockInPick(p, r) \/ UpdateProvisionalRace(p, r)

Spec == Init /\ [][Next]_vars

(* Timers elapse, the map is picked, and sockets deliver.                   *)
FairSpec == Spec /\ WF_vars(RunDraft) /\ WF_vars(Elapses) /\ WF_vars(Deliver)

-----------------------------------------------------------------------------
Timers == {<<"start", NoTurn>>} \union ({"pause", "pick"} \X Turns)

Shown == [Players -> Races \union {Hidden}]

Views == [open : BOOLEAN, complete : BOOLEAN, picker : Turns \union {NoTurn},
          locked : SUBSET Players, shown : Shown]

Messages ==
    [type : {"draftStarted"}, draft : Views]
    \union [type : {"draftPickStarted"}, turn : Turns]
    \union [type : {"draftProvisionalPick", "draftPickLocked"}, player : Players, race : Races]
    \union [type : {"draftCompleted", "draftCancel"}]

TypeOK ==
    /\ first \in {1, 2}
    /\ race \in [Players -> Races] /\ locked \subseteq Players
    /\ current \in Turns \union {NoTurn} /\ pickTimeout \in Turns \union {NoTurn}
    /\ timers \subseteq Timers
    /\ result \in {"none", "running", "done", "failed"}
    /\ aborted \in BOOLEAN /\ gone \subseteq Players
    /\ watcher \in Players /\ changes \in 0..MaxChanges /\ reconnects \in 0..MaxReconnects
    /\ chan \in Seq(Messages) /\ view \in Views

(* A draft that runs waits for exactly one timer, and a draft that is over or  *)
(* has not begun for none: two would skip a player, none would leave          *)
(* everybody waiting.                                                       *)
OneClock ==
    /\ result = "running" => \E t \in timers : timers = {t}
    /\ result # "running" => timers = {}
    /\ pickTimeout # NoTurn => timers = {<<"pick", pickTimeout>>}

(* The picks locked so far are the first ones of the pick order, all of them   *)
(* in a draft that completed.                                               *)
PicksAreInOrder ==
    /\ \A i, j \in Turns : i < j /\ Picker(j) \in locked => Picker(i) \in locked
    /\ result = "done" => locked = Players

(* A locked race never changes, and picks are locked one at a time, while the  *)
(* draft runs.                                                              *)
LocksAreFinal ==
    [][/\ locked \subseteq locked'
       /\ \A p \in locked : race'[p] = race[p]
       /\ locked' # locked => result = "running" /\ \E p \in Players : locked' = locked \union {p}]_vars

(* What a screen v shows once the messages ms have arrived.                  *)
After(v, ms) ==
    LET seen[i \in 0..Len(ms)] == IF i = 0 THEN v ELSE Reduce(seen[i - 1], ms[i])
    IN  seen[Len(ms)]

(* Once everything on its socket has arrived, the draft screen shows what the  *)
(* server would send it now, except for the player who has just locked, whom   *)
(* only a client that reconnects in the pause takes for the current picker;   *)
(* and nobody is left in a draft that failed.                               *)
ScreensCatchUp ==
    LET v == After(view, chan) IN
    /\ result = "running" /\ Watching =>
          /\ v = [Snapshot EXCEPT !.picker = v.picker]
          /\ v.picker = current \/ (v.picker = NoTurn /\ pickTimeout = NoTurn)
    /\ result = "done" => ~v.open \/ v = [Snapshot EXCEPT !.complete = TRUE, !.picker = NoTurn]
    /\ result = "failed" => ~v.open

(* Every draft ends.                                                        *)
DraftEnds == result = "running" ~> result \in {"done", "failed"}
=============================================================================
