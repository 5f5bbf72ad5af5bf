----------------------------- MODULE LobbySlots -----------------------------
(***************************************************************************)
(* The slots of one lobby: lobby.ts, with the checks that the handlers of     *)
(* lobby-service.ts make before they call it, and a member's screen, which    *)
(* sees nothing but the diffs that are published.                            *)
(*                                                                         *)
(* A place is a team and an index in it; the observer team is the last.  The  *)
(* host acts through the handlers for hosts: an action that only a host may    *)
(* take needs no guard, because some member is always the host (HostIsSenior). *)
(***************************************************************************)
EXTENDS Integers, Sequences, FiniteSets

CONSTANTS
    Users,
    Kinds,         \* the game types: "melee", "controlled" (team melee/FFA), "ums"
    Size,          \* Size[t]: slots of player team t
    Observers,     \* slots of the observer team, 0 if observers are not allowed
    Races,
    ForcedPlaces,  \* places whose race the map fixes ("ums")
    MapComputers,  \* places the map gives to computers ("ums")
    MaxJoins       \* bound: joins in a behaviour

Random == "r"

Teams == 1..Len(Size)
ObsTeam == Len(Size) + 1
Slots(t) == IF t = ObsTeam THEN Observers ELSE Size[t]
Places == UNION {{t} \X (1..Slots(t)) : t \in 1..ObsTeam}
NoPlace == <<0, 0>>
Nobody == "nobody"

ASSUME KindsAssumption == Kinds \subseteq {"melee", "controlled", "ums"}
ASSUME SizeAssumption == Size \in Seq(Nat \ {0}) /\ Len(Size) > 0 /\ Observers \in Nat
ASSUME RacesAssumption == Random \in Races
ASSUME UsersAssumption == Nobody \notin Users
ASSUME MapAssumption == ForcedPlaces \subseteq Places /\ MapComputers \subseteq Places
ASSUME ForcedAssumption == ForcedPlaces # {} => \E r \in Races : r # Random
ASSUME MaxAssumption == MaxJoins \in Nat \ {0}

VARIABLES
    kind,    \* gameType
    slots,   \* slots[p]: the slot at place p
    host,    \* the id of lobby.host, a copy of its slot of which only id and user are used
    open,    \* FALSE once the lobby is gone
    joins,   \* how many ids occupants have been given
    view     \* what the diffs made of the slots on the screen of somebody whose
             \* first snapshot of them was that of the new lobby

vars == <<kind, slots, host, open, joins, view>>

(* The id of an occupant is new for everybody who joins; ids are numbers, in    *)
(* the order of joinedAt.  Other slots never move: Fresh is the new id of a    *)
(* slot that was just created, Kept the id of one that was there before.      *)
Fresh == -1
Kept == 0

-----------------------------------------------------------------------------
(* Slots.                                                                   *)

Slot(type, user, id, race) ==
    [type |-> type, user |-> user, id |-> id, race |-> race, by |-> 0,
     forced |-> FALSE, pid |-> NoPlace]

Plain(type) == Slot(type, Nobody, Fresh, Random)
Computer(race) == Slot("computer", Nobody, Fresh, race)
Held(type, race, by) == [Slot(type, Nobody, Fresh, race) EXCEPT !.by = by]

(* x with the race and the player the map has at the place of s.            *)
OnMap(x, s) == [x EXCEPT !.race = s.race, !.forced = s.forced, !.pid = s.pid]

IsObs(p) == p[1] = ObsTeam
InTeam(t) == {t} \X (1..Slots(t))
TeamOf(p) == InTeam(p[1])

(* Mutant of OfMap: an observer's slot is treated as one of the map.         *)
OfMapAlways(p) == kind = "ums"

(* The map says who plays at p; the players of the team of p control its slots. *)
OfMap(p) == kind = "ums" /\ ~IsObs(p)
Controlled(p) == kind = "controlled" /\ ~IsObs(p)

(* The slot of a type with nobody in it that replaces s at p.                *)
Vacant(type, s, p) == IF OfMap(p) THEN OnMap(Plain(type), s) ELSE Plain(type)

Seated(s) == {p \in Places : s[p].type \in {"human", "observer"}}
Joinable(s, t) == {p \in InTeam(t) : s[p].type \in {"open", "heldOpen"}}
Unoccupied(s, t) ==
    {p \in InTeam(t) : s[p].type \in {"open", "closed", "heldOpen", "heldClosed"}}
Humans(s, p) == {q \in TeamOf(p) : s[q].type = "human"}
HasComputer(s, p) == \E q \in TeamOf(p) : s[q].type = "computer"
IsTeamEmpty(s, p) == \A q \in TeamOf(p) : s[q].type \in {"open", "closed"}

(* The first of some places of a team, if there is any.                      *)
First(P) == {p \in P : \A q \in P : p[2] <= q[2]}

(* The first of the teams of which Count is largest.                         *)
Largest(Count) ==
    {t \in Teams : \A u \in Teams : Count[u] < Count[t] \/ (Count[u] = Count[t] /\ t <= u)}

(* Mutant of Oldest: the youngest.                                          *)
OldestNot(s, P) == CHOOSE p \in P : \A q \in P : s[p].id >= s[q].id

(* The occupant of P who has been here for longest (sorted by joinedAt).       *)
Oldest(s, P) == CHOOSE p \in P : \A q \in P : s[p].id <= s[q].id

-----------------------------------------------------------------------------
(* lobby.ts.                                                                *)

(* What becomes of a slot of an empty team that x joins.                     *)
Filled(old, x) ==
    IF x.type = "computer" THEN Computer(x.race)
    ELSE Held(IF old.type = "closed" THEN "heldClosed" ELSE "heldOpen", x.race, x.id)

AddPlayer(s, p, x) ==
    IF Controlled(p) /\ IsTeamEmpty(s, p)
      THEN [q \in Places |-> IF q = p THEN x
                             ELSE IF q \in TeamOf(p) THEN Filled(s[q], x) ELSE s[q]]
      ELSE [s EXCEPT ![p] = x]

(* Mutant of HandOver: the leaver stays the controller of the other slots.    *)
HandOverOne(s, p, heir) == [s EXCEPT ![p] = Held("heldOpen", s[p].race, heir)]

(* The slots of the team of p when its occupant leaves them to heir.          *)
HandOver(s, p, heir) ==
    [q \in Places |->
        IF q = p THEN Held("heldOpen", s[p].race, heir)
        ELSE IF q \in TeamOf(p) /\ s[q].by = s[p].id THEN [s[q] EXCEPT !.by = heir] ELSE s[q]]

ResetTeam(s, p) ==
    [q \in Places |-> IF q \notin TeamOf(p) THEN s[q]
                      ELSE Plain(IF s[q].type = "heldClosed" THEN "closed" ELSE "open")]

RemoveControlled(s, p) ==
    IF Cardinality(Humans(s, p)) = 1 \/ HasComputer(s, p) THEN ResetTeam(s, p)
    ELSE HandOver(s, p, s[Oldest(s, Humans(s, p) \ {p})].id)

Remove(s, p) ==
    IF Controlled(p) THEN RemoveControlled(s, p)
    ELSE [s EXCEPT ![p] = Vacant("open", s[p], p)]

(* The occupant of p as it will be at q.                                    *)
MovedTo(s, p, q) ==
    LET x     == [s[p] EXCEPT !.type = IF IsObs(q) THEN "observer" ELSE "human"]
        there == [s[q] EXCEPT !.race = IF s[q].forced THEN @ ELSE s[p].race]
    IN  IF kind = "ums" THEN OnMap(x, there) ELSE x

Move(s, p, q) ==
    LET arrived == AddPlayer(s, q, MovedTo(s, p, q)) IN
    IF ~Controlled(p) THEN [arrived EXCEPT ![p] = Vacant("open", s[p], p)]
    ELSE IF p[1] = q[1] THEN [arrived EXCEPT ![p] = Held("heldOpen", Random, s[q].by)]
    ELSE RemoveControlled(arrived, p)

Reopened(s, p) ==
    [s EXCEPT ![p] = IF s[p].type = "heldClosed" THEN Held("heldOpen", s[p].race, s[p].by)
                     ELSE IF kind = "ums" THEN OnMap(Plain("open"), s[p]) ELSE Plain("open")]

Shut(s, p) ==
    [s EXCEPT ![p] = IF s[p].type = "heldOpen" THEN Held("heldClosed", s[p].race, s[p].by)
                     ELSE IF kind = "ums" THEN OnMap(Plain("closed"), s[p]) ELSE Plain("closed")]

(* The computers of a team share their race.                                 *)
WithRace(s, p, race) ==
    [q \in Places |->
        IF q = p \/ (kind = "controlled" /\ HasComputer(s, p) /\ q \in TeamOf(p))
          THEN [s[q] EXCEPT !.race = race] ELSE s[q]]

(* findAvailableSlot: the team with most room, or else the observers.         *)
Available(s) ==
    LET room == [t \in Teams |-> Cardinality(Joinable(s, t))] IN
    IF \E t \in Teams : room[t] > 0
      THEN UNION {First(Joinable(s, t)) : t \in Largest(room)}
      ELSE First(Joinable(s, ObsTeam))

(* Where makeObserver and removeObserver move somebody.                      *)
ObserverSeat(s) ==
    LET closed == {p \in InTeam(ObsTeam) : s[p].type = "closed"} IN
    First(IF closed # {} THEN closed ELSE Unoccupied(s, ObsTeam))

(* Mutant of PlayerSeat: somebody may sit there.                             *)
PlayerSeatAny(s) == First(InTeam(1))

PlayerSeat(s) ==
    LET room == [t \in Teams |-> Cardinality(Joinable(s, t))]
        any  == [t \in Teams |-> Cardinality(Unoccupied(s, t))]
    IN  IF \E t \in Teams : room[t] > 0
          THEN UNION {First(Joinable(s, t)) : t \in Largest(room)}
          ELSE UNION {First(Unoccupied(s, t)) : t \in Largest(any)}

-----------------------------------------------------------------------------
(* Publishing.                                                              *)

Settled(s) == [p \in Places |-> IF s[p].id = Fresh THEN [s[p] EXCEPT !.id = Kept] ELSE s[p]]

(* Mutant of Resent: only slots that are new are sent.                       *)
ResentNew(old, new, p) == new[p].id # old[p].id /\ \A q \in Places : old[q].id # new[p].id

(* A slot whose id is new at p is sent as slotCreate or slotChange.          *)
Resent(old, new, p) == new[p].id # old[p].id

(* The screen v after the diff of old and new.  The snapshot a subscription       *)
(* starts with, which awaits the users' names while diffs may be published, is    *)
(* not modelled.                                                            *)
Shown(v, old, new) ==
    [p \in Places |->
        IF Resent(old, new, p) THEN Settled(new)[p]
        ELSE [v[p] EXCEPT !.race = IF old[p].race # new[p].race THEN new[p].race ELSE @]]

Becomes(new) ==
    /\ slots' = Settled(new)
    /\ view' = Shown(view, slots, new)

-----------------------------------------------------------------------------
(* The handlers.                                                            *)

PlaceOf(u) == {p \in Seated(slots) : slots[p].user = u}

Occupant(u, p) ==
    LET x == Slot(IF IsObs(p) THEN "observer" ELSE "human", u, joins + 1, Random) IN
    IF OfMap(p) THEN OnMap(x, slots[p]) ELSE x

Join(u, asObserver) ==
    /\ open /\ PlaceOf(u) = {} /\ joins < MaxJoins
    /\ \E p \in IF asObserver THEN First(Joinable(slots, ObsTeam)) ELSE Available(slots) :
          Becomes(AddPlayer(slots, p, Occupant(u, p)))
    /\ joins' = joins + 1
    /\ UNCHANGED <<kind, host, open>>

changes == /\ open
           /\ UNCHANGED <<kind, host, open, joins>>

AddComputer(p) ==
    /\ kind # "ums" /\ ~IsObs(p)
    /\ slots[p].type \in {"open", "closed"}
    /\ Becomes(AddPlayer(slots, p, Computer(Random)))
    /\ changes

ChangeSlot(u, q) ==
    /\ slots[q].type \in {"open", "heldOpen"}
    /\ \E p \in PlaceOf(u) : Becomes(Move(slots, p, q))
    /\ changes

MaySetRace(u, p) ==
    \E own \in PlaceOf(u) :
        \/ slots[p].type = "computer" /\ slots[own].id = host
        \/ slots[p].type \in {"heldOpen", "heldClosed"} /\ slots[p].by = slots[own].id
        \/ slots[p].type = "human" /\ p = own /\ ~slots[p].forced

SetRace(u, p, race) ==
    /\ MaySetRace(u, p)
    /\ Becomes(WithRace(slots, p, race))
    /\ changes

OpenSlot(p) ==
    /\ slots[p].type \in {"closed", "heldClosed"}
    /\ Becomes(Reopened(slots, p))
    /\ changes

CloseSlot(p) ==
    /\ slots[p].type \in {"open", "heldOpen"}
    /\ Becomes(Shut(slots, p))
    /\ changes

KickComputer(p) ==
    /\ slots[p].type = "computer"
    /\ Becomes(Remove(slots, p))
    /\ changes

(* The host closes a computer's slot: it is kicked first, with a diff of its   *)
(* own.                                                                     *)
CloseComputer(p) ==
    LET kicked == Settled(Remove(slots, p))
        shut   == Shut(kicked, p)
    IN  /\ slots[p].type = "computer"
        /\ slots' = Settled(shut)
        /\ view' = Shown(Shown(view, slots, Remove(slots, p)), kicked, shut)
        /\ changes

(* The host after left, what remains of the slots without the occupant of p.   *)
HostAfter(p, left) == IF host = slots[p].id THEN left[Oldest(left, Seated(left))].id ELSE host

(* The occupant of p leaves, loses its connection, is kicked or banned.       *)
Leave(p) ==
    LET left == Remove(slots, p) IN
    /\ open /\ p \in Seated(slots)
    /\ \/ /\ Seated(left) = {}
          /\ open' = FALSE
          /\ UNCHANGED <<slots, host, view>>
       \/ /\ Seated(left) # {}
          /\ Becomes(left)
          /\ host' = HostAfter(p, left)
          /\ UNCHANGED open
    /\ UNCHANGED <<kind, joins>>

(* The host closes an occupied slot: kicks, then closes what is left there.   *)
CloseOccupied(p) ==
    LET left == Remove(slots, p)
        shut == Shut(Settled(left), p)
    IN  /\ open /\ p \in Seated(slots) /\ Seated(left) # {}
        /\ slots' = Settled(shut)
        /\ view' = Shown(Shown(view, slots, left), Settled(left), shut)
        /\ host' = HostAfter(p, left)
        /\ UNCHANGED <<kind, open, joins>>

MakeObserver(p) ==
    /\ slots[p].type = "human"
    /\ \E q \in ObserverSeat(slots) : Becomes(Move(slots, p, q))
    /\ changes

RemoveObserver(p) ==
    /\ slots[p].type = "observer"
    /\ \E q \in PlayerSeat(slots) : Becomes(Move(slots, p, q))
    /\ changes

-----------------------------------------------------------------------------
(* The slot at p of a new lobby.                                            *)
Initial(k, p) ==
    LET type == IF IsObs(p) THEN "closed"
                ELSE IF k = "ums" /\ p \in MapComputers THEN "umsComputer" ELSE "open"
        race == IF p \in ForcedPlaces THEN CHOOSE r \in Races : r # Random ELSE Random
        x    == Slot(type, Nobody, Kept, Random)
    IN  IF k # "ums" \/ IsObs(p) THEN x
        ELSE OnMap(x, [race |-> race, pid |-> p, forced |-> p \in ForcedPlaces \union MapComputers])

(* createLobby: the host takes the first open slot.                          *)
Init ==
    /\ kind \in Kinds
    /\ open = TRUE /\ joins = 1 /\ host = 1
    /\ \E u \in Users :
         LET new  == [p \in Places |-> Initial(kind, p)]
             free == {p \in Places : new[p].type = "open"}
             team == {p \in free : \A q \in free : p[1] <= q[1]}
             x    == Slot("human", u, 1, Random)
         IN  \E seat \in First(team) :
                slots = Settled(AddPlayer(new, seat,
                            IF kind = "ums" THEN OnMap(x, new[seat]) ELSE x))
    /\ view = slots

MemberStep(u) ==
    \/ \E asObserver \in BOOLEAN : Join(u, asObserver)
    \/ \E p \in Places : ChangeSlot(u, p) \/ \E race \in Races : SetRace(u, p, race)

HostStep(p) ==
    \/ AddComputer(p) \/ OpenSlot(p) \/ CloseSlot(p) \/ KickComputer(p) \/ CloseComputer(p)
    \/ CloseOccupied(p) \/ MakeObserver(p) \/ RemoveObserver(p)

Next == (\E u \in Users : MemberStep(u)) \/ (\E p \in Places : HostStep(p) \/ Leave(p))

Spec == Init /\ [][Next]_vars

-----------------------------------------------------------------------------
Types == {"human", "observer", "computer", "umsComputer", "open", "closed", "heldOpen",
          "heldClosed"}

SlotRecords ==
    [type : Types, user : Users \union {Nobody}, id : 0..MaxJoins,
     race : Races, by : 0..MaxJoins, forced : BOOLEAN, pid : Places \union {NoPlace}]

TypeOK ==
    /\ kind \in Kinds /\ open \in BOOLEAN
    /\ slots \in [Places -> SlotRecords] /\ view \in [Places -> SlotRecords]
    /\ host \in 1..MaxJoins /\ joins \in 1..MaxJoins

EmptyTeam(t) == \A p \in InTeam(t) : slots[p].type \in {"open", "closed"}

ComputerTeam(t) ==
    \A p, q \in InTeam(t) : slots[p].type = "computer" /\ slots[p].race = slots[q].race

PlayedTeam(t) ==
    /\ \E p \in InTeam(t) : slots[p].type = "human"
    /\ \A p \in InTeam(t) :
          \/ slots[p].type = "human"
          \/ /\ slots[p].type \in {"heldOpen", "heldClosed"}
             /\ \E q \in InTeam(t) : slots[q].type = "human" /\ slots[q].id = slots[p].by

(* In team melee and FFA a team is empty, or all computers of one race, or     *)
(* has players and every other slot is controlled by one of them, who is       *)
(* still in this team; elsewhere no slot is controlled, and observers sit in   *)
(* the observer team and nobody else does.                                   *)
TeamsAreWhole ==
    /\ kind = "controlled" => \A t \in Teams : EmptyTeam(t) \/ ComputerTeam(t) \/ PlayedTeam(t)
    /\ \A p \in Places : slots[p].type \in {"heldOpen", "heldClosed"} => Controlled(p)
    /\ \A p \in Places : IF IsObs(p) THEN slots[p].type \in {"open", "closed", "observer"}
                         ELSE slots[p].type # "observer"

(* The host is in the lobby, and nobody has been in it for longer.            *)
HostIsSenior ==
    open => \E p \in Seated(slots) : /\ slots[p].id = host
                                     /\ \A q \in Seated(slots) : slots[p].id <= slots[q].id

(* A screen shows every slot as it is, but for who controls it: nothing is     *)
(* sent when the control of a slot passes to another player.                  *)
ViewFollows ==
    \A p \in Places : [view[p] EXCEPT !.by = 0] = [slots[p] EXCEPT !.by = 0]

(* In a UMS lobby whatever happens leaves every player of the map at its        *)
(* place, with the race the map forces on it; in no other lobby, and to no     *)
(* observer, does the map force anything.                                    *)
MapIsKept ==
    \A p \in Places : IF OfMap(p)
        THEN slots[p].pid = p /\ slots[p].forced = Initial(kind, p).forced
             /\ (slots[p].forced => slots[p].race = Initial(kind, p).race)
        ELSE slots[p].pid = NoPlace /\ ~slots[p].forced

Seats(u) == {<<p, slots[p].id, slots[p].race>> : p \in PlaceOf(u)}

(* A step changes the seat of one user at most, and nobody sits twice: no move, *)
(* join or change of teams drops, copies or shifts somebody else.             *)
OthersStay ==
    [][open' => /\ Cardinality({u \in Users : Seats(u)' # Seats(u)}) <= 1
                /\ \A u \in Users : Cardinality(Seats(u)') <= 1]_vars

=============================================================================
