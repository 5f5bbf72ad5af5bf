-------------------------- MODULE LobbySlotsProofs --------------------------
(* What holds of a lobby with any number of teams, slots, users and races.    *)
EXTENDS LobbySlots, FiniteSetTheorems, WellFoundedInduction, TLAPS

(* The records of slots, those included that were just created.               *)
Ids == (0..MaxJoins) \union {Fresh}
Pids == Places \union {NoPlace}
Occupants == Users \union {Nobody}
Rec == [type : Types, user : Occupants, id : Ids, race : Races, by : 0..MaxJoins,
        forced : BOOLEAN, pid : Pids]

Sits(x) == x.type \in {"human", "observer"}
HeldTypes == {"heldOpen", "heldClosed"}
Bare == {"open", "closed"}

(* x and y are the same slot, but for its race and its controller.             *)
Kin(x, y) ==
    x.id = y.id /\ x.type = y.type /\ x.user = y.user /\ x.forced = y.forced /\ x.pid = y.pid

(* What the map says of the slot x at p.                                     *)
AsMapped(x, p) ==
    IF OfMap(p) THEN /\ x.pid = p /\ x.forced = Initial(kind, p).forced
                     /\ x.forced => x.race = Initial(kind, p).race
    ELSE x.pid = NoPlace /\ ~x.forced

(* x may be at p, whatever is elsewhere.                                     *)
OkAt(x, p) ==
    /\ x \in Rec
    /\ IF Sits(x) THEN x.id \in 1..MaxJoins ELSE x.id \in {Fresh, Kept}
    /\ x.type \in HeldTypes => Controlled(p)
    /\ IF IsObs(p) THEN x.type \in Bare \union {"observer"} ELSE x.type # "observer"
    /\ kind = "ums" => x.type # "computer"
    /\ AsMapped(x, p)

Empty(s, t) == \A p \in InTeam(t) : s[p].type \in Bare
Computers(s, t) ==
    \A p, q \in InTeam(t) : s[p].type = "computer" /\ s[p].race = s[q].race
Owned(s, t, p) == \E q \in InTeam(t) : s[q].type = "human" /\ s[q].id = s[p].by
Played(s, t) ==
    /\ \E p \in InTeam(t) : s[p].type = "human"
    /\ \A p \in InTeam(t) : s[p].type = "human" \/ (s[p].type \in HeldTypes /\ Owned(s, t, p))
Whole(s, t) == Empty(s, t) \/ Computers(s, t) \/ Played(s, t)

(* The slots s are those of a lobby, but for who sits where.                   *)
Good(s) ==
    /\ s = [p \in Places |-> s[p]]
    /\ \A p \in Places : OkAt(s[p], p)
    /\ kind = "controlled" => \A t \in Teams : Whole(s, t)

(* Outside P, n has the slots of s, but for controllers, or new ones where      *)
(* nobody sat.                                                              *)
Rest(s, n, P) ==
    \A p \in Places \ P :
       \/ Kin(n[p], s[p]) /\ n[p].race = s[p].race
       \/ n[p].id = Fresh /\ ~Sits(s[p])

-----------------------------------------------------------------------------
(* Places.                                                                  *)

LEMMA PlaceFacts ==
  /\ Len(Size) \in Nat /\ Teams \subseteq 1..ObsTeam /\ ObsTeam \in 1..ObsTeam
  /\ \A t \in 1..ObsTeam : /\ InTeam(t) \subseteq Places
                           /\ \A p \in InTeam(t) : p[1] = t /\ p[2] \in 1..Slots(t)
  /\ \A p \in Places : p[1] \in 1..ObsTeam /\ p \in InTeam(p[1]) /\ (~IsObs(p) => p[1] \in Teams)
<1>1. Len(Size) \in Nat
  BY SizeAssumption
<1>2. Teams \subseteq 1..ObsTeam /\ ObsTeam \in 1..ObsTeam
  BY <1>1 DEF Teams, ObsTeam
<1>3. \A t \in 1..ObsTeam : /\ InTeam(t) \subseteq Places
                            /\ \A p \in InTeam(t) : p[1] = t /\ p[2] \in 1..Slots(t)
  BY DEF InTeam, Places
<1>4. ASSUME NEW p \in Places
      PROVE  p[1] \in 1..ObsTeam /\ p \in InTeam(p[1]) /\ (~IsObs(p) => p[1] \in Teams)
  <2>1. PICK t \in 1..ObsTeam : p \in {t} \X (1..Slots(t))
    BY DEF Places
  <2>2. p[1] = t /\ p \in InTeam(t)
    BY <2>1 DEF InTeam
  <2> QED
    BY <1>1, <2>1, <2>2 DEF IsObs, Teams, ObsTeam
<1> QED
  BY <1>1, <1>2, <1>3, <1>4

(* A set of numbers has a least one.                                         *)
LEMMA LessIs == OpToRel(<, Nat) = {s \in Nat \X Nat : s[1] < s[2]}
  BY Zenon DEF OpToRel

LEMMA Least ==
  ASSUME NEW T \in SUBSET Nat, T # {}
  PROVE  \E x \in T : \A y \in T : x <= y
<1> DEFINE R == {s \in Nat \X Nat : s[1] < s[2]}
<1>1. IsWellFoundedOn(R, Nat)
  BY NatLessThanWellFounded, LessIs, Zenon
<1>2. PICK x \in T : \A y \in T : ~(<<y, x>> \in R)
  BY <1>1, WFMin, Zenon
<1>3. ASSUME NEW y \in T PROVE x <= y
  <2>1. <<y, x>> \notin R
    BY <1>2
  <2> QED
    BY <2>1
<1> QED
  BY <1>3

(* The oldest of some occupants is one of them.                              *)
LEMMA OldestIs ==
  ASSUME NEW s, NEW P, P # {}, \A p \in P : s[p].id \in Nat
  PROVE  Oldest(s, P) \in P /\ \A q \in P : s[Oldest(s, P)].id <= s[q].id
<1> DEFINE T == {s[p].id : p \in P}
<1>1. T \in SUBSET Nat /\ T # {}
  OBVIOUS
<1>2. \E p \in P : \A q \in P : s[p].id <= s[q].id
  <2>1. PICK x \in T : \A y \in T : x <= y
    BY <1>1, Least, Zenon
  <2> QED
    BY <2>1
<1> QED
  BY <1>2 DEF Oldest

-----------------------------------------------------------------------------
(* Single slots.                                                            *)

(* A slot, field by field.                                                   *)
Put(t, u, i, r, b, f, p) ==
    [type |-> t, user |-> u, id |-> i, race |-> r, by |-> b, forced |-> f, pid |-> p]

LEMMA Fields ==
  ASSUME NEW x \in Rec
  PROVE  /\ x.type \in Types /\ x.user \in Occupants /\ x.id \in Ids /\ x.race \in Races
         /\ x.by \in 0..MaxJoins /\ x.forced \in BOOLEAN /\ x.pid \in Pids
  BY DEF Rec

LEMMA MadeRec ==
  ASSUME NEW t \in Types, NEW u \in Occupants, NEW i \in Ids, NEW r \in Races,
         NEW b \in 0..MaxJoins, NEW f \in BOOLEAN, NEW p \in Pids
  PROVE  LET y == Put(t, u, i, r, b, f, p) IN
         /\ y \in Rec
         /\ y.type = t /\ y.user = u /\ y.id = i /\ y.race = r
         /\ y.by = b /\ y.forced = f /\ y.pid = p
  BY DEF Put, Rec

LEMMA WithBy ==
  ASSUME NEW x \in Rec, NEW b \in 0..MaxJoins
  PROVE  LET y == [x EXCEPT !.by = b] IN
         /\ y \in Rec
         /\ y.type = x.type /\ y.user = x.user /\ y.id = x.id /\ y.race = x.race
         /\ y.by = b /\ y.forced = x.forced /\ y.pid = x.pid
<1> DEFINE T == Types
<1> DEFINE U == Occupants
<1> DEFINE I == Ids
<1> DEFINE R == Races
<1> DEFINE B == 0..MaxJoins
<1> DEFINE F == BOOLEAN
<1> DEFINE P == Pids
<1>1. x \in [type : T, user : U, id : I, race : R, by : B, forced : F, pid : P] /\ b \in B
  BY DEF Rec
<1>2. [x EXCEPT !.by = b] = Put(x.type, x.user, x.id, x.race, b, x.forced, x.pid)
  <2> HIDE DEF T, U, I, R, B, F, P
  <2> QED
    BY <1>1 DEF Put
<1> QED
  BY <1>2, Fields, MadeRec

LEMMA WithRaceOf ==
  ASSUME NEW x \in Rec, NEW r \in Races
  PROVE  LET y == [x EXCEPT !.race = r] IN
         /\ y \in Rec
         /\ y.type = x.type /\ y.user = x.user /\ y.id = x.id /\ y.race = r
         /\ y.by = x.by /\ y.forced = x.forced /\ y.pid = x.pid
<1> DEFINE T == Types
<1> DEFINE U == Occupants
<1> DEFINE I == Ids
<1> DEFINE R == Races
<1> DEFINE B == 0..MaxJoins
<1> DEFINE F == BOOLEAN
<1> DEFINE P == Pids
<1>1. x \in [type : T, user : U, id : I, race : R, by : B, forced : F, pid : P] /\ r \in R
  BY DEF Rec
<1>2. [x EXCEPT !.race = r] = Put(x.type, x.user, x.id, r, x.by, x.forced, x.pid)
  <2> HIDE DEF T, U, I, R, B, F, P
  <2> QED
    BY <1>1 DEF Put
<1> QED
  BY <1>2, Fields, MadeRec

LEMMA WithId ==
  ASSUME NEW x \in Rec, NEW i \in Ids
  PROVE  LET y == [x EXCEPT !.id = i] IN
         /\ y \in Rec
         /\ y.type = x.type /\ y.user = x.user /\ y.id = i /\ y.race = x.race
         /\ y.by = x.by /\ y.forced = x.forced /\ y.pid = x.pid
<1> DEFINE T == Types
<1> DEFINE U == Occupants
<1> DEFINE I == Ids
<1> DEFINE R == Races
<1> DEFINE B == 0..MaxJoins
<1> DEFINE F == BOOLEAN
<1> DEFINE P == Pids
<1>1. x \in [type : T, user : U, id : I, race : R, by : B, forced : F, pid : P] /\ i \in I
  BY DEF Rec
<1>2. [x EXCEPT !.id = i] = Put(x.type, x.user, i, x.race, x.by, x.forced, x.pid)
  <2> HIDE DEF T, U, I, R, B, F, P
  <2> QED
    BY <1>1 DEF Put
<1> QED
  BY <1>2, Fields, MadeRec

LEMMA WithType ==
  ASSUME NEW x \in Rec, NEW t \in Types
  PROVE  LET y == [x EXCEPT !.type = t] IN
         /\ y \in Rec
         /\ y.type = t /\ y.user = x.user /\ y.id = x.id /\ y.race = x.race
         /\ y.by = x.by /\ y.forced = x.forced /\ y.pid = x.pid
<1> DEFINE T == Types
<1> DEFINE U == Occupants
<1> DEFINE I == Ids
<1> DEFINE R == Races
<1> DEFINE B == 0..MaxJoins
<1> DEFINE F == BOOLEAN
<1> DEFINE P == Pids
<1>1. x \in [type : T, user : U, id : I, race : R, by : B, forced : F, pid : P] /\ t \in T
  BY DEF Rec
<1>2. [x EXCEPT !.type = t] = Put(t, x.user, x.id, x.race, x.by, x.forced, x.pid)
  <2> HIDE DEF T, U, I, R, B, F, P
  <2> QED
    BY <1>1 DEF Put
<1> QED
  BY <1>2, Fields, MadeRec

LEMMA WithForced ==
  ASSUME NEW x \in Rec, NEW f \in BOOLEAN
  PROVE  LET y == [x EXCEPT !.forced = f] IN
         /\ y \in Rec
         /\ y.type = x.type /\ y.user = x.user /\ y.id = x.id /\ y.race = x.race
         /\ y.by = x.by /\ y.forced = f /\ y.pid = x.pid
<1> DEFINE T == Types
<1> DEFINE U == Occupants
<1> DEFINE I == Ids
<1> DEFINE R == Races
<1> DEFINE B == 0..MaxJoins
<1> DEFINE F == BOOLEAN
<1> DEFINE P == Pids
<1>1. x \in [type : T, user : U, id : I, race : R, by : B, forced : F, pid : P] /\ f \in F
  BY DEF Rec
<1>2. [x EXCEPT !.forced = f] = Put(x.type, x.user, x.id, x.race, x.by, f, x.pid)
  <2> HIDE DEF T, U, I, R, B, F, P
  <2> QED
    BY <1>1 DEF Put
<1> QED
  BY <1>2, Fields, MadeRec

LEMMA WithPid ==
  ASSUME NEW x \in Rec, NEW p \in Pids
  PROVE  LET y == [x EXCEPT !.pid = p] IN
         /\ y \in Rec
         /\ y.type = x.type /\ y.user = x.user /\ y.id = x.id /\ y.race = x.race
         /\ y.by = x.by /\ y.forced = x.forced /\ y.pid = p
<1> DEFINE T == Types
<1> DEFINE U == Occupants
<1> DEFINE I == Ids
<1> DEFINE R == Races
<1> DEFINE B == 0..MaxJoins
<1> DEFINE F == BOOLEAN
<1> DEFINE P == Pids
<1>1. x \in [type : T, user : U, id : I, race : R, by : B, forced : F, pid : P] /\ p \in P
  BY DEF Rec
<1>2. [x EXCEPT !.pid = p] = Put(x.type, x.user, x.id, x.race, x.by, x.forced, p)
  <2> HIDE DEF T, U, I, R, B, F, P
  <2> QED
    BY <1>1 DEF Put
<1> QED
  BY <1>2, Fields, MadeRec

LEMMA OnMapIs ==
  ASSUME NEW x \in Rec, NEW s, s.race \in Races, s.forced \in BOOLEAN, s.pid \in Pids
  PROVE  LET y == OnMap(x, s) IN
         /\ y \in Rec
         /\ y.type = x.type /\ y.user = x.user /\ y.id = x.id /\ y.race = s.race
         /\ y.by = x.by /\ y.forced = s.forced /\ y.pid = s.pid
<1> DEFINE a == [x EXCEPT !.race = s.race]
<1> DEFINE b == [a EXCEPT !.forced = s.forced]
<1>1. /\ a \in Rec
      /\ a.type = x.type /\ a.user = x.user /\ a.id = x.id /\ a.race = s.race /\ a.by = x.by
  BY WithRaceOf
<1>2. /\ b \in Rec
      /\ b.type = x.type /\ b.user = x.user /\ b.id = x.id /\ b.race = s.race /\ b.by = x.by
      /\ b.forced = s.forced
  <2> HIDE DEF a
  <2> QED
    BY <1>1, WithForced
<1>3. LET y == [b EXCEPT !.pid = s.pid] IN
         /\ y \in Rec
         /\ y.type = x.type /\ y.user = x.user /\ y.id = x.id /\ y.race = s.race
         /\ y.by = x.by /\ y.forced = s.forced /\ y.pid = s.pid
  <2> HIDE DEF b
  <2> QED
    BY <1>2, WithPid
<1> QED
  BY <1>3, Zenon DEF OnMap, a, b

LEMMA SameBut ==
  ASSUME NEW x \in Rec, NEW y \in Rec
  PROVE  ([x EXCEPT !.by = 0] = [y EXCEPT !.by = 0]) <=> (Kin(x, y) /\ x.race = y.race)
<1> DEFINE T == Types
<1> DEFINE U == Occupants
<1> DEFINE I == Ids
<1> DEFINE R == Races
<1> DEFINE B == 0..MaxJoins
<1> DEFINE F == BOOLEAN
<1> DEFINE P == Pids
<1>1. /\ x \in [type : T, user : U, id : I, race : R, by : B, forced : F, pid : P]
      /\ y \in [type : T, user : U, id : I, race : R, by : B, forced : F, pid : P] /\ 0 \in B
  BY MaxAssumption DEF Rec
<1>2. ([x EXCEPT !.by = 0] = [y EXCEPT !.by = 0]) <=>
        /\ x.type = y.type /\ x.user = y.user /\ x.id = y.id
        /\ x.race = y.race /\ x.forced = y.forced /\ x.pid = y.pid
  <2> HIDE DEF T, U, I, R, B, F, P
  <2> QED
    BY <1>1
<1> QED
  BY <1>2 DEF Kin

LEMMA SlotIs ==
  ASSUME NEW t \in Types, NEW u \in Occupants, NEW i \in Ids, NEW r \in Races
  PROVE  LET x == Slot(t, u, i, r) IN
         /\ x \in Rec
         /\ x.type = t /\ x.user = u /\ x.id = i /\ x.race = r
         /\ x.by = 0 /\ ~x.forced /\ x.pid = NoPlace
  BY MaxAssumption DEF Slot, Rec, Pids

LEMMA SomeIn ==
  /\ \A t \in Bare \union HeldTypes \union {"computer", "human", "observer"} : t \in Types
  /\ Nobody \in Occupants /\ Fresh \in Ids /\ Random \in Races
  BY RacesAssumption DEF Bare, HeldTypes, Types, Occupants, Ids

LEMMA PlainIs ==
  ASSUME NEW t \in Bare
  PROVE  LET x == Plain(t) IN
         /\ x \in Rec
         /\ x.type = t /\ x.id = Fresh /\ x.race = Random /\ x.by = 0
         /\ ~x.forced /\ x.pid = NoPlace
<1>1. t \in Types /\ Nobody \in Occupants /\ Fresh \in Ids /\ Random \in Races
  BY SomeIn
<1> QED
  BY <1>1, MaxAssumption DEF Plain, Slot, Rec, Pids

LEMMA HeldIs ==
  ASSUME NEW t \in HeldTypes, NEW r \in Races, NEW b \in 0..MaxJoins
  PROVE  LET x == Held(t, r, b) IN
         /\ x \in Rec
         /\ x.type = t /\ x.id = Fresh /\ x.race = r /\ x.by = b
         /\ ~x.forced /\ x.pid = NoPlace
<1> DEFINE s == Slot(t, Nobody, Fresh, r)
<1>1. s \in Rec /\ s.type = t /\ s.id = Fresh /\ s.race = r /\ ~s.forced /\ s.pid = NoPlace
  <2>1. t \in Types /\ Nobody \in Occupants /\ Fresh \in Ids
    BY SomeIn
  <2> QED
    BY <2>1, MaxAssumption DEF Slot, Rec, Pids
<1> HIDE DEF s
<1>2. LET x == [s EXCEPT !.by = b] IN
         /\ x \in Rec
         /\ x.type = t /\ x.id = Fresh /\ x.race = r /\ x.by = b
         /\ ~x.forced /\ x.pid = NoPlace
  BY <1>1, WithBy
<1> QED
  BY <1>2, Zenon DEF Held, s

(* An open or closed slot may be anywhere the map says nothing of.             *)
LEMMA PlainOk ==
  ASSUME NEW p \in Places, ~OfMap(p), NEW t \in Bare
  PROVE  OkAt(Plain(t), p)
  BY PlainIs DEF OkAt, Sits, HeldTypes, AsMapped, Bare

LEMMA OnMapOk ==
  ASSUME NEW p \in Places, NEW y, OkAt(y, p), NEW t \in Bare
  PROVE  /\ OkAt(OnMap(Plain(t), y), p)
         /\ OnMap(Plain(t), y).type = t /\ OnMap(Plain(t), y).id = Fresh
<1> DEFINE x == OnMap(Plain(t), y)
<1>1. /\ x \in Rec /\ x.type = t /\ x.id = Fresh /\ x.race = y.race
      /\ x.forced = y.forced /\ x.pid = y.pid
  <2>1. y.race \in Races /\ y.forced \in BOOLEAN /\ y.pid \in Pids
    BY Fields DEF OkAt
  <2>2. Plain(t) \in Rec /\ Plain(t).type = t /\ Plain(t).id = Fresh
    BY PlainIs
  <2> QED
    BY <2>1, <2>2, OnMapIs
<1> HIDE DEF x
<1>2. OkAt(x, p)
  BY <1>1 DEF OkAt, Sits, HeldTypes, AsMapped, Bare
<1> QED
  BY <1>1, <1>2 DEF x

LEMMA VacantOk ==
  ASSUME NEW p \in Places, NEW y, OkAt(y, p), NEW t \in Bare
  PROVE  OkAt(Vacant(t, y, p), p) /\ Vacant(t, y, p).type = t /\ Vacant(t, y, p).id = Fresh
  BY PlainIs, PlainOk, OnMapOk DEF Vacant

LEMMA ComputerOk ==
  ASSUME NEW p \in Places, ~IsObs(p), kind # "ums", NEW r \in Races
  PROVE  /\ OkAt(Computer(r), p) /\ Computer(r).type = "computer" /\ Computer(r).id = Fresh
         /\ Computer(r).race = r
<1> DEFINE x == Computer(r)
<1>1. /\ x \in Rec /\ x.type = "computer" /\ x.id = Fresh /\ x.race = r
      /\ ~x.forced /\ x.pid = NoPlace
  <2>1. "computer" \in Types /\ Nobody \in Occupants /\ Fresh \in Ids
    BY SomeIn
  <2> QED
    BY <2>1, MaxAssumption DEF Computer, Slot, Rec, Pids
<1> HIDE DEF x
<1>2. OkAt(x, p)
  BY <1>1 DEF OkAt, Sits, HeldTypes, AsMapped, OfMap
<1> QED
  BY <1>1, <1>2 DEF x

LEMMA HeldOk ==
  ASSUME NEW p \in Places, Controlled(p), NEW t \in HeldTypes, NEW r \in Races, NEW b \in 0..MaxJoins
  PROVE  OkAt(Held(t, r, b), p)
<1> DEFINE x == Held(t, r, b)
<1>1. x \in Rec /\ x.type = t /\ x.id = Fresh /\ ~x.forced /\ x.pid = NoPlace
  BY HeldIs
<1> HIDE DEF x
<1>2. OkAt(x, p)
  BY <1>1 DEF OkAt, Sits, HeldTypes, AsMapped, OfMap, Controlled
<1> QED
  BY <1>2 DEF x

(* A slot with another controller or, if the map does not force it, another race.  *)
LEMMA ByOk ==
  ASSUME NEW p \in Places, NEW x, OkAt(x, p), NEW b \in 0..MaxJoins
  PROVE  /\ OkAt([x EXCEPT !.by = b], p) /\ Kin([x EXCEPT !.by = b], x)
         /\ [x EXCEPT !.by = b].race = x.race
<1> DEFINE y == [x EXCEPT !.by = b]
<1>1. y \in Rec /\ Kin(y, x) /\ y.race = x.race
  BY WithBy DEF Kin, OkAt
<1> HIDE DEF y
<1>2. OkAt(y, p)
  BY <1>1 DEF OkAt, Sits, AsMapped, Kin
<1> QED
  BY <1>1, <1>2 DEF y

LEMMA RaceOk ==
  ASSUME NEW p \in Places, NEW x, OkAt(x, p), NEW r \in Races, OfMap(p) => ~x.forced
  PROVE  /\ OkAt([x EXCEPT !.race = r], p) /\ Kin([x EXCEPT !.race = r], x)
         /\ [x EXCEPT !.race = r].by = x.by /\ [x EXCEPT !.race = r].race = r
<1> DEFINE y == [x EXCEPT !.race = r]
<1>1. y \in Rec /\ Kin(y, x) /\ y.race = r /\ y.by = x.by
  BY WithRaceOf DEF Kin, OkAt
<1> HIDE DEF y
<1>2. OkAt(y, p)
  BY <1>1 DEF OkAt, Sits, AsMapped, Kin
<1> QED
  BY <1>1, <1>2 DEF y

(* Who sits at p may sit at q, where nobody sits.                              *)
LEMMA MovedOk ==
  ASSUME NEW s, Good(s), NEW p \in Places, NEW q \in Places, Sits(s[p])
  PROVE  LET x == MovedTo(s, p, q) IN
         /\ OkAt(x, q) /\ Sits(x) /\ x.id = s[p].id /\ x.user = s[p].user
         /\ ~IsObs(q) => x.type = "human"
<1> DEFINE t == IF IsObs(q) THEN "observer" ELSE "human"
<1> DEFINE x == [s[p] EXCEPT !.type = t]
<1> DEFINE race == IF s[q].forced THEN s[q].race ELSE s[p].race
<1> DEFINE there == [s[q] EXCEPT !.race = race]
<1>1. OkAt(s[p], p) /\ OkAt(s[q], q) /\ s[p] \in Rec /\ s[q] \in Rec
  BY DEF Good, OkAt
<1>2. /\ x \in Rec /\ x.type = t /\ x.id = s[p].id /\ x.race = s[p].race
      /\ x.forced = s[p].forced /\ x.pid = s[p].pid /\ x.user = s[p].user
  <2>1. t \in Types
    BY SomeIn
  <2> HIDE DEF t
  <2> QED
    BY <1>1, <2>1, WithType
<1>3. race \in Races /\ s[p].id \in 1..MaxJoins
  BY <1>1, Fields DEF OkAt
<1>4. /\ there \in Rec /\ there.race = race /\ there.forced = s[q].forced /\ there.pid = s[q].pid
  <2> HIDE DEF race
  <2> QED
    BY <1>1, <1>3, WithRaceOf
<1>5. MovedTo(s, p, q) = IF kind = "ums" THEN OnMap(x, there) ELSE x
  BY Zenon DEF MovedTo
<1>6. s[q].forced => there.race = s[q].race
  <2> HIDE DEF there
  <2> QED
    BY <1>4
<1> HIDE DEF x, there, race
<1>7. CASE kind = "ums"
  <2> DEFINE y == OnMap(x, there)
  <2>1. /\ y \in Rec /\ y.type = t /\ y.id = s[p].id /\ y.user = s[p].user /\ y.race = there.race
        /\ y.forced = s[q].forced /\ y.pid = s[q].pid
    BY <1>2, <1>4, OnMapIs, Fields
  <2> HIDE DEF y
  <2>2. OkAt(y, q) /\ Sits(y)
    BY <1>1, <1>3, <1>6, <2>1 DEF OkAt, Sits, HeldTypes, AsMapped
  <2> QED
    BY <1>5, <1>7, <2>1, <2>2 DEF y
<1>8. CASE kind # "ums"
  <2>1. OkAt(x, q) /\ Sits(x)
    BY <1>1, <1>2, <1>3, <1>8 DEF OkAt, Sits, HeldTypes, AsMapped, OfMap
  <2> QED
    BY <1>2, <1>5, <1>8, <2>1
<1> QED
  BY <1>7, <1>8

-----------------------------------------------------------------------------
(* Teams.                                                                   *)

LEMMA WholeSame ==
  ASSUME NEW s, NEW n, NEW t, Whole(s, t),
         \A r \in InTeam(t) : /\ n[r].type = s[r].type /\ n[r].by = s[r].by
                              /\ n[r].race = s[r].race /\ n[r].id = s[r].id
  PROVE  Whole(n, t)
  BY DEF Whole, Empty, Computers, Played, Owned

(* What changes one team leaves the others whole.                            *)
LEMMA OthersWhole ==
  ASSUME NEW s, Good(s), NEW n, NEW p \in Places, kind = "controlled",
         \A r \in Places : r \notin TeamOf(p) => n[r] = s[r],
         ~IsObs(p) => Whole(n, p[1])
  PROVE  \A t \in Teams : Whole(n, t)
<1> SUFFICES ASSUME NEW t \in Teams PROVE Whole(n, t)
  OBVIOUS
<1>1. CASE t = p[1]
  BY <1>1, PlaceFacts DEF IsObs, Teams, ObsTeam
<1>2. CASE t # p[1]
  <2>1. \A r \in InTeam(t) : n[r] = s[r]
    BY <1>2, PlaceFacts DEF TeamOf
  <2> QED
    BY <2>1, WholeSame DEF Good
<1> QED
  BY <1>1, <1>2

(* A slot of a team that is not played is not a player's.                      *)
LEMMA TeamKinds ==
  ASSUME NEW s, Good(s), NEW p \in Places, Controlled(p)
  PROVE  /\ Whole(s, p[1]) /\ p[1] \in Teams /\ p \in InTeam(p[1]) /\ TeamOf(p) = InTeam(p[1])
         /\ \A r \in InTeam(p[1]) : r \in Places /\ ~IsObs(r) /\ Controlled(r) /\ OkAt(s[r], r)
         /\ s[p].type \in HeldTypes \union {"human"} => Played(s, p[1])
         /\ s[p].type = "computer" => Computers(s, p[1])
         /\ s[p].type \in Bare => Empty(s, p[1])
<1>1. p[1] \in Teams /\ p \in InTeam(p[1]) /\ p[1] \in 1..ObsTeam
  BY PlaceFacts DEF Controlled
<1>2. \A r \in InTeam(p[1]) : r \in Places /\ r[1] = p[1]
  BY <1>1, PlaceFacts
<1>3. Whole(s, p[1])
  BY <1>1 DEF Good, Controlled
<1>4. Empty(s, p[1]) => s[p].type \in Bare
  BY <1>1 DEF Empty
<1>5. Computers(s, p[1]) => s[p].type = "computer"
  BY <1>1 DEF Computers
<1>6. Played(s, p[1]) => s[p].type \in HeldTypes \union {"human"}
  BY <1>1 DEF Played
<1> QED
  BY <1>1, <1>2, <1>3, <1>4, <1>5, <1>6 DEF Whole, Bare, HeldTypes, TeamOf, Good, Controlled, IsObs

-----------------------------------------------------------------------------
(* The operations of lobby.ts.                                               *)

LEMMA AddGood ==
  ASSUME NEW s, Good(s), NEW p \in Places, NEW x, OkAt(x, p),
         x.type \in {"human", "observer", "computer"}, s[p].type \in Bare \union HeldTypes,
         x.type = "computer" => s[p].type \in Bare
  PROVE  LET n == AddPlayer(s, p, x) IN
         /\ Good(n) /\ n[p] = x
         /\ \A r \in Places \ {p} : n[r] = s[r] \/ (n[r].id = Fresh /\ ~Sits(s[r]))
<1> DEFINE n == AddPlayer(s, p, x)
<1>1. CASE Controlled(p) /\ IsTeamEmpty(s, p)
  <2>1. n = [q \in Places |-> IF q = p THEN x
                              ELSE IF q \in TeamOf(p) THEN Filled(s[q], x) ELSE s[q]]
    BY <1>1, Zenon DEF AddPlayer
  <2>2. /\ n = [r \in Places |-> n[r]] /\ n[p] = x
        /\ \A r \in Places : r \notin TeamOf(p) /\ r # p => n[r] = s[r]
        /\ \A r \in Places : r \in TeamOf(p) /\ r # p => n[r] = Filled(s[r], x)
    BY <2>1
  <2> HIDE DEF n
  <2>3. /\ x.type \in {"human", "computer"} /\ x.id \in 0..MaxJoins \union {Fresh} /\ x.race \in Races
        /\ x.type = "human" => x.id \in 0..MaxJoins
    BY <1>1, Fields DEF OkAt, Controlled, Ids, Sits, Bare
  <2>4. ASSUME NEW r \in InTeam(p[1]), r # p
        PROVE  /\ n[r] = Filled(s[r], x) /\ OkAt(n[r], r) /\ n[r].id = Fresh
               /\ x.type = "computer" => n[r].type = "computer" /\ n[r].race = x.race
               /\ x.type = "human" => n[r].type \in HeldTypes /\ n[r].by = x.id
    <3>1. r \in Places /\ Controlled(r) /\ ~IsObs(r) /\ kind # "ums" /\ r \in TeamOf(p)
      BY <1>1, TeamKinds DEF Controlled
    <3>2. n[r] = Filled(s[r], x)
      BY <2>2, <2>4, <3>1
    <3>3. CASE x.type = "computer"
      <4>1. n[r] = Computer(x.race)
        BY <3>2, <3>3 DEF Filled
      <4> QED
        BY <2>3, <3>1, <3>2, <3>3, <4>1, ComputerOk
    <3>4. CASE x.type = "human"
      <4>1. PICK t \in HeldTypes : n[r] = Held(t, x.race, x.id)
        BY <3>2, <3>4 DEF Filled, HeldTypes
      <4>2. OkAt(n[r], r) /\ n[r].id = Fresh /\ n[r].type = t /\ n[r].by = x.id
        BY <2>3, <3>1, <3>4, <4>1, HeldOk, HeldIs
      <4> QED
        BY <3>2, <3>4, <4>2
    <3> QED
      BY <2>3, <3>3, <3>4
  <2>5. TeamOf(p) = InTeam(p[1]) /\ p \in InTeam(p[1])
    BY <1>1, TeamKinds
  <2>6. \A r \in Places : OkAt(n[r], r)
    BY <2>2, <2>4, <2>5 DEF Good
  <2>7. Whole(n, p[1])
    <3>1. CASE x.type = "computer"
      <4>1. \A r \in InTeam(p[1]) : n[r].type = "computer" /\ n[r].race = x.race
        BY <2>2, <2>4, <3>1
      <4> QED
        BY <4>1 DEF Whole, Computers
    <3>2. CASE x.type = "human"
      <4>1. n[p].type = "human" /\ n[p].id = x.id
        BY <2>2, <3>2
      <4>2. \A r \in InTeam(p[1]) : r = p \/ (n[r].type \in HeldTypes /\ n[r].by = x.id)
        BY <2>4, <3>2
      <4> QED
        BY <2>5, <4>1, <4>2 DEF Whole, Played, Owned
    <3> QED
      BY <2>3, <3>1, <3>2
  <2>8. kind = "controlled" => \A t \in Teams : Whole(n, t)
    BY <2>2, <2>5, <2>7, OthersWhole
  <2>9. \A r \in InTeam(p[1]) : ~Sits(s[r])
    BY <1>1, <2>5 DEF IsTeamEmpty, Sits
  <2> QED
    BY <2>2, <2>4, <2>5, <2>6, <2>8, <2>9 DEF Good, n
<1>2. CASE ~(Controlled(p) /\ IsTeamEmpty(s, p))
  <2>1. n = [s EXCEPT ![p] = x]
    BY <1>2, Zenon DEF AddPlayer
  <2> HIDE DEF n
  <2>2. n = [r \in Places |-> n[r]] /\ n[p] = x /\ \A r \in Places \ {p} : n[r] = s[r]
    BY <2>1 DEF Good
  <2> HIDE DEF n
  <2>3. \A r \in Places : OkAt(n[r], r)
    BY <2>2 DEF Good
  <2>4. CASE kind = "controlled"
    <3>1. CASE IsObs(p)
      <4>1. \A r \in Places : r \notin TeamOf(p) => n[r] = s[r]
        BY <2>2, PlaceFacts DEF TeamOf
      <4> QED
        BY <2>2, <2>3, <2>4, <3>1, <4>1, OthersWhole DEF Good, n
    <3>2. CASE ~IsObs(p)
      <4>1. Controlled(p)
        BY <2>4, <3>2 DEF Controlled
      <4>2. /\ p \in InTeam(p[1]) /\ TeamOf(p) = InTeam(p[1])
            /\ \A r \in InTeam(p[1]) : r \in Places
        BY <4>1, TeamKinds
      <4>3. s[p].type \in HeldTypes
        BY <1>2, <4>1, <4>2, TeamKinds DEF IsTeamEmpty, Empty, Bare
      <4>4. Played(s, p[1])
        BY <4>1, <4>3, TeamKinds
      <4>5. x.type = "human"
        BY <3>2, <4>3 DEF OkAt, Bare, HeldTypes
      <4>6. \A r \in InTeam(p[1]) : r # p => n[r] = s[r]
        BY <2>2, <4>2
      <4>7. \A r \in InTeam(p[1]) : r # p /\ s[r].type = "human" => n[r].type = "human" /\ n[r].id = s[r].id
        BY <4>6
      <4>8. \A r \in InTeam(p[1]) : Owned(s, p[1], r) /\ r # p => Owned(n, p[1], r)
        BY <4>3, <4>6 DEF Owned, HeldTypes
      <4>9. Played(n, p[1])
        BY <2>2, <4>2, <4>4, <4>5, <4>6, <4>8 DEF Played
      <4>10. \A t \in Teams : Whole(n, t)
        <5>1. \A r \in Places : r \notin TeamOf(p) => n[r] = s[r]
          BY <2>2, <4>2
        <5>2. Whole(n, p[1])
          BY <4>9 DEF Whole
        <5> QED
          BY <2>4, <5>1, <5>2, OthersWhole
      <4> QED
        BY <2>2, <2>3, <4>10 DEF Good, n
    <3> QED
      BY <3>1, <3>2
  <2>5. CASE kind # "controlled"
    <3>1. Good(n)
      BY <2>2, <2>3, <2>5 DEF Good
    <3> QED
      BY <2>2, <3>1 DEF n
  <2> QED
    BY <2>4, <2>5
<1> QED
  BY <1>1, <1>2

(* In a team of which p is not the only player there is another one.           *)
LEMMA OnlyHuman ==
  ASSUME NEW s, NEW p \in Places, s[p].type = "human"
  PROVE  /\ p \in Humans(s, p)
         /\ Cardinality(Humans(s, p)) = 1 <=> Humans(s, p) \ {p} = {}
<1>1. p \in TeamOf(p)
  BY PlaceFacts DEF TeamOf
<1>2. p[1] \in 1..ObsTeam /\ Slots(p[1]) \in Nat
  BY PlaceFacts, SizeAssumption DEF Slots, ObsTeam
<1>3. IsFiniteSet(TeamOf(p))
  <2>1. IsFiniteSet(1..Slots(p[1]))
    BY <1>2, FS_Interval
  <2>2. IsFiniteSet({p[1]})
    BY FS_Singleton, Zenon
  <2> QED
    BY <2>1, <2>2, FS_Product DEF TeamOf, InTeam
<1>4. Humans(s, p) \subseteq TeamOf(p) /\ p \in Humans(s, p)
  BY <1>1 DEF Humans
<1>5. IsFiniteSet(Humans(s, p))
  BY <1>3, <1>4, FS_Subset
<1>6. Cardinality(Humans(s, p)) = 1 <=> \E x : Humans(s, p) = {x}
  BY <1>5, FS_Singleton, Zenon
<1> QED
  BY <1>4, <1>6

LEMMA ResetGood ==
  ASSUME NEW s, Good(s), NEW p \in Places, Controlled(p),
         \A r \in InTeam(p[1]) : r # p => s[r].type # "human",
         s[p].type \in {"human", "computer"}
  PROVE  LET n == ResetTeam(s, p) IN
         /\ Good(n) /\ n[p].id = Fresh /\ n[p].type = "open" /\ Rest(s, n, {p})
<1> DEFINE n == ResetTeam(s, p)
<1>1. /\ n = [r \in Places |-> n[r]]
      /\ \A r \in Places : r \notin TeamOf(p) => n[r] = s[r]
      /\ \A r \in Places : r \in TeamOf(p) =>
            n[r] = Plain(IF s[r].type = "heldClosed" THEN "closed" ELSE "open")
  BY Zenon DEF ResetTeam
<1>2. /\ TeamOf(p) = InTeam(p[1]) /\ p \in InTeam(p[1])
      /\ \A r \in InTeam(p[1]) : r \in Places /\ ~IsObs(r) /\ Controlled(r) /\ OkAt(s[r], r)
  BY TeamKinds
<1> HIDE DEF n
<1>3. ASSUME NEW r \in InTeam(p[1])
      PROVE  OkAt(n[r], r) /\ n[r].type \in Bare /\ n[r].id = Fresh
  <2>1. PICK t \in Bare : n[r] = Plain(t)
    BY <1>1, <1>2 DEF Bare
  <2>2. ~OfMap(r)
    BY <1>2 DEF OfMap, Controlled
  <2> QED
    BY <1>2, <2>1, <2>2, PlainOk, PlainIs
<1>4. n[p].type = "open"
  <2>1. n[p] = Plain("open")
    BY <1>1, <1>2
  <2> QED
    BY <2>1, PlainIs DEF Bare
<1>5. \A r \in Places : OkAt(n[r], r)
  BY <1>1, <1>2, <1>3 DEF Good
<1>6. Whole(n, p[1])
  BY <1>3 DEF Whole, Empty
<1>7. Good(n)
  BY <1>1, <1>2, <1>5, <1>6, OthersWhole DEF Good
<1>8. \A r \in InTeam(p[1]) : r # p => ~Sits(s[r])
  BY <1>2 DEF Sits, OkAt
<1>9. Rest(s, n, {p})
  BY <1>1, <1>2, <1>3, <1>8 DEF Rest, Kin
<1> QED
  BY <1>2, <1>3, <1>4, <1>7, <1>9 DEF n

LEMMA HandOverGood ==
  ASSUME NEW s, Good(s), NEW p \in Places, Controlled(p), s[p].type = "human",
         NEW o \in Humans(s, p) \ {p}
  PROVE  LET n == HandOver(s, p, s[o].id) IN
         /\ Good(n) /\ n[p].id = Fresh /\ n[p].type = "heldOpen" /\ Rest(s, n, {p})
<1> DEFINE heir == s[o].id
<1> DEFINE n == HandOver(s, p, heir)
<1>1. /\ TeamOf(p) = InTeam(p[1]) /\ p \in InTeam(p[1]) /\ Played(s, p[1])
      /\ \A r \in InTeam(p[1]) : r \in Places /\ ~IsObs(r) /\ Controlled(r) /\ OkAt(s[r], r)
  BY TeamKinds DEF HeldTypes
<1>2. o \in InTeam(p[1]) /\ o # p /\ s[o].type = "human" /\ heir \in 0..MaxJoins
  BY <1>1 DEF Humans, OkAt, Sits
<1>3. s[p].race \in Races
  BY <1>1, Fields DEF OkAt
<1> HIDE DEF heir
<1>4. /\ n = [r \in Places |-> n[r]]
      /\ n[p] = Held("heldOpen", s[p].race, heir)
      /\ \A r \in Places : r \notin TeamOf(p) => n[r] = s[r]
      /\ \A r \in Places \ {p} : n[r] = s[r] \/ n[r] = [s[r] EXCEPT !.by = heir]
      /\ \A r \in Places \ {p} : r \in TeamOf(p) /\ s[r].by = s[p].id => n[r] = [s[r] EXCEPT !.by = heir]
      /\ \A r \in Places \ {p} : s[r].by # s[p].id => n[r] = s[r]
  BY <1>1 DEF HandOver
<1> HIDE DEF n
<1>5. OkAt(n[p], p) /\ n[p].id = Fresh /\ n[p].type = "heldOpen" /\ n[p].by = heir
  BY <1>2, <1>3, <1>4, HeldOk, HeldIs DEF HeldTypes
<1>6. \A r \in Places \ {p} : OkAt(n[r], r) /\ Kin(n[r], s[r]) /\ n[r].race = s[r].race
  <2> SUFFICES ASSUME NEW r \in Places \ {p}
               PROVE  OkAt(n[r], r) /\ Kin(n[r], s[r]) /\ n[r].race = s[r].race
    OBVIOUS
  <2>1. OkAt(s[r], r)
    BY DEF Good
  <2>2. CASE n[r] = s[r]
    BY <2>1, <2>2 DEF Kin
  <2>3. CASE n[r] = [s[r] EXCEPT !.by = heir]
    BY <1>2, <2>1, <2>3, ByOk
  <2> QED
    BY <1>4, <2>2, <2>3
<1>7. \A r \in InTeam(p[1]) : r # p => n[r].type = s[r].type /\ n[r].id = s[r].id
  BY <1>1, <1>6 DEF Kin
<1>8. n[o].type = "human" /\ n[o].id = heir
  BY <1>2, <1>7 DEF heir
<1>9. ASSUME NEW r \in InTeam(p[1]), n[r].type # "human"
      PROVE  n[r].type \in HeldTypes /\ Owned(n, p[1], r)
  <2>1. CASE r = p
    BY <1>2, <1>5, <1>8, <2>1 DEF Owned, HeldTypes
  <2>2. CASE r # p /\ s[r].by = s[p].id
    <3>1. n[r].by = heir
      <4>1. n[r] = [s[r] EXCEPT !.by = heir] /\ s[r] \in Rec
        BY <1>1, <1>4, <2>2 DEF OkAt
      <4> QED
        BY <1>2, <4>1, WithBy
    <3>2. s[r].type \in HeldTypes
      BY <1>1, <1>7, <1>9, <2>2 DEF Played
    <3> QED
      BY <1>2, <1>7, <1>8, <2>2, <3>1, <3>2 DEF Owned
  <2>3. CASE r # p /\ s[r].by # s[p].id
    <3>1. n[r] = s[r] /\ s[r].type \in HeldTypes /\ Owned(s, p[1], r)
      BY <1>1, <1>4, <1>9, <2>3 DEF Played
    <3>2. PICK q \in InTeam(p[1]) : s[q].type = "human" /\ s[q].id = s[r].by
      BY <3>1 DEF Owned
    <3>3. n[q].type = "human" /\ n[q].id = n[r].by
      BY <1>7, <2>3, <3>1, <3>2
    <3> QED
      BY <3>1, <3>2, <3>3 DEF Owned
  <2> QED
    BY <2>1, <2>2, <2>3
<1>10. Whole(n, p[1])
  BY <1>2, <1>8, <1>9 DEF Whole, Played
<1>11. Good(n)
  BY <1>4, <1>5, <1>6, <1>10, OthersWhole DEF Good
<1> QED
  BY <1>5, <1>6, <1>11 DEF Rest, n, heir

LEMMA RemoveGood ==
  ASSUME NEW s, Good(s), NEW p \in Places, s[p].type \in {"human", "observer", "computer"}
  PROVE  LET n == Remove(s, p) IN
         /\ Good(n) /\ n[p].id = Fresh /\ n[p].type \in {"open", "heldOpen"} /\ Rest(s, n, {p})
<1>1. CASE Controlled(p)
  <2>0. Remove(s, p) = RemoveControlled(s, p)
    BY <1>1 DEF Remove
  <2>1. s[p].type \in {"human", "computer"}
    BY <1>1 DEF Good, OkAt, Controlled
  <2>2. /\ TeamOf(p) = InTeam(p[1]) /\ p \in InTeam(p[1])
        /\ s[p].type = "computer" => Computers(s, p[1])
        /\ s[p].type = "human" => Played(s, p[1])
        /\ \A r \in InTeam(p[1]) : r \in Places /\ OkAt(s[r], r)
    BY <1>1, TeamKinds
  <2>3. CASE s[p].type = "computer"
    <3>1. Remove(s, p) = ResetTeam(s, p)
      BY <2>0, <2>2, <2>3 DEF RemoveControlled, HasComputer
    <3>2. \A r \in InTeam(p[1]) : s[r].type # "human"
      BY <2>2, <2>3 DEF Computers
    <3> QED
      BY <1>1, <2>1, <3>1, <3>2, ResetGood
  <2>4. CASE s[p].type = "human" /\ Humans(s, p) \ {p} = {}
    <3>1. Remove(s, p) = ResetTeam(s, p)
      BY <2>0, <2>4, OnlyHuman DEF RemoveControlled
    <3>2. \A r \in InTeam(p[1]) : r # p => s[r].type # "human"
      BY <2>2, <2>4 DEF Humans
    <3> QED
      BY <1>1, <2>1, <3>1, <3>2, ResetGood
  <2>5. CASE s[p].type = "human" /\ Humans(s, p) \ {p} # {}
    <3> DEFINE o == Oldest(s, Humans(s, p) \ {p})
    <3>1. ~HasComputer(s, p)
      BY <2>2, <2>5 DEF HasComputer, Played, HeldTypes
    <3>2. Remove(s, p) = HandOver(s, p, s[o].id)
      BY <2>0, <2>5, <3>1, OnlyHuman DEF RemoveControlled
    <3>3. \A r \in Humans(s, p) \ {p} : s[r].id \in Nat
      BY <2>2, MaxAssumption DEF Humans, OkAt, Sits
    <3>4. o \in Humans(s, p) \ {p}
      <4> DEFINE H == Humans(s, p) \ {p}
      <4>1. H # {} /\ \A r \in H : s[r].id \in Nat
        BY <2>5, <3>3
      <4> HIDE DEF H
      <4>2. Oldest(s, H) \in H
        BY <4>1, OldestIs
      <4> QED
        BY <4>2 DEF H, o
    <3> HIDE DEF o
    <3> QED
      <4>1. LET n == HandOver(s, p, s[o].id) IN
            Good(n) /\ n[p].id = Fresh /\ n[p].type = "heldOpen" /\ Rest(s, n, {p})
        BY <1>1, <2>5, <3>4, HandOverGood, Zenon
      <4> QED
        BY <3>2, <4>1
  <2> QED
    BY <2>1, <2>3, <2>4, <2>5
<1>2. CASE ~Controlled(p)
  <2> DEFINE x == Vacant("open", s[p], p)
  <2> DEFINE n == Remove(s, p)
  <2>1. n = [s EXCEPT ![p] = x]
    BY <1>2, Zenon DEF Remove
  <2>2. OkAt(x, p) /\ x.type = "open" /\ x.id = Fresh
    BY VacantOk DEF Good, Bare
  <2> HIDE DEF x, n
  <2>3. n = [r \in Places |-> n[r]] /\ n[p] = x /\ \A r \in Places \ {p} : n[r] = s[r]
    BY <2>1 DEF Good
  <2>4. \A r \in Places : OkAt(n[r], r)
    BY <2>2, <2>3 DEF Good
  <2>5. kind = "controlled" => \A t \in Teams : Whole(n, t)
    <3>1. \A r \in Places : r \notin TeamOf(p) => n[r] = s[r]
      BY <2>3, PlaceFacts DEF TeamOf
    <3> QED
      BY <1>2, <3>1, OthersWhole DEF Controlled
  <2>6. Good(n) /\ Rest(s, n, {p})
    BY <2>3, <2>4, <2>5 DEF Good, Rest, Kin
  <2> QED
    BY <2>2, <2>3, <2>6 DEF n
<1> QED
  BY <1>1, <1>2

(* An open slot is closed, or a closed one opened, under the control it was.      *)
LEMMA ToggleGood ==
  ASSUME NEW s, Good(s), NEW p \in Places, NEW y, OkAt(y, p), y.id = Fresh,
         \/ s[p].type \in Bare /\ y.type \in Bare
         \/ s[p].type \in HeldTypes /\ y.type \in HeldTypes /\ y.by = s[p].by,
         NEW n, n = [r \in Places |-> n[r]], n[p] = y, \A r \in Places \ {p} : n[r] = s[r]
  PROVE  Good(n) /\ ~Sits(s[p]) /\ ~Sits(n[p]) /\ Rest(s, n, {p})
<1>1. n = [r \in Places |-> n[r]] /\ n[p] = y /\ \A r \in Places \ {p} : n[r] = s[r]
  OBVIOUS
<1>2. \A r \in Places : OkAt(n[r], r)
  BY <1>1 DEF Good
<1>3. ~IsObs(p) /\ kind = "controlled" => Whole(n, p[1])
  <2> SUFFICES ASSUME Controlled(p) PROVE Whole(n, p[1])
    BY DEF Controlled
  <2>1. /\ p \in InTeam(p[1]) /\ \A r \in InTeam(p[1]) : r \in Places
        /\ s[p].type \in HeldTypes => Played(s, p[1])
        /\ s[p].type \in Bare => Empty(s, p[1])
    BY TeamKinds
  <2>2. CASE s[p].type \in Bare
    BY <1>1, <2>1, <2>2 DEF Whole, Empty, Bare, HeldTypes
  <2>3. CASE s[p].type \in HeldTypes
    <3>1. y.type \in HeldTypes /\ y.by = s[p].by /\ Played(s, p[1])
      BY <2>1, <2>3 DEF Bare, HeldTypes
    <3>2. \A r \in InTeam(p[1]) : n[r].by = s[r].by /\ (r = p \/ n[r] = s[r])
      BY <1>1, <2>1, <3>1
    <3>3. \A r \in InTeam(p[1]) : s[r].type = "human" => n[r] = s[r]
      BY <1>1, <2>1, <2>3 DEF HeldTypes
    <3>4. \A r \in InTeam(p[1]) : Owned(s, p[1], r) => Owned(n, p[1], r)
      BY <3>2, <3>3 DEF Owned
    <3>5. \A r \in InTeam(p[1]) : s[r].type \in HeldTypes => n[r].type \in HeldTypes
      BY <1>1, <3>1, <3>2
    <3> QED
      BY <3>1, <3>3, <3>4, <3>5 DEF Whole, Played
  <2> QED
    BY <2>2, <2>3
<1>4. kind = "controlled" => \A t \in Teams : Whole(n, t)
  <2>1. \A r \in Places : r \notin TeamOf(p) => n[r] = s[r]
    BY <1>1, PlaceFacts DEF TeamOf
  <2> QED
    BY <1>3, <2>1, OthersWhole
<1>5. Good(n) /\ Rest(s, n, {p})
  BY <1>1, <1>2, <1>4 DEF Good, Rest, Kin
<1> QED
  BY <1>1, <1>5 DEF Sits, Bare, HeldTypes

LEMMA RacesGood ==
  ASSUME NEW s, Good(s), NEW p \in Places, NEW race \in Races, OfMap(p) => ~s[p].forced
  PROVE  LET n == WithRace(s, p, race) IN
         /\ Good(n)
         /\ \A r \in Places : /\ Kin(n[r], s[r])
                              /\ Sits(s[r]) /\ r # p => n[r] = s[r]
<1> DEFINE n == WithRace(s, p, race)
<1>1. /\ n = [r \in Places |-> n[r]]
      /\ \A r \in Places : n[r] = s[r] \/ n[r] = [s[r] EXCEPT !.race = race]
      /\ n[p] = [s[p] EXCEPT !.race = race]
      /\ \A r \in Places : n[r] = s[r] \/ r = p \/ kind = "controlled"
      /\ \A r \in Places : r \in TeamOf(p) /\ kind = "controlled" /\ HasComputer(s, p) =>
            n[r] = [s[r] EXCEPT !.race = race]
      /\ \A r \in Places : r \notin TeamOf(p) /\ r # p => n[r] = s[r]
  BY DEF WithRace
<1> HIDE DEF n
<1>2. ASSUME NEW r \in Places
      PROVE  /\ OkAt(n[r], r) /\ Kin(n[r], s[r]) /\ n[r].by = s[r].by
             /\ n[r] = [s[r] EXCEPT !.race = race] => n[r].race = race
  <2>1. OkAt(s[r], r)
    BY DEF Good
  <2>2. n[r] # s[r] => (OfMap(r) => ~s[r].forced)
    BY <1>1 DEF OfMap
  <2>3. [s[r] EXCEPT !.race = race].race = race
    BY <2>1, WithRaceOf DEF OkAt
  <2>4. CASE n[r] = s[r]
    BY <2>1, <2>3, <2>4 DEF Kin
  <2>5. CASE n[r] # s[r]
    <3> DEFINE y == [s[r] EXCEPT !.race = race]
    <3>1. OkAt(y, r) /\ Kin(y, s[r]) /\ y.by = s[r].by /\ y.race = race
      BY <2>1, <2>2, <2>5, RaceOk
    <3>2. n[r] = y
      BY <1>1, <2>5
    <3> HIDE DEF y
    <3>3. OkAt(n[r], r) /\ Kin(n[r], s[r]) /\ n[r].by = s[r].by /\ n[r].race = race
      BY <3>1, <3>2
    <3> QED
      BY <3>3
  <2> QED
    BY <2>4, <2>5
<1>3. kind = "controlled" => \A t \in Teams : Whole(n, t)
  <2> SUFFICES ASSUME kind = "controlled" PROVE \A t \in Teams : Whole(n, t)
    OBVIOUS
  <2>0. \A r \in Places : r \notin TeamOf(p) => n[r] = s[r]
    BY <1>1, PlaceFacts DEF TeamOf
  <2>1. ~IsObs(p) => Whole(n, p[1])
    <3> SUFFICES ASSUME Controlled(p) PROVE Whole(n, p[1])
      BY DEF Controlled
    <3>1. /\ p \in InTeam(p[1]) /\ \A r \in InTeam(p[1]) : r \in Places
          /\ Whole(s, p[1]) /\ TeamOf(p) = InTeam(p[1])
      BY TeamKinds
    <3>2. \A r \in InTeam(p[1]) : n[r].type = s[r].type /\ n[r].by = s[r].by /\ n[r].id = s[r].id
      BY <1>2, <3>1 DEF Kin
    <3>3. CASE Empty(s, p[1])
      BY <3>2, <3>3 DEF Whole, Empty
    <3>4. CASE Played(s, p[1])
      BY <3>2, <3>4 DEF Whole, Played, Owned
    <3>5. CASE Computers(s, p[1])
      <4>1. HasComputer(s, p)
        BY <3>1, <3>5 DEF Computers, HasComputer
      <4>2. \A r \in InTeam(p[1]) : n[r].race = race
        BY <1>1, <1>2, <3>1, <4>1
      <4>3. \A r \in InTeam(p[1]) : n[r].type = "computer"
        BY <3>2, <3>5 DEF Computers
      <4> QED
        BY <4>2, <4>3 DEF Whole, Computers
    <3> QED
      BY <3>1, <3>3, <3>4, <3>5 DEF Whole
  <2> QED
    BY <2>0, <2>1, OthersWhole
<1>4. Good(n)
  BY <1>1, <1>2, <1>3 DEF Good
<1>5. ASSUME NEW r \in Places, Sits(s[r]), r # p
      PROVE  n[r] = s[r]
  <2> SUFFICES ASSUME n[r] # s[r] PROVE FALSE
    OBVIOUS
  <2>1. kind = "controlled" /\ r \in TeamOf(p) /\ HasComputer(s, p)
    BY <1>1, <1>5 DEF WithRace, n
  <2>2. r[1] = p[1]
    BY <2>1, PlaceFacts DEF TeamOf
  <2>3. CASE IsObs(p)
    BY <2>1, <2>2, <2>3, PlaceFacts DEF HasComputer, TeamOf, IsObs, Good, OkAt, Bare
  <2>4. CASE Controlled(p)
    <3>1. PICK q \in InTeam(p[1]) : s[q].type = "computer"
      BY <2>1 DEF HasComputer, TeamOf
    <3>2. q \in Places /\ q[1] = p[1] /\ Controlled(q)
      BY <2>4, <3>1, PlaceFacts DEF Controlled, IsObs
    <3>3. Computers(s, p[1])
      BY <3>1, <3>2, TeamKinds
    <3> QED
      BY <1>5, <2>1, <3>3 DEF Computers, Sits, TeamOf
  <2> QED
    BY <2>1, <2>3, <2>4 DEF Controlled
<1> QED
  BY <1>2, <1>4, <1>5 DEF n

LEMMA RestTrans ==
  ASSUME NEW s, NEW a, NEW n, NEW P, NEW Q, Rest(s, a, P), Rest(a, n, Q)
  PROVE  Rest(s, n, P \union Q)
  BY DEF Rest, Kin, Sits

LEMMA MoveGood ==
  ASSUME NEW s, Good(s), NEW p \in Places, NEW q \in Places, Sits(s[p]),
         s[q].type \in Bare \union HeldTypes
  PROVE  LET n == Move(s, p, q) IN
         /\ Good(n) /\ n[p].id = Fresh /\ Sits(n[q]) /\ n[q].id = s[p].id /\ n[q].user = s[p].user
         /\ Rest(s, n, {p, q})
<1> DEFINE x == MovedTo(s, p, q)
<1> DEFINE a == AddPlayer(s, q, x)
<1> DEFINE n == Move(s, p, q)
<1>0. p # q /\ s[p].id \in 1..MaxJoins /\ OkAt(s[p], p) /\ OkAt(s[q], q)
  BY DEF Sits, Bare, HeldTypes, Good, OkAt
<1>1. /\ OkAt(x, q) /\ Sits(x) /\ x.id = s[p].id /\ x.user = s[p].user
      /\ ~IsObs(q) => x.type = "human"
  BY MovedOk
<1> HIDE DEF x
<1>2. x.type \in {"human", "observer", "computer"} /\ x.type # "computer"
  BY <1>1 DEF Sits
<1>3. /\ Good(a) /\ a[q] = x
      /\ \A r \in Places \ {q} : a[r] = s[r] \/ (a[r].id = Fresh /\ ~Sits(s[r]))
  BY <1>1, <1>2, AddGood
<1>4. a[p] = s[p] /\ s[p].type \in {"human", "observer", "computer"} /\ Rest(s, a, {q})
  BY <1>0, <1>3 DEF Sits, Rest, Kin
<1>5. CASE ~Controlled(p) \/ p[1] # q[1]
  <2>1. n = Remove(a, p)
    <3>1. CASE ~Controlled(p)
      <4>1. n = [a EXCEPT ![p] = Vacant("open", s[p], p)]
        BY <3>1, Zenon DEF Move, a, x
      <4>2. Remove(a, p) = [a EXCEPT ![p] = Vacant("open", a[p], p)]
        BY <3>1, Zenon DEF Remove
      <4> QED
        BY <1>4, <4>1, <4>2, Zenon
    <3>2. CASE Controlled(p)
      BY <1>5, <3>2, Zenon DEF Move, Remove, a, x
    <3> QED
      BY <3>1, <3>2
  <2> HIDE DEF a, n
  <2>2. Good(n) /\ n[p].id = Fresh /\ Rest(a, n, {p})
    BY <1>3, <1>4, <2>1, RemoveGood
  <2>3. Kin(n[q], a[q])
    BY <1>0, <1>1, <1>3, <2>2 DEF Rest, Sits
  <2>4. Rest(s, n, {q} \union {p})
    BY <1>4, <2>2, RestTrans
  <2>5. Rest(s, n, {p, q})
    BY <2>4 DEF Rest
  <2>6. Sits(n[q]) /\ n[q].id = s[p].id /\ n[q].user = s[p].user
    BY <1>1, <1>3, <2>3 DEF Kin, Sits
  <2> QED
    BY <2>2, <2>5, <2>6 DEF n
<1>6. CASE Controlled(p) /\ p[1] = q[1]
  <2> DEFINE h == Held("heldOpen", Random, s[q].by)
  <2>1. n = [a EXCEPT ![p] = h]
    BY <1>6, Zenon DEF Move, a, x
  <2>2. /\ p \in InTeam(p[1]) /\ Played(s, p[1]) /\ q \in InTeam(p[1]) /\ ~IsObs(q)
        /\ \A r \in InTeam(p[1]) : r \in Places
        /\ s[q].type \in HeldTypes /\ s[p].type = "human"
    <3>1. s[p].type = "human"
      BY <1>0, <1>6 DEF Controlled, OkAt, Sits, Bare
    <3>2. /\ p \in InTeam(p[1]) /\ Played(s, p[1])
          /\ \A r \in InTeam(p[1]) : r \in Places
      BY <1>6, <3>1, TeamKinds
    <3>3. q \in InTeam(p[1])
      BY <1>6, PlaceFacts
    <3> QED
      BY <1>6, <3>1, <3>2, <3>3 DEF Played, Bare, HeldTypes, Controlled, IsObs
  <2>3. OkAt(h, p) /\ h.id = Fresh /\ h.type \in HeldTypes /\ h.by = s[q].by
    <3>1. s[q].by \in 0..MaxJoins /\ Random \in Races /\ "heldOpen" \in HeldTypes
      BY <1>0, Fields, RacesAssumption DEF OkAt, HeldTypes
    <3> QED
      BY <1>6, <3>1, HeldOk, HeldIs
  <2>4. x.type = "human"
    BY <1>1, <2>2
  <2>5. \A r \in Places \ {p} : a[r] = s[r] \/ r = q \/ (a[r].id = Fresh /\ ~Sits(s[r]))
    BY <1>3
  <2> HIDE DEF a, n, h
  <2>6. n = [r \in Places |-> n[r]] /\ n[p] = h /\ \A r \in Places \ {p} : n[r] = a[r]
    BY <1>3, <2>1 DEF Good
  <2>7. n[q] = x
    BY <1>0, <1>3, <2>6
  <2>8. \A r \in InTeam(p[1]) : r = p \/ r = q \/ n[r] = s[r]
    <3>1. a = [s EXCEPT ![q] = x]
      <4>1. ~IsTeamEmpty(s, q)
        BY <1>6, <2>2 DEF IsTeamEmpty, TeamOf
      <4> QED
        BY <4>1, Zenon DEF AddPlayer, a
    <3> QED
      BY <2>2, <2>6, <3>1 DEF Good
  <2>9. ASSUME NEW r \in InTeam(p[1]), s[r].type \in HeldTypes, Owned(s, p[1], r)
        PROVE  \E w \in InTeam(p[1]) : n[w].type = "human" /\ n[w].id = s[r].by
    <3>1. PICK w \in InTeam(p[1]) : s[w].type = "human" /\ s[w].id = s[r].by
      BY <2>9 DEF Owned
    <3>2. CASE w = p
      BY <1>1, <2>2, <2>4, <2>7, <3>1, <3>2
    <3>3. CASE w # p
      BY <2>2, <2>8, <3>1, <3>3 DEF HeldTypes
    <3> QED
      BY <3>2, <3>3
  <2>10. ASSUME NEW r \in InTeam(p[1]), n[r].type # "human"
         PROVE  n[r].type \in HeldTypes /\ Owned(n, p[1], r)
    <3>1. CASE r = p
      <4>1. Owned(s, p[1], q)
        BY <2>2 DEF Played, HeldTypes
      <4> QED
        BY <2>2, <2>3, <2>6, <2>9, <3>1, <4>1 DEF Owned
    <3>2. CASE r # p
      <4>1. r # q /\ n[r] = s[r]
        BY <2>4, <2>7, <2>8, <2>10, <3>2
      <4>2. s[r].type \in HeldTypes /\ Owned(s, p[1], r)
        BY <2>2, <2>10, <4>1 DEF Played
      <4> QED
        BY <2>9, <4>1, <4>2 DEF Owned
    <3> QED
      BY <3>1, <3>2
  <2>11. Whole(n, p[1])
    BY <2>2, <2>4, <2>7, <2>10 DEF Whole, Played
  <2>12. \A r \in Places : OkAt(n[r], r)
    BY <1>3, <2>3, <2>6 DEF Good
  <2>13. \A r \in Places : r \notin TeamOf(p) => n[r] = a[r]
    BY <2>6, PlaceFacts DEF TeamOf
  <2>14. kind = "controlled" => \A t \in Teams : Whole(n, t)
    BY <1>3, <2>11, <2>13, OthersWhole
  <2>15. Good(n)
    BY <2>6, <2>12, <2>14 DEF Good
  <2>16. Rest(s, n, {p, q})
    BY <2>5, <2>6 DEF Rest, Kin
  <2> QED
    BY <1>1, <2>3, <2>6, <2>7, <2>15, <2>16 DEF n
<1> QED
  BY <1>5, <1>6

-----------------------------------------------------------------------------
(* What is stored and what is published.                                     *)

Stored(s) == Good(s) /\ \A p \in Places : s[p].id # Fresh
Screen(v, s) ==
    /\ v = [p \in Places |-> v[p]]
    /\ \A p \in Places : v[p] \in Rec /\ Kin(v[p], s[p]) /\ v[p].race = s[p].race
Fits(s, v) == Stored(s) /\ Screen(v, s)

(* A slot of n that has the id of a slot of s is the same.                     *)
Follows(s, n) == \A p \in Places : n[p].id = s[p].id => Kin(n[p], s[p])

SeatIds(s) == {s[p].id : p \in Seated(s)}
SeatsIn(s, v) == {<<p, s[p].id, s[p].race>> : p \in {q \in Seated(s) : s[q].user = v}}

(* Nobody sits twice.                                                       *)
Apart(s) == \A p, q \in Seated(s) : s[p].user = s[q].user => p = q

(* From s to n, all but u stay where they are and as they are.                  *)
Only(s, n, u) == Apart(s) => Apart(n) /\ \A v : v # u => SeatsIn(n, v) = SeatsIn(s, v)

Senior(I, h) == h \in I /\ \A i \in I : h <= i

LEMMA RestFollows ==
  ASSUME NEW s, NEW n, NEW P, Stored(s), Rest(s, n, P), \A p \in P \cap Places : n[p].id # s[p].id
  PROVE  Follows(s, n)
  BY DEF Stored, Rest, Follows

LEMMA SettledGood ==
  ASSUME NEW n, Good(n)
  PROVE  LET s == Settled(n) IN
         /\ Stored(s) /\ SeatIds(s) = SeatIds(n)
         /\ Seated(s) = Seated(n) /\ \A p \in Seated(n) : s[p] = n[p]
         /\ \A p \in Places : /\ s[p].type = n[p].type /\ s[p].by = n[p].by /\ s[p].race = n[p].race
                              /\ n[p].id # Fresh => s[p] = n[p]
<1> DEFINE s == Settled(n)
<1>1. /\ s = [p \in Places |-> s[p]]
      /\ \A p \in Places : IF n[p].id = Fresh THEN s[p] = [n[p] EXCEPT !.id = Kept] ELSE s[p] = n[p]
  BY DEF Settled
<1> HIDE DEF s
<1>2. ASSUME NEW p \in Places
      PROVE  /\ OkAt(s[p], p) /\ s[p].id # Fresh /\ s[p].type = n[p].type
             /\ s[p].by = n[p].by /\ s[p].race = n[p].race
             /\ n[p].id # Fresh => s[p] = n[p]
             /\ Sits(n[p]) => s[p].id = n[p].id
  <2>1. OkAt(n[p], p)
    BY DEF Good
  <2>2. CASE n[p].id # Fresh
    BY <1>1, <2>1, <2>2
  <2>3. CASE n[p].id = Fresh
    <3> DEFINE y == [n[p] EXCEPT !.id = Kept]
    <3>1. Kept \in Ids /\ Kept # Fresh
      BY MaxAssumption DEF Ids, Kept, Fresh
    <3>2. /\ y \in Rec /\ y.id = Kept /\ y.type = n[p].type /\ y.user = n[p].user /\ y.by = n[p].by
          /\ y.race = n[p].race /\ y.forced = n[p].forced /\ y.pid = n[p].pid
      BY <2>1, <3>1, WithId DEF OkAt
    <3>3. s[p] = y
      BY <1>1, <2>3
    <3> HIDE DEF y
    <3>4. ~Sits(n[p])
      BY <2>1, <2>3, MaxAssumption DEF OkAt, Fresh
    <3>5. OkAt(y, p)
      BY <2>1, <3>2, <3>4 DEF OkAt, Sits, AsMapped
    <3> QED
      BY <2>3, <3>1, <3>2, <3>3, <3>4, <3>5
  <2> QED
    BY <2>2, <2>3
<1>3. kind = "controlled" => \A t \in Teams : Whole(s, t)
  <2> SUFFICES ASSUME kind = "controlled", NEW t \in Teams PROVE Whole(s, t)
    OBVIOUS
  <2>1. \A r \in InTeam(t) : r \in Places
    BY PlaceFacts
  <2>2. Whole(n, t)
    BY DEF Good
  <2>3. \A r \in InTeam(t) : /\ s[r].type = n[r].type /\ s[r].by = n[r].by /\ s[r].race = n[r].race
                             /\ n[r].type = "human" => s[r].id = n[r].id
    BY <1>2, <2>1 DEF Sits
  <2> QED
    BY <2>2, <2>3 DEF Whole, Empty, Computers, Played, Owned
<1>4. Stored(s)
  BY <1>1, <1>2, <1>3 DEF Stored, Good
<1>5. Seated(s) = Seated(n)
  BY <1>2 DEF Seated
<1>6. \A p \in Seated(n) : s[p] = n[p]
  <2>1. \A p \in Seated(n) : p \in Places /\ n[p].id # Fresh
    BY MaxAssumption DEF Seated, Good, OkAt, Sits, Fresh
  <2> QED
    BY <1>2, <2>1
<1>7. SeatIds(s) = SeatIds(n)
  BY <1>5, <1>6 DEF SeatIds
<1> QED
  BY <1>2, <1>4, <1>5, <1>6, <1>7 DEF s

(* Who sits, after what changed.                                             *)
SameSeat(s, n, r) ==
    /\ r \in Seated(s) <=> r \in Seated(n)
    /\ r \in Seated(s) => n[r].id = s[r].id /\ n[r].user = s[r].user /\ n[r].race = s[r].race

LEMMA RestSeats ==
  ASSUME NEW s, NEW n, NEW P, Good(n), Rest(s, n, P), NEW r \in Places, r \notin P
  PROVE  SameSeat(s, n, r)
<1>1. Sits(n[r]) => n[r].id # Fresh
  BY MaxAssumption DEF Good, OkAt, Fresh
<1> QED
  BY <1>1 DEF Rest, Kin, Seated, Sits, SameSeat

LEMMA OnlyOne ==
  ASSUME NEW s, NEW n, NEW P, NEW u, \A r \in Places : r \notin P => SameSeat(s, n, r),
         \A r \in P : /\ r \in Seated(s) => s[r].user = u
                      /\ r \in Seated(n) => n[r].user = u,
         Apart(s) => \A p, q \in Seated(n) : n[p].user = u /\ n[q].user = u => p = q
  PROVE  Only(s, n, u)
<1> SUFFICES ASSUME Apart(s)
             PROVE  Apart(n) /\ \A v : v # u => SeatsIn(n, v) = SeatsIn(s, v)
  BY DEF Only
<1>1. Seated(s) \subseteq Places /\ Seated(n) \subseteq Places
  BY DEF Seated
<1>2. ASSUME NEW r \in Places
      PROVE  /\ r \in Seated(s) /\ s[r].user # u => r \in Seated(n) /\ n[r].user = s[r].user
             /\ r \in Seated(n) /\ n[r].user # u => /\ r \in Seated(s) /\ n[r].user = s[r].user
                                                  /\ n[r].id = s[r].id /\ n[r].race = s[r].race
  BY DEF SameSeat
<1>3. Apart(n)
  BY <1>1, <1>2 DEF Apart
<1>4. ASSUME NEW v, v # u
      PROVE  SeatsIn(n, v) = SeatsIn(s, v)
  <2>1. {q \in Seated(n) : n[q].user = v} = {q \in Seated(s) : s[q].user = v}
    BY <1>1, <1>2, <1>4
  <2>2. \A q \in {r \in Seated(n) : n[r].user = v} : n[q].id = s[q].id /\ n[q].race = s[q].race
    BY <1>1, <1>2, <1>4
  <2> QED
    BY <2>1, <2>2 DEF SeatsIn
<1> QED
  BY <1>3, <1>4

(* Nobody moves if the same people sit at the same places.                      *)
LEMMA OnlyNone ==
  ASSUME NEW s, NEW n, NEW u, \A r \in Places : SameSeat(s, n, r)
  PROVE  Only(s, n, u)
<1>1. Seated(s) = Seated(n) /\ \A r \in Seated(s) : n[r].id = s[r].id /\ n[r].user = s[r].user /\ n[r].race = s[r].race
  BY DEF SameSeat, Seated
<1>2. Apart(s) => Apart(n)
  BY <1>1 DEF Apart
<1>3. ASSUME NEW v PROVE SeatsIn(n, v) = SeatsIn(s, v)
  <2>1. {q \in Seated(n) : n[q].user = v} = {q \in Seated(s) : s[q].user = v}
    BY <1>1
  <2> QED
    BY <1>1, <2>1 DEF SeatsIn
<1> QED
  BY <1>2, <1>3 DEF Only

LEMMA OnlyThen ==
  ASSUME NEW s, NEW a, NEW n, NEW u, Only(s, a, u), Only(a, n, u)
  PROVE  Only(s, n, u)
  BY DEF Only

(* The diff of what was stored and what is leaves a screen as it should be.      *)
LEMMA Publishes ==
  ASSUME NEW s, NEW v, NEW n, Fits(s, v), Good(n), Follows(s, n)
  PROVE  /\ Fits(Settled(n), Shown(v, s, n)) /\ SeatIds(Settled(n)) = SeatIds(n)
         /\ \A z, u : Only(z, n, u) => Only(z, Settled(n), u)
<1> DEFINE z == Settled(n)
<1> DEFINE w == Shown(v, s, n)
<1>1. Stored(z) /\ SeatIds(z) = SeatIds(n) /\ \A p \in Places : n[p].id # Fresh => z[p] = n[p]
  BY SettledGood
<1>2. /\ w = [p \in Places |-> w[p]]
      /\ \A p \in Places : Resent(s, n, p) => w[p] = z[p]
      /\ \A p \in Places : ~Resent(s, n, p) =>
            w[p] = [v[p] EXCEPT !.race = IF s[p].race # n[p].race THEN n[p].race ELSE v[p].race]
  BY Zenon DEF Shown
<1> HIDE DEF z, w
<1>3. ASSUME NEW p \in Places
      PROVE  w[p] \in Rec /\ Kin(w[p], z[p]) /\ w[p].race = z[p].race
  <2>1. v[p] \in Rec /\ Kin(v[p], s[p]) /\ v[p].race = s[p].race /\ s[p].id # Fresh
    BY DEF Fits, Stored, Screen
  <2>2. n[p].race \in Races /\ z[p] \in Rec
    BY <1>1, Fields DEF Good, OkAt, Stored
  <2>3. CASE n[p].id # s[p].id
    BY <1>2, <2>2, <2>3 DEF Resent, Kin
  <2>4. CASE n[p].id = s[p].id
    <3>1. z[p] = n[p] /\ Kin(n[p], s[p])
      BY <1>1, <2>1, <2>4 DEF Follows
    <3>2. w[p] = [v[p] EXCEPT !.race = n[p].race]
      BY <1>2, <2>1, <2>4 DEF Resent
    <3>3. w[p] \in Rec /\ Kin(w[p], v[p]) /\ w[p].race = n[p].race
      BY <2>1, <2>2, <3>2, WithRaceOf DEF Kin
    <3> QED
      BY <2>1, <3>1, <3>3 DEF Kin
  <2> QED
    BY <2>3, <2>4
<1>4. Screen(w, z)
  BY <1>2, <1>3 DEF Screen
<1>5. \A r \in Places : SameSeat(n, z, r)
  BY SettledGood DEF SameSeat, z
<1>6. \A y, u : Only(y, n, u) => Only(y, z, u)
  BY <1>5, OnlyNone, OnlyThen
<1> QED
  BY <1>1, <1>4, <1>6 DEF Fits, z, w

LEMMA SeatsKept ==
  ASSUME NEW s, NEW n, NEW P, Good(n), Rest(s, n, P),
         \A p \in P : ~Sits(s[p]) /\ ~Sits(n[p])
  PROVE  SeatIds(n) = SeatIds(s)
<1>1. Seated(n) = Seated(s) /\ \A p \in Seated(s) : n[p].id = s[p].id
  BY RestSeats DEF Seated, Sits, SameSeat
<1> QED
  BY <1>1 DEF SeatIds

LEMMA SeatsMoved ==
  ASSUME NEW s, NEW n, NEW p \in Places, NEW q \in Places, Good(n), Rest(s, n, {p, q}),
         Sits(s[p]), ~Sits(n[p]), ~Sits(s[q]), Sits(n[q]), n[q].id = s[p].id
  PROVE  SeatIds(n) = SeatIds(s)
<1>1. \A r \in Places : r # p /\ r # q => /\ r \in Seated(s) <=> r \in Seated(n)
                                          /\ r \in Seated(s) => n[r].id = s[r].id
  BY RestSeats DEF SameSeat
<1>2. p \in Seated(s) /\ p \notin Seated(n) /\ q \in Seated(n) /\ q \notin Seated(s)
  BY DEF Seated, Sits
<1>3. Seated(s) \subseteq Places /\ Seated(n) \subseteq Places
  BY DEF Seated
<1>4. SeatIds(n) \subseteq SeatIds(s)
  BY <1>1, <1>2, <1>3 DEF SeatIds
<1>5. SeatIds(s) \subseteq SeatIds(n)
  BY <1>1, <1>2, <1>3 DEF SeatIds
<1> QED
  BY <1>4, <1>5

LEMMA SeatsJoined ==
  ASSUME NEW s, NEW n, NEW p \in Places, Good(n), Rest(s, n, {p}), ~Sits(s[p]), Sits(n[p])
  PROVE  SeatIds(n) = SeatIds(s) \union {n[p].id}
<1>1. Seated(n) = Seated(s) \union {p} /\ \A r \in Seated(s) : n[r].id = s[r].id
  BY RestSeats DEF Seated, Sits, SameSeat
<1> QED
  BY <1>1 DEF SeatIds

LEMMA SeatsLeft ==
  ASSUME NEW s, NEW n, NEW p \in Places, Good(n), Rest(s, n, {p}), Sits(s[p]), ~Sits(n[p])
  PROVE  /\ SeatIds(n) \subseteq SeatIds(s)
         /\ \A i \in SeatIds(s) : i # s[p].id => i \in SeatIds(n)
<1>1. Seated(n) = Seated(s) \ {p} /\ \A r \in Seated(n) : n[r].id = s[r].id
  BY RestSeats DEF Seated, Sits, SameSeat
<1> QED
  BY <1>1 DEF SeatIds

-----------------------------------------------------------------------------
(* The operations on what is stored, with what they do to who sits where.        *)

LEMMA FreeNotSits ==
  ASSUME NEW x, x.type \in Bare \union HeldTypes
  PROVE  ~Sits(x)
  BY DEF Sits, Bare, HeldTypes

LEMMA ShutGood ==
  ASSUME NEW s, Stored(s), NEW p \in Places, s[p].type \in {"open", "heldOpen"}
  PROVE  LET n == Shut(s, p) IN
         Good(n) /\ Follows(s, n) /\ SeatIds(n) = SeatIds(s) /\ \A u : Only(s, n, u)
<1> DEFINE n == Shut(s, p)
<1> DEFINE y == IF s[p].type = "heldOpen" THEN Held("heldClosed", s[p].race, s[p].by)
                ELSE IF kind = "ums" THEN OnMap(Plain("closed"), s[p]) ELSE Plain("closed")
<1>1. n = [s EXCEPT ![p] = y]
  BY Zenon DEF Shut
<1>2. OkAt(s[p], p) /\ s[p].race \in Races /\ s[p].by \in 0..MaxJoins
  BY Fields DEF Stored, Good, OkAt
<1>3. /\ OkAt(y, p) /\ y.id = Fresh
      /\ \/ s[p].type \in Bare /\ y.type \in Bare
         \/ s[p].type \in HeldTypes /\ y.type \in HeldTypes /\ y.by = s[p].by
  <2>1. CASE s[p].type = "heldOpen"
    <3>1. Controlled(p)
      BY <1>2, <2>1 DEF OkAt, HeldTypes
    <3>2. y = Held("heldClosed", s[p].race, s[p].by) /\ "heldClosed" \in HeldTypes
      BY <2>1 DEF HeldTypes
    <3> HIDE DEF y
    <3> QED
      BY <1>2, <2>1, <3>1, <3>2, HeldOk, HeldIs DEF HeldTypes
  <2>2. CASE s[p].type = "open" /\ kind = "ums"
    <3>1. y = OnMap(Plain("closed"), s[p]) /\ "closed" \in Bare
      BY <2>2 DEF Bare
    <3> HIDE DEF y
    <3> QED
      BY <1>2, <2>2, <3>1, OnMapOk DEF Bare
  <2>3. CASE s[p].type = "open" /\ kind # "ums"
    <3>1. y = Plain("closed") /\ "closed" \in Bare /\ ~OfMap(p)
      BY <2>3 DEF Bare, OfMap
    <3> HIDE DEF y
    <3> QED
      BY <2>3, <3>1, PlainOk, PlainIs DEF Bare
  <2> QED
    BY <2>1, <2>2, <2>3
<1> HIDE DEF n, y
<1>4. Good(n) /\ n[p] = y /\ ~Sits(s[p]) /\ ~Sits(n[p]) /\ Rest(s, n, {p})
  <2>1. n = [r \in Places |-> n[r]] /\ n[p] = y /\ \A r \in Places \ {p} : n[r] = s[r]
    BY <1>1 DEF Stored, Good
  <2> QED
    BY <1>3, <2>1, ToggleGood DEF Stored
<1>5. Follows(s, n)
  <2>1. n[p].id # s[p].id
    BY <1>3, <1>4 DEF Stored
  <2> QED
    BY <1>4, <2>1, RestFollows
<1>6. SeatIds(n) = SeatIds(s)
  BY <1>4, SeatsKept
<1>7. \A r \in Places : SameSeat(s, n, r)
  <2>1. SameSeat(s, n, p)
    BY <1>4 DEF SameSeat, Seated, Sits
  <2> QED
    BY <1>4, <2>1, RestSeats
<1>8. \A u : Only(s, n, u)
  BY <1>7, OnlyNone
<1> QED
  BY <1>4, <1>5, <1>6, <1>8 DEF n

LEMMA ReopenedGood ==
  ASSUME NEW s, Stored(s), NEW p \in Places, s[p].type \in {"closed", "heldClosed"}
  PROVE  LET n == Reopened(s, p) IN
         Good(n) /\ Follows(s, n) /\ SeatIds(n) = SeatIds(s) /\ \A u : Only(s, n, u)
<1> DEFINE n == Reopened(s, p)
<1> DEFINE y == IF s[p].type = "heldClosed" THEN Held("heldOpen", s[p].race, s[p].by)
                ELSE IF kind = "ums" THEN OnMap(Plain("open"), s[p]) ELSE Plain("open")
<1>1. n = [s EXCEPT ![p] = y]
  BY Zenon DEF Reopened
<1>2. OkAt(s[p], p) /\ s[p].race \in Races /\ s[p].by \in 0..MaxJoins
  BY Fields DEF Stored, Good, OkAt
<1>3. /\ OkAt(y, p) /\ y.id = Fresh
      /\ \/ s[p].type \in Bare /\ y.type \in Bare
         \/ s[p].type \in HeldTypes /\ y.type \in HeldTypes /\ y.by = s[p].by
  <2>1. CASE s[p].type = "heldClosed"
    <3>1. Controlled(p)
      BY <1>2, <2>1 DEF OkAt, HeldTypes
    <3>2. y = Held("heldOpen", s[p].race, s[p].by) /\ "heldOpen" \in HeldTypes
      BY <2>1 DEF HeldTypes
    <3> HIDE DEF y
    <3> QED
      BY <1>2, <2>1, <3>1, <3>2, HeldOk, HeldIs DEF HeldTypes
  <2>2. CASE s[p].type = "closed" /\ kind = "ums"
    <3>1. y = OnMap(Plain("open"), s[p]) /\ "open" \in Bare
      BY <2>2 DEF Bare
    <3> HIDE DEF y
    <3> QED
      BY <1>2, <2>2, <3>1, OnMapOk DEF Bare
  <2>3. CASE s[p].type = "closed" /\ kind # "ums"
    <3>1. y = Plain("open") /\ "open" \in Bare /\ ~OfMap(p)
      BY <2>3 DEF Bare, OfMap
    <3> HIDE DEF y
    <3> QED
      BY <2>3, <3>1, PlainOk, PlainIs DEF Bare
  <2> QED
    BY <2>1, <2>2, <2>3
<1> HIDE DEF n, y
<1>4. Good(n) /\ n[p] = y /\ ~Sits(s[p]) /\ ~Sits(n[p]) /\ Rest(s, n, {p})
  <2>1. n = [r \in Places |-> n[r]] /\ n[p] = y /\ \A r \in Places \ {p} : n[r] = s[r]
    BY <1>1 DEF Stored, Good
  <2> QED
    BY <1>3, <2>1, ToggleGood DEF Stored
<1>5. Follows(s, n)
  <2>1. n[p].id # s[p].id
    BY <1>3, <1>4 DEF Stored
  <2> QED
    BY <1>4, <2>1, RestFollows
<1>6. SeatIds(n) = SeatIds(s)
  BY <1>4, SeatsKept
<1>7. \A r \in Places : SameSeat(s, n, r)
  <2>1. SameSeat(s, n, p)
    BY <1>4 DEF SameSeat, Seated, Sits
  <2> QED
    BY <1>4, <2>1, RestSeats
<1>8. \A u : Only(s, n, u)
  BY <1>7, OnlyNone
<1> QED
  BY <1>4, <1>5, <1>6, <1>8 DEF n

LEMMA MoveStored ==
  ASSUME NEW s, Stored(s), NEW p \in Places, NEW q \in Places, Sits(s[p]),
         s[q].type \in Bare \union HeldTypes
  PROVE  LET n == Move(s, p, q) IN
         Good(n) /\ Follows(s, n) /\ SeatIds(n) = SeatIds(s) /\ Only(s, n, s[p].user)
<1> DEFINE n == Move(s, p, q)
<1>1. /\ Good(n) /\ n[p].id = Fresh /\ Sits(n[q]) /\ n[q].id = s[p].id /\ n[q].user = s[p].user
      /\ Rest(s, n, {p, q})
  BY MoveGood DEF Stored
<1> HIDE DEF n
<1>2. /\ s[p].id \in 1..MaxJoins /\ s[q].id \in {Fresh, Kept} /\ ~Sits(s[q]) /\ ~Sits(n[p])
  BY <1>1, FreeNotSits, MaxAssumption DEF Stored, Good, OkAt, Fresh
<1>3. n[p].id # s[p].id /\ n[q].id # s[q].id
  BY <1>1, <1>2 DEF Fresh, Kept
<1>4. Follows(s, n)
  BY <1>1, <1>3, RestFollows
<1>5. SeatIds(n) = SeatIds(s)
  BY <1>1, <1>2, SeatsMoved
<1>6. Only(s, n, s[p].user)
  <2>1. \A r \in Places : r \notin {p, q} => SameSeat(s, n, r)
    BY <1>1, RestSeats
  <2>2. p \in Seated(s) /\ p \notin Seated(n) /\ q \notin Seated(s)
    BY <1>2 DEF Seated, Sits
  <2>3. Apart(s) => \A r \in Seated(n) : n[r].user = s[p].user => r = q
    BY <2>1, <2>2 DEF Apart, SameSeat, Seated
  <2> DEFINE P == {p, q}
  <2> DEFINE u == s[p].user
  <2>4. /\ \A r \in Places : r \notin P => SameSeat(s, n, r)
        /\ \A r \in P : (r \in Seated(s) => s[r].user = u) /\ (r \in Seated(n) => n[r].user = u)
        /\ Apart(s) => \A a, b \in Seated(n) : n[a].user = u /\ n[b].user = u => a = b
    BY <1>1, <2>1, <2>2, <2>3
  <2> HIDE DEF P, u
  <2>5. Only(s, n, u)
    BY <2>4, OnlyOne
  <2> QED
    BY <2>5 DEF u
<1> QED
  BY <1>1, <1>4, <1>5, <1>6 DEF n

LEMMA RemoveStored ==
  ASSUME NEW s, Stored(s), NEW p \in Places, s[p].type \in {"human", "observer", "computer"}
  PROVE  LET n == Remove(s, p) IN
         /\ Good(n) /\ Follows(s, n) /\ n[p].type \in {"open", "heldOpen"}
         /\ SeatIds(n) \subseteq SeatIds(s) /\ Only(s, n, s[p].user)
         /\ \A i \in SeatIds(s) : i # s[p].id \/ ~Sits(s[p]) => i \in SeatIds(n)
<1> DEFINE n == Remove(s, p)
<1>1. Good(n) /\ n[p].id = Fresh /\ n[p].type \in {"open", "heldOpen"} /\ Rest(s, n, {p})
  BY RemoveGood DEF Stored
<1> HIDE DEF n
<1>2. Follows(s, n)
  BY <1>1, RestFollows DEF Stored
<1>3. ~Sits(n[p])
  BY <1>1 DEF Sits
<1>6. Only(s, n, s[p].user)
  <2>1. \A r \in Places : r \notin {p} => SameSeat(s, n, r)
    BY <1>1, RestSeats
  <2>2. p \notin Seated(n)
    BY <1>3 DEF Seated, Sits
  <2>3. Apart(s) => \A q, r \in Seated(n) : n[q].user = s[p].user /\ n[r].user = s[p].user => q = r
    BY <2>1, <2>2 DEF Apart, SameSeat, Seated
  <2> DEFINE P == {p}
  <2> DEFINE u == s[p].user
  <2>4. /\ \A r \in Places : r \notin P => SameSeat(s, n, r)
        /\ \A r \in P : (r \in Seated(s) => s[r].user = u) /\ (r \in Seated(n) => n[r].user = u)
        /\ Apart(s) => \A a, b \in Seated(n) : n[a].user = u /\ n[b].user = u => a = b
    BY <2>1, <2>2, <2>3
  <2> HIDE DEF P, u
  <2>5. Only(s, n, u)
    BY <2>4, OnlyOne
  <2> QED
    BY <2>5 DEF u
<1>4. CASE Sits(s[p])
  BY <1>1, <1>2, <1>3, <1>4, <1>6, SeatsLeft DEF n
<1>5. CASE ~Sits(s[p])
  <2>1. SeatIds(n) = SeatIds(s)
    BY <1>1, <1>3, <1>5, SeatsKept
  <2> QED
    BY <1>1, <1>2, <1>6, <2>1 DEF n
<1> QED
  BY <1>4, <1>5

LEMMA RacesStored ==
  ASSUME NEW s, Stored(s), NEW p \in Places, NEW race \in Races, OfMap(p) => ~s[p].forced
  PROVE  LET n == WithRace(s, p, race) IN
         Good(n) /\ Follows(s, n) /\ SeatIds(n) = SeatIds(s) /\ Only(s, n, s[p].user)
<1> DEFINE n == WithRace(s, p, race)
<1>1. /\ Good(n)
      /\ \A r \in Places : /\ Kin(n[r], s[r])
                           /\ Sits(s[r]) /\ r # p => n[r] = s[r]
  BY RacesGood, Zenon DEF Stored
<1> HIDE DEF n
<1>2. Seated(n) = Seated(s) /\ \A r \in Seated(s) : n[r].id = s[r].id /\ n[r].user = s[r].user
  <2>1. \A r \in Places : n[r].id = s[r].id /\ n[r].type = s[r].type /\ n[r].user = s[r].user
    BY <1>1 DEF Kin
  <2> QED
    BY <2>1 DEF Seated
<1>3. SeatIds(n) = SeatIds(s)
  BY <1>2 DEF SeatIds
<1>4. Only(s, n, s[p].user)
  <2>1. \A r \in Places : r \notin {p} => SameSeat(s, n, r)
    BY <1>1, <1>2 DEF SameSeat, Sits, Seated
  <2>2. Apart(s) => \A q, r \in Seated(n) : n[q].user = s[p].user /\ n[r].user = s[p].user => q = r
    BY <1>2 DEF Apart
  <2>3. p \in Seated(n) => n[p].user = s[p].user
    BY <1>2
  <2> DEFINE P == {p}
  <2> DEFINE u == s[p].user
  <2>4. /\ \A r \in Places : r \notin P => SameSeat(s, n, r)
        /\ \A r \in P : (r \in Seated(s) => s[r].user = u) /\ (r \in Seated(n) => n[r].user = u)
        /\ Apart(s) => \A a, b \in Seated(n) : n[a].user = u /\ n[b].user = u => a = b
    BY <2>1, <2>2, <2>3
  <2> HIDE DEF P, u
  <2>5. Only(s, n, u)
    BY <2>4, OnlyOne
  <2> QED
    BY <2>5 DEF u
<1>5. Follows(s, n)
  BY <1>1 DEF Follows
<1> QED
  BY <1>1, <1>3, <1>4, <1>5, Zenon DEF n

-----------------------------------------------------------------------------
(* The inductive invariant: what is stored is good, a screen shows it, the ids   *)
(* are those that were given out, the host has the least of those seated, and    *)
(* nobody sits twice.                                                        *)
IInv ==
    /\ kind \in Kinds /\ open \in BOOLEAN /\ joins \in 1..MaxJoins /\ host \in 1..MaxJoins
    /\ Fits(slots, view) /\ Apart(slots)
    /\ \A i \in SeatIds(slots) : i <= joins
    /\ Senior(SeatIds(slots), host)

(* All but u have the seats they had.                                         *)
Alone(u) == \A v \in Users : v # u => Seats(v)' = Seats(v)
OneMoved == Apart(slots)' /\ \E u : Alone(u)

LEMMA SeatIdsAre ==
  ASSUME NEW s, Good(s)
  PROVE  SeatIds(s) \subseteq 1..MaxJoins
  BY DEF SeatIds, Seated, Good, OkAt, Sits

(* What holds of the slots that a step stores holds in the next state.          *)
LEMMA Carried ==
  ASSUME NEW s, NEW v, Fits(s, v), slots' = s, view' = v, kind' = kind
  PROVE  /\ Fits(slots, view)' /\ SeatIds(slots)' = SeatIds(s)
         /\ Apart(slots)' <=> Apart(s)
         /\ \A u : Seats(u)' = SeatsIn(s, u) /\ Seats(u) = SeatsIn(slots, u)
<1>1. ASSUME NEW p \in Places PROVE OkAt(slots[p], p)'
  <2>1. OkAt(s[p], p)
    BY DEF Fits, Stored, Good
  <2> QED
    BY <2>1 DEF OkAt, AsMapped, OfMap, Controlled, Sits, Initial, Plain, Slot
<1>2. (kind = "controlled" => \A t \in Teams : Whole(slots, t))'
  <2>1. kind = "controlled" => \A t \in Teams : Whole(s, t)
    BY DEF Fits, Stored, Good
  <2> QED
    BY <2>1 DEF Whole, Empty, Computers, Played, Owned
<1>3. Good(slots)'
  BY <1>1, <1>2 DEF Good, Fits, Stored
<1>4. Stored(slots)'
  BY <1>3 DEF Fits, Stored
<1>5. Screen(view, slots)'
  BY DEF Fits, Screen, Kin
<1>6. SeatIds(slots)' = SeatIds(s)
  BY DEF SeatIds, Seated
<1>7. Apart(slots)' <=> Apart(s)
  BY DEF Apart, Seated
<1>8. ASSUME NEW u PROVE Seats(u)' = SeatsIn(s, u) /\ Seats(u) = SeatsIn(slots, u)
  BY DEF Seats, SeatsIn, PlaceOf, Seated
<1> QED
  BY <1>4, <1>5, <1>6, <1>7, <1>8 DEF Fits

LEMMA StepTo ==
  ASSUME IInv, NEW s, NEW v, NEW u, Fits(s, v), Only(slots, s, u),
         slots' = s, view' = v, kind' = kind,
         open' \in BOOLEAN, joins' \in 1..MaxJoins,
         \A i \in SeatIds(s) : i <= joins', Senior(SeatIds(s), host')
  PROVE  IInv' /\ OneMoved
<1>1. /\ Fits(slots, view)' /\ SeatIds(slots)' = SeatIds(s)
      /\ Apart(slots)' <=> Apart(s)
      /\ \A w : Seats(w)' = SeatsIn(s, w) /\ Seats(w) = SeatsIn(slots, w)
  BY Carried
<1>2. host' \in 1..MaxJoins
  BY SeatIdsAre DEF Senior, Fits, Stored
<1>3. Apart(s) /\ \A w : w # u => SeatsIn(s, w) = SeatsIn(slots, w)
  BY DEF Only, IInv
<1>4. OneMoved
  BY <1>1, <1>3 DEF OneMoved, Alone
<1> QED
  BY <1>1, <1>2, <1>3, <1>4 DEF IInv, Senior

(* A step that publishes n and leaves everybody in the lobby.                   *)
LEMMA BecomesKeeps ==
  ASSUME IInv, changes, NEW n, NEW u, Good(n), Follows(slots, n), SeatIds(n) = SeatIds(slots),
         Only(slots, n, u), Becomes(n)
  PROVE  IInv' /\ OneMoved
<1>1. /\ Fits(Settled(n), Shown(view, slots, n)) /\ SeatIds(Settled(n)) = SeatIds(n)
      /\ Only(slots, Settled(n), u)
  BY Publishes DEF IInv
<1> QED
  BY <1>1, StepTo DEF IInv, Becomes, changes

(* The host after p leaves has been there longest of those that are left.        *)
LEMMA HostGood ==
  ASSUME IInv, NEW p \in Seated(slots), Seated(Remove(slots, p)) # {}
  PROVE  LET left == Remove(slots, p) IN
         /\ Good(left) /\ Follows(slots, left) /\ left[p].type \in {"open", "heldOpen"}
         /\ SeatIds(left) \subseteq SeatIds(slots) /\ Only(slots, left, slots[p].user)
         /\ Senior(SeatIds(left), HostAfter(p, left))
<1> DEFINE left == Remove(slots, p)
<1>1. p \in Places /\ slots[p].type \in {"human", "observer", "computer"} /\ Sits(slots[p])
  BY DEF Seated, Sits
<1>2. /\ Good(left) /\ Follows(slots, left) /\ left[p].type \in {"open", "heldOpen"}
      /\ SeatIds(left) \subseteq SeatIds(slots) /\ Only(slots, left, slots[p].user)
      /\ \A i \in SeatIds(slots) : i # slots[p].id => i \in SeatIds(left)
  BY <1>1, RemoveStored DEF IInv, Fits
<1>3. Seated(left) # {}
  OBVIOUS
<1> HIDE DEF left
<1>4. Senior(SeatIds(left), HostAfter(p, left))
  <2>1. CASE host = slots[p].id
    <3> DEFINE P == Seated(left)
    <3>1. \A r \in P : left[r].id \in Nat
      BY <1>2, SeatIdsAre, MaxAssumption DEF SeatIds
    <3>2. P # {}
      BY <1>3
    <3> HIDE DEF P
    <3>3. Oldest(left, P) \in P /\ \A q \in P : left[Oldest(left, P)].id <= left[q].id
      BY <3>1, <3>2, OldestIs
    <3> QED
      BY <2>1, <3>3 DEF HostAfter, Senior, SeatIds, P
  <2>2. CASE host # slots[p].id
    BY <1>2, <2>2 DEF IInv, HostAfter, Senior
  <2> QED
    BY <2>1, <2>2
<1> QED
  BY <1>2, <1>4 DEF left

-----------------------------------------------------------------------------
(* The handlers.                                                            *)

LEMMA SeatOf ==
  ASSUME IInv, NEW u, NEW p \in PlaceOf(u)
  PROVE  p \in Places /\ Sits(slots[p]) /\ Stored(slots)
  BY DEF PlaceOf, Seated, Sits, IInv, Fits

(* Somebody who joins is put where a team, or the observers, have room.          *)
LEMMA JoinablePlaces ==
  ASSUME NEW s
  PROVE  /\ \A p \in Available(s) : p \in Places /\ s[p].type \in {"open", "heldOpen"}
         /\ \A p \in First(Joinable(s, ObsTeam)) : p \in Places /\ s[p].type \in {"open", "heldOpen"}
<1>1. ASSUME NEW t \in 1..ObsTeam, NEW p \in First(Joinable(s, t))
      PROVE  p \in Places /\ s[p].type \in {"open", "heldOpen"}
  BY PlaceFacts DEF First, Joinable
<1>2. ObsTeam \in 1..ObsTeam /\ Teams \subseteq 1..ObsTeam
  BY PlaceFacts
<1>3. \A t \in Largest([t \in Teams |-> Cardinality(Joinable(s, t))]) : t \in Teams
  BY DEF Largest
<1>4. ASSUME NEW p \in Available(s)
      PROVE  p \in First(Joinable(s, ObsTeam)) \/ \E t \in Teams : p \in First(Joinable(s, t))
  BY <1>3 DEF Available
<1> QED
  BY <1>1, <1>2, <1>4

LEMMA OccupantOk ==
  ASSUME IInv, NEW u \in Users, NEW p \in Places, joins < MaxJoins
  PROVE  LET x == Occupant(u, p) IN
         /\ OkAt(x, p) /\ Sits(x) /\ x.id = joins + 1 /\ x.type \in {"human", "observer"}
         /\ x.user = u
<1> DEFINE t == IF IsObs(p) THEN "observer" ELSE "human"
<1> DEFINE a == Slot(t, u, joins + 1, Random)
<1> DEFINE x == Occupant(u, p)
<1>1. joins + 1 \in 1..MaxJoins /\ joins + 1 \in Ids
  BY MaxAssumption DEF IInv, Ids
<1>2. t \in Types /\ u \in Occupants /\ Random \in Races
  BY SomeIn DEF Occupants
<1>3. a \in Rec /\ a.type = t /\ a.id = joins + 1 /\ ~a.forced /\ a.pid = NoPlace /\ a.user = u
  <2> HIDE DEF t
  <2> QED
    BY <1>1, <1>2, SlotIs
<1>4. x = IF OfMap(p) THEN OnMap(a, slots[p]) ELSE a
  BY Zenon DEF Occupant
<1>5. OkAt(slots[p], p)
  BY DEF IInv, Fits, Stored, Good
<1> HIDE DEF a, x
<1>6. CASE OfMap(p)
  <2>1. slots[p].race \in Races /\ slots[p].forced \in BOOLEAN /\ slots[p].pid \in Pids
    BY <1>5, Fields DEF OkAt
  <2>2. /\ x \in Rec /\ x.type = t /\ x.id = joins + 1 /\ x.user = u /\ x.race = slots[p].race
        /\ x.forced = slots[p].forced /\ x.pid = slots[p].pid
    <3> HIDE DEF t
    <3> QED
      BY <1>3, <1>4, <1>6, <2>1, OnMapIs
  <2>3. OkAt(x, p)
    BY <1>1, <1>5, <2>2 DEF OkAt, Sits, HeldTypes, AsMapped
  <2> QED
    BY <2>2, <2>3 DEF Sits, x
<1>7. CASE ~OfMap(p)
  <2>1. OkAt(x, p)
    BY <1>1, <1>3, <1>4, <1>7 DEF OkAt, Sits, HeldTypes, AsMapped
  <2> QED
    BY <1>3, <1>4, <1>7, <2>1 DEF Sits, x
<1> QED
  BY <1>6, <1>7

LEMMA JoinKeeps ==
  ASSUME IInv, NEW u \in Users, NEW asObserver \in BOOLEAN, Join(u, asObserver)
  PROVE  IInv' /\ OneMoved
<1>1. PICK p \in Places : /\ slots[p].type \in {"open", "heldOpen"}
                          /\ Becomes(AddPlayer(slots, p, Occupant(u, p)))
  BY JoinablePlaces DEF Join
<1> DEFINE x == Occupant(u, p)
<1> DEFINE n == AddPlayer(slots, p, x)
<1>2. /\ OkAt(x, p) /\ Sits(x) /\ x.id = joins + 1 /\ x.user = u
      /\ x.type \in {"human", "observer", "computer"} /\ x.type # "computer"
  BY OccupantOk DEF Join
<1>3. Stored(slots) /\ Good(slots) /\ slots[p].type \in Bare \union HeldTypes /\ ~Sits(slots[p])
  BY <1>1 DEF IInv, Fits, Stored, Bare, HeldTypes, Sits
<1> HIDE DEF x
<1>4. /\ Good(n) /\ n[p] = x
      /\ \A r \in Places \ {p} : n[r] = slots[r] \/ (n[r].id = Fresh /\ ~Sits(slots[r]))
  BY <1>2, <1>3, AddGood
<1>5. Becomes(n)
  BY <1>1 DEF x
<1> HIDE DEF n
<1>6. Rest(slots, n, {p})
  BY <1>4 DEF Rest, Kin
<1>7. joins \in Nat /\ joins' = joins + 1 /\ joins' \in 1..MaxJoins
  BY MaxAssumption DEF Join, IInv
<1>8. n[p].id # slots[p].id
  BY <1>2, <1>3, <1>4, <1>7 DEF Stored, Good, OkAt, Fresh, Kept
<1>9. Follows(slots, n)
  BY <1>3, <1>6, <1>8, RestFollows
<1>14. Only(slots, n, u)
  <2> DEFINE P == {p}
  <2>1. \A r \in Places : r \notin P => SameSeat(slots, n, r)
    BY <1>4, <1>6, RestSeats
  <2>2. \A r \in Seated(slots) : slots[r].user # u
    BY DEF Join, PlaceOf
  <2>3. \A r \in P : (r \in Seated(slots) => slots[r].user = u) /\ (r \in Seated(n) => n[r].user = u)
    BY <1>2, <1>3, <1>4 DEF Seated, Sits
  <2>4. \A r \in Seated(n) : n[r].user = u => r = p
    BY <2>1, <2>2 DEF SameSeat, Seated
  <2>5. Apart(slots) => \A a, b \in Seated(n) : n[a].user = u /\ n[b].user = u => a = b
    BY <2>4
  <2> HIDE DEF P
  <2> QED
    BY <2>1, <2>3, <2>5, OnlyOne
<1>10. /\ Fits(Settled(n), Shown(view, slots, n)) /\ SeatIds(Settled(n)) = SeatIds(n)
       /\ Only(slots, Settled(n), u)
  BY <1>4, <1>9, <1>14, Publishes DEF IInv
<1>11. SeatIds(n) = SeatIds(slots) \union {joins + 1}
  BY <1>2, <1>3, <1>4, <1>6, SeatsJoined
<1>12. \A i \in SeatIds(slots) : i \in Nat /\ i <= joins
  BY <1>3, SeatIdsAre, MaxAssumption DEF IInv
<1>13. (\A i \in SeatIds(n) : i <= joins') /\ Senior(SeatIds(n), host)
  BY <1>7, <1>11, <1>12 DEF IInv, Senior
<1> QED
  BY <1>5, <1>7, <1>10, <1>13, StepTo DEF IInv, Becomes, Join

LEMMA AddComputerKeeps ==
  ASSUME IInv, NEW p \in Places, AddComputer(p)
  PROVE  IInv' /\ OneMoved
<1> DEFINE x == Computer(Random)
<1> DEFINE n == AddPlayer(slots, p, x)
<1>1. OkAt(x, p) /\ x.type = "computer" /\ x.id = Fresh
  BY ComputerOk, RacesAssumption DEF AddComputer
<1>2. Stored(slots) /\ Good(slots) /\ slots[p].type \in Bare /\ ~Sits(slots[p]) /\ ~Sits(x)
  BY <1>1 DEF IInv, Fits, Stored, Bare, Sits, AddComputer
<1> HIDE DEF x
<1>3. /\ Good(n) /\ n[p] = x
      /\ \A r \in Places \ {p} : n[r] = slots[r] \/ (n[r].id = Fresh /\ ~Sits(slots[r]))
  BY <1>1, <1>2, AddGood
<1>4. Becomes(n) /\ changes
  BY DEF AddComputer, x
<1> HIDE DEF n
<1>5. Rest(slots, n, {p})
  BY <1>3 DEF Rest, Kin
<1>6. n[p].id # slots[p].id
  BY <1>1, <1>2, <1>3 DEF Stored
<1>7. Follows(slots, n)
  BY <1>2, <1>5, <1>6, RestFollows
<1>8. SeatIds(n) = SeatIds(slots)
  BY <1>2, <1>3, <1>5, SeatsKept
<1>9. Only(slots, n, Nobody)
  <2>1. SameSeat(slots, n, p)
    BY <1>2, <1>3 DEF SameSeat, Seated, Sits
  <2>2. \A r \in Places : SameSeat(slots, n, r)
    BY <1>3, <1>5, <2>1, RestSeats
  <2> QED
    BY <2>2, OnlyNone
<1> QED
  BY <1>3, <1>4, <1>7, <1>8, <1>9, BecomesKeeps

LEMMA MoveKeeps ==
  ASSUME IInv, NEW p \in Places, NEW q \in Places, Sits(slots[p]),
         slots[q].type \in Bare \union HeldTypes, Becomes(Move(slots, p, q)), changes
  PROVE  IInv' /\ OneMoved
<1>1. LET n == Move(slots, p, q) IN
      /\ Good(n) /\ Follows(slots, n) /\ SeatIds(n) = SeatIds(slots)
      /\ Only(slots, n, slots[p].user)
  BY MoveStored DEF IInv, Fits
<1> QED
  BY <1>1, BecomesKeeps

LEMMA ChangeSlotKeeps ==
  ASSUME IInv, NEW u \in Users, NEW q \in Places, ChangeSlot(u, q)
  PROVE  IInv' /\ OneMoved
<1>1. PICK p \in PlaceOf(u) : Becomes(Move(slots, p, q))
  BY DEF ChangeSlot
<1>2. p \in Places /\ Sits(slots[p])
  BY SeatOf
<1>3. slots[q].type \in Bare \union HeldTypes /\ changes
  BY DEF ChangeSlot, Bare, HeldTypes
<1> QED
  BY <1>1, <1>2, <1>3, MoveKeeps

LEMMA MakeObserverKeeps ==
  ASSUME IInv, NEW p \in Places, MakeObserver(p)
  PROVE  IInv' /\ OneMoved
<1>1. PICK q \in ObserverSeat(slots) : Becomes(Move(slots, p, q))
  BY DEF MakeObserver
<1>2. q \in InTeam(ObsTeam) /\ slots[q].type \in Bare \union HeldTypes
  BY DEF ObserverSeat, First, Unoccupied, Bare, HeldTypes
<1>3. q \in Places
  BY <1>2, PlaceFacts
<1>4. Sits(slots[p]) /\ changes
  BY DEF MakeObserver, Sits
<1> QED
  BY <1>1, <1>2, <1>3, <1>4, MoveKeeps

LEMMA RemoveObserverKeeps ==
  ASSUME IInv, NEW p \in Places, RemoveObserver(p)
  PROVE  IInv' /\ OneMoved
<1>1. PICK q \in PlayerSeat(slots) : Becomes(Move(slots, p, q))
  BY DEF RemoveObserver
<1>2. PICK t \in Teams : q \in First(Joinable(slots, t)) \/ q \in First(Unoccupied(slots, t))
  BY DEF PlayerSeat, Largest
<1>3. q \in InTeam(t) /\ slots[q].type \in Bare \union HeldTypes
  BY <1>2 DEF First, Joinable, Unoccupied, Bare, HeldTypes
<1>4. q \in Places
  BY <1>3, PlaceFacts
<1>5. Sits(slots[p]) /\ changes
  BY DEF RemoveObserver, Sits
<1> QED
  BY <1>1, <1>3, <1>4, <1>5, MoveKeeps

LEMMA SetRaceKeeps ==
  ASSUME IInv, NEW u \in Users, NEW p \in Places, NEW race \in Races, SetRace(u, p, race)
  PROVE  IInv' /\ OneMoved
<1>1. OkAt(slots[p], p) /\ Stored(slots)
  BY DEF IInv, Fits, Stored, Good
<1>2. OfMap(p) => ~slots[p].forced
  BY <1>1 DEF SetRace, MaySetRace, OfMap, OkAt, HeldTypes, Controlled
<1>3. LET n == WithRace(slots, p, race) IN
      /\ Good(n) /\ Follows(slots, n) /\ SeatIds(n) = SeatIds(slots)
      /\ Only(slots, n, slots[p].user)
  BY <1>1, <1>2, RacesStored
<1> QED
  BY <1>3, BecomesKeeps DEF SetRace

LEMMA OpenSlotKeeps ==
  ASSUME IInv, NEW p \in Places, OpenSlot(p)
  PROVE  IInv' /\ OneMoved
<1>1. LET n == Reopened(slots, p) IN
      /\ Good(n) /\ Follows(slots, n) /\ SeatIds(n) = SeatIds(slots)
      /\ Only(slots, n, Nobody)
  BY ReopenedGood DEF IInv, Fits, OpenSlot
<1> QED
  BY <1>1, BecomesKeeps DEF OpenSlot

LEMMA CloseSlotKeeps ==
  ASSUME IInv, NEW p \in Places, CloseSlot(p)
  PROVE  IInv' /\ OneMoved
<1>1. LET n == Shut(slots, p) IN
      /\ Good(n) /\ Follows(slots, n) /\ SeatIds(n) = SeatIds(slots)
      /\ Only(slots, n, Nobody)
  BY ShutGood DEF IInv, Fits, CloseSlot
<1> QED
  BY <1>1, BecomesKeeps DEF CloseSlot

(* A computer that is removed takes nobody with it.                           *)
LEMMA Kicked ==
  ASSUME IInv, NEW p \in Places, slots[p].type = "computer"
  PROVE  LET n == Remove(slots, p) IN
         /\ Good(n) /\ Follows(slots, n) /\ n[p].type \in {"open", "heldOpen"}
         /\ SeatIds(n) = SeatIds(slots) /\ Only(slots, n, slots[p].user)
<1> DEFINE n == Remove(slots, p)
<1>1. Stored(slots) /\ ~Sits(slots[p])
  BY DEF IInv, Fits, Sits
<1>2. /\ Good(n) /\ Follows(slots, n) /\ n[p].type \in {"open", "heldOpen"}
      /\ SeatIds(n) \subseteq SeatIds(slots) /\ Only(slots, n, slots[p].user)
      /\ \A i \in SeatIds(slots) : i # slots[p].id \/ ~Sits(slots[p]) => i \in SeatIds(n)
  BY <1>1, RemoveStored
<1> HIDE DEF n
<1>3. SeatIds(n) = SeatIds(slots)
  BY <1>1, <1>2
<1> QED
  BY <1>2, <1>3 DEF n

LEMMA KickComputerKeeps ==
  ASSUME IInv, NEW p \in Places, KickComputer(p)
  PROVE  IInv' /\ OneMoved
<1>1. LET n == Remove(slots, p) IN
      /\ Good(n) /\ Follows(slots, n) /\ SeatIds(n) = SeatIds(slots)
      /\ Only(slots, n, slots[p].user)
  BY Kicked DEF KickComputer
<1> QED
  BY <1>1, BecomesKeeps DEF KickComputer

(* The slot at p is closed in a diff of its own, after what left it open.         *)
LEMMA ThenShut ==
  ASSUME Fits(slots, view), NEW p \in Places, NEW n, NEW u, Good(n), Follows(slots, n),
         n[p].type \in {"open", "heldOpen"}, Only(slots, n, u)
  PROVE  LET k == Settled(n)
             z == Shut(k, p)
         IN  /\ Fits(Settled(z), Shown(Shown(view, slots, n), k, z))
             /\ SeatIds(Settled(z)) = SeatIds(n) /\ Only(slots, Settled(z), u)
<1> DEFINE k == Settled(n)
<1> DEFINE w == Shown(view, slots, n)
<1>1. Fits(k, w) /\ SeatIds(k) = SeatIds(n) /\ Only(slots, k, u)
  BY Publishes
<1>2. k[p].type \in {"open", "heldOpen"}
  BY SettledGood
<1> HIDE DEF k, w
<1> DEFINE z == Shut(k, p)
<1>3. Good(z) /\ Follows(k, z) /\ SeatIds(z) = SeatIds(k) /\ Only(k, z, u)
  BY <1>1, <1>2, ShutGood DEF Fits
<1> HIDE DEF z
<1>4. /\ Fits(Settled(z), Shown(w, k, z)) /\ SeatIds(Settled(z)) = SeatIds(z)
      /\ Only(k, Settled(z), u)
  BY <1>1, <1>3, Publishes
<1>5. Only(slots, Settled(z), u)
  BY <1>1, <1>4, OnlyThen
<1> QED
  BY <1>1, <1>3, <1>4, <1>5 DEF k, w, z

LEMMA CloseComputerKeeps ==
  ASSUME IInv, NEW p \in Places, CloseComputer(p)
  PROVE  IInv' /\ OneMoved
<1> DEFINE n == Remove(slots, p)
<1> DEFINE k == Settled(n)
<1> DEFINE z == Shut(k, p)
<1>1. /\ Good(n) /\ Follows(slots, n) /\ n[p].type \in {"open", "heldOpen"}
      /\ SeatIds(n) = SeatIds(slots) /\ Only(slots, n, slots[p].user)
  BY Kicked DEF CloseComputer
<1>2. slots' = Settled(z) /\ view' = Shown(Shown(view, slots, n), k, z) /\ changes
  BY DEF CloseComputer
<1> HIDE DEF n
<1>3. /\ Fits(Settled(z), Shown(Shown(view, slots, n), k, z)) /\ SeatIds(Settled(z)) = SeatIds(n)
      /\ Only(slots, Settled(z), slots[p].user)
  BY <1>1, ThenShut DEF IInv
<1> HIDE DEF k, z
<1> QED
  BY <1>1, <1>2, <1>3, StepTo DEF IInv, changes

LEMMA LeaveKeeps ==
  ASSUME IInv, NEW p \in Places, Leave(p)
  PROVE  IInv' /\ OneMoved
<1> DEFINE n == Remove(slots, p)
<1>1. CASE Seated(n) = {} /\ open' = FALSE /\ UNCHANGED <<slots, host, view>>
  <2>1. Only(slots, slots, Nobody)
    BY OnlyNone DEF SameSeat
  <2> QED
    BY <1>1, <2>1, StepTo DEF IInv, Leave
<1>2. CASE Seated(n) # {} /\ Becomes(n) /\ host' = HostAfter(p, n) /\ UNCHANGED open
  <2>1. /\ Good(n) /\ Follows(slots, n) /\ SeatIds(n) \subseteq SeatIds(slots)
        /\ Senior(SeatIds(n), HostAfter(p, n)) /\ Only(slots, n, slots[p].user)
    BY <1>2, HostGood DEF Leave
  <2> HIDE DEF n
  <2>2. /\ Fits(Settled(n), Shown(view, slots, n)) /\ SeatIds(Settled(n)) = SeatIds(n)
        /\ Only(slots, Settled(n), slots[p].user)
    BY <2>1, Publishes DEF IInv
  <2> QED
    BY <1>2, <2>1, <2>2, StepTo DEF IInv, Becomes, Leave
<1> QED
  BY <1>1, <1>2 DEF Leave

LEMMA CloseOccupiedKeeps ==
  ASSUME IInv, NEW p \in Places, CloseOccupied(p)
  PROVE  IInv' /\ OneMoved
<1> DEFINE n == Remove(slots, p)
<1> DEFINE k == Settled(n)
<1> DEFINE z == Shut(k, p)
<1>1. /\ Good(n) /\ Follows(slots, n) /\ n[p].type \in {"open", "heldOpen"}
      /\ SeatIds(n) \subseteq SeatIds(slots) /\ Senior(SeatIds(n), HostAfter(p, n))
      /\ Only(slots, n, slots[p].user)
  <2>1. p \in Seated(slots) /\ Seated(Remove(slots, p)) # {}
    BY DEF CloseOccupied
  <2> QED
    BY <2>1, HostGood
<1>2. /\ slots' = Settled(z) /\ view' = Shown(Shown(view, slots, n), k, z)
      /\ host' = HostAfter(p, n) /\ UNCHANGED <<kind, open, joins>>
  BY DEF CloseOccupied
<1> HIDE DEF n
<1>3. /\ Fits(Settled(z), Shown(Shown(view, slots, n), k, z)) /\ SeatIds(Settled(z)) = SeatIds(n)
      /\ Only(slots, Settled(z), slots[p].user)
  BY <1>1, ThenShut DEF IInv
<1> HIDE DEF k, z
<1> QED
  BY <1>1, <1>2, <1>3, StepTo DEF IInv

-----------------------------------------------------------------------------
(* A new lobby.                                                             *)

LEMMA InitialIs ==
  ASSUME NEW p \in Places, kind \in Kinds
  PROVE  LET x == Initial(kind, p) IN
         /\ OkAt(x, p) /\ x.id = Kept /\ (kind = "controlled" => x.type \in Bare)
         /\ x.type = "open" => ~IsObs(p)
         /\ IF IsObs(p) THEN x.type = "closed" ELSE kind # "ums" => x.type = "open"
<1> DEFINE t == IF IsObs(p) THEN "closed"
                ELSE IF kind = "ums" /\ p \in MapComputers THEN "umsComputer" ELSE "open"
<1> DEFINE y == Slot(t, Nobody, Kept, Random)
<1> DEFINE race == IF p \in ForcedPlaces THEN CHOOSE r \in Races : r # Random ELSE Random
<1> DEFINE m == [race |-> race, pid |-> p, forced |-> p \in ForcedPlaces \union MapComputers]
<1> DEFINE x == Initial(kind, p)
<1>1. y \in Rec /\ y.type = t /\ y.id = Kept /\ ~y.forced /\ y.pid = NoPlace
  <2>1. t \in Types /\ Kept \in Ids /\ Nobody \in Occupants /\ Random \in Races
    BY SomeIn, MaxAssumption DEF Types, Ids, Kept
  <2> HIDE DEF t
  <2> QED
    BY <2>1, SlotIs
<1>2. x = IF kind # "ums" \/ IsObs(p) THEN y ELSE OnMap(y, m)
  BY Zenon DEF Initial
<1>3. CASE kind # "ums" \/ IsObs(p)
  <2>1. x = y
    BY <1>2, <1>3
  <2> HIDE DEF x, y, m
  <2>2. OkAt(x, p)
    BY <1>1, <1>3, <2>1 DEF OkAt, Sits, HeldTypes, Bare, AsMapped, OfMap
  <2> QED
    BY <1>1, <1>3, <2>1, <2>2 DEF Bare, x
<1>4. CASE kind = "ums" /\ ~IsObs(p)
  <2>1. race \in Races
    BY ForcedAssumption, RacesAssumption
  <2>2. m.race \in Races /\ m.forced \in BOOLEAN /\ m.pid \in Pids /\ m.pid = p
    <3> HIDE DEF race
    <3> QED
      BY <2>1 DEF Pids
  <2>3. x = OnMap(y, m)
    BY <1>2, <1>4
  <2> HIDE DEF m, y
  <2>4. x \in Rec /\ x.type = t /\ x.id = Kept /\ x.pid = p
    <3> HIDE DEF t, x
    <3> QED
      BY <1>1, <2>2, <2>3, OnMapIs
  <2>5. OkAt(x, p)
    <3>1. x.forced = Initial(kind, p).forced /\ x.race = Initial(kind, p).race
      OBVIOUS
    <3> HIDE DEF x
    <3> QED
      BY <1>4, <2>4, <3>1 DEF OkAt, Sits, HeldTypes, Bare, AsMapped, OfMap
  <2> QED
    BY <1>4, <2>4, <2>5 DEF Bare
<1> QED
  BY <1>3, <1>4

LEMMA AtMostOne ==
  ASSUME NEW x, NEW S, S \subseteq {x}
  PROVE  Cardinality(S) <= 1
<1>1. CASE x \in S
  <2>1. S = {x}
    BY <1>1
  <2> QED
    BY <2>1, FS_Singleton
<1>2. CASE x \notin S
  <2>1. S = {}
    BY <1>2
  <2> QED
    BY <2>1, FS_EmptySet
<1> QED
  BY <1>1, <1>2

LEMMA InitGood ==
  Init => IInv
<1> SUFFICES ASSUME Init PROVE IInv
  OBVIOUS
<1> DEFINE new == [p \in Places |-> Initial(kind, p)]
<1>1. kind \in Kinds /\ open = TRUE /\ joins = 1 /\ host = 1 /\ view = slots
  BY DEF Init
<1>2. \A p \in Places : /\ OkAt(new[p], p) /\ new[p].id = Kept
                        /\ kind = "controlled" => new[p].type \in Bare
                        /\ new[p].type = "open" => ~IsObs(p)
                        /\ ~Sits(new[p])
  <2> SUFFICES ASSUME NEW p \in Places
               PROVE  /\ OkAt(new[p], p) /\ new[p].id = Kept
                      /\ kind = "controlled" => new[p].type \in Bare
                      /\ new[p].type = "open" => ~IsObs(p)
                      /\ ~Sits(new[p])
    OBVIOUS
  <2> DEFINE x == Initial(kind, p)
  <2>1. OkAt(x, p) /\ x.id = Kept /\ (kind = "controlled" => x.type \in Bare) /\ (x.type = "open" => ~IsObs(p))
    BY <1>1, InitialIs
  <2>2. new[p] = x
    OBVIOUS
  <2> HIDE DEF new, x
  <2>3. ~Sits(x)
    BY <2>1, MaxAssumption DEF OkAt, Kept
  <2> QED
    BY <2>1, <2>2, <2>3
<1>3. new = [p \in Places |-> new[p]]
  OBVIOUS
<1>4. PICK u \in Users, seat \in Places :
         /\ new[seat].type = "open"
         /\ LET x == Slot("human", u, 1, Random)
            IN  slots = Settled(AddPlayer(new, seat,
                          IF kind = "ums" THEN OnMap(x, new[seat]) ELSE x))
  BY DEF Init, First
<1> HIDE DEF new
<1> DEFINE a == Slot("human", u, 1, Random)
<1> DEFINE y == IF kind = "ums" THEN OnMap(a, new[seat]) ELSE a
<1> DEFINE n == AddPlayer(new, seat, y)
<1>5. Good(new)
  <2>1. kind = "controlled" => \A t \in Teams : Whole(new, t)
    BY <1>2, PlaceFacts DEF Whole, Empty
  <2> QED
    BY <1>2, <1>3, <2>1 DEF Good
<1>6. OkAt(y, seat) /\ Sits(y) /\ y.id = 1 /\ y.type = "human"
  <2>1. /\ a \in Rec /\ a.type = "human" /\ a.id = 1 /\ ~a.forced /\ a.pid = NoPlace
    <3>1. "human" \in Types /\ u \in Occupants /\ 1 \in Ids /\ Random \in Races
      BY SomeIn, MaxAssumption DEF Occupants, Ids
    <3> QED
      BY <3>1, SlotIs
  <2>2. OkAt(new[seat], seat) /\ ~IsObs(seat) /\ 1 \in 1..MaxJoins
    BY <1>2, <1>4, MaxAssumption
  <2> HIDE DEF a
  <2>3. CASE kind = "ums"
    <3>1. new[seat].race \in Races /\ new[seat].forced \in BOOLEAN /\ new[seat].pid \in Pids
      BY <2>2, Fields DEF OkAt
    <3> DEFINE z == OnMap(a, new[seat])
    <3>2. /\ z \in Rec /\ z.type = "human" /\ z.id = 1 /\ z.race = new[seat].race
          /\ z.forced = new[seat].forced /\ z.pid = new[seat].pid
      BY <2>1, <3>1, OnMapIs
    <3>3. y = z
      BY <2>3
    <3> HIDE DEF z
    <3>4. OkAt(z, seat)
      BY <2>2, <2>3, <3>2 DEF OkAt, Sits, HeldTypes, AsMapped
    <3> QED
      BY <3>2, <3>3, <3>4 DEF Sits
  <2>4. CASE kind # "ums"
    <3>1. OkAt(a, seat)
      BY <2>1, <2>2, <2>4 DEF OkAt, Sits, HeldTypes, AsMapped, OfMap
    <3>2. y = a
      BY <2>4
    <3> QED
      BY <2>1, <3>1, <3>2 DEF Sits
  <2> QED
    BY <2>3, <2>4
<1>7. slots = Settled(n)
  BY <1>4, Zenon
<1> HIDE DEF y
<1>8. /\ Good(n) /\ n[seat] = y
      /\ \A r \in Places \ {seat} : n[r] = new[r] \/ (n[r].id = Fresh /\ ~Sits(new[r]))
  <2>1. new[seat].type \in Bare \union HeldTypes
    BY <1>4 DEF Bare
  <2> QED
    BY <1>5, <1>6, <2>1, AddGood
<1> HIDE DEF n
<1>9. Rest(new, n, {seat})
  BY <1>8 DEF Rest, Kin
<1>10. SeatIds(n) = {1}
  <2>1. SeatIds(new) = {}
    BY <1>2 DEF SeatIds, Seated, Sits
  <2>2. ~Sits(new[seat])
    BY <1>2
  <2> QED
    <3>1. Sits(n[seat]) /\ n[seat].id = 1
      BY <1>6, <1>8
    <3>2. SeatIds(n) = SeatIds(new) \union {n[seat].id}
      BY <1>8, <1>9, <2>2, <3>1, SeatsJoined
    <3> QED
      BY <2>1, <3>1, <3>2
<1>11. Stored(slots) /\ SeatIds(slots) = {1}
  BY <1>7, <1>8, <1>10, SettledGood
<1>12. Screen(view, slots)
  BY <1>1, <1>11 DEF Screen, Kin, Stored, Good, OkAt
<1>13. Seated(slots) \subseteq {seat}
  <2>1. \A r \in Places : ~Sits(new[r])
    BY <1>2
  <2>2. \A r \in Places : Sits(n[r]) => r = seat
    BY <1>9, <2>1, <1>5, <1>8, MaxAssumption DEF Rest, Kin, Sits, Good, OkAt, Fresh
  <2>3. Seated(slots) = Seated(n)
    BY <1>7, <1>8, SettledGood
  <2> QED
    BY <2>2, <2>3 DEF Seated, Sits
<1> QED
  BY <1>1, <1>11, <1>12, <1>13, MaxAssumption DEF IInv, Fits, Senior, Apart

LEMMA NextKeeps ==
  IInv /\ Next => IInv' /\ OneMoved
<1> SUFFICES ASSUME IInv, Next PROVE IInv' /\ OneMoved
  OBVIOUS
<1>1. ASSUME NEW u \in Users, MemberStep(u) PROVE IInv' /\ OneMoved
  <2>1. ASSUME NEW asObserver \in BOOLEAN, Join(u, asObserver) PROVE IInv' /\ OneMoved
    BY <2>1, JoinKeeps
  <2>2. ASSUME NEW p \in Places, ChangeSlot(u, p) PROVE IInv' /\ OneMoved
    BY <2>2, ChangeSlotKeeps
  <2>3. ASSUME NEW p \in Places, NEW race \in Races, SetRace(u, p, race) PROVE IInv' /\ OneMoved
    BY <2>3, SetRaceKeeps
  <2> QED
    BY <1>1, <2>1, <2>2, <2>3 DEF MemberStep
<1>2. ASSUME NEW p \in Places, HostStep(p) PROVE IInv' /\ OneMoved
  <2>1. CASE AddComputer(p)
    BY <2>1, AddComputerKeeps
  <2>2. CASE OpenSlot(p)
    BY <2>2, OpenSlotKeeps
  <2>3. CASE CloseSlot(p)
    BY <2>3, CloseSlotKeeps
  <2>4. CASE KickComputer(p)
    BY <2>4, KickComputerKeeps
  <2>5. CASE CloseComputer(p)
    BY <2>5, CloseComputerKeeps
  <2>6. CASE CloseOccupied(p)
    BY <2>6, CloseOccupiedKeeps
  <2>7. CASE MakeObserver(p)
    BY <2>7, MakeObserverKeeps
  <2>8. CASE RemoveObserver(p)
    BY <2>8, RemoveObserverKeeps
  <2> QED
    BY <1>2, <2>1, <2>2, <2>3, <2>4, <2>5, <2>6, <2>7, <2>8 DEF HostStep
<1>3. ASSUME NEW p \in Places, Leave(p) PROVE IInv' /\ OneMoved
  BY <1>3, LeaveKeeps
<1> QED
  BY <1>1, <1>2, <1>3 DEF Next

LEMMA StutterKeeps ==
  IInv /\ UNCHANGED vars => IInv'
<1> SUFFICES ASSUME IInv, UNCHANGED vars PROVE IInv'
  OBVIOUS
<1>1. Only(slots, slots, Nobody)
  BY OnlyNone DEF SameSeat
<1> QED
  BY <1>1, StepTo DEF IInv, vars

(* Whatever the members of a lobby do, its slots and the screens stay as IInv     *)
(* says.                                                                    *)
THEOREM Invariant == Spec => []IInv
<1> QED
  BY InitGood, NextKeeps, StutterKeeps, PTL DEF Spec

(* The slots of a lobby, and those a screen shows, are records of slots.         *)
THEOREM TypeCorrect == Spec => []TypeOK
<1>1. IInv => TypeOK
  <2> SUFFICES ASSUME IInv PROVE TypeOK
    OBVIOUS
  <2>1. ASSUME NEW x \in Rec, x.id # Fresh PROVE x \in SlotRecords
    <3> DEFINE I == 0..MaxJoins
    <3> DEFINE P == Pids
    <3> DEFINE U == Occupants
    <3>1. x.id \in I
      BY <2>1, Fields DEF Ids
    <3>2. x \in [type : Types, user : U, id : Ids, race : Races, by : I, forced : BOOLEAN, pid : P]
      BY DEF Rec
    <3> HIDE DEF I, P, U
    <3>3. x \in [type : Types, user : U, id : I, race : Races, by : I, forced : BOOLEAN, pid : P]
      BY <3>1, <3>2
    <3> QED
      BY <3>3 DEF SlotRecords, Pids, Occupants, I, P, U
  <2>2. \A p \in Places : slots[p] \in SlotRecords /\ view[p] \in SlotRecords
    BY <2>1 DEF IInv, Fits, Stored, Good, OkAt, Screen, Kin
  <2>3. slots = [p \in Places |-> slots[p]] /\ view = [p \in Places |-> view[p]]
    BY DEF IInv, Fits, Stored, Good, Screen
  <2> HIDE DEF SlotRecords
  <2> QED
    BY <2>2, <2>3 DEF TypeOK, IInv
<1> QED
  BY <1>1, Invariant, PTL

(* In team melee and FFA every team is empty, one of computers or one of players  *)
(* that control its other slots, and nobody sits on the wrong side.              *)
THEOREM Teamwork == Spec => []TeamsAreWhole
<1>1. IInv => TeamsAreWhole
  <2> SUFFICES ASSUME IInv PROVE TeamsAreWhole
    OBVIOUS
  <2>1. \A p \in Places : OkAt(slots[p], p)
    BY DEF IInv, Fits, Stored, Good
  <2>2. kind = "controlled" => \A t \in Teams : Whole(slots, t)
    BY DEF IInv, Fits, Stored, Good
  <2>3. \A t \in Teams : Whole(slots, t) => EmptyTeam(t) \/ ComputerTeam(t) \/ PlayedTeam(t)
    BY DEF Whole, Empty, Computers, Played, Owned, EmptyTeam, ComputerTeam, PlayedTeam, Bare, HeldTypes
  <2> QED
    BY <2>1, <2>2, <2>3 DEF TeamsAreWhole, OkAt, HeldTypes, Bare
<1> QED
  BY <1>1, Invariant, PTL

(* The host of a lobby sits in it, and nobody who sits there came before it.      *)
THEOREM Seniority == Spec => []HostIsSenior
<1>1. IInv => HostIsSenior
  BY DEF IInv, Senior, SeatIds, HostIsSenior
<1> QED
  BY <1>1, Invariant, PTL

(* The diffs that are published make of the slots of a screen what is stored.     *)
THEOREM Published == Spec => []ViewFollows
<1>1. IInv => ViewFollows
  <2> SUFFICES ASSUME IInv, NEW p \in Places
               PROVE  [view[p] EXCEPT !.by = 0] = [slots[p] EXCEPT !.by = 0]
    BY DEF ViewFollows
  <2>1. view[p] \in Rec /\ slots[p] \in Rec /\ Kin(view[p], slots[p]) /\ view[p].race = slots[p].race
    BY DEF IInv, Fits, Screen, Stored, Good, OkAt
  <2> QED
    BY <2>1, SameBut
<1> QED
  BY <1>1, Invariant, PTL

(* What the map of a UMS game says of a place holds there whoever sits in it.     *)
THEOREM Mapped == Spec => []MapIsKept
<1>1. IInv => MapIsKept
  BY DEF IInv, Fits, Stored, Good, OkAt, AsMapped, MapIsKept
<1> QED
  BY <1>1, Invariant, PTL

(* A step changes the seat of one user at most, and nobody sits twice.           *)
THEOREM Undisturbed == Spec => OthersStay
<1> DEFINE Moved == {u \in Users : Seats(u)' # Seats(u)}
<1>1. ASSUME IInv, Next
      PROVE  Cardinality(Moved) <= 1 /\ \A u \in Users : Cardinality(Seats(u)') <= 1
  <2>1. OneMoved
    BY <1>1, NextKeeps
  <2>2. PICK w : Alone(w)
    BY <2>1 DEF OneMoved
  <2>3. Moved \subseteq {w}
    BY <2>2 DEF Alone
  <2> HIDE DEF Moved
  <2>4. Cardinality(Moved) <= 1
    BY <2>3, AtMostOne
  <2>5. ASSUME NEW u \in Users PROVE Cardinality(Seats(u)') <= 1
    <3>1. \A a, b \in Seats(u)' : a = b
      BY <2>1 DEF OneMoved, Apart, Seats, PlaceOf, Seated
    <3>2. PICK x : Seats(u)' \subseteq {x}
      BY <3>1
    <3> QED
      BY <3>2, AtMostOne
  <2> QED
    BY <2>4, <2>5
<1>2. IInv /\ [Next]_vars =>
        [open' => /\ Cardinality({u \in Users : Seats(u)' # Seats(u)}) <= 1
                  /\ \A u \in Users : Cardinality(Seats(u)') <= 1]_vars
  BY <1>1
<1> QED
  BY <1>2, Invariant, PTL DEF Spec, OthersStay

=============================================================================
