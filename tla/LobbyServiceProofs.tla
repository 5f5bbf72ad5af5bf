------------------------- MODULE LobbyServiceProofs -------------------------
(* What the lobby service keeps for any number of users and lobbies, as long   *)
(* as no join or load was torn: types, seats, crews and bans.                *)
EXTENDS LobbyService, TLAPS

(* Somebody who waits to join is in no lobby, and a lobby that is waited for    *)
(* exists or did; a failed join leaves neither.                              *)
Waiting ==
    /\ \A u \in Users : join[u].lobby # None => member[u] = None
    /\ \A u \in stranded : member[u] = None /\ join[u].lobby = None

Fresh ==
    \A l \in Lobbies \ created :
        lobbies[l] = {} /\ bans[l] = {} /\ \A u \in Users : join[u].lobby # l

(* What a join has read is what is there, unless it is overtaken.             *)
Current ==
    \A u \in Users \ overtaken : join[u].lobby # None =>
        join[u].read = lobbies[join[u].lobby] /\ phase[join[u].lobby] = "idle"

Good == SeatsAreHeld /\ CrewIsSeated /\ BannedStayOut /\ Waiting /\ Fresh /\ Current

Inv == TypeOK /\ (~torn => Good)

(* What leaving, being kicked and losing the client do.                       *)
Left(u) ==
    /\ member[u] # None
    /\ Leaves(u)
    /\ registered' = registered \ {u}
    /\ UNCHANGED <<created, join, stranded, torn>>

-----------------------------------------------------------------------------
(* The initial states satisfy the invariant.                                *)
LEMMA InitInv == Init => Inv
<1> SUFFICES ASSUME Init PROVE Inv
  OBVIOUS
<1>1. NoJoin \in Joins /\ NoJoin.lobby = None
  BY DEF NoJoin, Joins
<1>2. TypeOK
  BY <1>1 DEF Init, TypeOK
<1>3. SeatsAreHeld
  BY <1>1, NoneAssumption DEF Init, SeatsAreHeld
<1>4. CrewIsSeated /\ BannedStayOut
  BY DEF Init, CrewIsSeated, BannedStayOut
<1>5. Waiting /\ Fresh /\ Current
  BY <1>1, NoneAssumption DEF Init, Waiting, Fresh, Current
<1> QED
  BY <1>2, <1>3, <1>4, <1>5 DEF Inv, Good

(* Leaving changes the types of nothing.                                     *)
LEMMA RemovesType ==
  ASSUME TypeOK, NEW u \in Users, NEW l \in Lobbies, NEW old \in SUBSET Users, Removes(l, old, u)
  PROVE  /\ lobbies' \in [Lobbies -> SUBSET Users] /\ bans' \in [Lobbies -> SUBSET Users]
         /\ member' \in [Users -> Lobbies \union {None}] /\ overtaken' \subseteq Users
         /\ rows' \in [Lobbies -> SUBSET Users] /\ early' \subseteq Lobbies
         /\ phase' \in [Lobbies -> {"idle", "counting", "loading"}]
         /\ crew' \in [Lobbies -> SUBSET Users] /\ changed' \subseteq Lobbies
         /\ late' \subseteq [lobby : Lobbies, crew : SUBSET Users]
<1>1. RowLeft(l, old, old \ {u}) \in SUBSET Users
  BY DEF TypeOK, RowLeft, RowAdded, RowUpdated
<1>2. rows' \in [Lobbies -> SUBSET Users]
  BY <1>1 DEF TypeOK, Removes, Show
<1>3. /\ phase' \in [Lobbies -> {"idle", "counting", "loading"}]
      /\ crew' \in [Lobbies -> SUBSET Users] /\ changed' \subseteq Lobbies
  BY DEF TypeOK, Removes, Aborts
<1>4. late' \subseteq [lobby : Lobbies, crew : SUBSET Users]
  <2>1. [lobby |-> l, crew |-> crew[l]] \in [lobby : Lobbies, crew : SUBSET Users]
    BY DEF TypeOK
  <2> QED
    BY <2>1 DEF TypeOK, Removes, Aborts
<1>5. /\ lobbies' \in [Lobbies -> SUBSET Users] /\ bans' \in [Lobbies -> SUBSET Users]
      /\ member' \in [Users -> Lobbies \union {None}] /\ overtaken' \subseteq Users
      /\ early' \subseteq Lobbies
  BY DEF TypeOK, Removes, Joiners
<1> QED
  BY <1>2, <1>3, <1>4, <1>5

(* A leave keeps the invariant.                                              *)
LEMMA LeftInv ==
  ASSUME Inv, ~torn, NEW u \in Users, Left(u)
  PROVE  Inv'
<1> DEFINE l == member[u]
<1>0. l \in Lobbies /\ lobbies[l] \in SUBSET Users /\ Removes(l, lobbies[l], u)
  BY DEF Inv, TypeOK, Left, Leaves
<1>1. TypeOK'
  BY <1>0, RemovesType DEF Inv, TypeOK, Left
<1>2. /\ lobbies' = [lobbies EXCEPT ![l] = lobbies[l] \ {u}]
      /\ bans' = bans \/ bans' = [bans EXCEPT ![l] = {}]
      /\ member' = [member EXCEPT ![u] = None]
      /\ overtaken' = overtaken \union (Joiners(l) \ {u})
      /\ phase' = [phase EXCEPT ![l] = "idle"] /\ crew' = [crew EXCEPT ![l] = {}]
      /\ registered' = registered \ {u} /\ join' = join /\ created' = created
      /\ stranded' = stranded
  BY <1>0 DEF Left, Removes, Aborts
<1>3. Good
  BY DEF Inv
<1>4. SeatsAreHeld'
  BY <1>0, <1>2, <1>3, NoneAssumption DEF Inv, TypeOK, Good, SeatsAreHeld, Waiting
<1>5. CrewIsSeated'
  BY <1>0, <1>2, <1>3 DEF Inv, TypeOK, Good, CrewIsSeated
<1>6. BannedStayOut'
  BY <1>0, <1>2, <1>3, NoneAssumption DEF Inv, TypeOK, Good, BannedStayOut
<1>7. Waiting' /\ Fresh'
  BY <1>0, <1>2, <1>3 DEF Inv, TypeOK, Good, Waiting, Fresh
<1>8. Current'
  BY <1>0, <1>2, <1>3 DEF Inv, TypeOK, Good, Current, Joiners, Waiting
<1> QED
  BY <1>1, <1>4, <1>5, <1>6, <1>7, <1>8 DEF Inv, Good

(* A ban keeps the invariant.                                                *)
LEMMA BanInv ==
  ASSUME Inv, ~torn, NEW u \in Users, Ban(u)
  PROVE  Inv'
<1> DEFINE l == member[u]
<1>0. /\ l \in Lobbies /\ phase[l] = "idle"
      /\ lobbies' = [lobbies EXCEPT ![l] = @ \ {u}]
      /\ bans' = [bans EXCEPT ![l] = @ \union {u}]
      /\ member' = [member EXCEPT ![u] = None]
      /\ registered' = registered \ {u}
      /\ overtaken' = overtaken \union Joiners(l)
      /\ Show(l, RowLeft(l, lobbies[l], lobbies[l] \ {u}))
      /\ UNCHANGED <<created, join, stranded, gameVars, early, torn>>
  BY DEF Ban, Inv, TypeOK
<1>1. RowLeft(l, lobbies[l], lobbies[l] \ {u}) \in SUBSET Users
  BY <1>0 DEF Inv, TypeOK, RowLeft, RowAdded, RowUpdated
<1>2. TypeOK'
  BY <1>0, <1>1 DEF Inv, TypeOK, Show, Joiners, gameVars
<1>3. Good
  BY DEF Inv
<1>4. SeatsAreHeld'
  BY <1>0, <1>3, NoneAssumption DEF Inv, TypeOK, Good, SeatsAreHeld, Waiting
<1>5. CrewIsSeated' /\ Fresh'
  BY <1>0, <1>3 DEF Inv, TypeOK, Good, CrewIsSeated, SeatsAreHeld, Fresh, gameVars
<1>6. BannedStayOut' /\ Waiting'
  BY <1>0, <1>3, NoneAssumption DEF Inv, TypeOK, Good, BannedStayOut, Waiting
<1>7. Current'
  BY <1>0, <1>3 DEF Inv, TypeOK, Good, Current, Joiners, gameVars
<1> QED
  BY <1>2, <1>4, <1>5, <1>6, <1>7 DEF Inv, Good

(* Cutting a join off leaves it a join.                                      *)
LEMMA CutType ==
  ASSUME NEW A, NEW B, NEW r \in [lobby : A, read : B, cut : BOOLEAN]
  PROVE  [r EXCEPT !.cut = TRUE] \in [lobby : A, read : B, cut : BOOLEAN]
  OBVIOUS

(* The clean-up of a client that waits to join changes no seat.                *)
LEMMA DisconnectJoiningInv ==
  ASSUME Inv, ~torn, NEW u \in Users, DisconnectJoining(u)
  PROVE  Inv'
<1>1. /\ join' = [join EXCEPT ![u].cut = TRUE]
      /\ UNCHANGED <<created, lobbies, member, registered, bans, overtaken, stranded, phase, crew,
                     changed, late, rows, early, torn>>
  BY DEF DisconnectJoining, seatVars, gameVars, listVars
<1>2. join \in [Users -> Joins]
  BY DEF Inv, TypeOK
<1>3. join' \in [Users -> Joins]
  <2>1. [join[u] EXCEPT !.cut = TRUE] \in Joins
    BY <1>2, CutType DEF Joins
  <2>2. join' = [join EXCEPT ![u] = [join[u] EXCEPT !.cut = TRUE]]
    BY <1>1
  <2> QED
    BY <1>2, <2>1, <2>2
<1>4. \A v \in Users : join'[v].lobby = join[v].lobby /\ join'[v].read = join[v].read
  BY <1>1, <1>2 DEF Joins
<1>5. TypeOK'
  BY <1>1, <1>3 DEF Inv, TypeOK
<1>6. SeatsAreHeld' /\ CrewIsSeated' /\ BannedStayOut'
  BY <1>1, <1>4 DEF Inv, Good, SeatsAreHeld, CrewIsSeated, BannedStayOut, TypeOK
<1>7. Waiting' /\ Fresh' /\ Current'
  BY <1>1, <1>4 DEF Inv, Good, Waiting, Fresh, Current, TypeOK
<1> QED
  BY <1>5, <1>6, <1>7 DEF Inv, Good

(* Creating a lobby keeps the invariant.                                     *)
LEMMA CreateLobbyInv ==
  ASSUME Inv, ~torn, NEW u \in Users, NEW l \in Lobbies, CreateLobby(u, l)
  PROVE  Inv'
<1>1. /\ u \notin registered /\ member[u] = None /\ l \notin created
      /\ created' = created \union {l}
      /\ lobbies' = [lobbies EXCEPT ![l] = {u}]
      /\ member' = [member EXCEPT ![u] = l]
      /\ registered' = registered \union {u}
      /\ Show(l, {u})
      /\ UNCHANGED <<bans, join, overtaken, stranded, phase, crew, changed, late, early, torn>>
  BY DEF CreateLobby, MayRegister, joinVars, gameVars
<1>2. TypeOK'
  BY <1>1 DEF Inv, TypeOK, Show
<1>3. Good
  BY DEF Inv
<1>4. /\ lobbies[l] = {} /\ bans[l] = {} /\ crew[l] = {}
      /\ \A v \in Users : join[v].lobby # l /\ member[v] # l
  BY <1>1, <1>3 DEF Good, Fresh, SeatsAreHeld, CrewIsSeated, Inv, TypeOK
<1>5. join[u].lobby = None /\ u \notin stranded
  BY <1>1, <1>3 DEF Good, SeatsAreHeld
<1>6. SeatsAreHeld'
  BY <1>1, <1>3, <1>4, <1>5, NoneAssumption DEF Good, SeatsAreHeld, Inv, TypeOK
<1>7. CrewIsSeated' /\ BannedStayOut'
  BY <1>1, <1>3, <1>4, <1>5 DEF Good, CrewIsSeated, BannedStayOut, Inv, TypeOK
<1>8. Waiting' /\ Fresh' /\ Current'
  BY <1>1, <1>3, <1>4, <1>5 DEF Good, Waiting, Fresh, Current, Inv, TypeOK
<1> QED
  BY <1>2, <1>6, <1>7, <1>8 DEF Inv, Good

(* Creating a lobby in place of the one that is left keeps the invariant.       *)
LEMMA CreateInsteadInv ==
  ASSUME Inv, ~torn, NEW u \in Users, NEW l \in Lobbies, CreateInstead(u, l)
  PROVE  Inv'
<1> DEFINE from == member[u]
           rest == lobbies[from] \ {u}
           seen == RowLeft(from, lobbies[from], rest)
<1>1. /\ from \in Lobbies /\ l \notin created
      /\ created' = created \union {l}
      /\ lobbies' = [lobbies EXCEPT ![from] = rest, ![l] = {u}]
      /\ bans' = IF rest = {} THEN [bans EXCEPT ![from] = {}] ELSE bans
      /\ member' = [member EXCEPT ![u] = l]
      /\ overtaken' = overtaken \union Joiners(from)
      /\ early' = (IF rest = {} THEN early \ {from} ELSE early)
      /\ UNCHANGED <<registered, join, stranded, torn>>
  BY DEF CreateInstead, Inv, TypeOK
<1>2. /\ phase' = [phase EXCEPT ![from] = "idle"]
      /\ crew' = [crew EXCEPT ![from] = {}]
      /\ changed' = changed \ {from}
  BY DEF CreateInstead, Aborts
<1>3. late' \subseteq [lobby : Lobbies, crew : SUBSET Users]
  <2>1. [lobby |-> from, crew |-> crew[from]] \in [lobby : Lobbies, crew : SUBSET Users]
    BY <1>1 DEF Inv, TypeOK
  <2> QED
    BY <2>1 DEF Inv, TypeOK, CreateInstead, Aborts
<1>4. rows' \in [Lobbies -> SUBSET Users]
  <2>1. seen \in SUBSET Users
    BY <1>1 DEF Inv, TypeOK, RowLeft, RowAdded, RowUpdated
  <2>2. \/ rows' = [rows EXCEPT ![from] = IF from \in Listed THEN seen ELSE rows[from]]
        \/ rows' = [[rows EXCEPT ![from] = IF from \in Listed THEN seen ELSE rows[from]] EXCEPT ![l] = {u}]
    BY DEF CreateInstead
  <2> QED
    BY <1>1, <2>1, <2>2 DEF Inv, TypeOK
<1>5. TypeOK'
  BY <1>1, <1>2, <1>3, <1>4 DEF Inv, TypeOK, Joiners
<1>6. Good
  BY DEF Inv
<1>7. /\ lobbies[l] = {} /\ bans[l] = {} /\ crew[l] = {} /\ from # l
      /\ \A v \in Users : join[v].lobby # l /\ member[v] # l
  BY <1>1, <1>6 DEF Good, Fresh, SeatsAreHeld, CrewIsSeated, Inv, TypeOK
<1>8. join[u].lobby = None /\ u \notin stranded /\ u \in registered
  BY <1>1, <1>6, NoneAssumption DEF Good, SeatsAreHeld, Waiting
<1>9. SeatsAreHeld'
  BY <1>1, <1>6, <1>7, <1>8, NoneAssumption DEF Good, SeatsAreHeld, Inv, TypeOK
<1>10. CrewIsSeated'
  BY <1>1, <1>2, <1>6, <1>7 DEF Good, CrewIsSeated, Inv, TypeOK
<1>11. BannedStayOut'
  BY <1>1, <1>6, <1>7, <1>8 DEF Good, BannedStayOut, Inv, TypeOK
<1>12. Waiting' /\ Fresh'
  BY <1>1, <1>6, <1>7, <1>8 DEF Good, Waiting, Fresh, Inv, TypeOK
<1>13. Current'
  <2> SUFFICES ASSUME NEW v \in Users, v \notin overtaken', join[v].lobby # None
               PROVE  /\ join[v].read = lobbies'[join[v].lobby]
                      /\ phase'[join[v].lobby] = "idle"
    BY <1>1 DEF Current
  <2>1. v \notin overtaken /\ join[v].lobby # from /\ join[v].lobby # l
    BY <1>1, <1>7 DEF Joiners
  <2>2. join[v].read = lobbies[join[v].lobby] /\ phase[join[v].lobby] = "idle"
    BY <1>6, <2>1 DEF Good, Current
  <2>3. join[v].lobby \in Lobbies
    BY DEF Inv, TypeOK, Joins
  <2> QED
    BY <1>1, <1>2, <2>1, <2>2, <2>3 DEF Inv, TypeOK
<1> QED
  BY <1>5, <1>9, <1>10, <1>11, <1>12, <1>13 DEF Inv, Good

(* What a waiting join is: its fields have their types.                       *)
LEMMA JoinTypes ==
  ASSUME Inv, NEW u \in Users
  PROVE  /\ join[u].lobby \in Lobbies \union {None} /\ join[u].read \in SUBSET Users
         /\ NoJoin \in Joins /\ NoJoin.lobby = None
  BY DEF Inv, TypeOK, Joins, NoJoin

(* Beginning to join, from a lobby or from none, keeps the invariant.          *)
LEMMA JoinLobbyInv ==
  ASSUME Inv, ~torn, NEW u \in Users, NEW l \in Lobbies, JoinLobby(u, l)
  PROVE  Inv'
<1> DEFINE new == [lobby |-> l, read |-> lobbies[l], cut |-> FALSE]
           from == member[u]
<1>0. Good /\ TypeOK
  BY DEF Inv
<1>1. /\ MayRegister(u) /\ MayJoin(u, l)
      /\ join' = [join EXCEPT ![u] = new] /\ registered' = registered \union {u}
      /\ UNCHANGED <<created, stranded, torn>>
  BY DEF JoinLobby
<1>2. new \in Joins /\ new.lobby = l /\ new.read = lobbies[l]
  BY <1>0 DEF TypeOK, Joins
<1>3. join' \in [Users -> Joins] /\ registered' \subseteq Users
  BY <1>0, <1>1, <1>2 DEF TypeOK
<1>4. /\ join[u].lobby = None /\ u \notin stranded /\ u \notin bans[l] /\ from # l
      /\ phase[l] = "idle" /\ lobbies[l] # {} /\ l \in created
  BY <1>0, <1>1, NoneAssumption DEF Good, SeatsAreHeld, Waiting, Fresh, MayRegister, MayJoin
<1>5. \A v \in Users : join'[v] = IF v = u THEN new ELSE join[v]
  BY <1>0, <1>1 DEF TypeOK
<1>6. CASE member[u] = None
  <2>1. UNCHANGED <<lobbies, bans, member, overtaken, phase, crew, changed, late, rows, early>>
    BY <1>6 DEF JoinLobby, gameVars, listVars
  <2>2. TypeOK'
    BY <1>0, <1>1, <1>3, <2>1 DEF TypeOK
  <2>3. SeatsAreHeld' /\ CrewIsSeated' /\ BannedStayOut'
    BY <1>0, <1>1, <1>2, <1>4, <1>5, <2>1, NoneAssumption
       DEF Good, SeatsAreHeld, CrewIsSeated, BannedStayOut
  <2>4. Waiting' /\ Fresh' /\ Current'
    BY <1>0, <1>1, <1>2, <1>4, <1>5, <1>6, <2>1 DEF Good, Waiting, Fresh, Current
  <2> QED
    BY <2>2, <2>3, <2>4 DEF Inv, Good
<1>7. CASE member[u] # None
  <2>0. from \in Lobbies /\ lobbies[from] \in SUBSET Users /\ Removes(from, lobbies[from], u)
    BY <1>0, <1>7 DEF TypeOK, JoinLobby, Leaves
  <2>1. TypeOK'
    BY <1>0, <1>1, <1>3, <2>0, RemovesType DEF TypeOK
  <2>2. /\ lobbies' = [lobbies EXCEPT ![from] = lobbies[from] \ {u}]
        /\ bans' = bans \/ bans' = [bans EXCEPT ![from] = {}]
        /\ member' = [member EXCEPT ![u] = None]
        /\ overtaken' = overtaken \union (Joiners(from) \ {u})
        /\ phase' = [phase EXCEPT ![from] = "idle"] /\ crew' = [crew EXCEPT ![from] = {}]
    BY <2>0 DEF Removes, Aborts
  <2>3. SeatsAreHeld'
    BY <1>0, <1>1, <1>2, <1>4, <1>5, <1>7, <2>0, <2>2, NoneAssumption
       DEF Good, SeatsAreHeld, Waiting, TypeOK
  <2>4. CrewIsSeated' /\ BannedStayOut'
    BY <1>0, <1>1, <1>2, <1>4, <1>5, <2>0, <2>2, NoneAssumption
       DEF Good, CrewIsSeated, BannedStayOut, TypeOK
  <2>5. Waiting' /\ Fresh'
    BY <1>0, <1>1, <1>2, <1>4, <1>5, <2>0, <2>2 DEF Good, Waiting, Fresh, TypeOK
  <2>6. Current'
    <3> SUFFICES ASSUME NEW v \in Users, v \notin overtaken', join'[v].lobby # None
                 PROVE  /\ join'[v].read = lobbies'[join'[v].lobby]
                        /\ phase'[join'[v].lobby] = "idle"
      BY DEF Current
    <3>1. CASE v = u
      BY <1>0, <1>2, <1>4, <1>5, <2>0, <2>2, <3>1 DEF TypeOK
    <3>2. CASE v # u
      <4>1. v \notin overtaken /\ join[v].lobby # from /\ join'[v] = join[v]
        BY <1>5, <2>2, <3>2 DEF Joiners
      <4>2. /\ join[v].read = lobbies[join[v].lobby] /\ phase[join[v].lobby] = "idle"
            /\ join[v].lobby \in Lobbies
        BY <1>0, <4>1, JoinTypes DEF Good, Current
      <4> QED
        BY <1>0, <2>0, <2>2, <4>1, <4>2 DEF TypeOK
    <3> QED
      BY <3>1, <3>2
  <2> QED
    BY <2>1, <2>3, <2>4, <2>5, <2>6 DEF Inv, Good
<1> QED
  BY <1>6, <1>7

(* A join that lands keeps the invariant, or was overtaken.                    *)
LEMMA JoinLandsInv ==
  ASSUME Inv, ~torn, NEW u \in Users, JoinLands(u)
  PROVE  Inv'
<1> DEFINE l == join[u].lobby
           updated == join[u].read \union {u}
<1>0. Good /\ TypeOK
  BY DEF Inv
<1>1. /\ l \in Lobbies /\ join[u].read \in SUBSET Users /\ NoJoin \in Joins /\ NoJoin.lobby = None
  BY JoinTypes DEF JoinLands
<1>2. /\ join' = [join EXCEPT ![u] = NoJoin]
      /\ lobbies' = [lobbies EXCEPT ![l] = updated]
      /\ member' = [member EXCEPT ![u] = l]
      /\ overtaken' = (overtaken \union Joiners(l)) \ {u}
      /\ changed' = (IF crew[l] # {} THEN changed \union {l} ELSE changed)
      /\ Show(l, RowUpdated(rows[l], updated))
      /\ torn' = (u \in overtaken)
      /\ UNCHANGED <<created, registered, bans, stranded, phase, crew, late, early>>
  BY DEF JoinLands
<1>3. TypeOK'
  BY <1>0, <1>1, <1>2 DEF TypeOK, Joiners, Show, RowUpdated
<1>4. SUFFICES ASSUME u \notin overtaken PROVE Good'
  BY <1>2, <1>3 DEF Inv
<1>5. /\ updated = lobbies[l] \union {u} /\ phase[l] = "idle" /\ crew[l] = {}
      /\ l \in created /\ member[u] = None /\ u \notin bans[l] /\ u \notin stranded
  BY <1>0, <1>1, <1>4, NoneAssumption
     DEF Good, Current, CrewIsSeated, Fresh, Waiting, BannedStayOut
<1>6. \A v \in Users : /\ join'[v] = IF v = u THEN NoJoin ELSE join[v]
                       /\ member'[v] = IF v = u THEN l ELSE member[v]
  BY <1>0, <1>2 DEF TypeOK
<1>7. SeatsAreHeld'
  BY <1>0, <1>1, <1>2, <1>5, <1>6, NoneAssumption DEF Good, SeatsAreHeld, TypeOK
<1>8. CrewIsSeated' /\ BannedStayOut'
  BY <1>0, <1>1, <1>2, <1>5, <1>6, NoneAssumption DEF Good, CrewIsSeated, BannedStayOut, TypeOK
<1>9. Waiting' /\ Fresh'
  BY <1>0, <1>1, <1>2, <1>5, <1>6, NoneAssumption DEF Good, Waiting, Fresh, TypeOK
<1>10. Current'
  <2> SUFFICES ASSUME NEW v \in Users, v \notin overtaken', join'[v].lobby # None
               PROVE  /\ join'[v].read = lobbies'[join'[v].lobby]
                      /\ phase'[join'[v].lobby] = "idle"
    BY DEF Current
  <2>1. v # u /\ v \notin overtaken /\ join[v].lobby # l /\ join'[v] = join[v]
    BY <1>1, <1>2, <1>6 DEF Joiners
  <2>2. /\ join[v].read = lobbies[join[v].lobby] /\ phase[join[v].lobby] = "idle"
        /\ join[v].lobby \in Lobbies
    BY <1>0, <2>1, JoinTypes DEF Good, Current
  <2> QED
    BY <1>0, <1>2, <2>1, <2>2 DEF TypeOK
<1> QED
  BY <1>7, <1>8, <1>9, <1>10 DEF Good

(* A join that lands for a client that is gone takes everything back, or was     *)
(* overtaken.                                                               *)
LEMMA JoinLandsCutInv ==
  ASSUME Inv, ~torn, NEW u \in Users, JoinLandsCut(u)
  PROVE  Inv'
<1> DEFINE l == join[u].lobby
           seen == RowLeft(l, join[u].read \union {u}, join[u].read)
<1>0. Good /\ TypeOK
  BY DEF Inv
<1>1. /\ l \in Lobbies /\ join[u].read \in SUBSET Users /\ NoJoin \in Joins /\ NoJoin.lobby = None
  BY JoinTypes DEF JoinLandsCut
<1>2. /\ join' = [join EXCEPT ![u] = NoJoin]
      /\ lobbies' = [lobbies EXCEPT ![l] = join[u].read]
      /\ registered' = registered \ {u}
      /\ overtaken' = (overtaken \union Joiners(l)) \ {u}
      /\ Show(l, seen)
      /\ phase' = [phase EXCEPT ![l] = "idle"] /\ crew' = [crew EXCEPT ![l] = {}]
      /\ changed' = changed \ {l}
      /\ torn' = (u \in overtaken)
      /\ UNCHANGED <<created, member, bans, stranded, early>>
  BY DEF JoinLandsCut, Aborts
<1>3. late' \subseteq [lobby : Lobbies, crew : SUBSET Users]
  <2>1. [lobby |-> l, crew |-> crew[l]] \in [lobby : Lobbies, crew : SUBSET Users]
    BY <1>0, <1>1 DEF TypeOK
  <2> QED
    BY <1>0, <2>1 DEF TypeOK, JoinLandsCut, Aborts
<1>4. TypeOK'
  <2>1. seen \in SUBSET Users
    BY <1>0, <1>1 DEF TypeOK, RowLeft, RowAdded, RowUpdated
  <2>2. rows' \in [Lobbies -> SUBSET Users]
    BY <1>0, <1>2, <2>1 DEF TypeOK, Show
  <2>3. /\ lobbies' \in [Lobbies -> SUBSET Users] /\ join' \in [Users -> Joins]
        /\ phase' \in [Lobbies -> {"idle", "counting", "loading"}]
        /\ crew' \in [Lobbies -> SUBSET Users]
    BY <1>0, <1>1, <1>2 DEF TypeOK
  <2> HIDE DEF seen
  <2> QED
    BY <1>0, <1>2, <1>3, <2>2, <2>3 DEF TypeOK, Joiners
<1>5. SUFFICES ASSUME u \notin overtaken PROVE Good'
  BY <1>2, <1>4 DEF Inv
<1>6. /\ join[u].read = lobbies[l] /\ phase[l] = "idle" /\ crew[l] = {}
      /\ member[u] = None /\ u \notin stranded
  BY <1>0, <1>1, <1>5, NoneAssumption DEF Good, Current, CrewIsSeated, Waiting
<1>7. lobbies' = lobbies /\ phase' = phase /\ crew' = crew
  BY <1>0, <1>1, <1>2, <1>6 DEF TypeOK
<1>8. \A v \in Users : join'[v] = IF v = u THEN NoJoin ELSE join[v]
  BY <1>0, <1>2 DEF TypeOK
<1>9. SeatsAreHeld'
  BY <1>0, <1>1, <1>2, <1>6, <1>7, <1>8 DEF Good, SeatsAreHeld
<1>10. CrewIsSeated' /\ BannedStayOut'
  BY <1>0, <1>1, <1>2, <1>7, <1>8, NoneAssumption DEF Good, CrewIsSeated, BannedStayOut
<1>11. Waiting' /\ Fresh'
  BY <1>0, <1>1, <1>2, <1>7, <1>8, NoneAssumption DEF Good, Waiting, Fresh
<1>12. Current'
  BY <1>0, <1>1, <1>2, <1>7, <1>8 DEF Good, Current
<1> QED
  BY <1>9, <1>10, <1>11, <1>12 DEF Good

(* A join that fails leaves its user registered, and the rest as it was.         *)
LEMMA JoinFailsInv ==
  ASSUME Inv, ~torn, NEW u \in Users, JoinFails(u)
  PROVE  Inv'
<1>0. Good /\ TypeOK /\ NoJoin \in Joins /\ NoJoin.lobby = None
  BY JoinTypes DEF Inv
<1>1. /\ join[u].lobby # None /\ join' = [join EXCEPT ![u] = NoJoin]
      /\ overtaken' = overtaken \ {u} /\ stranded' = stranded \union {u}
      /\ UNCHANGED <<created, lobbies, member, registered, bans, phase, crew, changed, late, rows,
                     early, torn>>
  BY DEF JoinFails, seatVars, gameVars, listVars
<1>2. TypeOK'
  BY <1>0, <1>1 DEF TypeOK
<1>3. \A v \in Users : join'[v] = IF v = u THEN NoJoin ELSE join[v]
  BY <1>0, <1>1 DEF TypeOK
<1>4. SeatsAreHeld' /\ CrewIsSeated' /\ BannedStayOut'
  BY <1>0, <1>1, <1>3, NoneAssumption DEF Good, SeatsAreHeld, CrewIsSeated, BannedStayOut
<1>5. Waiting' /\ Fresh' /\ Current'
  BY <1>0, <1>1, <1>3, NoneAssumption DEF Good, Waiting, Fresh, Current
<1> QED
  BY <1>2, <1>4, <1>5 DEF Inv, Good

-----------------------------------------------------------------------------
(* Changing slots keeps the invariant: whoever read the lobby is overtaken.     *)
LEMMA EditInv ==
  ASSUME Inv, ~torn, NEW l \in Lobbies, Edit(l)
  PROVE  Inv'
<1>0. Good /\ TypeOK
  BY DEF Inv
<1>1. /\ overtaken' = overtaken \union Joiners(l)
      /\ changed' = (IF crew[l] # {} THEN changed \union {l} ELSE changed)
      /\ UNCHANGED <<created, lobbies, member, registered, bans, join, stranded, phase, crew, late,
                     rows, early, torn>>
  BY DEF Edit, seatVars, listVars
<1>2. TypeOK'
  BY <1>0, <1>1 DEF TypeOK, Joiners
<1>3. SeatsAreHeld' /\ CrewIsSeated' /\ BannedStayOut' /\ Waiting' /\ Fresh' /\ Current'
  BY <1>0, <1>1 DEF Good, SeatsAreHeld, CrewIsSeated, BannedStayOut, Waiting, Fresh, Current
<1> QED
  BY <1>2, <1>3 DEF Inv, Good

(* A countdown is for those who sit in the lobby.                            *)
LEMMA StartCountdownInv ==
  ASSUME Inv, ~torn, NEW l \in Lobbies, StartCountdown(l)
  PROVE  Inv'
<1>0. Good /\ TypeOK
  BY DEF Inv
<1>1. /\ lobbies[l] # {}
      /\ phase' = [phase EXCEPT ![l] = "counting"]
      /\ crew' = [crew EXCEPT ![l] = lobbies[l]]
      /\ overtaken' = overtaken \union Joiners(l)
      /\ Show(l, {})
      /\ early' = early \ {l}
      /\ UNCHANGED <<created, lobbies, member, registered, bans, join, stranded, changed, late, torn>>
  BY DEF StartCountdown, seatVars
<1>2. TypeOK'
  BY <1>0, <1>1 DEF TypeOK, Joiners, Show
<1>3. SeatsAreHeld' /\ BannedStayOut' /\ Waiting' /\ Fresh'
  BY <1>0, <1>1 DEF Good, SeatsAreHeld, BannedStayOut, Waiting, Fresh
<1>4. CrewIsSeated'
  BY <1>0, <1>1 DEF Good, CrewIsSeated, TypeOK
<1>5. Current'
  BY <1>0, <1>1 DEF Good, Current, Joiners, TypeOK
<1> QED
  BY <1>2, <1>3, <1>4, <1>5 DEF Inv, Good

(* The load begins for those who sit in the lobby.                           *)
LEMMA CountdownEndsInv ==
  ASSUME Inv, ~torn, NEW l \in Lobbies, CountdownEnds(l)
  PROVE  Inv'
<1>0. Good /\ TypeOK
  BY DEF Inv
<1>1. /\ phase[l] = "counting" /\ phase' = [phase EXCEPT ![l] = "loading"]
      /\ UNCHANGED <<created, lobbies, member, registered, bans, join, overtaken, stranded, crew,
                     changed, late, rows, early, torn>>
  BY DEF CountdownEnds, seatVars, joinVars, listVars
<1>2. TypeOK'
  BY <1>0, <1>1 DEF TypeOK
<1>3. SeatsAreHeld' /\ BannedStayOut' /\ Waiting' /\ Fresh'
  BY <1>0, <1>1 DEF Good, SeatsAreHeld, BannedStayOut, Waiting, Fresh
<1>4. CrewIsSeated'
  BY <1>0, <1>1 DEF Good, CrewIsSeated, TypeOK
<1>5. Current'
  <2> SUFFICES ASSUME NEW v \in Users, v \notin overtaken, join[v].lobby # None
               PROVE  /\ join[v].read = lobbies[join[v].lobby]
                      /\ phase'[join[v].lobby] = "idle"
    BY <1>1 DEF Current
  <2>1. join[v].read = lobbies[join[v].lobby] /\ phase[join[v].lobby] = "idle"
    BY <1>0 DEF Good, Current
  <2>2. join[v].lobby \in Lobbies /\ join[v].lobby # l
    BY <1>1, <2>1, JoinTypes
  <2> QED
    BY <1>0, <1>1, <2>1, <2>2 DEF TypeOK
<1> QED
  BY <1>2, <1>3, <1>4, <1>5 DEF Inv, Good

(* The end of a load changes no type.                                        *)
LEMMA GameLoadedType ==
  ASSUME TypeOK, NEW l \in Lobbies, NEW players \in SUBSET Users, GameLoaded(l, players)
  PROVE  /\ member' \in [Users -> Lobbies \union {None}] /\ registered' \subseteq Users
         /\ lobbies' \in [Lobbies -> SUBSET Users] /\ bans' \in [Lobbies -> SUBSET Users]
         /\ phase' \in [Lobbies -> {"idle", "counting", "loading"}]
<1>1. PICK done \in SUBSET (players \intersect registered) :
        /\ member' = [u \in Users |-> IF u \in done THEN None ELSE member[u]]
        /\ registered' = registered \ done
        /\ \/ /\ lobbies' = [lobbies EXCEPT ![l] = {}]
              /\ bans' = [bans EXCEPT ![l] = {}]
              /\ phase' = [phase EXCEPT ![l] = IF @ = "loading" THEN "idle" ELSE @]
           \/ UNCHANGED <<lobbies, bans, phase>>
  BY DEF GameLoaded
<1> QED
  BY <1>1 DEF TypeOK

(* A game that is loaded takes its whole crew out of the lobby.               *)
LEMMA LoadSucceedsInv ==
  ASSUME Inv, ~torn, NEW l \in Lobbies, LoadSucceeds(l)
  PROVE  Inv'
<1>0. Good /\ TypeOK
  BY DEF Inv
<1>1. /\ phase[l] = "loading" /\ crew[l] # {} /\ GameLoaded(l, crew[l])
      /\ crew' = [crew EXCEPT ![l] = {}]
      /\ changed' = changed \ {l}
      /\ overtaken' = overtaken \union Joiners(l)
      /\ UNCHANGED <<created, join, stranded, late, rows, early, torn>>
  BY DEF LoadSucceeds, listVars
<1>2. crew[l] \in SUBSET Users
  BY <1>0 DEF TypeOK
<1>3. TypeOK'
  BY <1>0, <1>1, <1>2, GameLoadedType DEF TypeOK, Joiners
<1>4. crew[l] = lobbies[l] /\ crew[l] = {u \in Users : member[u] = l} /\ crew[l] \subseteq registered
  BY <1>0, <1>1, NoneAssumption DEF Good, CrewIsSeated, SeatsAreHeld
<1>5. /\ \A u \in Users : member'[u] = IF member[u] = l THEN None ELSE member[u]
      /\ registered' = registered \ lobbies[l]
      /\ lobbies' = [lobbies EXCEPT ![l] = {}]
      /\ bans' = [bans EXCEPT ![l] = {}]
      /\ phase' = [phase EXCEPT ![l] = "idle"]
  <2>1. PICK done \in SUBSET (crew[l] \intersect registered) :
          /\ crew[l] \subseteq registered => done = crew[l]
          /\ member' = [u \in Users |-> IF u \in done THEN None ELSE member[u]]
          /\ registered' = registered \ done
          /\ done = crew[l] =>
                /\ lobbies' = [lobbies EXCEPT ![l] = {}]
                /\ bans' = [bans EXCEPT ![l] = {}]
                /\ phase' = [phase EXCEPT ![l] = IF phase[l] = "loading" THEN "idle" ELSE phase[l]]
    BY <1>1 DEF GameLoaded
  <2>2. done = crew[l]
    BY <1>4, <2>1
  <2> QED
    BY <1>0, <1>1, <1>4, <2>1, <2>2 DEF TypeOK
<1>6. SeatsAreHeld'
  BY <1>0, <1>1, <1>4, <1>5, NoneAssumption DEF Good, SeatsAreHeld, Waiting, TypeOK
<1>7. CrewIsSeated' /\ BannedStayOut'
  BY <1>0, <1>1, <1>5, NoneAssumption DEF Good, CrewIsSeated, BannedStayOut, TypeOK
<1>8. Waiting' /\ Fresh'
  BY <1>0, <1>1, <1>5 DEF Good, Waiting, Fresh, TypeOK
<1>9. Current'
  <2> SUFFICES ASSUME NEW v \in Users, v \notin overtaken', join[v].lobby # None
               PROVE  /\ join[v].read = lobbies'[join[v].lobby]
                      /\ phase'[join[v].lobby] = "idle"
    BY <1>1 DEF Current
  <2>1. v \notin overtaken /\ join[v].lobby # l
    BY <1>1 DEF Joiners
  <2>2. /\ join[v].read = lobbies[join[v].lobby] /\ phase[join[v].lobby] = "idle"
        /\ join[v].lobby \in Lobbies
    BY <1>0, <2>1, JoinTypes DEF Good, Current
  <2> QED
    BY <1>0, <1>5, <2>1, <2>2 DEF TypeOK
<1> QED
  BY <1>3, <1>6, <1>7, <1>8, <1>9 DEF Inv, Good

(* A load that fails keeps the invariant.                                    *)
LEMMA LoadFailsInv ==
  ASSUME Inv, ~torn, NEW l \in Lobbies, LoadFails(l)
  PROVE  Inv'
<1>0. Good /\ TypeOK
  BY DEF Inv
<1>1. /\ phase[l] = "loading"
      /\ crew' = [crew EXCEPT ![l] = {}]
      /\ phase' = phase \/ phase' = [phase EXCEPT ![l] = "idle"]
      /\ rows' = rows \/ Show(l, RowAdded(rows[l], lobbies[l]))
      /\ UNCHANGED <<created, lobbies, member, registered, bans, join, overtaken, stranded, changed,
                     late, early, torn>>
  BY DEF LoadFails, seatVars, joinVars
<1>2. rows' \in [Lobbies -> SUBSET Users]
  BY <1>0, <1>1 DEF TypeOK, Show, RowAdded
<1>3. TypeOK'
  BY <1>0, <1>1, <1>2 DEF TypeOK
<1>4. SeatsAreHeld' /\ BannedStayOut' /\ Waiting' /\ Fresh'
  BY <1>0, <1>1 DEF Good, SeatsAreHeld, BannedStayOut, Waiting, Fresh
<1>5. CrewIsSeated'
  BY <1>0, <1>1 DEF Good, CrewIsSeated, TypeOK
<1>6. Current'
  BY <1>0, <1>1, JoinTypes DEF Good, Current, TypeOK
<1> QED
  BY <1>3, <1>4, <1>5, <1>6 DEF Inv, Good

(* After a load that had been aborted, only the types are left.               *)
LEMMA LateLoadInv ==
  ASSUME Inv, NEW r \in late, LateLoadSucceeds(r)
  PROVE  Inv'
<1>1. /\ late' = late \ {r} /\ torn' = TRUE /\ GameLoaded(r.lobby, r.crew)
      /\ UNCHANGED <<created, join, overtaken, stranded, crew, changed, rows, early>>
  BY DEF LateLoadSucceeds, joinVars, listVars
<1>2. r.lobby \in Lobbies /\ r.crew \in SUBSET Users
  BY DEF Inv, TypeOK
<1> QED
  BY <1>1, <1>2, GameLoadedType DEF Inv, TypeOK

(* Subscribing to the list changes nothing but the rows.                      *)
LEMMA BrowseInv ==
  ASSUME Inv, Browse
  PROVE  Inv'
<1>1. /\ rows' = [l \in Lobbies |-> IF l \in Listed THEN lobbies[l] ELSE {}]
      /\ early' \subseteq Lobbies
      /\ UNCHANGED <<created, lobbies, member, registered, bans, join, overtaken, stranded, phase,
                     crew, changed, late, torn>>
  BY ListedAssumption DEF Browse, seatVars, joinVars, gameVars
<1>2. TypeOK'
  BY <1>1 DEF Inv, TypeOK
<1>3. ~torn => Good'
  BY <1>1 DEF Inv, Good, SeatsAreHeld, CrewIsSeated, BannedStayOut, Waiting, Fresh, Current
<1> QED
  BY <1>1, <1>2, <1>3 DEF Inv

(* Every step keeps the invariant.                                          *)
LEMMA NextInv == Inv /\ [Next]_vars => Inv'
<1> SUFFICES ASSUME Inv, [Next]_vars PROVE Inv'
  OBVIOUS
<1>1. CASE UNCHANGED vars
  <2>1. UNCHANGED <<created, lobbies, member, registered, bans, join, overtaken, stranded, phase, crew,
                    changed, late, rows, early, torn>>
    BY <1>1 DEF vars, seatVars, joinVars, gameVars, listVars
  <2> QED
    BY <2>1 DEF Inv, TypeOK, Good, SeatsAreHeld, CrewIsSeated, BannedStayOut, Waiting, Fresh, Current
<1>2. ASSUME ~torn, NEW u \in Users, UserStep(u) PROVE Inv'
  <2>1. CASE LeaveLobby(u) \/ Kick(u) \/ Disconnect(u)
    BY <1>2, <2>1, LeftInv DEF LeaveLobby, Kick, Disconnect, Left
  <2>2. CASE Ban(u)
    BY <1>2, <2>2, BanInv
  <2>3. CASE DisconnectJoining(u)
    BY <1>2, <2>3, DisconnectJoiningInv
  <2>4. CASE JoinLands(u)
    BY <1>2, <2>4, JoinLandsInv
  <2>5. CASE JoinLandsCut(u)
    BY <1>2, <2>5, JoinLandsCutInv
  <2>6. CASE JoinFails(u)
    BY <1>2, <2>6, JoinFailsInv
  <2>7. ASSUME NEW l \in Lobbies, CreateLobby(u, l) PROVE Inv'
    BY <1>2, <2>7, CreateLobbyInv
  <2>8. ASSUME NEW l \in Lobbies, CreateInstead(u, l) PROVE Inv'
    BY <1>2, <2>8, CreateInsteadInv
  <2>9. ASSUME NEW l \in Lobbies, JoinLobby(u, l) PROVE Inv'
    BY <1>2, <2>9, JoinLobbyInv
  <2> QED
    BY <1>2, <2>1, <2>2, <2>3, <2>4, <2>5, <2>6, <2>7, <2>8, <2>9 DEF UserStep
<1>3. ASSUME ~torn, NEW l \in Lobbies, LobbyStep(l) PROVE Inv'
  <2>1. CASE Edit(l)
    BY <1>3, <2>1, EditInv
  <2>2. CASE StartCountdown(l)
    BY <1>3, <2>2, StartCountdownInv
  <2>3. CASE CountdownEnds(l)
    BY <1>3, <2>3, CountdownEndsInv
  <2>4. CASE LoadSucceeds(l)
    BY <1>3, <2>4, LoadSucceedsInv
  <2>5. CASE LoadFails(l)
    BY <1>3, <2>5, LoadFailsInv
  <2> QED
    BY <1>3, <2>1, <2>2, <2>3, <2>4, <2>5 DEF LobbyStep
<1>4. ASSUME NEW r \in late, LateLoadSucceeds(r) PROVE Inv'
  BY <1>4, LateLoadInv
<1>5. CASE Browse
  BY <1>5, BrowseInv
<1> QED
  BY <1>1, <1>2, <1>3, <1>4, <1>5 DEF Next

-----------------------------------------------------------------------------
(* In every reachable state the variables have their types, and unless a join or *)
(* load was torn the maps of the lobby service agree.                         *)
THEOREM Invariant == Spec => []Inv
<1>1. Init => Inv
  BY InitInv
<1>2. Inv /\ [Next]_vars => Inv'
  BY NextInv
<1> QED
  BY <1>1, <1>2, PTL DEF Spec

(* The variables have their types.                                          *)
THEOREM TypeCorrect == Spec => []TypeOK
<1>1. Inv => TypeOK
  BY DEF Inv
<1> QED
  BY <1>1, Invariant, PTL

(* Seats, lobbyClients and registrations agree, as long as nothing was torn.     *)
THEOREM SeatsHeld == Spec => []SeatsAreHeld
<1>1. Inv => SeatsAreHeld
  BY DEF Inv, Good, SeatsAreHeld
<1> QED
  BY <1>1, Invariant, PTL

(* A countdown or load is for those who sit in the lobby, as long as nothing was  *)
(* torn.                                                                    *)
THEOREM CrewsSeated == Spec => []CrewIsSeated
<1>1. Inv => CrewIsSeated
  BY DEF Inv, Good, CrewIsSeated
<1> QED
  BY <1>1, Invariant, PTL

(* Nobody who was banned sits in the lobby, as long as nothing was torn.         *)
THEOREM BannedOut == Spec => []BannedStayOut
<1>1. Inv => BannedStayOut
  BY DEF Inv, Good, BannedStayOut
<1> QED
  BY <1>1, Invariant, PTL

-----------------------------------------------------------------------------
(* A browser that shows the row r for a lobby of the occupants o, in phase p, and *)
(* that was starting when it subscribed if e.                                *)
RowAs(o, r, p, e) ==
    /\ o # {} /\ r # {} => o \subseteq r
    /\ o # {} /\ p = "idle" => r # {}
    /\ r # {} => e \/ (o # {} /\ p = "idle")

RowAt(l) == RowAs(lobbies[l], rows[l], phase[l], l \in early)

(* Besides: a lobby that was not created does not start, and a join has read a   *)
(* lobby that somebody sat in.                                              *)
Unborn == \A l \in Lobbies \ created : phase[l] = "idle"
SomeRead == \A u \in Users : join[u].lobby # None => join[u].read # {}

Shown == Unborn /\ SomeRead /\ \A l \in Listed : RowAt(l)

(* A step leaves what there is of lobby k as it is.                            *)
Apart(k) ==
    /\ lobbies'[k] = lobbies[k] /\ rows'[k] = rows[k] /\ phase'[k] = phase[k]
    /\ k \in early' <=> k \in early

LEMMA ApartShown ==
  ASSUME Shown, NEW l, \A k \in Listed \ {l} : Apart(k), l \in Listed => RowAt(l)'
  PROVE  \A k \in Listed : RowAt(k)'
  BY DEF Shown, RowAt, Apart

(* Whatever somebody who leaves does to the row of a lobby, it stays right.     *)
LEMMA RowLeaves ==
  ASSUME NEW l \in Listed, NEW u, NEW old, u \in old,
         RowAs(old, rows[l], phase[l], l \in early), NEW e,
         old \ {u} # {} => (e <=> l \in early)
  PROVE  RowAs(old \ {u}, RowLeft(l, old, old \ {u}), "idle", e)
<1>1. CASE old \ {u} = {}
  BY <1>1 DEF RowAs, RowLeft
<1>2. CASE old \ {u} # {} /\ phase[l] = "idle"
  BY <1>2 DEF RowAs, RowLeft, RowUpdated
<1>3. CASE old \ {u} # {} /\ phase[l] # "idle"
  BY <1>3 DEF RowAs, RowLeft, RowUpdated, RowAdded
<1> QED
  BY <1>1, <1>2, <1>3

LEMMA InitShown == Init => Shown
<1> SUFFICES ASSUME Init PROVE Shown
  OBVIOUS
<1>1. \A u \in Users : join[u].lobby = None
  BY DEF Init, NoJoin
<1> QED
  BY <1>1, ListedAssumption DEF Init, Shown, Unborn, SomeRead, RowAt, RowAs

(* Leaving a lobby for another or for good.                                  *)
LEMMA RemovesShown ==
  ASSUME Inv, ~torn, Shown, NEW u \in Users, member[u] # None, Leaves(u)
  PROVE  (\A k \in Listed : RowAt(k)') /\ \A k \in Lobbies : phase[k] = "idle" => phase'[k] = "idle"
<1>0. PICK l : l = member[u]
  OBVIOUS
<1> DEFINE rest == lobbies[l] \ {u}
<1>1. l \in Lobbies /\ u \in lobbies[l] /\ TypeOK
  BY <1>0 DEF Inv, TypeOK, Good, SeatsAreHeld
<1>2. /\ lobbies' = [lobbies EXCEPT ![l] = rest]
      /\ Show(l, RowLeft(l, lobbies[l], rest))
      /\ early' = (IF rest = {} THEN early \ {l} ELSE early)
      /\ phase' = [phase EXCEPT ![l] = "idle"]
  BY <1>0 DEF Leaves, Removes, Aborts
<1>3. \A k \in Listed \ {l} : Apart(k)
  BY <1>1, <1>2, ListedAssumption DEF Apart, Show, TypeOK
<1>4. l \in Listed => RowAt(l)'
  <2> SUFFICES ASSUME l \in Listed PROVE RowAt(l)'
    OBVIOUS
  <2>1. RowAs(lobbies[l], rows[l], phase[l], l \in early)
    BY DEF Shown, RowAt
  <2>2. rest # {} => ((l \in early') <=> l \in early)
    BY <1>2
  <2>3. RowAs(rest, RowLeft(l, lobbies[l], rest), "idle", l \in early')
    BY <1>1, <2>1, <2>2, RowLeaves
  <2>4. lobbies'[l] = rest /\ rows'[l] = RowLeft(l, lobbies[l], rest) /\ phase'[l] = "idle"
    BY <1>1, <1>2 DEF Show, TypeOK
  <2> QED
    BY <2>3, <2>4 DEF RowAt
<1>5. \A k \in Lobbies : phase[k] = "idle" => phase'[k] = "idle"
  BY <1>1, <1>2 DEF TypeOK
<1> QED
  BY <1>3, <1>4, <1>5, ApartShown

LEMMA LeftShown ==
  ASSUME Inv, ~torn, Shown, NEW u \in Users, Left(u)
  PROVE  Shown'
<1>1. (\A k \in Listed : RowAt(k)') /\ \A k \in Lobbies : phase[k] = "idle" => phase'[k] = "idle"
  BY RemovesShown DEF Left
<1>2. Unborn'
  BY <1>1 DEF Left, Shown, Unborn
<1>3. SomeRead'
  BY DEF Left, Shown, SomeRead
<1> QED
  BY <1>1, <1>2, <1>3 DEF Shown

LEMMA BanShown ==
  ASSUME Inv, ~torn, Shown, NEW u \in Users, Ban(u)
  PROVE  Shown'
<1>0. PICK l : l = member[u]
  OBVIOUS
<1> DEFINE rest == lobbies[l] \ {u}
<1>1. /\ l \in Lobbies /\ u \in lobbies[l] /\ TypeOK /\ phase[l] = "idle"
      /\ lobbies' = [lobbies EXCEPT ![l] = rest]
      /\ Show(l, RowLeft(l, lobbies[l], rest))
      /\ UNCHANGED <<created, join, phase, early>>
  BY <1>0 DEF Ban, Inv, TypeOK, Good, SeatsAreHeld, gameVars
<1>2. \A k \in Listed \ {l} : Apart(k)
  BY <1>1, ListedAssumption DEF Apart, Show, TypeOK
<1>3. ASSUME l \in Listed PROVE RowAt(l)'
  <2>1. RowAs(lobbies[l], rows[l], phase[l], l \in early)
    BY <1>3 DEF Shown, RowAt
  <2>2. RowAs(rest, RowLeft(l, lobbies[l], rest), "idle", l \in early)
    BY <1>1, <1>3, <2>1, RowLeaves
  <2>3. lobbies'[l] = rest /\ rows'[l] = RowLeft(l, lobbies[l], rest)
    BY <1>1, <1>3 DEF Show, TypeOK
  <2> QED
    BY <1>1, <2>2, <2>3 DEF RowAt
<1>4. Unborn' /\ SomeRead'
  BY <1>1 DEF Shown, Unborn, SomeRead
<1> QED
  BY <1>2, <1>3, <1>4, ApartShown DEF Shown

LEMMA CreateLobbyShown ==
  ASSUME Inv, ~torn, Shown, NEW u \in Users, NEW l \in Lobbies, CreateLobby(u, l)
  PROVE  Shown'
<1>1. /\ TypeOK /\ l \notin created /\ phase[l] = "idle"
      /\ created' = created \union {l} /\ lobbies' = [lobbies EXCEPT ![l] = {u}]
      /\ Show(l, {u}) /\ UNCHANGED <<join, phase, early>>
  BY DEF CreateLobby, Inv, Shown, Unborn, joinVars, gameVars
<1>2. \A k \in Listed \ {l} : Apart(k)
  BY <1>1, ListedAssumption DEF Apart, Show, TypeOK
<1>3. l \in Listed => RowAt(l)'
  BY <1>1 DEF RowAt, RowAs, Show, TypeOK
<1>4. Unborn' /\ SomeRead'
  BY <1>1 DEF Shown, Unborn, SomeRead
<1> QED
  BY <1>2, <1>3, <1>4, ApartShown DEF Shown

LEMMA CreateInsteadShown ==
  ASSUME Inv, ~torn, Shown, NEW u \in Users, NEW l \in Lobbies, CreateInstead(u, l)
  PROVE  Shown'
<1> DEFINE from == member[u]
           rest == lobbies[from] \ {u}
           seen == RowLeft(from, lobbies[from], rest)
<1>1. /\ TypeOK /\ from \in Lobbies /\ u \in lobbies[from] /\ l \notin created /\ from # l
      /\ phase[l] = "idle"
      /\ created' = created \union {l}
      /\ lobbies' = [lobbies EXCEPT ![from] = rest, ![l] = {u}]
      /\ early' = (IF rest = {} THEN early \ {from} ELSE early)
      /\ phase' = [phase EXCEPT ![from] = "idle"]
      /\ join' = join
  <2>1. lobbies[l] = {}
    BY DEF CreateInstead, Inv, Good, Fresh
  <2> QED
    BY <2>1 DEF CreateInstead, Inv, TypeOK, Good, SeatsAreHeld, Aborts, Shown, Unborn
<1>2. /\ \A k \in Listed : rows'[k] = IF k = l THEN {u} ELSE IF k = from THEN seen ELSE rows[k]
      /\ \A k \in Lobbies : lobbies'[k] = IF k = l THEN {u} ELSE IF k = from THEN rest ELSE lobbies[k]
  <2> DEFINE left == [rows EXCEPT ![from] = IF from \in Listed THEN seen ELSE @]
  <2>1. rows' = IF l \in Listed THEN [left EXCEPT ![l] = {u}] ELSE left
    BY DEF CreateInstead
  <2>2. \A k \in Listed : left[k] = IF k = from THEN seen ELSE rows[k]
    BY <1>1, ListedAssumption DEF TypeOK
  <2>3. DOMAIN left = Lobbies
    BY <1>1 DEF TypeOK
  <2> HIDE DEF seen
  <2>4. \A k \in Listed : rows'[k] = IF k = l THEN {u} ELSE left[k]
    <3> HIDE DEF left
    <3> QED
      BY <2>1, <2>3, ListedAssumption
  <2>5. \A k \in Lobbies : lobbies'[k] = IF k = l THEN {u} ELSE IF k = from THEN rest ELSE lobbies[k]
    BY <1>1 DEF TypeOK
  <2> HIDE DEF left
  <2> QED
    BY <2>2, <2>4, <2>5
<1>3. ASSUME NEW k \in Listed PROVE RowAt(k)'
  <2>0. k \in Lobbies /\ RowAs(lobbies[k], rows[k], phase[k], k \in early)
    BY <1>3, ListedAssumption DEF Shown, RowAt
  <2>1. CASE k = l
    <3>1. lobbies'[k] = {u} /\ rows'[k] = {u} /\ phase'[k] = "idle"
      BY <1>1, <1>2, <1>3, <2>0, <2>1 DEF TypeOK
    <3> QED
      BY <3>1 DEF RowAt, RowAs
  <2>2. CASE k = from
    <3>1. lobbies'[k] = rest /\ rows'[k] = seen /\ phase'[k] = "idle"
      BY <1>1, <1>2, <1>3, <2>0, <2>2 DEF TypeOK
    <3>2. rest # {} => ((k \in early') <=> k \in early)
      BY <1>1
    <3>3. RowAs(rest, seen, "idle", k \in early')
      BY <1>1, <1>3, <2>0, <2>2, <3>2, RowLeaves
    <3> QED
      BY <3>1, <3>3 DEF RowAt
  <2>3. CASE k # l /\ k # from
    <3>1. lobbies'[k] = lobbies[k] /\ rows'[k] = rows[k] /\ phase'[k] = phase[k]
      BY <1>1, <1>2, <1>3, <2>0, <2>3 DEF TypeOK
    <3>2. k \in early' <=> k \in early
      BY <1>1, <2>3
    <3> QED
      BY <2>0, <3>1, <3>2 DEF RowAt
  <2> QED
    BY <2>1, <2>2, <2>3
<1>4. Unborn' /\ SomeRead'
  BY <1>1 DEF Shown, Unborn, SomeRead, TypeOK
<1> QED
  BY <1>3, <1>4 DEF Shown

LEMMA JoinLobbyShown ==
  ASSUME Inv, ~torn, Shown, NEW u \in Users, NEW l \in Lobbies, JoinLobby(u, l)
  PROVE  Shown'
<1>1. /\ TypeOK /\ lobbies[l] # {} /\ created' = created
      /\ join' = [join EXCEPT ![u] = [lobby |-> l, read |-> lobbies[l], cut |-> FALSE]]
  BY DEF JoinLobby, MayJoin, Inv
<1>2. SomeRead'
  BY <1>1 DEF Shown, SomeRead, TypeOK
<1>3. CASE member[u] # None
  <2>1. (\A k \in Listed : RowAt(k)') /\ \A k \in Lobbies : phase[k] = "idle" => phase'[k] = "idle"
    BY <1>3, RemovesShown DEF JoinLobby
  <2> QED
    BY <1>1, <1>2, <2>1 DEF Shown, Unborn
<1>4. CASE member[u] = None
  <2>1. UNCHANGED <<lobbies, phase, rows, early>>
    BY <1>4 DEF JoinLobby, gameVars, listVars
  <2> QED
    BY <1>1, <1>2, <2>1 DEF Shown, Unborn, RowAt
<1> QED
  BY <1>3, <1>4

(* A join that was not overtaken lands in a lobby that is as it was read.        *)
LEMMA JoinEndsShown ==
  ASSUME Inv, ~torn, Shown, NEW u \in Users, JoinLands(u) \/ JoinLandsCut(u), ~torn'
  PROVE  Shown'
<1>0. Good /\ TypeOK
  BY DEF Inv
<1> PICK l : l = join[u].lobby
  OBVIOUS
<1>1. /\ l \in Lobbies /\ l # None /\ u \notin overtaken /\ join' = [join EXCEPT ![u] = NoJoin]
      /\ created' = created /\ early' = early /\ NoJoin.lobby = None
  BY JoinTypes DEF JoinLands, JoinLandsCut
<1>2. join[u].read = lobbies[l] /\ phase[l] = "idle" /\ lobbies[l] # {} /\ u \notin lobbies[l]
  BY <1>0, <1>1, NoneAssumption DEF Good, Current, Shown, SomeRead, Waiting, SeatsAreHeld
<1>3. phase' = phase
  BY <1>0, <1>1, <1>2 DEF JoinLands, JoinLandsCut, Aborts, TypeOK
<1>4. SomeRead'
  BY <1>0, <1>1 DEF Shown, SomeRead, TypeOK
<1>5. Unborn'
  BY <1>1, <1>3 DEF Shown, Unborn
<1>6. \E o, r : /\ lobbies' = [lobbies EXCEPT ![l] = o] /\ Show(l, r) /\ o # {}
                /\ r = RowUpdated(rows[l], o)
  <2>1. CASE JoinLands(u)
    BY <2>1 DEF JoinLands
  <2>2. CASE JoinLandsCut(u)
    <3>1. lobbies' = [lobbies EXCEPT ![l] = lobbies[l]]
      BY <1>2, <2>2 DEF JoinLandsCut
    <3>2. Show(l, RowLeft(l, lobbies[l] \union {u}, lobbies[l]))
      BY <1>2, <2>2 DEF JoinLandsCut
    <3>3. RowLeft(l, lobbies[l] \union {u}, lobbies[l]) = RowUpdated(rows[l], lobbies[l])
      BY <1>2 DEF RowLeft
    <3> QED
      BY <1>2, <3>1, <3>2, <3>3
  <2> QED
    BY <2>1, <2>2
<1>7. \A k \in Listed \ {l} : Apart(k)
  BY <1>0, <1>1, <1>3, <1>6, ListedAssumption DEF Apart, Show, TypeOK
<1>8. ASSUME l \in Listed PROVE RowAt(l)'
  <2>1. PICK o : lobbies'[l] = o /\ rows'[l] = RowUpdated(rows[l], o) /\ o # {}
    BY <1>0, <1>1, <1>6, <1>8 DEF Show, TypeOK
  <2>2. rows[l] # {}
    BY <1>2, <1>8 DEF Shown, RowAt, RowAs
  <2>3. rows'[l] = o
    BY <2>1, <2>2 DEF RowUpdated
  <2>4. phase'[l] = "idle"
    BY <1>2, <1>3
  <2> QED
    BY <2>1, <2>3, <2>4 DEF RowAt, RowAs
<1> QED
  BY <1>4, <1>5, <1>7, <1>8, ApartShown DEF Shown

(* A join that is cut off or fails changes no seat, no row and no phase.        *)
LEMMA QuietShown ==
  ASSUME Inv, ~torn, Shown, NEW u \in Users, DisconnectJoining(u) \/ JoinFails(u)
  PROVE  Shown'
<1>1. UNCHANGED <<created, lobbies, phase, rows, early>>
  BY DEF DisconnectJoining, JoinFails, seatVars, gameVars, listVars
<1>2. \A v \in Users : join'[v] = NoJoin
                       \/ (join'[v].lobby = join[v].lobby /\ join'[v].read = join[v].read)
  BY DEF DisconnectJoining, JoinFails, Inv, TypeOK, Joins
<1>3. SomeRead'
  BY <1>2 DEF Shown, SomeRead, NoJoin
<1> QED
  BY <1>1, <1>3 DEF Shown, Unborn, RowAt

LEMMA StartCountdownShown ==
  ASSUME Inv, ~torn, Shown, NEW l \in Lobbies, StartCountdown(l)
  PROVE  Shown'
<1>1. /\ TypeOK /\ lobbies[l] # {} /\ l \in created
      /\ phase' = [phase EXCEPT ![l] = "counting"] /\ Show(l, {}) /\ early' = early \ {l}
      /\ UNCHANGED <<created, lobbies, join>>
  BY DEF StartCountdown, Inv, Good, Fresh, seatVars
<1>2. \A k \in Listed \ {l} : Apart(k)
  BY <1>1, ListedAssumption DEF Apart, Show, TypeOK
<1>3. l \in Listed => RowAt(l)'
  BY <1>1 DEF RowAt, RowAs, Show, TypeOK
<1>4. Unborn' /\ SomeRead'
  BY <1>1 DEF Shown, Unborn, SomeRead, TypeOK
<1> QED
  BY <1>2, <1>3, <1>4, ApartShown DEF Shown

LEMMA CountdownEndsShown ==
  ASSUME Inv, ~torn, Shown, NEW l \in Lobbies, CountdownEnds(l)
  PROVE  Shown'
<1>1. /\ TypeOK /\ phase[l] = "counting"
      /\ phase' = [phase EXCEPT ![l] = "loading"]
      /\ UNCHANGED <<created, lobbies, join, rows, early>>
  BY DEF CountdownEnds, Inv, seatVars, joinVars, listVars
<1>2. \A k \in Listed \ {l} : Apart(k)
  BY <1>1, ListedAssumption DEF Apart, TypeOK
<1>3. l \in Listed => RowAt(l)'
  BY <1>1 DEF Shown, RowAt, RowAs, TypeOK
<1>4. Unborn' /\ SomeRead'
  BY <1>1 DEF Shown, Unborn, SomeRead, TypeOK
<1> QED
  BY <1>2, <1>3, <1>4, ApartShown DEF Shown

LEMMA LoadSucceedsShown ==
  ASSUME Inv, ~torn, Shown, NEW l \in Lobbies, LoadSucceeds(l)
  PROVE  Shown'
<1>1. /\ TypeOK /\ Good /\ phase[l] = "loading" /\ crew[l] # {} /\ GameLoaded(l, crew[l])
      /\ UNCHANGED <<created, join, rows, early>>
  BY DEF LoadSucceeds, Inv, listVars
<1>2. crew[l] \subseteq registered
  BY <1>1, NoneAssumption DEF Good, CrewIsSeated, SeatsAreHeld
<1>3. lobbies' = [lobbies EXCEPT ![l] = {}] /\ phase' = [phase EXCEPT ![l] = "idle"]
  BY <1>1, <1>2 DEF GameLoaded
<1>4. \A k \in Listed \ {l} : Apart(k)
  BY <1>1, <1>3, ListedAssumption DEF Apart, TypeOK
<1>5. l \in Listed => RowAt(l)'
  BY <1>1, <1>3 DEF Shown, RowAt, RowAs, TypeOK
<1>6. Unborn' /\ SomeRead'
  BY <1>1, <1>3 DEF Shown, Unborn, SomeRead, TypeOK
<1> QED
  BY <1>4, <1>5, <1>6, ApartShown DEF Shown

LEMMA LoadFailsShown ==
  ASSUME Inv, ~torn, Shown, NEW l \in Lobbies, LoadFails(l)
  PROVE  Shown'
<1>1. /\ TypeOK /\ Good /\ phase[l] = "loading" /\ crew[l] # {}
      /\ \/ phase' = [phase EXCEPT ![l] = "idle"] /\ Show(l, RowAdded(rows[l], lobbies[l]))
         \/ UNCHANGED <<phase, rows>>
      /\ UNCHANGED <<created, lobbies, join, early>>
  BY DEF LoadFails, Inv, seatVars, joinVars
<1>2. \A k \in Listed \ {l} : Apart(k)
  BY <1>1, ListedAssumption DEF Apart, Show, TypeOK
<1>3. l \in Listed => RowAt(l)'
  <2>1. lobbies[l] # {}
    BY <1>1 DEF Good, CrewIsSeated
  <2>2. CASE UNCHANGED <<phase, rows>>
    BY <1>1, <2>2 DEF Shown, RowAt
  <2>3. CASE phase' = [phase EXCEPT ![l] = "idle"] /\ Show(l, RowAdded(rows[l], lobbies[l]))
    BY <1>1, <2>1, <2>3 DEF Shown, RowAt, RowAs, RowAdded, Show, TypeOK
  <2> QED
    BY <1>1, <2>2, <2>3
<1>4. Unborn' /\ SomeRead'
  BY <1>1 DEF Shown, Unborn, SomeRead, TypeOK
<1> QED
  BY <1>2, <1>3, <1>4, ApartShown DEF Shown

LEMMA BrowseShown ==
  ASSUME Shown, Browse
  PROVE  Shown'
<1>1. /\ rows' = [l \in Lobbies |-> IF l \in Listed THEN lobbies[l] ELSE {}]
      /\ early' = {l \in Listed : lobbies[l] # {} /\ phase[l] # "idle"}
      /\ UNCHANGED <<created, lobbies, join, phase>>
  BY DEF Browse, seatVars, joinVars, gameVars
<1>2. \A l \in Listed : RowAt(l)'
  BY <1>1, ListedAssumption DEF RowAt, RowAs
<1> QED
  BY <1>1, <1>2 DEF Shown, Unborn, SomeRead

(* Every step keeps the rows right, or tears something.                        *)
LEMMA NextShown == Inv /\ (~torn => Shown) /\ [Next]_vars => (~torn => Shown)'
<1> SUFFICES ASSUME Inv, ~torn => Shown, [Next]_vars, ~torn' PROVE Shown'
  OBVIOUS
<1>1. CASE UNCHANGED vars
  <2>1. ~torn /\ UNCHANGED <<created, lobbies, phase, rows, early, join>>
    BY <1>1 DEF vars, seatVars, joinVars, gameVars, listVars
  <2> QED
    BY <2>1 DEF Shown, Unborn, SomeRead, RowAt
<1>2. ASSUME ~torn, NEW u \in Users, UserStep(u) PROVE Shown'
  <2>1. CASE LeaveLobby(u) \/ Kick(u) \/ Disconnect(u)
    BY <1>2, <2>1, LeftShown DEF LeaveLobby, Kick, Disconnect, Left
  <2>2. CASE Ban(u)
    BY <1>2, <2>2, BanShown
  <2>3. CASE DisconnectJoining(u) \/ JoinFails(u)
    BY <1>2, <2>3, QuietShown
  <2>4. CASE JoinLands(u) \/ JoinLandsCut(u)
    BY <1>2, <2>4, JoinEndsShown
  <2>5. ASSUME NEW l \in Lobbies, CreateLobby(u, l) PROVE Shown'
    BY <1>2, <2>5, CreateLobbyShown
  <2>6. ASSUME NEW l \in Lobbies, CreateInstead(u, l) PROVE Shown'
    BY <1>2, <2>6, CreateInsteadShown
  <2>7. ASSUME NEW l \in Lobbies, JoinLobby(u, l) PROVE Shown'
    BY <1>2, <2>7, JoinLobbyShown
  <2> QED
    BY <1>2, <2>1, <2>2, <2>3, <2>4, <2>5, <2>6, <2>7 DEF UserStep
<1>3. ASSUME ~torn, NEW l \in Lobbies, LobbyStep(l) PROVE Shown'
  <2>1. CASE Edit(l)
    <3>1. UNCHANGED <<created, lobbies, phase, rows, early, join>>
      BY <2>1 DEF Edit, seatVars, listVars
    <3> QED
      BY <1>3, <3>1 DEF Shown, Unborn, SomeRead, RowAt
  <2>2. CASE StartCountdown(l)
    BY <1>3, <2>2, StartCountdownShown
  <2>3. CASE CountdownEnds(l)
    BY <1>3, <2>3, CountdownEndsShown
  <2>4. CASE LoadSucceeds(l)
    BY <1>3, <2>4, LoadSucceedsShown
  <2>5. CASE LoadFails(l)
    BY <1>3, <2>5, LoadFailsShown
  <2> QED
    BY <1>3, <2>1, <2>2, <2>3, <2>4, <2>5 DEF LobbyStep
<1>4. ASSUME NEW r \in late, LateLoadSucceeds(r) PROVE FALSE
  BY <1>4 DEF LateLoadSucceeds
<1>5. CASE ~torn /\ Browse
  BY <1>5, BrowseShown
<1> QED
  BY <1>1, <1>2, <1>3, <1>4, <1>5 DEF Next

(* A browser shows every listed lobby that can be joined with everybody in it,   *)
(* and no other but those that were starting when it subscribed, as long as      *)
(* nothing was torn.                                                        *)
THEOREM RowsFollowed == Spec => []RowsFollow
<1>1. Init => (~torn => Shown)
  BY InitShown
<1>2. (~torn => Shown) => RowsFollow
  BY DEF Shown, RowAt, RowAs, RowsFollow
<1> QED
  BY <1>1, <1>2, InitInv, NextInv, NextShown, PTL DEF Spec

=============================================================================
