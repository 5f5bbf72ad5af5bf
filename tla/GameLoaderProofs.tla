-------------------------- MODULE GameLoaderProofs --------------------------
(***************************************************************************)
(* Proofs about GameLoader for every number of users, games and clients, and *)
(* whether or not the database answers before a load times out.              *)
(***************************************************************************)
EXTENDS GameLoader, TLAPS, SequenceTheorems

GotType == [Games -> [Players -> Seq(Messages)]]

Early == {"idle", "register"}

(* Which loads are in loadingGames, by the await they are at.                *)
LoadingInv(g) ==
    /\ g \in loading => outcome[g].code = "pending" /\ phase[g] \notin Early
    /\ phase[g] = "idle" <=> outcome[g].code = "none"
    /\ phase[g] = "idle" => roster[g] = {}
    /\ phase[g] = "register" => outcome[g].code = "pending"

(* What the database and the clients know of a load in loadingGames.         *)
KnownInv(g) ==
    /\ g \in loading => g \in records
    /\ g \in loading /\ phase[g] \notin {"users", "config"} => g \in configured
    /\ g \in loading /\ phase[g] \in {"users", "config"}
         => \A p \in Players : "config" \notin Heard(g, p)
    /\ g \in loading \/ phase[g] \in Early
         => \A p \in Players : "cancel" \notin Heard(g, p)
    /\ phase[g] \in Early => \A p \in Players : "config" \notin Heard(g, p)

(* The clients that doGameLoad collected, and who subscribes.                *)
ClientsInv(g) ==
    /\ phase[g] = "users" => \A p \in roster[g] : clients[g][p] # NoClient
    /\ \A p \in Players, c \in 1..MaxConns : <<g, p, c>> \in subs => p \in roster[g]

LoadInv(g) == LoadingInv(g) /\ KnownInv(g) /\ ClientsInv(g)

IInv == TypeOK /\ (\A g \in Games : LoadInv(g)) /\ LoadedByAll

-----------------------------------------------------------------------------
LEMMA AppendRange ==
    ASSUME NEW S, NEW s \in Seq(S), NEW m \in S
    PROVE  Append(s, m) \in Seq(S) /\ Range(Append(s, m)) = Range(s) \union {m}
<1>1. Append(s, m) \in Seq(S) /\ Len(Append(s, m)) = Len(s) + 1 /\ Len(s) \in Nat
  OBVIOUS
<1>2. /\ DOMAIN s = 1..Len(s) /\ DOMAIN Append(s, m) = 1..(Len(s) + 1)
      /\ \A i \in 1..Len(s) : Append(s, m)[i] = s[i]
      /\ Append(s, m)[Len(s) + 1] = m
  BY <1>1
<1>3. Range(Append(s, m)) \subseteq Range(s) \union {m}
  BY <1>1, <1>2 DEF Range
<1>4. Range(s) \union {m} \subseteq Range(Append(s, m))
  BY <1>1, <1>2 DEF Range
<1> QED
  BY <1>1, <1>3, <1>4

(* A message that is published is heard, and nothing else.                   *)
LEMMA PublishFacts ==
    ASSUME NEW sent \in GotType, NEW g \in Games, NEW S, NEW m \in Messages
    PROVE  /\ Publish(sent, g, S, m) \in GotType
           /\ \A h \in Games \ {g} : Publish(sent, g, S, m)[h] = sent[h]
           /\ \A p \in Players : Range(Publish(sent, g, S, m)[g][p])
                                   \subseteq Range(sent[g][p]) \union {m}
<1> DEFINE new == [p \in Players |-> IF p \in S THEN Append(sent[g][p], m) ELSE sent[g][p]]
<1>1. Publish(sent, g, S, m) = [sent EXCEPT ![g] = new]
  BY DEF Publish
<1>2. \A p \in Players : sent[g][p] \in Seq(Messages)
  BY DEF GotType
<1>3. \A p \in Players : /\ new[p] \in Seq(Messages)
                         /\ Range(new[p]) \subseteq Range(sent[g][p]) \union {m}
  <2> TAKE p \in Players
  <2>1. Append(sent[g][p], m) \in Seq(Messages)
        /\ Range(Append(sent[g][p], m)) = Range(sent[g][p]) \union {m}
    BY <1>2, AppendRange
  <2> QED
    BY <1>2, <2>1
<1>4. new \in [Players -> Seq(Messages)]
  BY <1>3
<1> HIDE DEF new
<1>5. DOMAIN sent = Games
  BY DEF GotType
<1> QED
  BY <1>1, <1>3, <1>4, <1>5 DEF GotType

(* A step that cancels the loads of H, leaves the subscriptions s or fewer,   *)
(* and says sent to the clients of the other loads.                          *)
Effect(H, s, sent, why) ==
    /\ loading' = loading \ H
    /\ outcome' = [g \in Games |-> IF g \in H THEN why[g] ELSE outcome[g]]
    /\ own' \subseteq Games
    /\ subs' \subseteq s
    /\ got' \in GotType /\ \A g \in Games \ H : got'[g] = sent[g]
    /\ records' = records \ H /\ configured' = configured \ H
    /\ recent' = recent /\ finished' = finished

(* That is what a cancellation does.                                        *)
LEMMA CancelFacts ==
    ASSUME TypeOK, NEW s, NEW told, NEW sent \in GotType,
           NEW G \in SUBSET Games, NEW why, CancelAll(s, told, sent, G, why)
    PROVE  Effect(G \intersect loading, s, sent, why)
<1> DEFINE H == G \intersect loading
           new(g) == Publish(sent, g, Subscribers(told, g), "cancel")[g]
<1>1. /\ loading' = loading \ H
      /\ outcome' = [g \in Games |-> IF g \in H THEN why[g] ELSE outcome[g]]
      /\ own' = own \union H
      /\ subs' = Unsubscribed(s, H)
      /\ got' = [g \in Games |-> IF g \in H THEN new(g) ELSE sent[g]]
      /\ records' = records \ H /\ configured' = configured \ H
      /\ recent' = recent /\ finished' = finished
  BY DEF CancelAll, Hit
<1>2. subs' \subseteq s /\ own' \subseteq Games
  BY <1>1 DEF Unsubscribed, TypeOK
<1>3. \A g \in Games : new(g) \in [Players -> Seq(Messages)]
  BY PublishFacts DEF GotType, Messages
<1>4. \A g \in Games : sent[g] \in [Players -> Seq(Messages)]
  BY DEF GotType
<1> HIDE DEF new
<1>5. got' \in GotType /\ \A g \in Games \ H : got'[g] = sent[g]
  BY <1>1, <1>3, <1>4 DEF GotType
<1> QED
  BY <1>1, <1>2, <1>5 DEF Effect

-----------------------------------------------------------------------------
(* Subscriptions of players to the loads they are in.                        *)
GoodSubs(s) ==
    /\ s \subseteq Games \X Players \X (1..MaxConns)
    /\ \A g \in Games, p \in Players, c \in 1..MaxConns :
          <<g, p, c>> \in s => p \in roster[g]

(* Nobody hears a cancellation, and the setup only after the config was       *)
(* written.                                                                 *)
GoodSent(sent) ==
    \A g \in Games, p \in Players :
        /\ "cancel" \in Range(sent[g][p]) => "cancel" \in Heard(g, p)
        /\ "config" \in Range(sent[g][p])
             => "config" \in Heard(g, p) \/ phase[g] \notin Early \union {"users", "config"}

GoodErrors(H, why) ==
    \A g \in H : why[g] \in Outcomes /\ why[g].code \in Codes /\ why[g].blamed \subseteq roster[g]

(* A load that moves on and is not cancelled does not pass the writing of its *)
(* config.                                                                  *)
GoodMoves(H) ==
    /\ phase' \in [Games -> Phases]
    /\ \A g \in Games : phase'[g] = phase[g] \/
          /\ phase[g] \notin Early /\ phase'[g] \notin Early \union {"users"}
          /\ g \in loading \ H
               => (phase'[g] \in {"users", "config"} <=> phase[g] \in {"users", "config"})

ClientTypes ==
    /\ client \in [Players -> 0..MaxConns] /\ conns \in [Players -> 1..MaxConns]
    /\ active \in [Players -> 0..MaxConns]
    /\ signal \subseteq Lobbies /\ quit \subseteq Games \X Players

LEMMA EffectKeeps ==
    ASSUME IInv, NEW H \in SUBSET loading, NEW s, NEW sent \in GotType, NEW why,
           Effect(H, s, sent, why), GoodSubs(s), GoodSent(sent), GoodErrors(H, why),
           GoodMoves(H), ClientTypes', UNCHANGED <<roster, clients>>
    PROVE  IInv'
<1> USE DEF IInv
<1>1. /\ loading \subseteq Games /\ outcome \in [Games -> Outcomes]
      /\ \A g \in Games : LoadingInv(g) /\ KnownInv(g) /\ ClientsInv(g)
  BY DEF TypeOK, LoadInv
<1>2. \A g \in H : /\ outcome'[g] = why[g] /\ g \notin loading' /\ g \in Games
                   /\ phase'[g] \notin Early
  BY <1>1 DEF Effect, LoadingInv, GoodMoves
<1>3. \A g \in Games \ H : /\ outcome'[g] = outcome[g] /\ got'[g] = sent[g]
                           /\ g \in loading' <=> g \in loading
                           /\ g \in records' <=> g \in records
                           /\ g \in configured' <=> g \in configured
  BY DEF Effect
<1>4. TypeOK'
  <2>1. outcome' \in [Games -> Outcomes]
    BY <1>1 DEF Effect, GoodErrors
  <2>2. \A g \in Games : outcome'[g].blamed \subseteq roster[g]
    BY <1>2, <1>3 DEF GoodErrors, TypeOK
  <2>3. loading' \subseteq Games /\ recent' \subseteq Games /\ own' \subseteq Games
        /\ records' \subseteq Games /\ configured' \subseteq Games
    BY DEF Effect, TypeOK
  <2>4. subs' \subseteq Games \X Players \X (1..MaxConns)
    BY DEF Effect, GoodSubs
  <2> QED
    BY <2>1, <2>2, <2>3, <2>4 DEF TypeOK, ClientTypes, Effect, GotType, GoodMoves
<1>5. ASSUME NEW g \in Games
      PROVE  LoadInv(g)'
  <2>1. LoadingInv(g)'
    <3>1. CASE g \in H
      BY <3>1, <1>2 DEF LoadingInv, GoodErrors, Codes, Early
    <3>2. CASE g \notin H
      BY <3>2, <1>1, <1>3 DEF LoadingInv, GoodMoves, Early
    <3> QED
      BY <3>1, <3>2
  <2>2. KnownInv(g)'
    <3>1. CASE g \in H
      BY <3>1, <1>2 DEF KnownInv
    <3>2. CASE g \notin H
      <4>1. \A p \in Players : Heard(g, p)' = Range(sent[g][p])
        BY <3>2, <1>3 DEF Heard
      <4>2. \A p \in Players : "cancel" \in Heard(g, p)' => "cancel" \in Heard(g, p)
        BY <4>1 DEF GoodSent
      <4>3. \A p \in Players : "config" \in Heard(g, p)'
              => "config" \in Heard(g, p) \/ phase[g] \notin Early \union {"users", "config"}
        BY <4>1 DEF GoodSent
      <4>4. LoadingInv(g) /\ KnownInv(g) /\ (g \in loading' <=> g \in loading)
            /\ (g \in records' <=> g \in records) /\ (g \in configured' <=> g \in configured)
        BY <3>2, <1>1, <1>3
      <4>5. phase'[g] = phase[g] \/
              /\ phase[g] \notin Early /\ phase'[g] \notin Early
              /\ g \in loading
                   => (phase'[g] \in {"users", "config"} <=> phase[g] \in {"users", "config"})
        BY <3>2 DEF GoodMoves
      <4> QED
        BY <4>2, <4>3, <4>4, <4>5 DEF KnownInv, Early
    <3> QED
      BY <3>1, <3>2
  <2>3. ClientsInv(g)'
    <3>1. phase'[g] = "users" => phase[g] = "users"
      BY DEF GoodMoves
    <3>2. \A p \in Players, c \in 1..MaxConns : <<g, p, c>> \in subs' => p \in roster[g]
      BY DEF Effect, GoodSubs
    <3> QED
      BY <3>1, <3>2, <1>1 DEF ClientsInv
  <2> QED
    BY <2>1, <2>2, <2>3 DEF LoadInv
<1>6. LoadedByAll'
  <2> SUFFICES ASSUME NEW g \in Games, outcome'[g] = Loaded
               PROVE  /\ finished'[g] = roster'[g]
                      /\ g \in records' \intersect configured'
                      /\ \A p \in roster'[g] : "cancel" \notin Heard(g, p)'
    BY DEF LoadedByAll
  <2>1. g \notin H
    BY <1>2 DEF GoodErrors, Loaded, Codes
  <2>2. outcome[g] = Loaded
    BY <2>1, <1>3
  <2>3. finished[g] = roster[g] /\ g \in records \intersect configured
        /\ \A p \in roster[g] : "cancel" \notin Heard(g, p)
    BY <2>2 DEF LoadedByAll
  <2>4. \A p \in roster[g] : "cancel" \notin Heard(g, p)'
    <3>1. roster[g] \subseteq Players
      BY DEF TypeOK
    <3> QED
      BY <2>1, <2>3, <3>1, <1>3 DEF Heard, GoodSent
  <2> QED
    BY <2>1, <2>3, <2>4, <1>3 DEF Effect
<1> QED
  BY <1>4, <1>5, <1>6

(* A step that cancels nothing.                                             *)
LEMMA QuietKeeps ==
    ASSUME IInv, UNCHANGED <<roster, clients, loadVars, own, dbVars>>,
           got' \in GotType, GoodSent(got'), GoodSubs(subs'), GoodMoves({}), ClientTypes'
    PROVE  IInv'
<1>1. outcome = [g \in Games |-> outcome[g]] /\ own \subseteq Games
  BY DEF IInv, TypeOK
<1>2. Effect({}, subs', got', <<>>)
  BY <1>1 DEF Effect, loadVars, dbVars
<1>3. GoodErrors({}, <<>>)
  BY DEF GoodErrors
<1> QED
  BY <1>2, <1>3, EffectKeeps

(* The present state as an argument of these lemmas.                         *)
LEMMA Present ==
    ASSUME IInv
    PROVE  /\ got \in GotType /\ GoodSent(got) /\ GoodSubs(subs) /\ ClientTypes
           /\ \A H : UNCHANGED phase => GoodMoves(H)
<1>1. GoodSubs(subs)
  BY DEF IInv, TypeOK, LoadInv, ClientsInv, GoodSubs
<1>2. got \in GotType /\ ClientTypes /\ phase \in [Games -> Phases]
  BY DEF IInv, TypeOK, GotType, ClientTypes
<1>3. GoodSent(got)
  BY DEF GoodSent, Heard
<1> QED
  BY <1>1, <1>2, <1>3 DEF GoodMoves

clientsUnchanged == UNCHANGED <<clientVars, active, roster, callerVars, clients>>

MayMove(g) ==
    \/ UNCHANGED phase
    \/ phase[g] \notin Early /\ \E to \in {"config", "done"} : phase' = [phase EXCEPT ![g] = to]

(* The load g is cancelled, wherever doGameLoad goes on.                      *)
LEMMA CancelKeeps ==
    ASSUME IInv, NEW g \in Games, NEW s, NEW told, NEW sent \in GotType, NEW why \in Outcomes,
           CancelAll(s, told, sent, {g}, [h \in Games |-> why]),
           GoodSubs(s), GoodSent(sent), why.code \in Codes, why.blamed \subseteq roster[g],
           MayMove(g), clientsUnchanged
    PROVE  IInv'
<1> DEFINE all == [h \in Games |-> why]
           H == {g} \intersect loading
<1>1. TypeOK /\ {g} \in SUBSET Games
  BY DEF IInv
<1>2. Effect(H, s, sent, all)
  <2>1. CancelAll(s, told, sent, {g}, all)
    OBVIOUS
  <2> HIDE DEF all
  <2> QED
    BY <1>1, <2>1, CancelFacts
<1>3. GoodErrors(H, all)
  BY DEF GoodErrors
<1>4. GoodMoves(H)
  <2>1. phase \in [Games -> Phases] /\ \A to \in {"config", "done"} : to \in Phases
    BY <1>1 DEF TypeOK, Phases
  <2> QED
    BY <2>1 DEF GoodMoves, Early, MayMove
<1>5. ClientTypes' /\ UNCHANGED <<roster, clients>>
  BY Present DEF clientsUnchanged, clientVars, callerVars, ClientTypes
<1> HIDE DEF all
<1> QED
  BY <1>2, <1>3, <1>4, <1>5, EffectKeeps

-----------------------------------------------------------------------------
(* The callers and the clients.                                             *)

LEMMA ConnectKeeps == ASSUME IInv, NEW p \in Players, Connect(p) PROVE IInv'
<1>1. ClientTypes'
  <2>1. conns[p] \in 1..MaxConns /\ MaxConns \in Nat /\ conns[p] < MaxConns
    BY FlagsAssumption DEF Connect, IInv, TypeOK
  <2>2. conns[p] + 1 \in 1..MaxConns /\ conns[p] + 1 \in 0..MaxConns
    BY <2>1
  <2> QED
    BY <2>2, Present DEF Connect, ClientTypes, callerVars
<1> QED
  BY <1>1, Present, QuietKeeps DEF Connect

LEMMA JoinKeeps == ASSUME IInv, NEW p \in Players, Join(p) PROVE IInv'
<1>1. ClientTypes'
  BY Present DEF Join, ClientTypes, callerVars, clientVars
<1> QED
  BY <1>1, Present, QuietKeeps DEF Join

LEMMA QuitsTypes ==
    ASSUME IInv, NEW p \in Players, Quits(p)
    PROVE  /\ active' \in [Players -> 0..MaxConns]
           /\ signal' \subseteq Lobbies /\ quit' \subseteq Games \X Players
<1>1. NoClient \in 0..MaxConns
  BY FlagsAssumption DEF NoClient
<1> QED
  BY <1>1, Present DEF Quits, ClientTypes, LoadsOf

LEMMA LeaveKeeps == ASSUME IInv, NEW p \in Players, Leave(p) PROVE IInv'
<1>1. ClientTypes'
  BY QuitsTypes, Present DEF Leave, ClientTypes, clientVars
<1> QED
  BY <1>1, Present, QuietKeeps DEF Leave

LEMMA DisconnectKeeps == ASSUME IInv, NEW p \in Players, Disconnect(p) PROVE IInv'
<1> DEFINE G    == {g \in Games : <<g, p, client[p]>> \in subs}
           rest == {t \in subs : t[2] # p}
           sent == [g \in Games |-> [got[g] EXCEPT ![p] = <<>>]]
           why  == [g \in Games |-> Error("player", {p})]
           H    == G \intersect loading
<1>1. CancelAll(rest, rest, sent, G, why) /\ Quits(p) /\ UNCHANGED <<conns, roster, phase, clients>>
      /\ client' = [client EXCEPT ![p] = NoClient]
  BY DEF Disconnect
<1>2. sent \in GotType
  BY Present DEF GotType
<1>3. GoodSent(sent)
  <2> SUFFICES ASSUME NEW g \in Games, NEW q \in Players
               PROVE  Range(sent[g][q]) \subseteq Heard(g, q)
    BY DEF GoodSent
  <2>1. DOMAIN got[g] = Players
    BY Present DEF GotType
  <2>2. CASE q = p
    <3>1. sent[g][q] = <<>>
      BY <2>1, <2>2
    <3> HIDE DEF sent
    <3> QED
      BY <3>1 DEF Range
  <2>3. CASE q # p
    BY <2>1, <2>3 DEF Heard
  <2> QED
    BY <2>2, <2>3
<1>4. GoodSubs(rest)
  BY Present DEF GoodSubs
<1>5. GoodErrors(H, why)
  <2>1. client[p] \in 1..MaxConns \/ G = {}
    BY Present DEF GoodSubs
  <2>2. \A g \in H : p \in roster[g]
    BY <2>1, Present DEF GoodSubs
  <2> QED
    BY <2>2 DEF GoodErrors, Error, Outcomes, Codes
<1>6. ClientTypes'
  <2>1. NoClient \in 0..MaxConns
    BY FlagsAssumption DEF NoClient
  <2> QED
    BY <1>1, <2>1, QuitsTypes, Present DEF ClientTypes
<1>7. GoodMoves(H) /\ TypeOK /\ G \in SUBSET Games
  BY <1>1, Present DEF IInv
<1> HIDE DEF G, rest, sent, why
<1>8. Effect(H, rest, sent, why)
  BY <1>1, <1>2, <1>7, CancelFacts
<1> QED
  BY <1>1, <1>2, <1>3, <1>4, <1>5, <1>6, <1>7, <1>8, EffectKeeps

-----------------------------------------------------------------------------
(* The steps of the load g.  What they do to another load h is nothing.      *)

SameLoad(h) ==
    /\ outcome'[h] = outcome[h] /\ roster'[h] = roster[h] /\ phase'[h] = phase[h]
    /\ clients'[h] = clients[h] /\ finished'[h] = finished[h] /\ got'[h] = got[h]
    /\ (h \in loading' <=> h \in loading) /\ (h \in records' <=> h \in records)
    /\ (h \in configured' <=> h \in configured)

LEMMA OthersKeep ==
    ASSUME IInv, NEW h \in Games, SameLoad(h), subs' \subseteq subs
    PROVE  LoadInv(h)' /\ (outcome'[h] = Loaded =>
              /\ finished'[h] = roster'[h] /\ h \in records' \intersect configured'
              /\ \A p \in roster'[h] : "cancel" \notin Heard(h, p)')
<1>1. LoadInv(h)
  BY DEF IInv
<1>2. \A p : Heard(h, p)' = Heard(h, p)
  BY DEF SameLoad, Heard
<1>3. LoadInv(h)'
  BY <1>1, <1>2 DEF SameLoad, LoadInv, LoadingInv, KnownInv, ClientsInv
<1> QED
  BY <1>2, <1>3 DEF SameLoad, IInv, LoadedByAll

(* So it is enough to look at g.                                            *)
LEMMA OneLoadKeeps ==
    ASSUME IInv, NEW g \in Games, \A h \in Games \ {g} : SameLoad(h), subs' \subseteq subs,
           TypeOK', LoadInv(g)', outcome'[g] = Loaded =>
              /\ finished'[g] = roster'[g] /\ g \in records' \intersect configured'
              /\ \A p \in roster'[g] : "cancel" \notin Heard(g, p)'
    PROVE  IInv'
<1>1. \A h \in Games : LoadInv(h)'
  BY OthersKeep
<1>2. LoadedByAll'
  BY OthersKeep DEF LoadedByAll
<1> QED
  BY <1>1, <1>2 DEF IInv

LEMMA LoadGameKeeps ==
    ASSUME IInv, NEW g \in Games, NEW R \in SUBSET Players, LoadGame(g, R) PROVE IInv'
<1>1. /\ outcome[g] = Unset /\ outcome' = [outcome EXCEPT ![g] = Pending]
      /\ roster' = [roster EXCEPT ![g] = R] /\ phase' = [phase EXCEPT ![g] = "register"]
      /\ UNCHANGED <<clientVars, active, clients, loading, recent, finished, callerVars, own,
                     subs, got, dbVars>>
  BY DEF LoadGame
<1>2. TypeOK /\ LoadInv(g)
  BY DEF IInv
<1>3. phase[g] = "idle" /\ roster[g] = {} /\ finished[g] = {} /\ g \notin loading
  BY <1>1, <1>2 DEF LoadInv, LoadingInv, Unset, TypeOK
<1>4. TypeOK'
  <2>1. Pending \in Outcomes /\ Pending.blamed = {} /\ "register" \in Phases
    BY DEF Pending, Outcomes, Phases
  <2> QED
    BY <1>1, <1>2, <1>3, <2>1 DEF TypeOK, clientVars, callerVars, dbVars
<1>5. outcome'[g] = Pending /\ phase'[g] = "register"
  BY <1>1, <1>2 DEF TypeOK
<1>6. LoadInv(g)'
  <2>1. \A p \in Players : Heard(g, p)' = Heard(g, p)
    BY <1>1 DEF Heard
  <2>2. \A p \in Players, c \in 1..MaxConns : <<g, p, c>> \notin subs'
    BY <1>1, <1>2, <1>3 DEF LoadInv, ClientsInv
  <2> QED
    BY <1>1, <1>2, <1>3, <1>5, <2>1, <2>2
       DEF LoadInv, LoadingInv, KnownInv, ClientsInv, Early, Pending
<1>7. \A h \in Games \ {g} : SameLoad(h)
  BY <1>1, <1>2 DEF SameLoad, TypeOK, dbVars
<1> QED
  BY <1>1, <1>4, <1>5, <1>6, <1>7, OneLoadKeeps DEF Pending, Loaded

LEMMA RegisteredKeeps == ASSUME IInv, NEW g \in Games, Registered(g) PROVE IInv'
<1>1. /\ phase[g] = "register" /\ TypeOK /\ LoadInv(g)
      /\ UNCHANGED <<recent, finished, configured, clientVars, active, roster, callerVars>>
  BY DEF Registered, gameOnlyUnchanged, IInv
<1>2. g \notin loading /\ outcome[g].code = "pending"
  BY <1>1 DEF LoadInv, LoadingInv, Early
<1>3. ASSUME NEW why \in Outcomes, why.code \in Codes, why.blamed \subseteq roster[g],
             outcome' = [outcome EXCEPT ![g] = why], Move(g, "done"), own' \subseteq Games,
             UNCHANGED <<clients, loading, subs, got, records>>
      PROVE  IInv'
  <2>1. TypeOK'
    BY <1>1, <1>3 DEF TypeOK, clientVars, callerVars, Move, Phases
  <2>2. outcome'[g] = why /\ phase'[g] = "done"
    BY <1>1, <1>3 DEF TypeOK, Move
  <2>3. LoadInv(g)'
    BY <1>1, <1>2, <1>3, <2>2
       DEF LoadInv, LoadingInv, KnownInv, ClientsInv, Early, Codes, Heard
  <2>4. \A h \in Games \ {g} : SameLoad(h)
    BY <1>1, <1>3 DEF SameLoad, TypeOK, Move
  <2> QED
    BY <1>3, <2>1, <2>2, <2>3, <2>4, OneLoadKeeps DEF Loaded, Codes
<1>4. CASE /\ Absent(g) = {}
           /\ loading' = loading \union {g}
           /\ records' = records \union {g}
           /\ clients' = [clients EXCEPT ![g] = active]
           /\ Move(g, "users")
           /\ UNCHANGED <<outcome, own, subs, got>>
  <2>1. TypeOK'
    BY <1>1, <1>4 DEF TypeOK, clientVars, callerVars, Move, Phases
  <2>2. clients'[g] = active /\ phase'[g] = "users"
    BY <1>1, <1>4 DEF TypeOK, Move
  <2>3. \A p \in roster[g] : active[p] # NoClient
    BY <1>4 DEF Absent
  <2>4. LoadInv(g)'
    BY <1>1, <1>2, <1>4, <2>2, <2>3
       DEF LoadInv, LoadingInv, KnownInv, ClientsInv, Early, Heard
  <2>5. \A h \in Games \ {g} : SameLoad(h)
    BY <1>1, <1>4 DEF SameLoad, TypeOK, Move
  <2> QED
    BY <1>2, <1>4, <2>1, <2>4, <2>5, OneLoadKeeps DEF Loaded
<1>5. ASSUME NEW code \in Codes, NEW B \in SUBSET roster[g]
      PROVE  /\ Error(code, B) \in Outcomes /\ Error(code, B).code \in Codes
             /\ Error(code, B).blamed \subseteq roster[g]
  BY <1>1 DEF Error, Outcomes, TypeOK
<1>6. own \subseteq Games /\ own \union {g} \subseteq Games
  BY <1>1 DEF TypeOK
<1>7. CASE /\ outcome' = [outcome EXCEPT ![g] = Error("internal", {})]
           /\ Move(g, "done")
           /\ UNCHANGED <<clients, loading, own, subs, got, records>>
  <2>1. Error("internal", {}) \in Outcomes /\ Error("internal", {}).code \in Codes
        /\ Error("internal", {}).blamed \subseteq roster[g]
    BY <1>5 DEF Codes
  <2> QED
    BY <1>3, <1>6, <1>7, <2>1
<1>8. ASSUME NEW p \in Absent(g), outcome' = [outcome EXCEPT ![g] = Error("player", {p})],
             own' = own \union {g}, Move(g, "done"),
             UNCHANGED <<clients, loading, subs, got, records>>
      PROVE  IInv'
  <2>1. {p} \in SUBSET roster[g]
    BY DEF Absent
  <2>2. Error("player", {p}) \in Outcomes /\ Error("player", {p}).code \in Codes
        /\ Error("player", {p}).blamed \subseteq roster[g]
    BY <1>5, <2>1 DEF Codes
  <2> QED
    BY <1>3, <1>6, <1>8, <2>2
<1> QED
  BY <1>4, <1>7, <1>8 DEF Registered

(* doGameLoad goes on.                                                      *)
LEMMA MoveIsGood ==
    ASSUME IInv, NEW g \in Games, NEW to \in Phases, Move(g, to), phase[g] \notin Early,
           to \notin Early \union {"users"},
           to = "config" <=> phase[g] \in {"users", "config"}
    PROVE  GoodMoves({})
BY DEF IInv, TypeOK, GoodMoves, Move, Early

LEMMA ErrorFacts ==
    ASSUME IInv, NEW g \in Games, NEW code \in Codes, NEW B \in SUBSET roster[g]
    PROVE  /\ Error(code, B) \in Outcomes /\ Error(code, B).code \in Codes
           /\ Error(code, B).blamed \subseteq roster[g]
BY DEF Error, Outcomes, IInv, TypeOK

LEMMA Unchanged ==
    ASSUME IInv, gameOnlyUnchanged
    PROVE  /\ ClientTypes' /\ roster' = roster
           /\ clients' = clients => clientsUnchanged
BY Present DEF gameOnlyUnchanged, clientsUnchanged, ClientTypes, clientVars, callerVars

LEMMA FailsKeeps ==
    ASSUME IInv, NEW g \in Games, NEW code \in Codes, phase[g] \notin Early,
           Fails(g, Error(code, {})), gameOnlyUnchanged
    PROVE  IInv'
<1> DEFINE why == Error(code, {})
<1>1. why \in Outcomes /\ why.code \in Codes /\ why.blamed \subseteq roster[g]
  BY ErrorFacts
<1>2. CancelAll(subs, subs, got, {g}, [h \in Games |-> why])
      /\ MayMove(g) /\ clientsUnchanged
  BY Unchanged DEF Fails, Cancel, CancelWith, Move, MayMove
<1> HIDE DEF why
<1> QED
  BY <1>1, <1>2, Present, CancelKeeps

(* A step of the load that changes nothing else.                             *)
LEMMA MoveKeeps ==
    ASSUME IInv, NEW g \in Games, NEW to \in Phases, Move(g, to), phase[g] \notin Early,
           to \notin Early \union {"users"},
           to = "config" <=> phase[g] \in {"users", "config"},
           got' \in GotType, GoodSent(got'), GoodSubs(subs'),
           UNCHANGED <<clients, loadVars, own, dbVars>>, gameOnlyUnchanged
    PROVE  IInv'
BY MoveIsGood, Unchanged, QuietKeeps

LEMMA UsersFoundKeeps == ASSUME IInv, NEW g \in Games, UsersFound(g) PROVE IInv'
<1> DEFINE live == {<<g, p, clients[g][p]>> : p \in {q \in roster[g] : clients[g][q] = client[q]}}
           gone == {p \in roster[g] : clients[g][p] # client[p]}
           all  == subs \union live
<1>1. phase[g] = "users" /\ phase[g] \notin Early /\ gameOnlyUnchanged
  BY DEF UsersFound, Early
<1>2. GoodSubs(all)
  <2>1. \A p \in roster[g] : p \in Players /\ clients[g][p] \in 1..MaxConns
    <3>1. roster[g] \subseteq Players /\ clients[g] \in [Players -> 0..MaxConns]
          /\ \A p \in roster[g] : clients[g][p] # 0
      BY <1>1 DEF IInv, TypeOK, LoadInv, ClientsInv, NoClient
    <3> QED
      BY <3>1, FlagsAssumption
  <2> QED
    BY <2>1, Present DEF GoodSubs
<1> HIDE DEF all, live
<1>3. CASE Fails(g, Error("internal", {}))
  BY <1>1, <1>3, FailsKeeps DEF Codes
<1>4. CASE Move(g, "config") /\ subs' = all /\ UNCHANGED <<clients, loadVars, own, got, dbVars>>
  BY <1>1, <1>2, <1>4, Present, MoveKeeps DEF Phases, Early
<1>5. CASE CancelWith(all, g, Error("internal", {})) /\ Move(g, "done") /\ UNCHANGED clients
  <2> DEFINE why == Error("internal", {})
  <2>1. why \in Outcomes /\ why.code \in Codes /\ why.blamed \subseteq roster[g]
    BY ErrorFacts DEF Codes
  <2>2. CancelAll(all, all, got, {g}, [h \in Games |-> why])
        /\ MayMove(g) /\ clientsUnchanged
    BY <1>1, <1>5, Unchanged DEF CancelWith, Move, MayMove
  <2> HIDE DEF why
  <2> QED
    BY <1>1, <1>2, <2>1, <2>2, Present, CancelKeeps
<1>6. ASSUME NEW p \in gone, NEW told,
             CancelAll(all, told, got, {g}, [h \in Games |-> Error("player", {p})]),
             NEW to \in {"config", "done"}, phase' = [phase EXCEPT ![g] = to], UNCHANGED clients
      PROVE  IInv'
  <2> DEFINE why == Error("player", {p})
  <2>1. why \in Outcomes /\ why.code \in Codes /\ why.blamed \subseteq roster[g]
    BY ErrorFacts DEF Codes
  <2>2. CancelAll(all, told, got, {g}, [h \in Games |-> why]) /\ clientsUnchanged
        /\ MayMove(g)
    BY <1>1, <1>6, Unchanged DEF MayMove
  <2> HIDE DEF why
  <2> QED
    BY <1>1, <1>2, <1>6, <2>1, <2>2, Present, CancelKeeps
<1> QED
  BY <1>3, <1>4, <1>5, <1>6 DEF UsersFound, all, live

LEMMA ConfigWrittenKeeps == ASSUME IInv, NEW g \in Games, ConfigWritten(g) PROVE IInv'
<1>1. phase[g] = "config" /\ phase[g] \notin Early /\ gameOnlyUnchanged /\ TypeOK /\ LoadInv(g)
  BY DEF ConfigWritten, Early, IInv
<1>2. CASE Fails(g, Error("internal", {}))
  BY <1>1, <1>2, FailsKeeps DEF Codes
<1>3. CASE /\ configured' = configured \union ({g} \intersect records)
           /\ Move(g, "map")
           /\ UNCHANGED <<clients, loadVars, own, subs, got, records>>
  <2>1. TypeOK'
    BY <1>1, <1>3 DEF TypeOK, gameOnlyUnchanged, clientVars, callerVars, loadVars, Move, Phases
  <2>2. phase'[g] = "map" /\ (g \in records => g \in configured')
    BY <1>1, <1>3 DEF TypeOK, Move
  <2>3. LoadInv(g)'
    BY <1>1, <1>3, <2>2 DEF LoadInv, LoadingInv, KnownInv, ClientsInv, Early, Heard,
                            gameOnlyUnchanged, loadVars
  <2>4. \A h \in Games \ {g} : SameLoad(h)
    BY <1>1, <1>3 DEF SameLoad, TypeOK, Move, loadVars, gameOnlyUnchanged
  <2>5. outcome'[g] = Loaded =>
              /\ finished'[g] = roster'[g] /\ g \in records' \intersect configured'
              /\ \A p \in roster'[g] : "cancel" \notin Heard(g, p)'
    BY <1>1, <1>3 DEF IInv, LoadedByAll, Heard, loadVars, gameOnlyUnchanged
  <2> QED
    BY <1>3, <2>1, <2>3, <2>4, <2>5, OneLoadKeeps
<1> QED
  BY <1>2, <1>3 DEF ConfigWritten

LEMMA MapFoundKeeps == ASSUME IInv, NEW g \in Games, MapFound(g) PROVE IInv'
<1>1. phase[g] = "map" /\ phase[g] \notin Early /\ gameOnlyUnchanged
  BY DEF MapFound, Early
<1>2. CASE Fails(g, Error("internal", {})) \/ Fails(g, Error("canceled", {}))
  BY <1>1, <1>2, FailsKeeps DEF Codes
<1>3. CASE Move(g, "restrict") /\ UNCHANGED <<clients, loadVars, own, subs, got, dbVars>>
  BY <1>1, <1>3, Present, MoveKeeps DEF Phases, Early
<1> QED
  BY <1>2, <1>3 DEF MapFound

LEMMA FinalCheckKeeps ==
    ASSUME IInv, NEW g \in Games, NEW sent \in GotType, GoodSent(sent),
           phase[g] \notin Early \union {"users", "config"},
           FinalCheck(g, sent), Move(g, "done"), UNCHANGED clients, gameOnlyUnchanged
    PROVE  IInv'
<1> DEFINE why == Error("canceled", {})
<1>1. CASE Aborted(g)
  <2>1. why \in Outcomes /\ why.code \in Codes /\ why.blamed \subseteq roster[g]
    BY ErrorFacts DEF Codes
  <2>2. CancelAll(subs, subs, sent, {g}, [h \in Games |-> why])
        /\ MayMove(g) /\ clientsUnchanged
    BY <1>1, Unchanged DEF FinalCheck, Move, MayMove, Early
  <2> HIDE DEF why
  <2> QED
    BY <2>1, <2>2, Present, CancelKeeps
<1>2. CASE ~Aborted(g)
  <2>1. got' = sent /\ UNCHANGED <<loadVars, own, subs, dbVars>>
    BY <1>2 DEF FinalCheck
  <2> QED
    BY <2>1, Present, MoveKeeps DEF Phases, Early
<1> QED
  BY <1>1, <1>2

(* What doGameLoad publishes once the config is written.                     *)
LEMMA SentIsGood ==
    ASSUME IInv, NEW g \in Games, phase[g] \notin Early \union {"users", "config"},
           NEW m \in {"config", "setup"}, NEW S
    PROVE  Publish(got, g, S, m) \in GotType /\ GoodSent(Publish(got, g, S, m))
<1> DEFINE sent == Publish(got, g, S, m)
<1>1. /\ sent \in GotType /\ \A h \in Games \ {g} : sent[h] = got[h]
      /\ \A p \in Players : Range(sent[g][p]) \subseteq Range(got[g][p]) \union {m}
  <2>1. m \in Messages /\ got \in GotType
    BY Present DEF Messages
  <2> QED
    BY <2>1, PublishFacts
<1> HIDE DEF sent
<1>2. GoodSent(sent)
  BY <1>1 DEF GoodSent, Heard
<1> QED
  BY <1>1, <1>2 DEF sent

LEMMA ConfigureKeeps == ASSUME IInv, NEW g \in Games, Configure(g) PROVE IInv'
<1> DEFINE sent == Publish(got, g, Subscribers(subs, g), "config")
<1>1. phase[g] = "restrict" /\ phase[g] \notin Early \union {"users", "config"}
      /\ UNCHANGED clients /\ gameOnlyUnchanged
  BY DEF Configure, Early
<1>2. sent \in GotType /\ GoodSent(sent)
  BY <1>1, SentIsGood
<1> HIDE DEF sent
<1>3. CASE got' = sent /\ Move(g, "session") /\ UNCHANGED <<loadVars, own, subs, dbVars>>
  BY <1>1, <1>2, <1>3, Present, MoveKeeps DEF Phases, Early
<1>4. CASE FinalCheck(g, sent) /\ Move(g, "done")
  BY <1>1, <1>2, <1>4, FinalCheckKeeps
<1> QED
  BY <1>3, <1>4 DEF Configure, sent

LEMMA SessionCreatedKeeps == ASSUME IInv, NEW g \in Games, SessionCreated(g) PROVE IInv'
<1>1. phase[g] = "session" /\ phase[g] \notin Early /\ gameOnlyUnchanged
  BY DEF SessionCreated, Early
<1>2. CASE Fails(g, Error("internal", {}))
  BY <1>1, <1>2, FailsKeeps DEF Codes
<1>3. CASE Move(g, "store") /\ UNCHANGED <<clients, loadVars, own, subs, got, dbVars>>
  BY <1>1, <1>3, Present, MoveKeeps DEF Phases, Early
<1> QED
  BY <1>2, <1>3 DEF SessionCreated

LEMMA SessionStoredKeeps == ASSUME IInv, NEW g \in Games, SessionStored(g) PROVE IInv'
<1> DEFINE sent == Publish(got, g, Subscribers(subs, g), "setup")
<1>1. phase[g] = "store" /\ phase[g] \notin Early \union {"users", "config"} /\ gameOnlyUnchanged
  BY DEF SessionStored, Early
<1>2. sent \in GotType /\ GoodSent(sent)
  BY <1>1, SentIsGood
<1> HIDE DEF sent
<1>3. CASE Fails(g, Error("internal", {}))
  BY <1>1, <1>3, FailsKeeps DEF Codes
<1>4. CASE FinalCheck(g, sent) /\ Move(g, "done") /\ UNCHANGED clients
  BY <1>1, <1>2, <1>4, FinalCheckKeeps
<1> QED
  BY <1>3, <1>4 DEF SessionStored, sent

-----------------------------------------------------------------------------
(* Reports of the clients, and the deadline.                                *)

LEMMA ReportKeeps == ASSUME IInv, NEW g \in Games, NEW p \in Players, Report(g, p) PROVE IInv'
<1> DEFINE done == finished[g] \union {p}
<1>1. /\ g \in loading /\ p \in roster[g] /\ "config" \in Heard(g, p)
      /\ finished' = [finished EXCEPT ![g] = done]
      /\ UNCHANGED <<clientVars, active, roster, phase, clients, callerVars, own, got, dbVars>>
      /\ TypeOK /\ LoadInv(g)
  BY DEF Report, Ready, IInv
<1>2. /\ outcome[g].code = "pending" /\ phase[g] \notin Early
      /\ g \in records /\ g \in configured
      /\ \A q \in Players : "cancel" \notin Heard(g, q)
  BY <1>1 DEF LoadInv, LoadingInv, KnownInv
<1> DEFINE ends ==
             /\ subs' \subseteq subs /\ recent' = recent \union {g} /\ loading' = loading \ {g}
             /\ outcome' = [outcome EXCEPT ![g] = Loaded] /\ roster[g] \subseteq done
           waits == UNCHANGED <<subs, recent, loading, outcome>>
<1>3. ends \/ waits
  BY DEF Report, Unsubscribed, AllFinished
<1>4. Loaded \in Outcomes /\ Loaded.blamed = {} /\ Loaded.code = "loaded"
  BY DEF Loaded, Outcomes
<1>5. done \subseteq roster[g] /\ finished'[g] = done
  BY <1>1 DEF TypeOK
<1> HIDE DEF done
<1>6. TypeOK'
  <2>1. finished' \in [Games -> SUBSET Players]
        /\ \A h \in Games : finished'[h] \subseteq roster[h]
    BY <1>1, <1>5 DEF TypeOK
  <2>2. /\ outcome' \in [Games -> Outcomes] /\ loading' \subseteq Games /\ recent' \subseteq Games
        /\ subs' \subseteq subs /\ \A h \in Games : outcome'[h].blamed \subseteq roster[h]
    <3>1. CASE waits
      BY <1>1, <3>1 DEF TypeOK
    <3>2. CASE ends
      <4>1. outcome' \in [Games -> Outcomes]
        BY <1>1, <1>4, <3>2 DEF TypeOK
      <4>2. \A h \in Games : outcome'[h].blamed \subseteq roster[h]
        BY <1>1, <1>4, <3>2 DEF TypeOK
      <4> QED
        BY <1>1, <3>2, <4>1, <4>2 DEF TypeOK
    <3> QED
      BY <1>3, <3>1, <3>2
  <2> QED
    BY <1>1, <2>1, <2>2 DEF TypeOK, clientVars, callerVars, dbVars
<1>7. \/ outcome'[g] = Loaded /\ roster[g] \subseteq done /\ g \notin loading'
      \/ outcome'[g] = outcome[g] /\ (g \in loading' <=> g \in loading)
  <2>1. DOMAIN outcome = Games
    BY <1>1 DEF TypeOK
  <2>2. CASE ends
    BY <2>1, <2>2
  <2>3. CASE waits
    BY <2>3
  <2> QED
    BY <1>3, <2>2, <2>3
<1>8. LoadInv(g)'
  BY <1>1, <1>2, <1>3, <1>4, <1>7
     DEF LoadInv, LoadingInv, KnownInv, ClientsInv, Early, Heard, dbVars
<1>9. \A h \in Games \ {g} : SameLoad(h)
  BY <1>1, <1>3 DEF SameLoad, TypeOK, dbVars
<1>10. outcome'[g] = Loaded =>
          /\ finished'[g] = roster'[g] /\ g \in records' \intersect configured'
          /\ \A q \in roster'[g] : "cancel" \notin Heard(g, q)'
  <2>1. roster[g] \subseteq Players
    BY <1>1 DEF TypeOK
  <2> QED
    BY <1>1, <1>2, <1>4, <1>5, <1>7, <2>1 DEF Heard, dbVars
<1> QED
  BY <1>3, <1>6, <1>8, <1>9, <1>10, OneLoadKeeps

LEMMA RecentExpiresKeeps == ASSUME IInv, NEW g \in Games, RecentExpires(g) PROVE IInv'
<1>1. /\ recent' = recent \ {g}
      /\ UNCHANGED <<clientVars, active, roster, phase, clients, loading, finished, outcome,
                     callerVars, own, subs, got, dbVars>>
  BY DEF RecentExpires
<1>2. TypeOK'
  BY <1>1 DEF IInv, TypeOK, clientVars, callerVars, dbVars
<1>3. \A h \in Games : SameLoad(h)
  BY <1>1 DEF SameLoad, dbVars
<1> QED
  BY <1>1, <1>2, <1>3, OthersKeep DEF IInv, LoadedByAll

LEMMA ReportErrorKeeps ==
    ASSUME IInv, NEW g \in Games, NEW p \in Players, ReportError(g, p) PROVE IInv'
<1> DEFINE why == Error("player", {p})
<1>1. why \in Outcomes /\ why.code \in Codes /\ why.blamed \subseteq roster[g]
  BY ErrorFacts DEF Codes, ReportError
<1>2. CancelAll(subs, subs, got, {g}, [h \in Games |-> why]) /\ clientsUnchanged
      /\ MayMove(g)
  BY DEF MayMove, ReportError, Cancel, CancelWith, clientsUnchanged
<1> HIDE DEF why
<1>4. got \in GotType /\ GoodSubs(subs) /\ GoodSent(got)
  BY Present
<1> QED
  BY <1>1, <1>2, <1>4, CancelKeeps

LEMMA DeadlineKeeps == ASSUME IInv, NEW g \in Games, Deadline(g) PROVE IInv'
<1> DEFINE why == Error("timeout", Unloaded(g))
<1>1. Unloaded(g) \in SUBSET roster[g]
  BY DEF Unloaded
<1>2. why \in Outcomes /\ why.code \in Codes /\ why.blamed \subseteq roster[g]
  BY <1>1, ErrorFacts DEF Codes
<1>3. CancelAll(subs, subs, got, {g}, [h \in Games |-> why]) /\ clientsUnchanged
      /\ MayMove(g)
  BY DEF MayMove, Deadline, Cancel, CancelWith, clientsUnchanged
<1> HIDE DEF why
<1>4. got \in GotType /\ GoodSubs(subs) /\ GoodSent(got)
  BY Present
<1> QED
  BY <1>2, <1>3, <1>4, CancelKeeps

-----------------------------------------------------------------------------
LEMMA Initially == Init => IInv
<1> SUFFICES ASSUME Init PROVE IInv
  OBVIOUS
<1>1. 1 \in 0..MaxConns /\ 1 \in 1..MaxConns /\ NoClient \in 0..MaxConns
  BY FlagsAssumption DEF NoClient
<1>2. Unset \in Outcomes /\ Unset.blamed = {} /\ Unset.code = "none" /\ Unset # Loaded
  BY DEF Unset, Outcomes, Loaded
<1>3. <<>> \in Seq(Messages) /\ "idle" \in Phases
  BY DEF Phases
<1>4. TypeOK
  BY <1>1, <1>2, <1>3 DEF Init, TypeOK, Nobody
<1>5. \A g \in Games : LoadInv(g)
  <2> TAKE g \in Games
  <2>1. \A p \in Players : Heard(g, p) = {}
    <3>1. \A p \in Players : got[g][p] = <<>>
      BY DEF Init
    <3> QED
      BY <3>1 DEF Heard, Range
  <2>2. outcome[g] = Unset /\ phase[g] = "idle" /\ roster[g] = {} /\ loading = {} /\ subs = {}
    BY DEF Init
  <2> QED
    BY <1>2, <2>1, <2>2 DEF LoadInv, LoadingInv, KnownInv, ClientsInv, Early
<1>6. LoadedByAll
  BY <1>2 DEF Init, LoadedByAll
<1> QED
  BY <1>4, <1>5, <1>6 DEF IInv

LEMMA StutterKeeps == ASSUME IInv, UNCHANGED vars PROVE IInv'
<1>1. TypeOK'
  BY DEF IInv, TypeOK, vars, clientVars, loadVars, callerVars, dbVars
<1>2. \A h \in Games : SameLoad(h)
  BY DEF SameLoad, vars, loadVars, dbVars
<1> QED
  BY <1>1, <1>2, OthersKeep DEF vars, IInv, LoadedByAll

LEMMA StepKeeps == IInv /\ [Next]_vars => IInv'
<1> SUFFICES ASSUME IInv, [Next]_vars PROVE IInv'
  OBVIOUS
<1>1. ASSUME NEW p \in Players, ClientStep(p) PROVE IInv'
  BY <1>1, ConnectKeeps, JoinKeeps, LeaveKeeps, DisconnectKeeps DEF ClientStep
<1>2. ASSUME NEW g \in Games, NEW R \in SUBSET Players, LoadGame(g, R) PROVE IInv'
  BY <1>2, LoadGameKeeps
<1>3. ASSUME NEW g \in Games, LoadStep(g) PROVE IInv'
  BY <1>3, RegisteredKeeps, UsersFoundKeeps, ConfigWrittenKeeps, MapFoundKeeps,
     ConfigureKeeps, SessionCreatedKeeps, SessionStoredKeeps DEF LoadStep
<1>4. ASSUME NEW g \in Games, NEW p \in Players, Report(g, p) \/ ReportError(g, p) PROVE IInv'
  BY <1>4, ReportKeeps, ReportErrorKeeps
<1>5. ASSUME NEW g \in Games, Deadline(g) \/ RecentExpires(g) PROVE IInv'
  BY <1>5, DeadlineKeeps, RecentExpiresKeeps
<1>6. CASE UNCHANGED vars
  BY <1>6, StutterKeeps
<1> QED
  BY <1>1, <1>2, <1>3, <1>4, <1>5, <1>6 DEF Next

(* The inductive invariant, from which the theorems follow.                  *)
THEOREM Invariant == Spec => []IInv
<1>1. Init => IInv
  BY Initially
<1>2. IInv /\ [Next]_vars => IInv'
  BY StepKeeps
<1> QED
  BY <1>1, <1>2, PTL DEF Spec

(* The loader, its callers and its clients keep the types of their state.     *)
THEOREM TypeCorrect == Spec => []TypeOK
<1>1. IInv => TypeOK
  BY DEF IInv
<1> QED
  BY <1>1, Invariant, PTL

(* A game counts as loaded only if all of its players reported it, none of    *)
(* them was told of a cancellation, and its records and config are stored.    *)
THEOREM OnlyLoadedByAll == Spec => []LoadedByAll
<1>1. IInv => LoadedByAll
  BY DEF IInv
<1> QED
  BY <1>1, Invariant, PTL

-----------------------------------------------------------------------------
(* GameLoader implements LoadPromise.                                       *)

Answers == [g \in Games |-> Answer(g)]

Stutters == UNCHANGED <<roster, finished, outcome>>

PromiseStep == Promise!Next \/ UNCHANGED <<roster, finished, Answers>>

LEMMA StutterPromise == ASSUME Stutters PROVE PromiseStep
BY DEF Stutters, PromiseStep, Answers, Answer

(* Only loads that are pending fail.                                        *)
LEMMA FailPromise ==
    ASSUME IInv, NEW H \in SUBSET Games, \A g \in H : outcome[g].code = "pending",
           \A g \in H : outcome'[g].code \in Codes,
           \A g \in Games \ H : outcome'[g] = outcome[g], UNCHANGED <<roster, finished>>
    PROVE  PromiseStep
<1>1. \A g \in H : Answer(g) = "pending" /\ Answer(g)' = "failed"
  BY DEF Answer, Codes
<1>2. \A g \in Games \ H : Answer(g)' = Answer(g)
  BY DEF Answer
<1>3. Promise!Fail(H)
  BY <1>1, <1>2 DEF Promise!Fail
<1> QED
  BY <1>3 DEF PromiseStep, Promise!Next

LEMMA CancelPromise ==
    ASSUME IInv, NEW s, NEW told, NEW sent, NEW G \in SUBSET Games, NEW why,
           CancelAll(s, told, sent, G, why), \A g \in Games : why[g].code \in Codes,
           UNCHANGED roster
    PROVE  PromiseStep
<1> DEFINE H == G \intersect loading
<1>1. outcome' = [g \in Games |-> IF g \in H THEN why[g] ELSE outcome[g]] /\ finished' = finished
  BY DEF CancelAll, Hit
<1>2. \A g \in H : outcome[g].code = "pending"
  BY DEF IInv, LoadInv, LoadingInv
<1> QED
  BY <1>1, <1>2, FailPromise

LEMMA ErrorCode ==
    ASSUME NEW c, NEW B
    PROVE  Error(c, B).code = c
BY DEF Error

LEMMA CancelOnePromise ==
    ASSUME IInv, NEW g \in Games, NEW s, NEW told, NEW sent, NEW why,
           CancelAll(s, told, sent, {g}, [h \in Games |-> why]), why.code \in Codes,
           UNCHANGED roster
    PROVE  PromiseStep
<1> DEFINE all == [h \in Games |-> why]
<1>1. CancelAll(s, told, sent, {g}, all) /\ \A h \in Games : all[h].code \in Codes
  OBVIOUS
<1> HIDE DEF all
<1> QED
  BY <1>1, CancelPromise

LEMMA FailsPromise ==
    ASSUME IInv, NEW g \in Games, NEW code \in Codes, Fails(g, Error(code, {})), UNCHANGED roster
    PROVE  PromiseStep
<1> DEFINE why == Error(code, {})
<1>1. why.code \in Codes
  BY ErrorCode
<1>2. CancelAll(subs, subs, got, {g}, [h \in Games |-> why])
  BY DEF Fails, Cancel, CancelWith
<1> HIDE DEF why
<1> QED
  BY <1>1, <1>2, CancelOnePromise

LEMMA ClientPromise ==
    ASSUME IInv, NEW p \in Players, ClientStep(p) PROVE PromiseStep
<1>1. CASE Connect(p) \/ Join(p) \/ Leave(p)
  BY <1>1, StutterPromise DEF Connect, Join, Leave, Stutters, loadVars
<1>2. CASE Disconnect(p)
  <2> DEFINE G    == {g \in Games : <<g, p, client[p]>> \in subs}
             rest == {t \in subs : t[2] # p}
             sent == [g \in Games |-> [got[g] EXCEPT ![p] = <<>>]]
             why  == [g \in Games |-> Error("player", {p})]
  <2>1. CancelAll(rest, rest, sent, G, why) /\ UNCHANGED roster /\ G \in SUBSET Games
    BY <1>2 DEF Disconnect
  <2>2. \A g \in Games : why[g].code \in Codes
    BY ErrorCode DEF Codes
  <2> HIDE DEF G, rest, sent, why
  <2> QED
    BY <2>1, <2>2, CancelPromise
<1> QED
  BY <1>1, <1>2 DEF ClientStep

LEMMA RequestPromise ==
    ASSUME IInv, NEW g \in Games, NEW R \in SUBSET Players, LoadGame(g, R) PROVE PromiseStep
<1>1. /\ outcome[g] = Unset /\ outcome' = [outcome EXCEPT ![g] = Pending] /\ R # {}
      /\ roster' = [roster EXCEPT ![g] = R] /\ finished' = finished /\ DOMAIN outcome = Games
  BY DEF LoadGame, IInv, TypeOK
<1>2. Answer(g) = "none" /\ Answer(g)' = "pending"
  BY <1>1 DEF Answer, Unset, Pending, Codes
<1>3. \A h \in Games \ {g} : Answer(h)' = Answer(h)
  BY <1>1 DEF Answer
<1>4. Promise!Request(g, R)
  BY <1>1, <1>2, <1>3 DEF Promise!Request
<1> QED
  BY <1>4 DEF PromiseStep, Promise!Next

LEMMA ReportPromise ==
    ASSUME IInv, NEW g \in Games, NEW p \in Players, Report(g, p) PROVE PromiseStep
<1> DEFINE done == finished[g] \union {p}
<1>1. /\ g \in loading /\ p \in roster[g] /\ finished' = [finished EXCEPT ![g] = done]
      /\ roster' = roster /\ DOMAIN outcome = Games /\ finished[g] \subseteq roster[g]
      /\ outcome[g].code = "pending"
  BY DEF Report, IInv, TypeOK, LoadInv, LoadingInv
<1>2. Answer(g) = "pending"
  BY <1>1 DEF Answer, Codes
<1>3. Answer(g)' = (IF done = roster[g] THEN "loaded" ELSE Answer(g))
  <2>1. CASE AllFinished(g, done)
    <3>1. outcome'[g] = Loaded /\ done = roster[g]
      BY <1>1, <2>1 DEF Report, AllFinished
    <3> QED
      BY <3>1 DEF Answer, Loaded, Codes
  <2>2. CASE ~AllFinished(g, done)
    BY <2>2 DEF Report, AllFinished, Answer
  <2> QED
    BY <2>1, <2>2
<1>4. \A h \in Games \ {g} : Answer(h)' = Answer(h)
  BY <1>1 DEF Report, Answer
<1>5. Promise!Reported(g, p)
  BY <1>1, <1>2, <1>3, <1>4 DEF Promise!Reported
<1> QED
  BY <1>5 DEF PromiseStep, Promise!Next

LEMMA RegisterPromise ==
    ASSUME IInv, NEW g \in Games, Registered(g) PROVE PromiseStep
<1>1. /\ outcome[g].code = "pending" /\ DOMAIN outcome = Games /\ UNCHANGED <<roster, finished>>
  BY DEF Registered, IInv, TypeOK, LoadInv, LoadingInv, gameOnlyUnchanged
<1>2. ASSUME NEW why, outcome' = [outcome EXCEPT ![g] = why], why.code \in Codes
      PROVE  PromiseStep
  <2>1. \A h \in {g} : outcome'[h].code \in Codes
    BY <1>1, <1>2
  <2>2. \A h \in Games \ {g} : outcome'[h] = outcome[h]
    BY <1>1, <1>2
  <2> QED
    BY <1>1, <2>1, <2>2, FailPromise
<1>3. CASE outcome' = outcome
  BY <1>1, <1>3, StutterPromise DEF Stutters
<1> QED
  BY <1>2, <1>3, ErrorCode DEF Registered, Codes

LEMMA LoadPromiseStep ==
    ASSUME IInv, NEW g \in Games, LoadStep(g) PROVE PromiseStep
<1>1. CASE UsersFound(g)
  <2>1. UNCHANGED roster /\ Error("internal", {}).code \in Codes
        /\ \A p : Error("player", {p}).code \in Codes
    BY <1>1, ErrorCode DEF UsersFound, gameOnlyUnchanged, Codes
  <2> QED
    <3> DEFINE live == {<<g, p, clients[g][p]>> :
                           p \in {q \in roster[g] : clients[g][q] = client[q]}}
               all  == subs \union live
    <3>1. CASE Fails(g, Error("internal", {}))
      BY <2>1, <3>1, FailsPromise DEF Codes
    <3>2. CASE UNCHANGED loadVars
      BY <2>1, <3>2, StutterPromise DEF Stutters, loadVars
    <3>3. CASE CancelWith(all, g, Error("internal", {}))
      <4> HIDE DEF all
      <4> QED
        BY <2>1, <3>3, CancelOnePromise DEF CancelWith
    <3>4. ASSUME NEW p, NEW told,
                 CancelAll(all, told, got, {g}, [h \in Games |-> Error("player", {p})])
          PROVE  PromiseStep
      <4> HIDE DEF all
      <4> QED
        BY <2>1, <3>4, CancelOnePromise
    <3> QED
      BY <1>1, <3>1, <3>2, <3>3, <3>4 DEF UsersFound
<1>2. CASE ConfigWritten(g) \/ MapFound(g) \/ SessionCreated(g)
  BY <1>2, FailsPromise, StutterPromise
     DEF ConfigWritten, MapFound, SessionCreated, Stutters, loadVars, Codes, gameOnlyUnchanged
<1>3. ASSUME NEW sent, FinalCheck(g, sent), UNCHANGED roster
      PROVE  PromiseStep
  <2>1. CASE Aborted(g)
    <3>1. Error("canceled", {}).code \in Codes
      BY ErrorCode DEF Codes
    <3> QED
      BY <1>3, <2>1, <3>1, CancelOnePromise DEF FinalCheck
  <2>2. CASE ~Aborted(g)
    BY <1>3, <2>2, StutterPromise DEF FinalCheck, Stutters, loadVars
  <2> QED
    BY <2>1, <2>2
<1>4. CASE Configure(g)
  BY <1>3, <1>4, StutterPromise DEF Configure, Stutters, loadVars, gameOnlyUnchanged
<1>5. CASE SessionStored(g)
  BY <1>3, <1>5, FailsPromise DEF SessionStored, gameOnlyUnchanged, Codes
<1> QED
  BY <1>1, <1>2, <1>4, <1>5, RegisterPromise DEF LoadStep

LEMMA StepPromise == IInv /\ [Next]_vars => PromiseStep
<1> SUFFICES ASSUME IInv, [Next]_vars PROVE PromiseStep
  OBVIOUS
<1>1. ASSUME NEW g \in Games, NEW p \in Players, ReportError(g, p) PROVE PromiseStep
  <2>1. Error("player", {p}).code \in Codes
    BY ErrorCode DEF Codes
  <2> QED
    BY <1>1, <2>1, CancelOnePromise DEF ReportError, Cancel, CancelWith
<1>2. ASSUME NEW g \in Games, Deadline(g) PROVE PromiseStep
  <2>1. Error("timeout", Unloaded(g)).code \in Codes
    BY ErrorCode DEF Codes
  <2> QED
    BY <1>2, <2>1, CancelOnePromise DEF Deadline, Cancel, CancelWith
<1>3. ASSUME NEW g \in Games, RecentExpires(g) PROVE PromiseStep
  BY <1>3, StutterPromise DEF RecentExpires, Stutters
<1>4. CASE UNCHANGED vars
  BY <1>4, StutterPromise DEF vars, loadVars, Stutters
<1> QED
  BY <1>1, <1>2, <1>3, <1>4, ClientPromise, RequestPromise, ReportPromise, LoadPromiseStep DEF Next

LEMMA InitPromise == Init => Promise!Init
BY DEF Init, Promise!Init, Answer, Unset, Codes

(* The loader keeps its promise: every request has one answer that stays, and *)
(* it is "loaded" if and only if its players all reported in time.           *)
THEOREM KeepsPromise == Spec => KeepsLoadPromise
<1>1. IInv /\ [Next]_vars => [Promise!Next]_Promise!promiseVars
  BY StepPromise DEF PromiseStep, Answers, Promise!promiseVars
<1> QED
  BY <1>1, Invariant, InitPromise, PTL DEF Spec, KeepsLoadPromise, Promise!Spec

-----------------------------------------------------------------------------
(* StartersAreTold and SubscriptionsEnd.                                    *)

(* What the clients of a load have been told, and who is still subscribed.    *)
Over(g) == outcome[g].code \notin {"none", "pending"}

(* Nobody subscribes before the users are found, and nothing is published       *)
(* before the config is written; a load that ends before has its signal         *)
(* aborted.                                                                 *)
BeforeInv(g) ==
    /\ outcome[g].code = "pending" => outcome[g] = Pending
    /\ phase[g] \in Early \union {"users"} => \A p \in Players : p \notin Subscribers(subs, g)
    /\ phase[g] \in Early \union {"users"} \/ (phase[g] \in {"config", "map"} /\ ~Over(g))
         => \A p \in Players : got[g][p] = <<>>
    /\ phase[g] \in {"users", "config", "map"} /\ Over(g) => g \in own
    /\ QuickLookups /\ phase[g] = "users" => g \in loading

(* While the load is pending, whoever heard of it and did not walk out can be  *)
(* told of its end, and the registry knows their client.                     *)
DuringInv(g) ==
    ~Over(g) =>
      /\ \A p \in Players : got[g][p] # <<>> /\ <<g, p>> \notin quit => p \in Subscribers(subs, g)
      /\ \A p \in Players, c \in 1..MaxConns :
            <<g, p, c>> \in subs /\ <<g, p>> \notin quit => active[p] = c
      /\ phase[g] = "users" =>
            \A p \in roster[g] : <<g, p>> \notin quit => clients[g][p] = active[p]

(* Once it is over, doGameLoad publishes only to those who walked out.        *)
AfterInv(g) ==
    Over(g) =>
      /\ QuickLookups \/ phase[g] \in {"restrict", "session", "store"}
           => \A p \in Players : p \in Subscribers(subs, g) => <<g, p>> \in quit
      /\ outcome[g].code \in Codes =>
            \A p \in Players : got[g][p] # <<>> /\ <<g, p>> \notin quit
                                 => got[g][p][Len(got[g][p])] = "cancel"

Tell(g) == BeforeInv(g) /\ DuringInv(g) /\ AfterInv(g)
TellInv == \A g \in Games : Tell(g)

LEMMA SubscriberIs ==
    ASSUME NEW s, NEW g, NEW p \in Players
    PROVE  p \in Subscribers(s, g) <=> \E c \in 1..MaxConns : <<g, p, c>> \in s
BY DEF Subscribers

(* A step that does nothing to the load g itself.                            *)
LEMMA CalmTells ==
    ASSUME IInv, TellInv, NEW g \in Games,
           outcome'[g] = outcome[g], phase'[g] = phase[g], clients'[g] = clients[g],
           roster'[g] = roster[g], g \in loading => g \in loading', g \in own => g \in own',
           quit \subseteq quit',
           \A q \in Players : got'[g][q] = got[g][q] \/ got'[g][q] = <<>>,
           \A q \in Players, c \in 1..MaxConns : <<g, q, c>> \in subs' => <<g, q, c>> \in subs,
           \A q \in Players : got'[g][q] # <<>> /\ <<g, q>> \notin quit'
              /\ q \in Subscribers(subs, g) => q \in Subscribers(subs', g),
           \A q \in roster[g] : outcome[g].code = "pending" /\ <<g, q>> \notin quit'
              => active'[q] = active[q] \/ active[q] = NoClient
    PROVE  Tell(g)'
<1>1. Tell(g) /\ LoadInv(g) /\ roster[g] \subseteq Players
  BY DEF TellInv, IInv, TypeOK
<1>2. Over(g)' <=> Over(g)
  BY DEF Over
<1>3. \A q \in Players : q \in Subscribers(subs, g)' => q \in Subscribers(subs, g)
  BY SubscriberIs
<1>4. BeforeInv(g)'
  BY <1>1, <1>2, <1>3 DEF Tell, BeforeInv
<1>5. DuringInv(g)'
  <2> SUFFICES ASSUME ~Over(g) PROVE DuringInv(g)'
    BY <1>2 DEF DuringInv
  <2>1. \A q \in Players : got'[g][q] # <<>> /\ <<g, q>> \notin quit'
          => q \in Subscribers(subs, g)'
    BY <1>1, SubscriberIs DEF Tell, DuringInv
  <2>2. ASSUME NEW q \in Players, NEW c \in 1..MaxConns, <<g, q, c>> \in subs',
               <<g, q>> \notin quit'
        PROVE  active'[q] = c
    <3>1. active[q] = c /\ q \in roster[g] /\ q \in Subscribers(subs, g)
      BY <1>1, <2>2, SubscriberIs DEF Tell, DuringInv, LoadInv, ClientsInv
    <3>2. outcome[g].code = "pending"
      BY <1>1, <3>1 DEF Over, LoadInv, LoadingInv, Unset, IInv, TypeOK
    <3>3. active[q] # NoClient
      BY <3>1, FlagsAssumption DEF NoClient
    <3> QED
      BY <2>2, <3>1, <3>2, <3>3
  <2>3. ASSUME phase'[g] = "users", NEW q \in roster[g], <<g, q>> \notin quit'
        PROVE  clients'[g][q] = active'[q]
    <3>1. clients[g][q] = active[q] /\ clients[g][q] # NoClient
      BY <1>1, <2>3 DEF Tell, DuringInv, LoadInv, ClientsInv
    <3>2. outcome[g].code = "pending"
      BY <1>1, <2>3 DEF Over, LoadInv, LoadingInv
    <3> QED
      BY <2>3, <3>1, <3>2
  <2> QED
    BY <2>1, <2>2, <2>3 DEF DuringInv
<1>6. AfterInv(g)'
  BY <1>1, <1>2, <1>3 DEF Tell, AfterInv
<1> QED
  BY <1>4, <1>5, <1>6 DEF Tell

(* A load that another step leaves alone.                                    *)
LEMMA OtherTells ==
    ASSUME IInv, TellInv, NEW h \in Games, SameLoad(h), own \subseteq own',
           \A q \in Players, c \in 1..MaxConns : <<h, q, c>> \in subs' <=> <<h, q, c>> \in subs,
           UNCHANGED <<active, quit>>
    PROVE  Tell(h)'
<1>1. \A q \in Players : q \in Subscribers(subs, h)' <=> q \in Subscribers(subs, h)
  BY SubscriberIs
<1> QED
  BY <1>1, CalmTells DEF SameLoad

-----------------------------------------------------------------------------
(* What a cancellation of the loads of G makes of one of them, and of the     *)
(* others.                                                                  *)
IsCancelled(g, s, told, sent, why) ==
    /\ outcome'[g] = why /\ g \in own'
    /\ \A p \in Players :
          /\ p \in Subscribers(told, g)
               => got'[g][p] # <<>> /\ got'[g][p][Len(got'[g][p])] = "cancel"
          /\ p \notin Subscribers(told, g) => got'[g][p] = sent[g][p]
    /\ \A p \in Players, c \in 1..MaxConns :
          <<g, p, c>> \in subs' => <<g, p, c>> \in s /\ active[p] # c

LEMMA CancelHits ==
    ASSUME IInv, NEW s, NEW told, NEW sent \in GotType, NEW G \in SUBSET Games, NEW why,
           CancelAll(s, told, sent, G, why), NEW g \in G \intersect loading
    PROVE  IsCancelled(g, s, told, sent, why[g])
<1> DEFINE new == Publish(sent, g, Subscribers(told, g), "cancel")[g]
<1> DEFINE all == [h \in Games |-> IF h \in G \intersect loading
                                     THEN Publish(sent, h, Subscribers(told, h), "cancel")[h]
                                     ELSE sent[h]]
<1>1. /\ outcome'[g] = why[g] /\ g \in own' /\ g \in Games
      /\ subs' = Unsubscribed(s, G \intersect loading)
  BY DEF CancelAll, Hit
<1>2. got'[g] = new
  <2>1. got' = all
    BY DEF CancelAll, Hit
  <2>2. all[g] = new
    BY <1>1
  <2> QED
    BY <2>1, <2>2
<1>3. new = [p \in Players |-> IF p \in Subscribers(told, g) THEN Append(sent[g][p], "cancel")
                                                             ELSE sent[g][p]]
  BY <1>1 DEF Publish, GotType
<1>4. ASSUME NEW q \in Seq(Messages)
      PROVE  Append(q, "cancel") # <<>> /\ Append(q, "cancel")[Len(Append(q, "cancel"))] = "cancel"
  <2>1. Len(q) \in Nat /\ Len(Append(q, "cancel")) = Len(q) + 1
        /\ Append(q, "cancel")[Len(q) + 1] = "cancel"
    OBVIOUS
  <2> HIDE DEF new
  <2>2. Len(<<>>) = 0 /\ Len(q) + 1 # 0
    BY <2>1
  <2> QED
    BY <2>1, <2>2
<1>5. \A p \in Players : sent[g][p] \in Seq(Messages)
  BY <1>1 DEF GotType
<1>6. \A p \in Players, c \in 1..MaxConns :
         <<g, p, c>> \in subs' => <<g, p, c>> \in s /\ active[p] # c
  BY <1>1 DEF Unsubscribed
<1> HIDE DEF new
<1>7. ASSUME NEW p \in Players
      PROVE  /\ p \in Subscribers(told, g)
                  => got'[g][p] # <<>> /\ got'[g][p][Len(got'[g][p])] = "cancel"
             /\ p \notin Subscribers(told, g) => got'[g][p] = sent[g][p]
  <2>1. CASE p \in Subscribers(told, g)
    <3>1. got'[g][p] = Append(sent[g][p], "cancel")
      BY <1>2, <1>3, <2>1
    <3> QED
      BY <1>4, <1>5, <2>1, <3>1
  <2>2. CASE p \notin Subscribers(told, g)
    BY <1>2, <1>3, <2>2
  <2> QED
    BY <2>1, <2>2
<1> QED
  BY <1>1, <1>6, <1>7 DEF IsCancelled

IsMissed(g, s, sent) ==
    /\ outcome'[g] = outcome[g] /\ got'[g] = sent[g] /\ finished'[g] = finished[g]
    /\ (g \in loading' <=> g \in loading) /\ (g \in records' <=> g \in records)
    /\ (g \in configured' <=> g \in configured) /\ own \subseteq own'
    /\ \A p \in Players, c \in 1..MaxConns : <<g, p, c>> \in subs' <=> <<g, p, c>> \in s

LEMMA CancelMisses ==
    ASSUME IInv, NEW s, NEW told, NEW sent \in GotType, NEW G \in SUBSET Games, NEW why,
           CancelAll(s, told, sent, G, why), NEW g \in Games, g \notin G \intersect loading
    PROVE  IsMissed(g, s, sent)
BY DEF CancelAll, Hit, Unsubscribed, IsMissed

(* The load g is cancelled.                                                  *)
LEMMA HitTells ==
    ASSUME IInv, TellInv, NEW s, NEW told, NEW sent \in GotType, NEW G \in SUBSET Games,
           NEW why, CancelAll(s, told, sent, G, why), NEW g \in G \intersect loading,
           why[g].code \in Codes, quit \subseteq quit',
           \A p \in Players, c \in 1..MaxConns :
              <<g, p, c>> \in s /\ <<g, p>> \notin quit' => active[p] = c,
           \A p \in Players : sent[g][p] # <<>> /\ <<g, p>> \notin quit'
              => p \in Subscribers(told, g),
           phase'[g] \notin Early,
           phase'[g] = "users" => /\ ~QuickLookups
                                  /\ \A p \in Players : /\ p \notin Subscribers(s, g)
                                                        /\ p \notin Subscribers(told, g)
                                                        /\ sent[g][p] = <<>>
    PROVE  Tell(g)'
<1>1. IsCancelled(g, s, told, sent, why[g])
  BY CancelHits
<1>2. Over(g)' /\ outcome'[g].code # "pending"
  BY <1>1 DEF Over, Codes, IsCancelled
<1>3. \A p \in Players : p \in Subscribers(subs, g)' => p \in Subscribers(s, g)
  BY <1>1, SubscriberIs DEF IsCancelled
<1>4. BeforeInv(g)'
  BY <1>1, <1>2, <1>3 DEF BeforeInv, IsCancelled
<1>5. \A p \in Players : p \in Subscribers(subs, g)' => <<g, p>> \in quit'
  BY <1>1, SubscriberIs DEF IsCancelled
<1>6. \A p \in Players : got'[g][p] # <<>> /\ <<g, p>> \notin quit'
                           => got'[g][p][Len(got'[g][p])] = "cancel"
  BY <1>1 DEF IsCancelled
<1> QED
  BY <1>2, <1>4, <1>5, <1>6 DEF Tell, DuringInv, AfterInv

(* A step of doGameLoad that goes on, whether the load is pending or not, and  *)
(* has its clients hear sent and the subscriptions s.                         *)
LEMMA MissTells ==
    ASSUME IInv, TellInv, NEW g \in Games, outcome'[g] = outcome[g], own \subseteq own',
           \A p \in Players : got'[g][p] # <<>> /\ <<g, p>> \notin quit
              => IF Over(g) THEN outcome[g].code \in Codes => got'[g][p][Len(got'[g][p])] = "cancel"
                            ELSE p \in Subscribers(subs', g),
           \A p \in Players, c \in 1..MaxConns :
              <<g, p, c>> \in subs' /\ <<g, p>> \notin quit
                 => IF Over(g) THEN ~QuickLookups ELSE active[p] = c,
           phase'[g] \notin Early \union {"users"},
           phase'[g] \in {"restrict", "session", "store"} /\ Over(g)
              => \A p \in Players : p \in Subscribers(subs', g) => <<g, p>> \in quit,
           phase'[g] \in {"config", "map"}
              => phase[g] \in {"users", "config", "map"} /\ got'[g] = got[g],
           UNCHANGED <<active, quit>>
    PROVE  Tell(g)'
<1>1. Tell(g) /\ (Over(g)' <=> Over(g))
  BY DEF TellInv, Over
<1>2. BeforeInv(g)'
  BY <1>1 DEF Tell, BeforeInv, Early
<1>3. DuringInv(g)'
  BY <1>1 DEF DuringInv
<1>4. AfterInv(g)'
  <2>1. ASSUME QuickLookups, Over(g), NEW p \in Players, p \in Subscribers(subs', g)
        PROVE  <<g, p>> \in quit
    BY <2>1, SubscriberIs
  <2> QED
    BY <1>1, <2>1 DEF AfterInv
<1> QED
  BY <1>2, <1>3, <1>4 DEF Tell

-----------------------------------------------------------------------------
(* The steps of the callers and the clients.                                 *)
LEMMA ConnectTells == ASSUME IInv, TellInv, NEW p \in Players, Connect(p) PROVE TellInv'
<1>1. \A h \in Games : SameLoad(h)
  BY DEF Connect, SameLoad, loadVars, dbVars
<1> QED
  BY <1>1, OtherTells DEF TellInv, Connect, callerVars

LEMMA JoinTells == ASSUME IInv, TellInv, NEW p \in Players, Join(p) PROVE TellInv'
<1> SUFFICES ASSUME NEW g \in Games PROVE Tell(g)'
  BY DEF TellInv
<1>1. UNCHANGED <<roster, phase, clients, loadVars, callerVars, own, subs, got>>
      /\ active[p] = NoClient /\ active' = [active EXCEPT ![p] = client[p]]
  BY DEF Join
<1>2. \A q \in roster[g] : active'[q] = active[q] \/ active[q] = NoClient
  <2>1. active \in [Players -> 0..MaxConns] /\ roster[g] \subseteq Players
    BY DEF IInv, TypeOK
  <2> QED
    BY <1>1, <2>1
<1> QED
  BY <1>1, <1>2, CalmTells DEF loadVars, callerVars

(* Who quits takes themselves out of the loads that are pending.              *)
LEMMA QuitsFacts ==
    ASSUME IInv, TellInv, NEW p \in Players, Quits(p), NEW g \in Games
    PROVE  /\ quit \subseteq quit' /\ \A q \in Players \ {p} : active'[q] = active[q]
           /\ outcome[g].code = "pending" /\ p \in roster[g] => <<g, p>> \in quit'
<1>1. active \in [Players -> 0..MaxConns] /\ (outcome[g].code = "pending" => outcome[g] = Pending)
  BY DEF IInv, TypeOK, TellInv, Tell, BeforeInv
<1> QED
  BY <1>1 DEF Quits, LoadsOf

LEMMA LeaveTells == ASSUME IInv, TellInv, NEW p \in Players, Leave(p) PROVE TellInv'
<1> SUFFICES ASSUME NEW g \in Games PROVE Tell(g)'
  BY DEF TellInv
<1>1. UNCHANGED <<roster, phase, clients, loadVars, own, subs, got>> /\ Quits(p)
  BY DEF Leave
<1>2. roster[g] \subseteq Players
  BY DEF IInv, TypeOK
<1> QED
  BY <1>1, <1>2, QuitsFacts, CalmTells DEF loadVars

LEMMA DisconnectTells == ASSUME IInv, TellInv, NEW p \in Players, Disconnect(p) PROVE TellInv'
<1> DEFINE G    == {g \in Games : <<g, p, client[p]>> \in subs}
           rest == {t \in subs : t[2] # p}
           sent == [g \in Games |-> [got[g] EXCEPT ![p] = <<>>]]
           why  == [g \in Games |-> Error("player", {p})]
<1> SUFFICES ASSUME NEW g \in Games PROVE Tell(g)'
  BY DEF TellInv
<1>1. CancelAll(rest, rest, sent, G, why) /\ Quits(p) /\ UNCHANGED <<conns, roster, phase, clients>>
  BY DEF Disconnect
<1>2. sent \in GotType
  BY Present DEF GotType
<1>3. /\ roster[g] \subseteq Players /\ LoadInv(g) /\ Tell(g) /\ subs \subseteq Games \X Players \X (1..MaxConns)
  BY DEF IInv, TypeOK, TellInv
<1>4. \A q \in Players : /\ q = p => sent[g][q] = <<>>
                         /\ q # p => sent[g][q] = got[g][q]
  BY Present DEF GotType
<1>5. \A q \in Players, c \in 1..MaxConns :
         <<g, q, c>> \in rest <=> q # p /\ <<g, q, c>> \in subs
  BY <1>3
<1>6. \A q \in Players : q \in Subscribers(rest, g) <=> q # p /\ q \in Subscribers(subs, g)
  BY <1>5, SubscriberIs
<1>7. why[g].code \in Codes
  BY DEF Error, Codes
<1>8. G \in SUBSET Games
  OBVIOUS
<1>9. /\ quit \subseteq quit' /\ \A q \in Players \ {p} : active'[q] = active[q]
      /\ outcome[g].code = "pending" /\ p \in roster[g] => <<g, p>> \in quit'
  BY <1>1, QuitsFacts
<1>10. g \in G => \E c \in 1..MaxConns : <<g, p, c>> \in subs
  BY <1>3
<1> HIDE DEF G, rest, sent, why
<1>11. CASE g \in G \intersect loading
  <2>1. ~Over(g) /\ phase[g] \notin Early
    BY <1>3, <1>11 DEF LoadInv, LoadingInv, Over
  <2>2. p \in Subscribers(subs, g)
    BY <1>10, <1>11, SubscriberIs
  <2>3. phase[g] # "users"
    BY <1>3, <2>2 DEF Tell, BeforeInv
  <2>4. \A q \in Players, c \in 1..MaxConns :
           <<g, q, c>> \in rest /\ <<g, q>> \notin quit' => active[q] = c
    BY <1>3, <1>5, <1>9, <2>1 DEF Tell, DuringInv
  <2>5. \A q \in Players : sent[g][q] # <<>> /\ <<g, q>> \notin quit' => q \in Subscribers(rest, g)
    BY <1>3, <1>4, <1>6, <1>9, <2>1 DEF Tell, DuringInv
  <2> QED
    BY <1>1, <1>2, <1>7, <1>8, <1>9, <1>11, <2>1, <2>3, <2>4, <2>5, HitTells
<1>12. CASE g \notin G \intersect loading
  <2>0. IsMissed(g, rest, sent)
    BY <1>1, <1>2, <1>8, <1>12, CancelMisses
  <2>1. /\ outcome'[g] = outcome[g] /\ got'[g] = sent[g] /\ own \subseteq own'
        /\ (g \in loading' <=> g \in loading)
        /\ \A q \in Players, c \in 1..MaxConns : <<g, q, c>> \in subs' <=> <<g, q, c>> \in rest
    BY <2>0 DEF IsMissed
  <2>2. \A q \in Players : got'[g][q] = got[g][q] \/ got'[g][q] = <<>>
    BY <1>4, <2>1
  <2>3. \A q \in Players, c \in 1..MaxConns : <<g, q, c>> \in subs' => <<g, q, c>> \in subs
    BY <1>5, <2>1
  <2>4. \A q \in Players : got'[g][q] # <<>> /\ <<g, q>> \notin quit'
              /\ q \in Subscribers(subs, g) => q \in Subscribers(subs', g)
    BY <1>4, <1>5, <2>1, SubscriberIs
  <2>5. \A q \in roster[g] : outcome[g].code = "pending" /\ <<g, q>> \notin quit'
              => active'[q] = active[q] \/ active[q] = NoClient
    BY <1>3, <1>9
  <2> QED
    BY <1>1, <1>9, <2>1, <2>2, <2>3, <2>4, <2>5, CalmTells
<1> QED
  BY <1>11, <1>12

-----------------------------------------------------------------------------
(* The steps of doGameLoad.                                                 *)
LEMMA LoadGameTells ==
    ASSUME IInv, TellInv, NEW g \in Games, NEW R \in SUBSET Players, LoadGame(g, R)
    PROVE  TellInv'
<1>1. /\ outcome[g] = Unset /\ outcome' = [outcome EXCEPT ![g] = Pending]
      /\ roster' = [roster EXCEPT ![g] = R] /\ phase' = [phase EXCEPT ![g] = "register"]
      /\ UNCHANGED <<active, clients, loading, finished, quit, own, subs, got, records, configured>>
  BY DEF LoadGame, callerVars, dbVars
<1>2. TypeOK /\ LoadInv(g) /\ Tell(g)
  BY DEF IInv, TellInv
<1>3. phase[g] = "idle" /\ outcome'[g] = Pending /\ phase'[g] = "register"
  BY <1>1, <1>2 DEF LoadInv, LoadingInv, Unset, TypeOK
<1>4. /\ \A p \in Players : p \notin Subscribers(subs, g) /\ got[g][p] = <<>>
      /\ ~Over(g)'
  BY <1>2, <1>3 DEF Tell, BeforeInv, Early, Over, Pending
<1>5. Tell(g)'
  BY <1>1, <1>3, <1>4, SubscriberIs DEF Tell, BeforeInv, DuringInv, AfterInv, Early
<1>6. \A h \in Games \ {g} : SameLoad(h)
  BY <1>1, <1>2 DEF SameLoad, TypeOK
<1> QED
  BY <1>1, <1>5, <1>6, OtherTells DEF TellInv

LEMMA RegisteredTells == ASSUME IInv, TellInv, NEW g \in Games, Registered(g) PROVE TellInv'
<1>1. /\ phase[g] = "register" /\ TypeOK /\ LoadInv(g) /\ Tell(g)
      /\ UNCHANGED <<finished, configured, active, roster, quit, subs, got>>
  BY DEF Registered, gameOnlyUnchanged, callerVars, IInv, TellInv
<1>2. outcome[g].code = "pending" /\ ~Over(g)
  BY <1>1 DEF LoadInv, LoadingInv, Over
<1>3. \A p \in Players : p \notin Subscribers(subs, g) /\ got[g][p] = <<>>
  BY <1>1 DEF Tell, BeforeInv, Early
<1>4. ASSUME NEW why, why.code \in Codes, outcome' = [outcome EXCEPT ![g] = why],
             Move(g, "done"), own \subseteq own', UNCHANGED <<clients, loading, records>>
      PROVE  TellInv'
  <2>1. outcome'[g] = why /\ phase'[g] = "done"
    BY <1>1, <1>4 DEF TypeOK, Move
  <2>2. Over(g)' /\ outcome'[g].code # "pending"
    BY <1>4, <2>1 DEF Over, Codes
  <2>3. Tell(g)'
    BY <1>1, <1>3, <2>1, <2>2 DEF Tell, BeforeInv, DuringInv, AfterInv, Early
  <2>4. \A h \in Games \ {g} : SameLoad(h)
    BY <1>1, <1>4 DEF SameLoad, TypeOK, Move
  <2> QED
    BY <1>1, <1>4, <2>3, <2>4, OtherTells DEF TellInv
<1>5. CASE /\ loading' = loading \union {g}
           /\ records' = records \union {g}
           /\ clients' = [clients EXCEPT ![g] = active]
           /\ Move(g, "users")
           /\ UNCHANGED <<outcome, own, subs, got>>
  <2>1. clients'[g] = active /\ phase'[g] = "users" /\ g \in loading'
    BY <1>1, <1>5 DEF TypeOK, Move
  <2>2. ~Over(g)' /\ (outcome'[g].code = "pending" => outcome'[g] = Pending)
    BY <1>1, <1>2, <1>5 DEF Over, Tell, BeforeInv
  <2>3. Tell(g)'
    BY <1>1, <1>3, <2>1, <2>2, SubscriberIs DEF Tell, BeforeInv, DuringInv, AfterInv
  <2>4. \A h \in Games \ {g} : SameLoad(h)
    BY <1>1, <1>5 DEF SameLoad, TypeOK, Move
  <2> QED
    BY <1>1, <1>5, <2>3, <2>4, OtherTells DEF TellInv
<1>6. CASE /\ outcome' = [outcome EXCEPT ![g] = Error("internal", {})]
           /\ Move(g, "done")
           /\ UNCHANGED <<clients, loading, own, subs, got, records>>
  <2> DEFINE why == Error("internal", {})
  <2>1. why.code \in Codes /\ outcome' = [outcome EXCEPT ![g] = why]
    BY <1>6, ErrorCode DEF Codes
  <2> HIDE DEF why
  <2> QED
    BY <1>4, <1>6, <2>1
<1>7. ASSUME NEW p \in Absent(g), outcome' = [outcome EXCEPT ![g] = Error("player", {p})],
             own' = own \union {g}, Move(g, "done"),
             UNCHANGED <<clients, loading, subs, got, records>>
      PROVE  TellInv'
  <2> DEFINE why == Error("player", {p})
  <2>1. why.code \in Codes /\ outcome' = [outcome EXCEPT ![g] = why] /\ own \subseteq own'
    BY <1>7, ErrorCode DEF Codes
  <2> HIDE DEF why
  <2> QED
    BY <1>4, <1>7, <2>1
<1> QED
  BY <1>5, <1>6, <1>7 DEF Registered

(* A step of g that cancels g alone, or nothing.                             *)
LEMMA OnlyOneTells ==
    ASSUME IInv, TellInv, NEW g \in Games, NEW s, NEW told, NEW sent \in GotType, NEW why,
           CancelAll(s, told, sent, {g}, why), Tell(g)',
           \A h \in Games \ {g} : /\ sent[h] = got[h] /\ phase'[h] = phase[h]
                                  /\ \A q \in Players, c \in 1..MaxConns :
                                        <<h, q, c>> \in s <=> <<h, q, c>> \in subs,
           UNCHANGED <<active, quit, roster, clients>>
    PROVE  TellInv'
<1> SUFFICES ASSUME NEW h \in Games \ {g} PROVE Tell(h)'
  BY DEF TellInv
<1>1. h \notin {g} \intersect loading /\ {g} \in SUBSET Games
  OBVIOUS
<1>2. IsMissed(h, s, sent)
  BY <1>1, CancelMisses
<1>3. SameLoad(h)
  BY <1>2 DEF SameLoad, IsMissed
<1> QED
  BY <1>2, <1>3, OtherTells DEF IsMissed

(* The load g fails where doGameLoad is, or goes to its end.                  *)
LEMMA FailTells ==
    ASSUME IInv, TellInv, NEW g \in Games, NEW why,
           CancelAll(subs, subs, got, {g}, [h \in Games |-> why]), why.code \in Codes,
           phase[g] \notin Early, phase'[g] \in {phase[g], "done"},
           phase'[g] = "users" => ~QuickLookups,
           \A h \in Games \ {g} : phase'[h] = phase[h],
           UNCHANGED <<active, quit, roster, clients>>
    PROVE  TellInv'
<1> DEFINE all == [h \in Games |-> why]
<1>1. CancelAll(subs, subs, got, {g}, all) /\ all[g].code \in Codes /\ {g} \in SUBSET Games
  OBVIOUS
<1> HIDE DEF all
<1>2. got \in GotType /\ LoadInv(g) /\ Tell(g)
  BY Present DEF IInv, TellInv
<1>3. CASE g \in loading
  <2>1. ~Over(g) /\ g \in {g} \intersect loading
    BY <1>2, <1>3 DEF LoadInv, LoadingInv, Over
  <2>2. /\ \A p \in Players : got[g][p] # <<>> /\ <<g, p>> \notin quit
                                => p \in Subscribers(subs, g)
        /\ \A p \in Players, c \in 1..MaxConns :
              <<g, p, c>> \in subs /\ <<g, p>> \notin quit => active[p] = c
    BY <1>2, <2>1 DEF Tell, DuringInv
  <2>3. phase[g] = "users"
          => \A p \in Players : p \notin Subscribers(subs, g) /\ got[g][p] = <<>>
    BY <1>2 DEF Tell, BeforeInv
  <2>4. Tell(g)'
    BY <1>1, <1>2, <2>1, <2>2, <2>3, HitTells DEF Early
  <2> QED
    BY <1>1, <1>2, <2>4, OnlyOneTells
<1>4. CASE g \notin loading
  <2>1. IsMissed(g, subs, got)
    BY <1>1, <1>2, <1>4, CancelMisses
  <2>2. CASE phase'[g] = phase[g]
    <3>1. Tell(g)'
      BY <2>1, <2>2, OtherTells DEF SameLoad, IsMissed
    <3> QED
      BY <1>1, <1>2, <3>1, OnlyOneTells
  <2>3. CASE phase'[g] = "done"
    <3>1. Over(g)' <=> Over(g)
      BY <2>1 DEF Over, IsMissed
    <3>2. \A p \in Players : p \in Subscribers(subs, g)' <=> p \in Subscribers(subs, g)
      BY <2>1, SubscriberIs DEF IsMissed
    <3>3. QuickLookups => phase[g] # "users"
      BY <1>2, <1>4 DEF Tell, BeforeInv
    <3>4. Tell(g)'
      BY <1>2, <2>1, <2>3, <3>1, <3>2
         DEF Tell, BeforeInv, DuringInv, AfterInv, IsMissed, Early
    <3> QED
      BY <1>1, <1>2, <3>4, OnlyOneTells
  <2> QED
    BY <2>2, <2>3
<1> QED
  BY <1>3, <1>4

LEMMA FailsTells ==
    ASSUME IInv, TellInv, NEW g \in Games, NEW code \in Codes, phase[g] \notin Early,
           Fails(g, Error(code, {})), gameOnlyUnchanged
    PROVE  TellInv'
<1> DEFINE why == Error(code, {})
<1>1. why.code \in Codes
  BY ErrorCode
<1>2. CancelAll(subs, subs, got, {g}, [h \in Games |-> why])
      /\ phase' = [phase EXCEPT ![g] = "done"] /\ UNCHANGED <<active, quit, roster, clients>>
  BY DEF Fails, Cancel, CancelWith, Move, gameOnlyUnchanged, callerVars
<1>3. phase'[g] = "done" /\ \A h \in Games \ {g} : phase'[h] = phase[h]
  BY <1>2 DEF IInv, TypeOK
<1> HIDE DEF why
<1> QED
  BY <1>1, <1>2, <1>3, FailTells

(* A step of the load g that cancels nothing.                                *)
LEMMA GoesOnTells ==
    ASSUME IInv, TellInv, NEW g \in Games, Tell(g)',
           \A h \in Games \ {g} : /\ phase'[h] = phase[h] /\ got'[h] = got[h]
                                  /\ (h \in configured' <=> h \in configured)
                                  /\ \A q \in Players, c \in 1..MaxConns :
                                        <<h, q, c>> \in subs' <=> <<h, q, c>> \in subs,
           UNCHANGED <<clients, loading, finished, outcome, own, records>>, gameOnlyUnchanged
    PROVE  TellInv'
<1>1. \A h \in Games \ {g} : SameLoad(h)
  BY DEF SameLoad, gameOnlyUnchanged
<1> QED
  BY <1>1, OtherTells DEF TellInv, gameOnlyUnchanged, callerVars

LEMMA UsersFoundTells == ASSUME IInv, TellInv, NEW g \in Games, UsersFound(g) PROVE TellInv'
<1> DEFINE live == {<<g, p, clients[g][p]>> : p \in {q \in roster[g] : clients[g][q] = client[q]}}
           gone == {p \in roster[g] : clients[g][p] # client[p]}
           all  == subs \union live
<1>1. /\ phase[g] = "users" /\ phase[g] \notin Early /\ gameOnlyUnchanged /\ TypeOK /\ LoadInv(g)
      /\ Tell(g) /\ got \in GotType /\ {g} \in SUBSET Games
  BY Present DEF UsersFound, Early, IInv, TellInv
<1>2. UNCHANGED <<active, quit, roster>>
  BY <1>1 DEF gameOnlyUnchanged, callerVars
<1>3. /\ \A p \in Players : got[g][p] = <<>> /\ p \notin Subscribers(subs, g)
      /\ Over(g) => g \in own /\ ~QuickLookups
      /\ QuickLookups => g \in loading
  <2>1. g \in loading => ~Over(g)
    BY <1>1 DEF LoadInv, LoadingInv, Over
  <2> QED
    BY <1>1, <2>1 DEF Tell, BeforeInv
<1>4. \A p \in Players, c \in 1..MaxConns :
         <<g, p, c>> \in all /\ <<g, p>> \notin quit => IF Over(g) THEN ~QuickLookups ELSE active[p] = c
  <2> SUFFICES ASSUME NEW p \in Players, NEW c \in 1..MaxConns, <<g, p, c>> \in all,
                      <<g, p>> \notin quit, ~Over(g)
               PROVE  active[p] = c
    BY <1>3
  <2>1. <<g, p, c>> \in live
    BY <1>3, SubscriberIs
  <2>2. p \in roster[g] /\ clients[g][p] = c
    BY <2>1
  <2> QED
    BY <1>1, <2>2 DEF Tell, DuringInv
<1>5. \A h \in Games \ {g} : \A q \in Players, c \in 1..MaxConns :
         <<h, q, c>> \in all <=> <<h, q, c>> \in subs
  OBVIOUS
<1> HIDE DEF all, live
<1>6. CASE Fails(g, Error("internal", {}))
  BY <1>1, <1>6, FailsTells DEF Codes
<1>7. CASE Move(g, "config") /\ subs' = all /\ UNCHANGED <<clients, loadVars, own, got, dbVars>>
  <2>1. phase'[g] = "config" /\ (\A h \in Games \ {g} : phase'[h] = phase[h])
        /\ outcome' = outcome /\ own' = own /\ got' = got
    BY <1>1, <1>7 DEF Move, TypeOK, loadVars
  <2>2. Tell(g)'
    BY <1>1, <1>2, <1>3, <1>4, <1>7, <2>1, MissTells DEF Early
  <2> QED
    BY <1>1, <1>5, <1>7, <2>1, <2>2, GoesOnTells DEF loadVars, dbVars
<1>8. ASSUME NEW told, NEW why, CancelAll(all, told, got, {g}, why), why[g].code \in Codes,
             NEW to \in {"config", "done"}, phase' = [phase EXCEPT ![g] = to], UNCHANGED clients
      PROVE  TellInv'
  <2>1. phase'[g] = to /\ \A h \in Games \ {g} : phase'[h] = phase[h]
    BY <1>1, <1>8 DEF TypeOK
  <2>2. CASE g \in loading
    <3>1. ~Over(g) /\ g \in {g} \intersect loading
      BY <1>1, <2>2 DEF LoadInv, LoadingInv, Over
    <3>2. \A p \in Players, c \in 1..MaxConns :
              <<g, p, c>> \in all /\ <<g, p>> \notin quit' => active[p] = c
      BY <1>2, <1>4, <3>1
    <3>3. Tell(g)'
      BY <1>1, <1>2, <1>3, <1>8, <2>1, <3>1, <3>2, HitTells DEF Early
    <3> QED
      BY <1>1, <1>2, <1>5, <1>8, <2>1, <3>3, OnlyOneTells
  <2>3. CASE g \notin loading
    <3>1. IsMissed(g, all, got)
      BY <1>1, <1>8, <2>3, CancelMisses
    <3>2. Tell(g)'
      BY <1>1, <1>2, <1>3, <1>4, <2>1, <3>1, MissTells DEF IsMissed, Early
    <3> QED
      BY <1>1, <1>2, <1>5, <1>8, <2>1, <3>2, OnlyOneTells
  <2> QED
    BY <2>2, <2>3
<1>9. CASE CancelWith(all, g, Error("internal", {})) /\ Move(g, "done") /\ UNCHANGED clients
  <2> DEFINE why == [h \in Games |-> Error("internal", {})]
  <2>1. CancelAll(all, all, got, {g}, why) /\ why[g].code \in Codes
        /\ phase' = [phase EXCEPT ![g] = "done"]
    BY <1>9, ErrorCode DEF Codes, CancelWith, Move
  <2> HIDE DEF why
  <2> QED
    BY <1>8, <1>9, <2>1
<1>10. ASSUME NEW p \in gone, NEW told,
              CancelAll(all, told, got, {g}, [h \in Games |-> Error("player", {p})]),
              NEW to \in {"config", "done"}, phase' = [phase EXCEPT ![g] = to], UNCHANGED clients
       PROVE  TellInv'
  <2> DEFINE why == [h \in Games |-> Error("player", {p})]
  <2>1. CancelAll(all, told, got, {g}, why) /\ why[g].code \in Codes
    BY <1>10, ErrorCode DEF Codes
  <2> HIDE DEF why
  <2> QED
    BY <1>8, <1>10, <2>1
<1> QED
  BY <1>6, <1>7, <1>9, <1>10 DEF UsersFound, all, live

LEMMA ConfigWrittenTells ==
    ASSUME IInv, TellInv, NEW g \in Games, ConfigWritten(g)
    PROVE  TellInv'
<1>1. phase[g] = "config" /\ phase[g] \notin Early /\ gameOnlyUnchanged /\ TypeOK /\ Tell(g)
  BY DEF ConfigWritten, Early, IInv, TellInv
<1>2. CASE Fails(g, Error("internal", {}))
  BY <1>1, <1>2, FailsTells DEF Codes
<1>3. CASE /\ configured' = configured \union ({g} \intersect records)
           /\ Move(g, "map")
           /\ UNCHANGED <<clients, loadVars, own, subs, got, records>>
  <2>1. phase'[g] = "map" /\ (\A h \in Games \ {g} : phase'[h] = phase[h])
        /\ UNCHANGED <<outcome, loading, finished, active, quit, roster>>
    BY <1>1, <1>3 DEF Move, TypeOK, loadVars, gameOnlyUnchanged, callerVars
  <2>2. Tell(g)'
    BY <1>1, <1>3, <2>1 DEF Tell, BeforeInv, DuringInv, AfterInv, Early, Over
  <2> QED
    BY <1>1, <1>3, <2>1, <2>2, GoesOnTells
<1> QED
  BY <1>2, <1>3 DEF ConfigWritten

LEMMA MapFoundTells == ASSUME IInv, TellInv, NEW g \in Games, MapFound(g) PROVE TellInv'
<1>1. phase[g] = "map" /\ phase[g] \notin Early /\ gameOnlyUnchanged /\ TypeOK /\ Tell(g)
  BY DEF MapFound, Early, IInv, TellInv
<1>2. CASE Fails(g, Error("internal", {})) \/ Fails(g, Error("canceled", {}))
  BY <1>1, <1>2, FailsTells DEF Codes
<1>3. CASE /\ ~Aborted(g) /\ Move(g, "restrict")
           /\ UNCHANGED <<clients, loadVars, own, subs, got, dbVars>>
  <2>1. phase'[g] = "restrict" /\ (\A h \in Games \ {g} : phase'[h] = phase[h])
        /\ UNCHANGED <<outcome, loading, finished, records, configured, active, quit, roster>>
    BY <1>1, <1>3 DEF Move, TypeOK, loadVars, dbVars, gameOnlyUnchanged, callerVars
  <2>2. ~Over(g)
    BY <1>1, <1>3 DEF Tell, BeforeInv, Aborted
  <2>3. Tell(g)'
    BY <1>1, <1>3, <2>1, <2>2 DEF Tell, BeforeInv, DuringInv, AfterInv, Early, Over
  <2> QED
    BY <1>1, <1>3, <2>1, <2>3, GoesOnTells
<1> QED
  BY <1>2, <1>3 DEF MapFound

LEMMA SessionCreatedTells ==
    ASSUME IInv, TellInv, NEW g \in Games, SessionCreated(g)
    PROVE  TellInv'
<1>1. phase[g] = "session" /\ phase[g] \notin Early /\ gameOnlyUnchanged /\ TypeOK /\ Tell(g)
  BY DEF SessionCreated, Early, IInv, TellInv
<1>2. CASE Fails(g, Error("internal", {}))
  BY <1>1, <1>2, FailsTells DEF Codes
<1>3. CASE Move(g, "store") /\ UNCHANGED <<clients, loadVars, own, subs, got, dbVars>>
  <2>1. phase'[g] = "store" /\ (\A h \in Games \ {g} : phase'[h] = phase[h])
        /\ UNCHANGED <<outcome, loading, finished, records, configured, active, quit, roster>>
    BY <1>1, <1>3 DEF Move, TypeOK, loadVars, dbVars, gameOnlyUnchanged, callerVars
  <2>2. Tell(g)'
    BY <1>1, <1>3, <2>1 DEF Tell, BeforeInv, DuringInv, AfterInv, Early, Over
  <2> QED
    BY <1>1, <1>3, <2>1, <2>2, GoesOnTells
<1> QED
  BY <1>2, <1>3 DEF SessionCreated

(* What is published reaches those who can be told of the end, and after the   *)
(* end those who walked out.                                                *)
LEMMA SentTells ==
    ASSUME IInv, TellInv, NEW g \in Games, NEW m,
           phase[g] \in {"restrict", "session", "store"}
    PROVE  LET sent == Publish(got, g, Subscribers(subs, g), m) IN
           /\ \A h \in Games \ {g} : sent[h] = got[h]
           /\ \A p \in Players : sent[g][p] # <<>> /\ <<g, p>> \notin quit
                 => IF Over(g) THEN outcome[g].code \in Codes => sent[g][p][Len(sent[g][p])] = "cancel"
                               ELSE p \in Subscribers(subs, g)
<1> DEFINE S == Subscribers(subs, g)
           sent == Publish(got, g, S, m)
<1>1. \A h \in Games \ {g} : sent[h] = got[h]
  BY DEF Publish
<1>2. \A p \in Players : p \notin S => sent[g][p] = got[g][p]
  BY Present DEF Publish, GotType
<1>3. Tell(g)
  BY DEF TellInv
<1> HIDE DEF S, sent
<1>4. ASSUME NEW p \in Players, sent[g][p] # <<>>, <<g, p>> \notin quit
      PROVE  IF Over(g) THEN outcome[g].code \in Codes => sent[g][p][Len(sent[g][p])] = "cancel"
                        ELSE p \in S
  <2>1. CASE Over(g)
    <3>1. p \notin S
      BY <1>3, <1>4, <2>1 DEF Tell, AfterInv, S
    <3> QED
      BY <1>2, <1>3, <1>4, <2>1, <3>1 DEF Tell, AfterInv
  <2>2. CASE ~Over(g)
    BY <1>2, <1>3, <1>4, <2>2 DEF Tell, DuringInv, S
  <2> QED
    BY <2>1, <2>2
<1> QED
  BY <1>1, <1>4 DEF S, sent

(* doGameLoad has published sent and does not look at the signal any more.    *)
LEMMA PublishedTells ==
    ASSUME IInv, TellInv, NEW g \in Games, NEW sent, NEW to \in {"session", "done"},
           \A p \in Players : sent[g][p] # <<>> /\ <<g, p>> \notin quit
                 => IF Over(g) THEN outcome[g].code \in Codes => sent[g][p][Len(sent[g][p])] = "cancel"
                               ELSE p \in Subscribers(subs, g),
           phase[g] \in {"restrict", "session", "store"}, got'[g] = sent[g], phase'[g] = to,
           outcome'[g] = outcome[g], own \subseteq own',
           \A p \in Players, c \in 1..MaxConns : <<g, p, c>> \in subs' <=> <<g, p, c>> \in subs,
           UNCHANGED <<active, quit>>
    PROVE  Tell(g)'
<1>1. Tell(g) /\ (Over(g)' <=> Over(g))
  BY DEF TellInv, Over
<1>2. \A p \in Players : p \in Subscribers(subs, g)' <=> p \in Subscribers(subs, g)
  BY SubscriberIs
<1>3. BeforeInv(g)'
  BY <1>1 DEF Tell, BeforeInv, Early
<1>4. DuringInv(g)'
  BY <1>1, <1>2 DEF Tell, DuringInv
<1>5. AfterInv(g)'
  BY <1>1, <1>2 DEF Tell, AfterInv
<1> QED
  BY <1>3, <1>4, <1>5 DEF Tell

LEMMA FinalCheckTells ==
    ASSUME IInv, TellInv, NEW g \in Games, NEW sent \in GotType,
           \A h \in Games \ {g} : sent[h] = got[h],
           \A p \in Players : sent[g][p] # <<>> /\ <<g, p>> \notin quit
                 => IF Over(g) THEN outcome[g].code \in Codes => sent[g][p][Len(sent[g][p])] = "cancel"
                               ELSE p \in Subscribers(subs, g),
           phase[g] \in {"restrict", "store"}, FinalCheck(g, sent), Move(g, "done"),
           UNCHANGED clients, gameOnlyUnchanged
    PROVE  TellInv'
<1>1. TypeOK /\ LoadInv(g) /\ Tell(g) /\ {g} \in SUBSET Games
      /\ UNCHANGED <<active, quit, roster>>
  BY DEF IInv, TellInv, gameOnlyUnchanged, callerVars
<1>2. phase'[g] = "done" /\ \A h \in Games \ {g} : phase'[h] = phase[h]
  BY <1>1 DEF TypeOK, Move
<1>3. CASE ~Aborted(g)
  <2>1. got' = sent /\ UNCHANGED <<loading, finished, outcome, own, subs, records, configured>>
    BY <1>3 DEF FinalCheck, loadVars, dbVars
  <2>2. Tell(g)'
    BY <1>1, <1>2, <2>1, PublishedTells
  <2> QED
    BY <1>2, <2>1, <2>2, GoesOnTells
<1>4. CASE Aborted(g)
  <2> DEFINE why == [h \in Games |-> Error("canceled", {})]
  <2>1. CancelAll(subs, subs, sent, {g}, why) /\ why[g].code \in Codes
    BY <1>4, ErrorCode DEF FinalCheck, Codes
  <2> HIDE DEF why
  <2>2. CASE g \in loading
    <3>1. ~Over(g) /\ g \in {g} \intersect loading
      BY <1>1, <2>2 DEF LoadInv, LoadingInv, Over
    <3>2. \A p \in Players, c \in 1..MaxConns :
              <<g, p, c>> \in subs /\ <<g, p>> \notin quit' => active[p] = c
      BY <1>1, <3>1 DEF Tell, DuringInv
    <3>3. \A p \in Players : sent[g][p] # <<>> /\ <<g, p>> \notin quit'
                               => p \in Subscribers(subs, g)
      BY <1>1, <3>1
    <3>4. Tell(g)'
      BY <1>1, <1>2, <2>1, <3>1, <3>2, <3>3, HitTells DEF Early
    <3> QED
      BY <1>1, <1>2, <2>1, <3>4, OnlyOneTells
  <2>3. CASE g \notin loading
    <3>1. IsMissed(g, subs, sent)
      BY <1>1, <2>1, <2>3, CancelMisses
    <3>2. Tell(g)'
      BY <1>1, <1>2, <3>1, PublishedTells DEF IsMissed
    <3> QED
      BY <1>1, <1>2, <2>1, <3>2, OnlyOneTells
  <2> QED
    BY <2>2, <2>3
<1> QED
  BY <1>3, <1>4

LEMMA ConfigureTells == ASSUME IInv, TellInv, NEW g \in Games, Configure(g) PROVE TellInv'
<1> DEFINE sent == Publish(got, g, Subscribers(subs, g), "config")
<1>1. phase[g] = "restrict" /\ UNCHANGED clients /\ gameOnlyUnchanged /\ TypeOK
      /\ UNCHANGED <<active, quit, roster>>
  BY DEF Configure, IInv, gameOnlyUnchanged, callerVars
<1>2. sent \in GotType
  BY <1>1, SentIsGood DEF Early
<1>3. /\ \A h \in Games \ {g} : sent[h] = got[h]
      /\ \A p \in Players : sent[g][p] # <<>> /\ <<g, p>> \notin quit
            => IF Over(g) THEN outcome[g].code \in Codes => sent[g][p][Len(sent[g][p])] = "cancel"
                          ELSE p \in Subscribers(subs, g)
  BY <1>1, SentTells
<1> HIDE DEF sent
<1>4. CASE got' = sent /\ Move(g, "session") /\ UNCHANGED <<loadVars, own, subs, dbVars>>
  <2>1. phase'[g] = "session" /\ (\A h \in Games \ {g} : phase'[h] = phase[h])
        /\ UNCHANGED <<outcome, loading, finished, records, configured>>
    BY <1>1, <1>4 DEF Move, TypeOK, loadVars, dbVars
  <2>2. Tell(g)'
    BY <1>1, <1>3, <1>4, <2>1, PublishedTells
  <2> QED
    BY <1>1, <1>3, <1>4, <2>1, <2>2, GoesOnTells
<1>5. CASE FinalCheck(g, sent) /\ Move(g, "done")
  BY <1>1, <1>2, <1>3, <1>5, FinalCheckTells
<1> QED
  BY <1>4, <1>5 DEF Configure, sent

LEMMA SessionStoredTells ==
    ASSUME IInv, TellInv, NEW g \in Games, SessionStored(g)
    PROVE  TellInv'
<1> DEFINE sent == Publish(got, g, Subscribers(subs, g), "setup")
<1>1. phase[g] = "store" /\ phase[g] \notin Early /\ gameOnlyUnchanged
  BY DEF SessionStored, Early
<1>2. sent \in GotType
  BY <1>1, SentIsGood DEF Early
<1>3. /\ \A h \in Games \ {g} : sent[h] = got[h]
      /\ \A p \in Players : sent[g][p] # <<>> /\ <<g, p>> \notin quit
            => IF Over(g) THEN outcome[g].code \in Codes => sent[g][p][Len(sent[g][p])] = "cancel"
                          ELSE p \in Subscribers(subs, g)
  BY <1>1, SentTells
<1> HIDE DEF sent
<1>4. CASE Fails(g, Error("internal", {}))
  BY <1>1, <1>4, FailsTells DEF Codes
<1>5. CASE FinalCheck(g, sent) /\ Move(g, "done") /\ UNCHANGED clients
  BY <1>1, <1>2, <1>3, <1>5, FinalCheckTells
<1> QED
  BY <1>4, <1>5 DEF SessionStored, sent

-----------------------------------------------------------------------------
LEMMA ReportTells ==
    ASSUME IInv, TellInv, NEW g \in Games, NEW p \in Players, Report(g, p)
    PROVE  TellInv'
<1> DEFINE done == finished[g] \union {p}
<1>1. /\ g \in loading /\ "config" \in Heard(g, p) /\ TypeOK /\ LoadInv(g) /\ Tell(g)
      /\ finished' = [finished EXCEPT ![g] = done]
      /\ UNCHANGED <<active, roster, phase, clients, quit, own, got, records, configured>>
  BY DEF Report, Ready, IInv, TellInv, callerVars, dbVars
<1>2. ~Over(g) /\ phase[g] \notin Early
  BY <1>1 DEF LoadInv, LoadingInv, Over
<1>3. got[g][p] # <<>>
  <2>1. got[g][p] = <<>> => Heard(g, p) = {}
    BY DEF Heard, Range
  <2> QED
    BY <1>1, <2>1
<1>4. phase[g] \notin {"users", "config", "map"}
  BY <1>1, <1>2, <1>3 DEF Tell, BeforeInv
<1>5. CASE /\ subs' = Unsubscribed(subs, {g}) /\ loading' = loading \ {g}
           /\ outcome' = [outcome EXCEPT ![g] = Loaded]
  <2>1. outcome'[g] = Loaded /\ Loaded.code = "loaded"
    BY <1>1, <1>5 DEF TypeOK, Loaded
  <2>2. Over(g)' /\ outcome'[g].code # "pending" /\ outcome'[g].code \notin Codes
    BY <2>1 DEF Over, Codes
  <2>3. \A q \in Players : q \in Subscribers(subs, g)' => <<g, q>> \in quit
    <3>1. \A q \in Players, c \in 1..MaxConns :
             <<g, q, c>> \in subs' => <<g, q, c>> \in subs /\ active[q] # c
      BY <1>5 DEF Unsubscribed
    <3> QED
      BY <1>1, <1>2, <3>1, SubscriberIs DEF Tell, DuringInv
  <2>4. Tell(g)'
    BY <1>1, <1>2, <1>4, <2>2, <2>3 DEF Tell, BeforeInv, DuringInv, AfterInv
  <2>5. \A h \in Games \ {g} : SameLoad(h)
    BY <1>1, <1>5 DEF SameLoad, TypeOK
  <2>6. \A h \in Games \ {g} : \A q \in Players, c \in 1..MaxConns :
           <<h, q, c>> \in subs' <=> <<h, q, c>> \in subs
    BY <1>5 DEF Unsubscribed
  <2> QED
    BY <1>1, <2>4, <2>5, <2>6, OtherTells DEF TellInv
<1>6. CASE UNCHANGED <<subs, loading, outcome>>
  <2>1. roster[g] \subseteq Players
    BY <1>1 DEF TypeOK
  <2>2. Tell(g)'
    BY <1>1, <1>6, <2>1, CalmTells
  <2>3. \A h \in Games \ {g} : SameLoad(h)
    BY <1>1, <1>6 DEF SameLoad, TypeOK
  <2> QED
    BY <1>1, <1>6, <2>2, <2>3, OtherTells DEF TellInv
<1> QED
  BY <1>5, <1>6 DEF Report

LEMMA ReportErrorTells ==
    ASSUME IInv, TellInv, NEW g \in Games, NEW p \in Players, ReportError(g, p)
    PROVE  TellInv'
<1> DEFINE why == Error("player", {p})
<1>1. why.code \in Codes
  BY ErrorCode DEF Codes
<1>2. CancelAll(subs, subs, got, {g}, [h \in Games |-> why])
      /\ UNCHANGED <<active, quit, roster, phase, clients>>
  BY DEF ReportError, Cancel, CancelWith, callerVars
<1>3. g \in loading /\ "config" \in Heard(g, p) /\ LoadInv(g)
  BY DEF ReportError, IInv
<1>4. phase[g] \notin Early \union {"users"}
  BY <1>3 DEF LoadInv, LoadingInv, KnownInv
<1> HIDE DEF why
<1> QED
  BY <1>1, <1>2, <1>4, FailTells

LEMMA DeadlineTells == ASSUME IInv, TellInv, NEW g \in Games, Deadline(g) PROVE TellInv'
<1> DEFINE why == Error("timeout", Unloaded(g))
<1>1. why.code \in Codes
  BY ErrorCode DEF Codes
<1>2. CancelAll(subs, subs, got, {g}, [h \in Games |-> why])
      /\ UNCHANGED <<active, quit, roster, phase, clients>>
  BY DEF Deadline, Cancel, CancelWith, callerVars
<1>3. g \in loading /\ LoadInv(g) /\ (QuickLookups => phase[g] # "users")
  BY DEF Deadline, DeadlineRuns, IInv
<1>4. phase[g] \notin Early
  BY <1>3 DEF LoadInv, LoadingInv
<1> HIDE DEF why
<1> QED
  BY <1>1, <1>2, <1>3, <1>4, FailTells

LEMMA RecentExpiresTells ==
    ASSUME IInv, TellInv, NEW g \in Games, RecentExpires(g)
    PROVE  TellInv'
<1>1. \A h \in Games : SameLoad(h)
  BY DEF RecentExpires, SameLoad, dbVars
<1> QED
  BY <1>1, OtherTells DEF RecentExpires, TellInv, callerVars

LEMMA InitiallyTold == Init => TellInv
<1> SUFFICES ASSUME Init, NEW g \in Games PROVE Tell(g)
  BY DEF TellInv
<1>1. /\ outcome[g] = Unset /\ Unset.code = "none" /\ phase[g] = "idle"
      /\ \A p \in Players : got[g][p] = <<>> /\ p \notin Subscribers(subs, g)
  BY DEF Init, Unset, Subscribers
<1>2. ~Over(g)
  BY <1>1 DEF Over
<1> QED
  BY <1>1, <1>2, SubscriberIs DEF Tell, BeforeInv, DuringInv, AfterInv, Early

LEMMA StepTells == IInv /\ TellInv /\ [Next]_vars => TellInv'
<1> SUFFICES ASSUME IInv, TellInv, [Next]_vars PROVE TellInv'
  OBVIOUS
<1>1. ASSUME NEW p \in Players, ClientStep(p) PROVE TellInv'
  BY <1>1, ConnectTells, JoinTells, LeaveTells, DisconnectTells DEF ClientStep
<1>2. ASSUME NEW g \in Games, NEW R \in SUBSET Players, LoadGame(g, R) PROVE TellInv'
  BY <1>2, LoadGameTells
<1>3. ASSUME NEW g \in Games, LoadStep(g) PROVE TellInv'
  BY <1>3, RegisteredTells, UsersFoundTells, ConfigWrittenTells, MapFoundTells,
     ConfigureTells, SessionCreatedTells, SessionStoredTells DEF LoadStep
<1>4. ASSUME NEW g \in Games, NEW p \in Players, Report(g, p) \/ ReportError(g, p) PROVE TellInv'
  BY <1>4, ReportTells, ReportErrorTells
<1>5. ASSUME NEW g \in Games, Deadline(g) \/ RecentExpires(g) PROVE TellInv'
  BY <1>5, DeadlineTells, RecentExpiresTells
<1>6. CASE UNCHANGED vars
  <2>1. \A h \in Games : SameLoad(h)
    BY <1>6 DEF SameLoad, vars, loadVars, dbVars
  <2> QED
    BY <1>6, <2>1, OtherTells DEF TellInv, vars, callerVars
<1> QED
  BY <1>1, <1>2, <1>3, <1>4, <1>5, <1>6 DEF Next

(* Who has been told what, and who is still subscribed, in every state.       *)
THEOREM TellInvariant == Spec => []TellInv
<1>1. Init => TellInv
  BY InitiallyTold
<1>2. IInv /\ TellInv /\ [Next]_vars => TellInv'
  BY StepTells
<1> QED
  BY <1>1, <1>2, Invariant, PTL DEF Spec

(* Once a load has failed, nobody is left with the game started: whoever was   *)
(* sent the setup and did not walk out was sent the cancellation after it.    *)
THEOREM StartersTold == Spec => []StartersAreTold
<1>1. TellInv => StartersAreTold
  <2> SUFFICES ASSUME TellInv, NEW g \in Games, outcome[g].code \in Codes, NEW p \in Players,
                      got[g][p] # <<>>, <<g, p>> \notin quit
               PROVE  got[g][p][Len(got[g][p])] = "cancel"
    BY DEF StartersAreTold
  <2>1. Over(g)
    BY DEF Over, Codes
  <2> QED
    BY <2>1 DEF TellInv, Tell, AfterInv
<1> QED
  BY <1>1, TellInvariant, PTL

(* If the database answers before the deadline, no client stays subscribed to  *)
(* a load that is over, but for those of users who walked out of it.          *)
THEOREM SubscriptionsDone == QuickLookups => (Spec => []SubscriptionsEnd)
<1> SUFFICES ASSUME QuickLookups PROVE Spec => []SubscriptionsEnd
  OBVIOUS
<1>1. IInv /\ TellInv => SubscriptionsEnd
  <2> SUFFICES ASSUME IInv, TellInv, NEW g \in Games, outcome[g] # Pending, phase[g] = "done",
                      NEW p \in Subscribers(subs, g)
               PROVE  <<g, p>> \in quit
    BY DEF SubscriptionsEnd
  <2>1. Tell(g) /\ LoadInv(g) /\ outcome[g] \in Outcomes /\ p \in Players
    BY DEF TellInv, IInv, TypeOK, Subscribers
  <2>2. Over(g)
    <3>1. outcome[g].code # "pending"
      BY <2>1 DEF Tell, BeforeInv
    <3>2. outcome[g].code # "none"
      BY <2>1 DEF LoadInv, LoadingInv
    <3> QED
      BY <3>1, <3>2 DEF Over
  <2> QED
    BY <2>1, <2>2 DEF Tell, AfterInv
<1> QED
  BY <1>1, Invariant, TellInvariant, PTL

=============================================================================
