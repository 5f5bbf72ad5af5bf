------------------------- MODULE MatchmakingProofs -------------------------
(***************************************************************************)
(* Proofs about Matchmaking for every number of players, find() calls,      *)
(* client groups, restarts and lost exchanges, with and without the          *)
(* promptness assumptions.                                                  *)
(***************************************************************************)
EXTENDS Matchmaking, TLAPS, SequenceTheorems

(* The part of TypeOK that runMatch and the clean-ups disturb.               *)
QueueType ==
    /\ subbed \subseteq Players \X Nat
    /\ activity \in [Players -> Nat]
    /\ entry \in [Players -> {NoEntry, Searching} \union MatchIds]
    /\ data \subseteq Players
    /\ ticket \in [Players -> {NoTicket} \union Epochs]
    /\ matches \in [MatchIds -> [phase : Phases, group : SUBSET Players,
                                 accepted : SUBSET Players, ban : SUBSET Players]]
    /\ requeues \subseteq [p : Players, m : MatchIds, tk : {NoTicket} \union Epochs,
                           st : {"sent", "ok", "err"}, dels : Nat]
    /\ pending \in [Players -> {0} \union MatchIds]
    /\ wire \in [Players -> Seq(Requests)]

(* Each match is announced once, and its event and its entry in the matches   *)
(* map never coexist.                                                       *)
EventsFresh ==
    /\ \A ev \in events : ev.id <= formed /\ ~Live(ev.id)
    /\ \A ev1, ev2 \in events : ev1.id = ev2.id => ev1 = ev2
    /\ \A m \in MatchIds : m > formed => ~Live(m)

Safe == EntryHasData /\ EntryNamesLiveMatch /\ TicketInHand /\ PendingIsInFlight

IInv == TypeOK /\ Safe /\ EventsFresh

-----------------------------------------------------------------------------
LEMMA BoundFacts ==
    /\ MatchSize \in Nat /\ MaxFinds \in Nat /\ MaxMatches \in Nat
    /\ MaxRestarts \in Nat /\ MaxLosses \in Nat
    /\ \A m \in MatchIds : m \in Nat /\ m # 0 /\ m # NoEntry /\ m # Searching
    /\ \A e \in Epochs : e \in Nat /\ e # NoToken
BY BoundsAssumption DEF MatchIds, Epochs, NoEntry, Searching, NoToken

LEMMA RequestTypes ==
    /\ Delete \in Requests
    /\ \A k \in Slots : Post(k) \in Requests
    /\ \A m \in MatchIds : Requeue(m) \in Requests
BY DEF Requests, Delete, Post, Requeue

LEMMA WithoutType ==
    ASSUME NEW S, NEW s \in Seq(S), NEW i \in 1..Len(s)
    PROVE  Without(s, i) \in Seq(S)
<1>1. Len(s) \in Nat /\ Len(s) - 1 \in Nat
  OBVIOUS
<1>2. \A j \in 1..(Len(s) - 1) : (IF j < i THEN s[j] ELSE s[j + 1]) \in S
  BY <1>1
<1>3. Without(s, i) \in [1..(Len(s) - 1) -> S]
  BY <1>2 DEF Without
<1> QED
  BY <1>1, <1>3

LEMMA DeletesType ==
    ASSUME NEW s \in Seq(Requests), NEW n \in Nat
    PROVE  s \o [i \in 1..n |-> Delete] \in Seq(Requests)
<1>1. [i \in 1..n |-> Delete] \in Seq(Requests)
  BY RequestTypes
<1> QED
  BY <1>1

-----------------------------------------------------------------------------
(* The building blocks keep the types.                                      *)

LEMMA SendType ==
    ASSUME TypeOK, NEW p \in Players, NEW r \in Requests, Send(p, r)
    PROVE  wire' \in [Players -> Seq(Requests)]
<1>1. wire[p] \in Seq(Requests)
  BY DEF TypeOK
<1>2. Append(wire[p], r) \in Seq(Requests)
  BY <1>1
<1> QED
  BY <1>2 DEF TypeOK, Send

LEMMA CancelType ==
    ASSUME TypeOK, NEW p \in Players, CancelInRust(p)
    PROVE  /\ wire' \in [Players -> Seq(Requests)]
           /\ requeues' \subseteq [p : Players, m : MatchIds, tk : {NoTicket} \union Epochs,
                                   st : {"sent", "ok", "err"}, dels : Nat]
           /\ \A r \in requeues : \E q \in requeues' : q.p = r.p /\ q.m = r.m
<1>1. CASE pending[p] = 0
  BY <1>1, SendType, RequestTypes DEF TypeOK, CancelInRust
<1>2. CASE pending[p] # 0
  <2> DEFINE bump(r) == IF r.p = p /\ r.m = pending[p] THEN [r EXCEPT !.dels = @ + 1] ELSE r
             T == [p : Players, m : MatchIds, tk : {NoTicket} \union Epochs,
                   st : {"sent", "ok", "err"}, dels : Nat]
  <2>1. requeues' = {bump(r) : r \in requeues} /\ wire' = wire
    BY <1>2 DEF CancelInRust
  <2>2. requeues \subseteq T
    BY DEF TypeOK
  <2>3. \A r \in T : bump(r) \in T /\ bump(r).p = r.p /\ bump(r).m = r.m
    OBVIOUS
  <2> HIDE DEF bump, T
  <2>4. requeues' \subseteq T
    BY <2>1, <2>2, <2>3
  <2>5. \A r \in requeues : \E q \in requeues' : q.p = r.p /\ q.m = r.m
    BY <2>1, <2>2, <2>3
  <2> QED
    BY <2>1, <2>4, <2>5 DEF T, TypeOK
<1> QED
  BY <1>1, <1>2

LEMMA UnregisterType ==
    ASSUME TypeOK, NEW P, Unregister(P)
    PROVE  activity' \in [Players -> Nat] /\ subbed' \subseteq Players \X Nat
BY DEF TypeOK, Unregister, NoClient

LEMMA EjectType ==
    ASSUME TypeOK, NEW P \in SUBSET Players, NEW n \in [Players -> Nat], EjectAnd(P, n)
    PROVE  /\ activity' \in [Players -> Nat] /\ subbed' \subseteq Players \X Nat
           /\ entry' \in [Players -> {NoEntry, Searching} \union MatchIds]
           /\ data' \subseteq Players
           /\ ticket' \in [Players -> {NoTicket} \union Epochs]
           /\ wire' \in [Players -> Seq(Requests)]
<1>1. activity' \in [Players -> Nat] /\ subbed' \subseteq Players \X Nat
  BY UnregisterType DEF EjectAnd
<1>2. \A p \in Players : n[p] + (IF p \in P THEN 1 ELSE 0) \in Nat
  OBVIOUS
<1>3. \A p \in Players : wire[p] \in Seq(Requests)
  BY DEF TypeOK
<1>4. \A p \in Players :
        wire[p] \o [i \in 1..(n[p] + IF p \in P THEN 1 ELSE 0) |-> Delete] \in Seq(Requests)
  BY <1>2, <1>3, DeletesType
<1>5. wire' \in [Players -> Seq(Requests)]
  BY <1>4 DEF EjectAnd
<1> QED
  BY <1>1, <1>5 DEF EjectAnd, EntryWithout, TypeOK

LEMMA FailMatchType ==
    ASSUME TypeOK, NEW m \in MatchIds, NEW group \in SUBSET Players,
           NEW ban \in SUBSET Players,
           NEW tickets \in [Players -> {NoTicket} \union Epochs],
           FailMatch(m, group, ban, tickets)
    PROVE  QueueType'
<1> DEFINE back == {p \in Returning(group, ban) : tickets[p] # NoTicket}
           T == [p : Players, m : MatchIds, tk : {NoTicket} \union Epochs,
                 st : {"sent", "ok", "err"}, dels : Nat]
           sent(p) == [p |-> p, m |-> m, tk |-> tickets[p], st |-> "sent", dels |-> 0]
<1>1. activity' \in [Players -> Nat] /\ subbed' \subseteq Players \X Nat
  BY UnregisterType DEF FailMatch
<1>2. \A p \in Players : sent(p) \in T
  OBVIOUS
<1>3. back \subseteq Players
  BY DEF Returning
<1>4. requeues' = requeues \union {sent(p) : p \in back}
  BY DEF FailMatch
<1>5. requeues' \subseteq T
  BY <1>2, <1>3, <1>4 DEF TypeOK
<1>6. wire' \in [Players -> Seq(Requests)]
  <2>1. \A p \in Players : wire[p] \in Seq(Requests)
    BY DEF TypeOK
  <2>2. \A p \in Players : Append(wire[p], Requeue(m)) \in Seq(Requests)
    BY <2>1, RequestTypes
  <2> QED
    BY <2>1, <2>2 DEF FailMatch
<1>7. entry' \in [Players -> {NoEntry, Searching} \union MatchIds]
  BY DEF FailMatch, TypeOK
<1>8. matches' \in [MatchIds -> [phase : Phases, group : SUBSET Players,
                                 accepted : SUBSET Players, ban : SUBSET Players]]
  BY DEF FailMatch, TypeOK, NoMatch, Phases
<1>9. pending' \in [Players -> {0} \union MatchIds]
  BY DEF FailMatch, TypeOK
<1>10. data' \subseteq Players /\ ticket' \in [Players -> {NoTicket} \union Epochs]
  BY DEF FailMatch, TypeOK
<1> QED
  BY <1>1, <1>5, <1>6, <1>7, <1>8, <1>9, <1>10 DEF QueueType

LEMMA RemoveClientType ==
    ASSUME TypeOK, NEW p \in Players, RemoveClient(p)
    PROVE  QueueType'
<1> DEFINE m == entry[p]
<1>2. CASE m = NoEntry /\ UNCHANGED <<entry, data, ticket, matches, reqVars, wire>>
           /\ Unregister({p})
  BY <1>2, UnregisterType DEF TypeOK, QueueType, reqVars
<1>3. CASE /\ m = Searching
           /\ entry' = [entry EXCEPT ![p] = NoEntry]
           /\ data' = data \ {p}
           /\ CancelInRust(p)
           /\ Unregister({p})
           /\ UNCHANGED <<ticket, matches, pending>>
  BY <1>3, UnregisterType, CancelType DEF TypeOK, QueueType
<1>4. CASE m \in MatchIds
           /\ FailMatch(m, matches[m].group, matches[m].ban \union {p}, ticket)
  <2>1. matches[m].group \in SUBSET Players /\ matches[m].ban \union {p} \in SUBSET Players
    BY <1>4 DEF TypeOK
  <2>2. ticket \in [Players -> {NoTicket} \union Epochs]
    BY DEF TypeOK
  <2> QED
    BY <1>4, <2>1, <2>2, FailMatchType
<1>5. CASE /\ m \in MatchIds
           /\ entry' = [entry EXCEPT ![p] = NoEntry]
           /\ matches' = IF Live(m) THEN [matches EXCEPT ![m].ban = @ \union {p}]
                                    ELSE matches
           /\ Unregister({p})
           /\ UNCHANGED <<data, ticket, reqVars, wire>>
  <2>1. matches[m].ban \union {p} \in SUBSET Players
    BY <1>5 DEF TypeOK
  <2>2. [matches EXCEPT ![m].ban = @ \union {p}]
          \in [MatchIds -> [phase : Phases, group : SUBSET Players,
                            accepted : SUBSET Players, ban : SUBSET Players]]
    <3>1. matches[m] \in [phase : Phases, group : SUBSET Players,
                          accepted : SUBSET Players, ban : SUBSET Players]
      BY <1>5 DEF TypeOK
    <3>2. [matches[m] EXCEPT !.ban = @ \union {p}]
            \in [phase : Phases, group : SUBSET Players,
                 accepted : SUBSET Players, ban : SUBSET Players]
      BY <2>1, <3>1
    <3> QED
      BY <1>5, <3>2 DEF TypeOK
  <2>3. entry' \in [Players -> {NoEntry, Searching} \union MatchIds]
    BY <1>5 DEF TypeOK
  <2> QED
    BY <1>5, <2>2, <2>3, UnregisterType DEF TypeOK, QueueType, reqVars
<1> QED
  BY <1>2, <1>3, <1>4, <1>5 DEF RemoveClient

-----------------------------------------------------------------------------
(* Every action keeps the types.                                            *)

LEMMA MatchUpdateType ==
    ASSUME TypeOK, NEW m \in MatchIds,
           NEW r \in [phase : Phases, group : SUBSET Players,
                      accepted : SUBSET Players, ban : SUBSET Players]
    PROVE  [matches EXCEPT ![m] = r]
             \in [MatchIds -> [phase : Phases, group : SUBSET Players,
                               accepted : SUBSET Players, ban : SUBSET Players]]
BY DEF TypeOK

LEMMA FindUpdateType ==
    ASSUME TypeOK, NEW p \in Players, NEW k \in Slots,
           NEW f \in [pc : FindPcs, conn : Nat, tok : {NoToken} \union Epochs],
           SetFind(p, k, f)
    PROVE  find' \in [Players -> [Slots -> [pc : FindPcs, conn : Nat,
                                          tok : {NoToken} \union Epochs]]]
<1>1. find[p] \in [Slots -> [pc : FindPcs, conn : Nat, tok : {NoToken} \union Epochs]]
  BY DEF TypeOK
<1>2. [find[p] EXCEPT ![k] = f]
        \in [Slots -> [pc : FindPcs, conn : Nat, tok : {NoToken} \union Epochs]]
  BY <1>1
<1> QED
  BY <1>2 DEF TypeOK, SetFind

LEMMA FindMoveType ==
    ASSUME TypeOK, NEW p \in Players, NEW k \in Slots, NEW pc \in FindPcs,
           MoveFind(p, k, pc)
    PROVE  find' \in [Players -> [Slots -> [pc : FindPcs, conn : Nat,
                                          tok : {NoToken} \union Epochs]]]
<1>1. find[p][k] \in [pc : FindPcs, conn : Nat, tok : {NoToken} \union Epochs]
  BY DEF TypeOK
<1>2. [find[p][k] EXCEPT !.pc = pc]
        \in [pc : FindPcs, conn : Nat, tok : {NoToken} \union Epochs]
  BY <1>1
<1>3. SetFind(p, k, [find[p][k] EXCEPT !.pc = pc])
  BY DEF SetFind, MoveFind
<1> QED
  BY <1>2, <1>3, FindUpdateType

LEMMA FindIdleType ==
    FindIdle \in [pc : FindPcs, conn : Nat, tok : {NoToken} \union Epochs]
BY DEF FindIdle, FindPcs, NoClient

LEMMA FinishFindType ==
    ASSUME TypeOK, NEW p \in Players, NEW k \in Slots, FinishFind(p, k)
    PROVE  /\ QueueType' /\ watchdog' \in BOOLEAN
           /\ find' \in [Players -> [Slots -> [pc : FindPcs, conn : Nat,
                                             tok : {NoToken} \union Epochs]]]
<1> DEFINE g == find[p][k].conn
<1>1. g \in Nat
  BY DEF TypeOK
<1>2. SetFind(p, k, FindIdle) /\ watchdog' = TRUE
  BY DEF FinishFind
<1>3. find' \in [Players -> [Slots -> [pc : FindPcs, conn : Nat,
                                     tok : {NoToken} \union Epochs]]]
  BY <1>2, FindUpdateType, FindIdleType
<1>4. CASE /\ subbed' = subbed \union {<<p, g>>}
           /\ UNCHANGED <<queueVars, matches, reqVars, wire>>
  <2>1. subbed' \subseteq Players \X Nat
    BY <1>1, <1>4 DEF TypeOK
  <2> QED
    BY <1>2, <1>3, <1>4, <2>1 DEF TypeOK, QueueType, queueVars, reqVars
<1>5. CASE RemoveClient(p)
  BY <1>2, <1>3, <1>5, RemoveClientType
<1> QED
  BY <1>2, <1>3, <1>4, <1>5 DEF FinishFind

LEMMA FindStepType ==
    ASSUME TypeOK, NEW p \in Players, NEW k \in Slots, FindStep(p, k)
    PROVE  TypeOK'
<1> USE DEF clientVars, queueVars, reqVars, tokenVars, rsVars
<1>1. CASE FindStart(p, k)
  <2>1. [FindIdle EXCEPT !.pc = "prep", !.conn = gen[p]]
          \in [pc : FindPcs, conn : Nat, tok : {NoToken} \union Epochs]
    BY FindIdleType DEF FindPcs, TypeOK
  <2>2. find' \in [Players -> [Slots -> [pc : FindPcs, conn : Nat,
                                       tok : {NoToken} \union Epochs]]]
    BY <1>1, <2>1, FindUpdateType DEF FindStart
  <2>3. activity' \in [Players -> Nat]
    BY <1>1 DEF FindStart, TypeOK
  <2>4. /\ finds' \in Nat
        /\ UNCHANGED <<up, gen, subbed, entry, data, ticket, matches, requeues, pending,
                      token, watchdog, failures, poll, wire, rsQueue, rsEpoch, events,
                      formed, losses>>
    BY <1>1 DEF FindStart, TypeOK
  <2> QED
    BY <2>2, <2>3, <2>4 DEF TypeOK
<1>2. CASE FindPrepFails(p, k)
  <2>1. find' \in [Players -> [Slots -> [pc : FindPcs, conn : Nat,
                                       tok : {NoToken} \union Epochs]]]
    BY <1>2, FindIdleType, FindUpdateType DEF FindPrepFails
  <2> QED
    BY <1>2, <2>1 DEF FindPrepFails, TypeOK, NoClient
<1>3. CASE FindPost(p, k)
  <2>1. find' \in [Players -> [Slots -> [pc : FindPcs, conn : Nat,
                                       tok : {NoToken} \union Epochs]]]
    BY <1>3, FindMoveType DEF FindPost, FindPcs
  <2>2. wire' \in [Players -> Seq(Requests)]
    BY <1>3, SendType, RequestTypes DEF FindPost
  <2> QED
    BY <1>3, <2>1, <2>2 DEF FindPost, TypeOK
<1>4. CASE FindRetry(p, k)
  <2>1. find' \in [Players -> [Slots -> [pc : FindPcs, conn : Nat,
                                       tok : {NoToken} \union Epochs]]]
    BY <1>4, FindMoveType DEF FindRetry, FindPcs
  <2>2. wire' \in [Players -> Seq(Requests)]
    <3>1. Send(p, Post(k)) \/ UNCHANGED wire
      BY <1>4 DEF FindRetry
    <3> QED
      BY <3>1, SendType, RequestTypes DEF TypeOK
  <2>3. rsQueue' \subseteq Players
    BY <1>4 DEF FindRetry, TypeOK
  <2>4. losses' \in Nat
    BY <1>4 DEF FindRetry, TypeOK
  <2> QED
    BY <1>4, <2>1, <2>2, <2>3, <2>4 DEF FindRetry, TypeOK
<1>5. CASE FindQueued(p, k)
  <2>1. CASE MoveFind(p, k, "token")
               /\ UNCHANGED <<subbed, queueVars, matches, reqVars, wire, watchdog>>
    <3>1. find' \in [Players -> [Slots -> [pc : FindPcs, conn : Nat,
                                         tok : {NoToken} \union Epochs]]]
      BY <2>1, FindMoveType DEF FindPcs
    <3> QED
      BY <1>5, <2>1, <3>1 DEF FindQueued, TypeOK
  <2>2. CASE FinishFind(p, k)
    BY <1>5, <2>2, FinishFindType DEF FindQueued, TypeOK, QueueType
  <2> QED
    BY <1>5, <2>1, <2>2 DEF FindQueued
<1>6. CASE FindToken(p, k)
  <2>1. ASSUME SetFind(p, k, [find[p][k] EXCEPT !.pc = "baseline", !.tok = rsEpoch])
        PROVE  find' \in [Players -> [Slots -> [pc : FindPcs, conn : Nat,
                                              tok : {NoToken} \union Epochs]]]
    <3>1. find[p][k] \in [pc : FindPcs, conn : Nat, tok : {NoToken} \union Epochs]
      BY DEF TypeOK
    <3>2. [find[p][k] EXCEPT !.pc = "baseline", !.tok = rsEpoch]
            \in [pc : FindPcs, conn : Nat, tok : {NoToken} \union Epochs]
      BY <3>1 DEF FindPcs, TypeOK
    <3> QED
      BY <2>1, <3>2, FindUpdateType
  <2>2. find' \in [Players -> [Slots -> [pc : FindPcs, conn : Nat,
                                       tok : {NoToken} \union Epochs]]]
    BY <1>6, <2>1, FindUpdateType, FindMoveType DEF FindToken, FindPcs
  <2>3. losses' \in Nat
    BY <1>6 DEF FindToken, TypeOK
  <2> QED
    BY <1>6, <2>2, <2>3 DEF FindToken, TypeOK
<1>7. CASE FindBaseline(p, k)
  <2>1. token' \in {NoToken} \union Epochs
    BY <1>7 DEF FindBaseline, TypeOK
  <2> QED
    BY <1>7, <2>1, FinishFindType DEF FindBaseline, TypeOK, QueueType
<1>8. CASE FindFailed(p, k)
  <2>1. find' \in [Players -> [Slots -> [pc : FindPcs, conn : Nat,
                                       tok : {NoToken} \union Epochs]]]
    BY <1>8, FindIdleType, FindUpdateType DEF FindFailed
  <2> QED
    BY <1>8, <2>1, CancelType DEF FindFailed, TypeOK, NoClient
<1> QED
  BY <1>1, <1>2, <1>3, <1>4, <1>5, <1>6, <1>7, <1>8 DEF FindStep

LEMMA ClientStepType ==
    ASSUME TypeOK, NEW p \in Players, ClientStep(p)
    PROVE  TypeOK'
<1> USE DEF clientVars, queueVars, reqVars, tokenVars, rsVars
<1>1. CASE Connect(p)
  BY <1>1 DEF Connect, TypeOK
<1>2. CASE Disconnect(p)
  <2>1. QueueType'
    BY <1>2, RemoveClientType DEF Disconnect, TypeOK, QueueType
  <2> QED
    BY <1>2, <2>1 DEF Disconnect, TypeOK, QueueType
<1>3. CASE Cancel(p)
  BY <1>3, RemoveClientType DEF Cancel, TypeOK, QueueType
<1>4. CASE Accept(p)
  <2> DEFINE m == entry[p]
             acc == matches[m].accepted \union {p}
             ph == IF acc = matches[m].group THEN "map" ELSE matches[m].phase
  <2>1. m \in MatchIds
    BY <1>4 DEF Accept
  <2>2. matches[m] \in [phase : Phases, group : SUBSET Players,
                        accepted : SUBSET Players, ban : SUBSET Players]
    BY <2>1 DEF TypeOK
  <2>3. [matches[m] EXCEPT !.accepted = acc, !.phase = ph]
          \in [phase : Phases, group : SUBSET Players,
               accepted : SUBSET Players, ban : SUBSET Players]
    BY <2>2 DEF Phases
  <2>4. matches' = [matches EXCEPT ![m] = [matches[m] EXCEPT !.accepted = acc, !.phase = ph]]
    BY <1>4, <2>1, <2>2 DEF Accept, TypeOK
  <2>5. matches' \in [MatchIds -> [phase : Phases, group : SUBSET Players,
                                   accepted : SUBSET Players, ban : SUBSET Players]]
    BY <2>1, <2>3, <2>4, MatchUpdateType
  <2> QED
    BY <1>4, <2>5 DEF Accept, TypeOK
<1> QED
  BY <1>1, <1>2, <1>3, <1>4 DEF ClientStep

LEMMA EndMatchType ==
    ASSUME TypeOK, NEW m \in MatchIds, NEW ban \in SUBSET Players,
           \/ Fail(m, ban)
           \/ FailMatch(m, matches[m].group, ban, ticket)
    PROVE  QueueType'
<1>1. /\ matches[m].group \in SUBSET Players
      /\ matches[m].ban \union ban \in SUBSET Players
      /\ ticket \in [Players -> {NoTicket} \union Epochs]
  BY DEF TypeOK
<1> QED
  BY <1>1, FailMatchType DEF Fail

LEMMA PhaseType ==
    ASSUME TypeOK, NEW m \in MatchIds, NEW ph \in Phases,
           matches' = [matches EXCEPT ![m].phase = ph]
    PROVE  matches' \in [MatchIds -> [phase : Phases, group : SUBSET Players,
                                     accepted : SUBSET Players, ban : SUBSET Players]]
<1>1. matches[m] \in [phase : Phases, group : SUBSET Players,
                      accepted : SUBSET Players, ban : SUBSET Players]
  BY DEF TypeOK
<1>2. [matches[m] EXCEPT !.phase = ph]
        \in [phase : Phases, group : SUBSET Players,
             accepted : SUBSET Players, ban : SUBSET Players]
  BY <1>1
<1>3. matches' = [matches EXCEPT ![m] = [matches[m] EXCEPT !.phase = ph]]
  BY DEF TypeOK
<1> QED
  BY <1>2, <1>3, MatchUpdateType

LEMMA BeginLoadType ==
    ASSUME TypeOK, NEW m \in MatchIds, BeginLoad(m)
    PROVE  QueueType'
<1> DEFINE absent == {p \in matches[m].group : activity[p] = NoClient}
<1>1. CASE Fail(m, absent)
  <2>1. absent \in SUBSET Players
    BY DEF TypeOK
  <2> HIDE DEF absent
  <2> QED
    BY <1>1, <2>1, EndMatchType
<1>2. CASE /\ matches' = [matches EXCEPT ![m].phase = "loading"]
           /\ UNCHANGED <<subbed, queueVars, reqVars, wire>>
  <2>1. matches' \in [MatchIds -> [phase : Phases, group : SUBSET Players,
                                  accepted : SUBSET Players, ban : SUBSET Players]]
    BY <1>2, PhaseType DEF Phases
  <2> QED
    BY <1>2, <2>1 DEF TypeOK, QueueType, queueVars, reqVars
<1> QED
  BY <1>1, <1>2 DEF BeginLoad

LEMMA MatchStepType ==
    ASSUME TypeOK, NEW m \in MatchIds, MatchStep(m)
    PROVE  TypeOK'
<1>1. QueueType'
  <2>1. CASE AcceptTimeout(m)
    <3>1. matches[m].group \ matches[m].accepted \in SUBSET Players
      BY DEF TypeOK
    <3> QED
      BY <2>1, <3>1, EndMatchType DEF AcceptTimeout
  <2>2. CASE MapPicked(m)
    <3>1. CASE BeginLoad(m)
      BY <3>1, BeginLoadType
    <3>2. CASE Fail(m, {})
      BY <3>2, EndMatchType
    <3>3. CASE /\ matches' = [matches EXCEPT ![m].phase = "drafting"]
               /\ UNCHANGED <<subbed, queueVars, reqVars, wire>>
      <4>1. matches' \in [MatchIds -> [phase : Phases, group : SUBSET Players,
                                      accepted : SUBSET Players, ban : SUBSET Players]]
        BY <3>3, PhaseType DEF Phases
      <4> QED
        BY <3>3, <4>1 DEF TypeOK, QueueType, queueVars, reqVars
    <3> QED
      BY <2>2, <3>1, <3>2, <3>3 DEF MapPicked
  <2>3. CASE MapFails(m)
    BY <2>3, EndMatchType DEF MapFails
  <2>4. CASE DraftDone(m)
    BY <2>4, BeginLoadType DEF DraftDone
  <2>5. CASE LoadSucceeds(m)
    <3>1. activity' \in [Players -> Nat] /\ subbed' \subseteq Players \X Nat
      BY <2>5, UnregisterType DEF LoadSucceeds
    <3>2. NoMatch \in [phase : Phases, group : SUBSET Players,
                       accepted : SUBSET Players, ban : SUBSET Players]
      BY DEF NoMatch, Phases
    <3>3. matches' \in [MatchIds -> [phase : Phases, group : SUBSET Players,
                                    accepted : SUBSET Players, ban : SUBSET Players]]
      BY <2>5, <3>2, MatchUpdateType DEF LoadSucceeds
    <3> QED
      BY <2>5, <3>1, <3>3 DEF LoadSucceeds, EntryWithout, TypeOK, QueueType, reqVars
  <2>6. ASSUME NEW blamed \in SUBSET matches[m].group, LoadFails(m, blamed)
        PROVE  QueueType'
    <3>1. blamed \in SUBSET Players
      BY DEF TypeOK
    <3> QED
      BY <2>6, <3>1, EndMatchType DEF LoadFails
  <2> QED
    BY <2>1, <2>2, <2>3, <2>4, <2>5, <2>6 DEF MatchStep
<1>2. matchOnlyUnchanged
  BY DEF MatchStep, AcceptTimeout, MapPicked, MapFails, DraftDone, LoadSucceeds, LoadFails
<1> QED
  BY <1>1, <1>2 DEF matchOnlyUnchanged, TypeOK, QueueType, tokenVars, rsVars

LEMMA WatchdogStepType ==
    ASSUME TypeOK, WatchdogStep
    PROVE  TypeOK'
<1> USE DEF queueVars, reqVars, rsVars, pollUnchanged
<1>1. CASE PollSend
  BY <1>1 DEF PollSend, TypeOK
<1>2. CASE WatchdogStops
  BY <1>2 DEF WatchdogStops, TypeOK
<1>3. CASE PollAnswer
  BY <1>3 DEF PollAnswer, TypeOK
<1>4. CASE PollDone
  <2>1. SearchingPlayers \in SUBSET Players /\ {} \in SUBSET Players
        /\ NoDeletes \in [Players -> Nat]
    BY DEF SearchingPlayers, NoDeletes
  <2>2. \/ UNCHANGED <<token, subbed, queueVars, wire>>
        \/ \E P \in SUBSET Players : EjectAnd(P, NoDeletes)
    BY <1>4, <2>1 DEF PollDone
  <2>3. /\ failures' \in {0, 1} /\ token' \in {NoToken} \union Epochs
        /\ poll' = PollIdle
    BY <1>4 DEF PollDone, MaxTokenFetchFailures, TypeOK
  <2>4. /\ activity' \in [Players -> Nat] /\ subbed' \subseteq Players \X Nat
        /\ entry' \in [Players -> {NoEntry, Searching} \union MatchIds]
        /\ data' \subseteq Players
        /\ ticket' \in [Players -> {NoTicket} \union Epochs]
        /\ wire' \in [Players -> Seq(Requests)]
    BY <2>1, <2>2, EjectType DEF TypeOK
  <2>5. /\ pollUnchanged
        /\ UNCHANGED <<watchdog, rsVars, losses>>
    BY <1>4 DEF PollDone
  <2> QED
    BY <2>3, <2>4, <2>5 DEF TypeOK
<1> QED
  BY <1>1, <1>2, <1>3, <1>4 DEF WatchdogStep

LEMMA RsReceiveType ==
    ASSUME TypeOK, NEW p \in Players, NEW i \in 1..Len(wire[p]), NEW fate \in Fates,
           RsReceive(p, i, fate)
    PROVE  TypeOK'
<1> DEFINE r == wire[p][i]
           ok == Accepts(p, r)
           F == [pc : FindPcs, conn : Nat, tok : {NoToken} \union Epochs]
           T == [p : Players, m : MatchIds, tk : {NoTicket} \union Epochs,
                 st : {"sent", "ok", "err"}, dels : Nat]
           done(q) == IF q.p = p /\ q.m = r.id
                        THEN [q EXCEPT !.st = IF fate = "answered" /\ ok THEN "ok" ELSE "err"]
                        ELSE q
<1>1. wire[p] \in Seq(Requests)
  BY DEF TypeOK
<1>2. r \in Requests
  BY <1>1
<1>3. wire' \in [Players -> Seq(Requests)]
  <2>1. Without(wire[p], i) \in Seq(Requests)
    BY <1>1, WithoutType
  <2> QED
    BY <2>1 DEF RsReceive, TypeOK
<1>4. rsQueue' \subseteq Players
  BY DEF RsReceive, TypeOK
<1>5. find' \in [Players -> [Slots -> F]]
  <2>1. CASE r.kind # "post"
    BY <2>1 DEF RsReceive, TypeOK
  <2>2. CASE r.kind = "post"
    <3>1. r.id \in Slots
      BY <1>2, <2>2 DEF Requests
    <3>2. \E pc \in FindPcs : find' = [find EXCEPT ![p][r.id].pc = pc]
      BY <2>2, <3>1 DEF RsReceive, FindPcs
    <3>3. PICK pc \in FindPcs : MoveFind(p, r.id, pc)
      BY <3>2 DEF MoveFind
    <3> HIDE DEF r
    <3> QED
      BY <3>1, <3>3, FindMoveType
  <2> QED
    BY <2>1, <2>2
<1>6. requeues' \subseteq T
  <2>1. requeues' = requeues \/ requeues' = {done(q) : q \in requeues}
    BY DEF RsReceive
  <2>2. \A q \in T : done(q) \in T
    OBVIOUS
  <2>3. requeues \subseteq T
    BY DEF TypeOK
  <2> HIDE DEF done, T
  <2> QED
    BY <2>1, <2>2, <2>3
<1>7. losses' \in Nat
  BY DEF RsReceive, TypeOK
<1>8. UNCHANGED <<clientVars, queueVars, matches, pending, tokenVars, rsEpoch,
                  events, formed, finds>>
  BY DEF RsReceive
<1> QED
  BY <1>3, <1>4, <1>5, <1>6, <1>7, <1>8
  DEF TypeOK, clientVars, queueVars, tokenVars

LEMMA RsStepType ==
    ASSUME TypeOK, RsStep
    PROVE  TypeOK'
<1> USE DEF clientVars, queueVars, reqVars, tokenVars
<1>1. CASE \E p \in Players : \E i \in 1..Len(wire[p]), fate \in Fates :
             RsReceive(p, i, fate)
  BY <1>1, RsReceiveType
<1>2. CASE \E group \in SUBSET Players : RsFormMatch(group)
  <2>1. PICK group \in SUBSET Players : RsFormMatch(group)
    BY <1>2
  <2>2. formed + 1 \in MatchIds /\ formed' \in 0..MaxMatches
    BY <2>1, BoundFacts DEF RsFormMatch, TypeOK, MatchIds
  <2>3. events' \subseteq [id : MatchIds, group : SUBSET Players, tk : Epochs]
    BY <2>1, <2>2 DEF RsFormMatch, TypeOK
  <2>4. rsQueue' \subseteq Players
    BY <2>1 DEF RsFormMatch, RsTake, TypeOK
  <2> QED
    BY <2>1, <2>2, <2>3, <2>4 DEF RsFormMatch, TypeOK
<1>3. CASE \E lost \in SUBSET events : RsRestart(lost)
  <2>1. PICK lost \in SUBSET events : RsRestart(lost)
    BY <1>3
  <2>2. rsEpoch' \in Epochs
    BY <2>1, BoundFacts DEF RsRestart, TypeOK, Epochs
  <2>3. events' \subseteq [id : MatchIds, group : SUBSET Players, tk : Epochs]
        /\ rsQueue' \subseteq Players
    BY <2>1 DEF RsRestart, TypeOK
  <2> QED
    BY <2>1, <2>2, <2>3 DEF RsRestart, TypeOK
<1> QED
  BY <1>1, <1>2, <1>3 DEF RsStep

LEMMA RequeueDoneType ==
    ASSUME TypeOK, NEW r \in requeues, RequeueDone(r)
    PROVE  TypeOK'
<1> DEFINE P == IF r.st = "err" THEN {r.p} ELSE {}
           n == [NoDeletes EXCEPT ![r.p] = r.dels]
<1>1. r.p \in Players /\ r.dels \in Nat
  BY DEF TypeOK
<1>2. P \in SUBSET Players /\ n \in [Players -> Nat]
  BY <1>1 DEF NoDeletes
<1>3. EjectAnd(P, n)
  BY DEF RequeueDone
<1>4. pending' \in [Players -> {0} \union MatchIds]
  BY <1>1 DEF RequeueDone, PendingWithout, TypeOK
<1> HIDE DEF P, n
<1>5. /\ activity' \in [Players -> Nat] /\ subbed' \subseteq Players \X Nat
      /\ entry' \in [Players -> {NoEntry, Searching} \union MatchIds]
      /\ data' \subseteq Players
      /\ ticket' \in [Players -> {NoTicket} \union Epochs]
      /\ wire' \in [Players -> Seq(Requests)]
  BY <1>2, <1>3, EjectType
<1> QED
  BY <1>4, <1>5 DEF RequeueDone, TypeOK, tokenVars, rsVars

LEMMA TicketsWithType ==
    ASSUME TypeOK, NEW ev \in events
    PROVE  TicketsWith(ev) \in [Players -> {NoTicket} \union Epochs]
BY DEF TypeOK, TicketsWith

LEMMA DropMatchType ==
    ASSUME TypeOK, NEW ev \in events, DropMatch(ev)
    PROVE  QueueType'
<1> DEFINE keep == {p \in ev.group : p \in data /\ entry[p] # NoEntry}
           T == [p : Players, m : MatchIds, tk : {NoTicket} \union Epochs,
                 st : {"sent", "ok", "err"}, dels : Nat]
           sent(p) == [p |-> p, m |-> ev.id, tk |-> ev.tk, st |-> "sent", dels |-> 0]
<1>1. ev.id \in MatchIds /\ ev.group \in SUBSET Players /\ ev.tk \in Epochs
  BY DEF TypeOK
<1>2. keep \subseteq Players /\ \A p \in Players : sent(p) \in T
  BY <1>1
<1>3. requeues' \subseteq T
  BY <1>2 DEF DropMatch, TypeOK
<1>4. wire' \in [Players -> Seq(Requests)]
  <2>1. \A p \in Players : wire[p] \in Seq(Requests)
    BY DEF TypeOK
  <2>2. \A p \in Players : Append(wire[p], Requeue(ev.id)) \in Seq(Requests)
    BY <1>1, <2>1, RequestTypes
  <2> QED
    BY <2>1, <2>2 DEF DropMatch
<1>5. activity' \in [Players -> Nat] /\ subbed' \subseteq Players \X Nat
  BY UnregisterType DEF DropMatch
<1>6. /\ entry' \in [Players -> {NoEntry, Searching} \union MatchIds]
      /\ data' \subseteq Players
      /\ ticket' \in [Players -> {NoTicket} \union Epochs]
  BY DEF DropMatch, EntryWithout, TypeOK
<1>7. pending' \in [Players -> {0} \union MatchIds]
  BY <1>1 DEF DropMatch, TypeOK
<1> QED
  BY <1>3, <1>4, <1>5, <1>6, <1>7 DEF DropMatch, TypeOK, QueueType

LEMMA StartMatchType ==
    ASSUME TypeOK, NEW ev \in events, StartMatch(ev)
    PROVE  QueueType'
<1> DEFINE absent == {p \in ev.group : activity[p] = NoClient}
<1>1. ev.id \in MatchIds /\ ev.group \in SUBSET Players /\ absent \in SUBSET Players
  BY DEF TypeOK
<1>2. CASE FailMatch(ev.id, ev.group, absent, TicketsWith(ev))
  <2> HIDE DEF absent
  <2> QED
    BY <1>1, <1>2, TicketsWithType, FailMatchType
<1>3. CASE /\ ticket' = TicketsWith(ev)
           /\ entry' = [p \in Players |-> IF p \in ev.group /\ entry[p] # NoEntry
                                            THEN ev.id ELSE entry[p]]
           /\ matches' = [matches EXCEPT ![ev.id] =
                            [NoMatch EXCEPT !.phase = "accepting", !.group = ev.group]]
           /\ UNCHANGED <<subbed, data, activity, reqVars, wire>>
  <2>1. [NoMatch EXCEPT !.phase = "accepting", !.group = ev.group]
          \in [phase : Phases, group : SUBSET Players,
               accepted : SUBSET Players, ban : SUBSET Players]
    BY <1>1 DEF NoMatch, Phases
  <2>2. matches' \in [MatchIds -> [phase : Phases, group : SUBSET Players,
                                  accepted : SUBSET Players, ban : SUBSET Players]]
    BY <1>1, <1>3, <2>1, MatchUpdateType
  <2>3. entry' \in [Players -> {NoEntry, Searching} \union MatchIds]
    BY <1>1, <1>3 DEF TypeOK
  <2> QED
    BY <1>3, <2>2, <2>3, TicketsWithType DEF TypeOK, QueueType, reqVars
<1> QED
  BY <1>2, <1>3 DEF StartMatch

LEMMA MatchFoundType ==
    ASSUME TypeOK, NEW ev \in events, MatchFound(ev)
    PROVE  TypeOK'
<1>1. QueueType'
  BY StartMatchType, DropMatchType DEF MatchFound
<1> QED
  BY <1>1 DEF MatchFound, TypeOK, QueueType, tokenVars

LEMMA InitType == Init => TypeOK
<1> SUFFICES ASSUME Init PROVE TypeOK
  OBVIOUS
<1>1. matches \in [MatchIds -> [phase : Phases, group : SUBSET Players,
                                accepted : SUBSET Players, ban : SUBSET Players]]
  BY DEF Init, NoMatch, Phases
<1>2. find \in [Players -> [Slots -> [pc : FindPcs, conn : Nat,
                                      tok : {NoToken} \union Epochs]]]
  BY FindIdleType DEF Init
<1>3. wire \in [Players -> Seq(Requests)]
  BY DEF Init
<1>4. rsEpoch \in Epochs /\ formed \in 0..MaxMatches /\ events = {} /\ requeues = {}
  BY BoundFacts DEF Init, Epochs
<1> QED
  BY <1>1, <1>2, <1>3, <1>4 DEF Init, TypeOK, NoClient, NoTicket

(* Every step of the service keeps the types.                               *)
LEMMA TypeStep == TypeOK /\ [Next]_vars => TypeOK'
<1> SUFFICES ASSUME TypeOK, [Next]_vars PROVE TypeOK'
  OBVIOUS
<1>1. CASE UNCHANGED vars
  BY <1>1 DEF vars, clientVars, queueVars, reqVars, tokenVars, rsVars, TypeOK
<1>2. CASE Next
  BY <1>2, ClientStepType, FindStepType, RequeueDoneType, MatchFoundType,
     MatchStepType, WatchdogStepType, RsStepType DEF Next
<1> QED
  BY <1>1, <1>2

-----------------------------------------------------------------------------
(* The building blocks keep Safe.                                           *)

LEMMA FailMatchSafe ==
    ASSUME TypeOK, Safe, NEW m \in MatchIds, NEW group \in SUBSET Players,
           NEW ban \in SUBSET Players,
           NEW tickets \in [Players -> {NoTicket} \union Epochs],
           \A p \in Players : entry[p] = m => p \in group,
           \A p \in Players \ group : tickets[p] = ticket[p],
           FailMatch(m, group, ban, tickets)
    PROVE  Safe'
<1> DEFINE stay == Returning(group, ban)
           back == {p \in stay : tickets[p] # NoTicket}
           gone == Dismissed(group, ban)
<1>1. \A p \in Players :
        /\ entry'[p] = IF p \in ban THEN NoEntry
                        ELSE IF p \in stay THEN Searching ELSE entry[p]
        /\ ticket'[p] = IF p \in back \union gone THEN NoTicket ELSE tickets[p]
        /\ pending'[p] = IF p \in back THEN m ELSE pending[p]
  BY DEF FailMatch
<1>2. /\ data' = data \ gone
      /\ matches' = [matches EXCEPT ![m] = NoMatch]
      /\ requeues' = requeues \union
            {[p |-> p, m |-> m, tk |-> tickets[p], st |-> "sent", dels |-> 0] : p \in back}
  BY DEF FailMatch
<1>3. \A p \in Players : p \in group /\ p \notin ban /\ entry[p] # NoEntry <=> p \in stay
  BY DEF Returning
<1>4. \A p \in Players : p \in gone <=> p \in group /\ (p \in ban \/ entry[p] = NoEntry)
  BY DEF Dismissed
<1>5. NoEntry # Searching /\ NoEntry \notin MatchIds /\ Searching \notin MatchIds
  BY BoundFacts DEF NoEntry, Searching
<1> HIDE DEF stay, gone
<1>6. EntryHasData'
  BY <1>1, <1>2, <1>3, <1>4, <1>5 DEF Safe, EntryHasData
<1>7. \A p \in Players : entry'[p] \in MatchIds =>
        entry'[p] = entry[p] /\ entry[p] # m /\ p \notin group
  BY <1>1, <1>3, <1>5
<1>8. EntryNamesLiveMatch'
  BY <1>2, <1>7 DEF Safe, EntryNamesLiveMatch, Live, TypeOK
<1>9. TicketInHand'
  BY <1>1, <1>3, <1>4, <1>7 DEF Safe, TicketInHand
<1>10. PendingIsInFlight'
  <2>1. SUFFICES ASSUME NEW p \in Players, pending'[p] # 0
                 PROVE  \E r \in requeues' : r.p = p /\ r.m = pending'[p]
    BY DEF PendingIsInFlight
  <2>2. CASE p \in back
    <3>1. [p |-> p, m |-> m, tk |-> tickets[p], st |-> "sent", dels |-> 0] \in requeues'
      BY <1>2, <2>2
    <3> QED
      BY <1>1, <2>2, <3>1
  <2>3. CASE p \notin back
    BY <1>1, <1>2, <2>1, <2>3 DEF Safe, PendingIsInFlight
  <2> QED
    BY <2>2, <2>3
<1> QED
  BY <1>6, <1>8, <1>9, <1>10 DEF Safe

LEMMA RemoveClientSafe ==
    ASSUME TypeOK, Safe, NEW p \in Players, RemoveClient(p)
    PROVE  Safe'
<1> DEFINE m == entry[p]
<1>0. NoEntry \notin MatchIds
  BY BoundFacts DEF NoEntry
<1>1. CASE UNCHANGED <<entry, data, ticket, matches, reqVars, wire>>
  BY <1>1 DEF Safe, EntryHasData, EntryNamesLiveMatch, TicketInHand, PendingIsInFlight,
              Live, reqVars
<1>2. CASE /\ m = Searching
           /\ entry' = [entry EXCEPT ![p] = NoEntry]
           /\ data' = data \ {p}
           /\ CancelInRust(p)
           /\ UNCHANGED <<ticket, matches, pending>>
  <2>1. EntryHasData' /\ EntryNamesLiveMatch' /\ TicketInHand'
    BY <1>0, <1>2
    DEF Safe, EntryHasData, EntryNamesLiveMatch, TicketInHand, Live, TypeOK
  <2>2. PendingIsInFlight'
    BY <1>2, CancelType DEF Safe, PendingIsInFlight
  <2> QED
    BY <2>1, <2>2 DEF Safe
<1>3. CASE /\ m \in MatchIds
           /\ FailMatch(m, matches[m].group, matches[m].ban \union {p}, ticket)
  <2>1. /\ matches[m].group \in SUBSET Players
        /\ matches[m].ban \union {p} \in SUBSET Players
        /\ ticket \in [Players -> {NoTicket} \union Epochs]
    BY <1>3 DEF TypeOK
  <2>2. \A q \in Players : entry[q] = m => q \in matches[m].group
    BY <1>3 DEF Safe, EntryNamesLiveMatch
  <2> HIDE DEF m
  <2> QED
    BY <1>3, <2>1, <2>2, FailMatchSafe
<1>4. CASE /\ m \in MatchIds
           /\ entry' = [entry EXCEPT ![p] = NoEntry]
           /\ matches' = IF Live(m) THEN [matches EXCEPT ![m].ban = @ \union {p}]
                                    ELSE matches
           /\ UNCHANGED <<data, ticket, reqVars, wire>>
  <2>1. \A n \in MatchIds : /\ matches'[n].phase = matches[n].phase
                            /\ matches'[n].group = matches[n].group
    <3>1. CASE Live(m)
      BY <1>4, <3>1 DEF TypeOK
    <3>2. CASE ~Live(m)
      BY <1>4, <3>2
    <3> QED
      BY <3>1, <3>2
  <2>2. \A q \in Players : entry'[q] # NoEntry => entry'[q] = entry[q]
    BY <1>4 DEF TypeOK
  <2> QED
    BY <1>0, <1>4, <2>1, <2>2
    DEF Safe, EntryHasData, EntryNamesLiveMatch, TicketInHand, PendingIsInFlight,
        Live, reqVars
<1> QED
  BY <1>1, <1>2, <1>3, <1>4 DEF RemoveClient

LEMMA EjectSafe ==
    ASSUME TypeOK, Safe, NEW P \in SUBSET Players, NEW n, EjectAnd(P, n),
           UNCHANGED matches
    PROVE  EntryHasData' /\ EntryNamesLiveMatch' /\ TicketInHand'
<1>1. NoEntry \notin MatchIds
  BY BoundFacts DEF NoEntry
<1>2. /\ entry' = [p \in Players |-> IF p \in P THEN NoEntry ELSE entry[p]]
      /\ ticket' = [p \in Players |-> IF p \in P THEN NoTicket ELSE ticket[p]]
      /\ data' = data \ P
  BY DEF EjectAnd, EntryWithout
<1> QED
  BY <1>1, <1>2
  DEF Safe, EntryHasData, EntryNamesLiveMatch, TicketInHand, Live

LEMMA EndMatchSafe ==
    ASSUME TypeOK, Safe, NEW m \in MatchIds, NEW ban \in SUBSET Players,
           \/ Fail(m, ban)
           \/ FailMatch(m, matches[m].group, ban, ticket)
    PROVE  Safe'
<1>1. /\ matches[m].group \in SUBSET Players
      /\ matches[m].ban \union ban \in SUBSET Players
      /\ ticket \in [Players -> {NoTicket} \union Epochs]
  BY DEF TypeOK
<1>2. \A q \in Players : entry[q] = m => q \in matches[m].group
  BY DEF Safe, EntryNamesLiveMatch
<1> QED
  BY <1>1, <1>2, FailMatchSafe DEF Fail

(* A match that moves on to phase ph stays in the map with its players.      *)
LEMMA PhaseSafe ==
    ASSUME TypeOK, Safe, NEW m \in MatchIds, NEW ph \in Phases \ {"none"},
           matches' = [matches EXCEPT ![m].phase = ph],
           UNCHANGED <<queueVars, reqVars>>
    PROVE  Safe'
<1>1. \A n \in MatchIds : /\ matches'[n].group = matches[n].group
                          /\ Live(n) => Live(n)'
  <2>1. matches[m] \in [phase : Phases, group : SUBSET Players,
                        accepted : SUBSET Players, ban : SUBSET Players]
    BY DEF TypeOK
  <2>2. matches'[m] = [matches[m] EXCEPT !.phase = ph]
        /\ \A n \in MatchIds : n # m => matches'[n] = matches[n]
    BY DEF TypeOK
  <2>3. matches'[m].group = matches[m].group /\ matches'[m].phase = ph
    BY <2>1, <2>2
  <2> QED
    BY <2>2, <2>3 DEF Live
<1> QED
  BY <1>1
  DEF Safe, EntryHasData, EntryNamesLiveMatch, TicketInHand, PendingIsInFlight,
      queueVars, reqVars

LEMMA BeginLoadSafe ==
    ASSUME TypeOK, Safe, NEW m \in MatchIds, BeginLoad(m)
    PROVE  Safe'
<1> DEFINE absent == {p \in matches[m].group : activity[p] = NoClient}
<1>1. CASE Fail(m, absent)
  <2>1. absent \in SUBSET Players
    BY DEF TypeOK
  <2> HIDE DEF absent
  <2> QED
    BY <1>1, <2>1, EndMatchSafe
<1>2. CASE /\ matches' = [matches EXCEPT ![m].phase = "loading"]
           /\ UNCHANGED <<subbed, queueVars, reqVars, wire>>
  BY <1>2, PhaseSafe DEF Phases
<1> QED
  BY <1>1, <1>2 DEF BeginLoad

-----------------------------------------------------------------------------
(* The building blocks start no match.                                      *)

NoNewMatch == \A n \in MatchIds : Live(n)' => Live(n)

LEMMA FailMatchEnds ==
    ASSUME TypeOK, NEW m \in MatchIds, NEW group, NEW ban, NEW tickets,
           FailMatch(m, group, ban, tickets)
    PROVE  NoNewMatch
<1>1. matches' = [matches EXCEPT ![m] = NoMatch] /\ NoMatch.phase = "none"
  BY DEF FailMatch, NoMatch
<1> QED
  BY <1>1 DEF NoNewMatch, Live, TypeOK

LEMMA RemoveClientEnds ==
    ASSUME TypeOK, NEW p \in Players, RemoveClient(p)
    PROVE  NoNewMatch
<1>1. CASE UNCHANGED matches
  BY <1>1 DEF NoNewMatch, Live
<1>2. CASE entry[p] \in MatchIds /\ FailMatch(entry[p], matches[entry[p]].group,
                                        matches[entry[p]].ban \union {p}, ticket)
  BY <1>2, FailMatchEnds
<1>3. CASE /\ entry[p] \in MatchIds
           /\ matches' = [matches EXCEPT ![entry[p]].ban = @ \union {p}]
  BY <1>3 DEF NoNewMatch, Live, TypeOK
<1> QED
  BY <1>1, <1>2, <1>3 DEF RemoveClient

LEMMA PhaseEnds ==
    ASSUME TypeOK, NEW m \in MatchIds, Live(m), NEW r,
           matches' = [matches EXCEPT ![m] = r]
    PROVE  NoNewMatch
BY DEF NoNewMatch, Live, TypeOK

LEMMA BeginLoadEnds ==
    ASSUME TypeOK, NEW m \in MatchIds, Live(m), BeginLoad(m)
    PROVE  NoNewMatch
<1>1. CASE \E ban \in SUBSET matches[m].group : Fail(m, ban)
  BY <1>1, FailMatchEnds DEF Fail
<1>2. CASE matches' = [matches EXCEPT ![m].phase = "loading"]
  BY <1>2, PhaseEnds DEF TypeOK
<1> QED
  BY <1>1, <1>2 DEF BeginLoad

LEMMA FreshKept ==
    ASSUME TypeOK, EventsFresh, events' \subseteq events, formed' = formed, NoNewMatch
    PROVE  EventsFresh'
BY DEF EventsFresh, NoNewMatch, Live, TypeOK

-----------------------------------------------------------------------------
(* Every action keeps the inductive invariant.                              *)

LEMMA ClientStepSafe ==
    ASSUME TypeOK, Safe, EventsFresh, NEW p \in Players, ClientStep(p)
    PROVE  Safe' /\ EventsFresh'
<1> USE DEF clientVars, queueVars, reqVars, rsVars
<1>1. CASE Connect(p)
  BY <1>1, FreshKept
  DEF Connect, Safe, EntryHasData, EntryNamesLiveMatch, TicketInHand, PendingIsInFlight,
      NoNewMatch, Live
<1>2. CASE Disconnect(p)
  <2>1. CASE RemoveClient(p)
    BY <1>2, <2>1, RemoveClientSafe, RemoveClientEnds, FreshKept DEF Disconnect
  <2>2. CASE UNCHANGED <<subbed, queueVars, matches, reqVars, wire>>
    BY <1>2, <2>2, FreshKept
    DEF Disconnect, Safe, EntryHasData, EntryNamesLiveMatch, TicketInHand,
        PendingIsInFlight, NoNewMatch, Live
  <2> QED
    BY <1>2, <2>1, <2>2 DEF Disconnect
<1>3. CASE Cancel(p)
  BY <1>3, RemoveClientSafe, RemoveClientEnds, FreshKept DEF Cancel
<1>4. CASE Accept(p)
  <2> DEFINE m == entry[p]
             acc == matches[m].accepted \union {p}
             ph == IF acc = matches[m].group THEN "map" ELSE matches[m].phase
  <2>1. m \in MatchIds /\ Live(m)
    BY <1>4 DEF Accept, Live
  <2>2. matches[m] \in [phase : Phases, group : SUBSET Players,
                        accepted : SUBSET Players, ban : SUBSET Players]
    BY <2>1 DEF TypeOK
  <2>3. matches' = [matches EXCEPT ![m] = [matches[m] EXCEPT !.accepted = acc, !.phase = ph]]
    BY <1>4, <2>1, <2>2 DEF Accept, TypeOK
  <2>4. NoNewMatch
    BY <2>1, <2>3, PhaseEnds
  <2>5. [matches[m] EXCEPT !.accepted = acc, !.phase = ph].group = matches[m].group
        /\ [matches[m] EXCEPT !.accepted = acc, !.phase = ph].phase # "none"
    BY <2>1, <2>2 DEF Live
  <2>6. \A n \in MatchIds : /\ matches'[n].group = matches[n].group
                            /\ Live(n) => Live(n)'
    BY <2>1, <2>3, <2>5 DEF Live, TypeOK
  <2>7. UNCHANGED <<entry, data, ticket, requeues, pending>>
    BY <1>4 DEF Accept
  <2>8. Safe'
    BY <2>6, <2>7
    DEF Safe, EntryHasData, EntryNamesLiveMatch, TicketInHand, PendingIsInFlight, Live
  <2> QED
    BY <1>4, <2>4, <2>8, FreshKept DEF Accept
<1> QED
  BY <1>1, <1>2, <1>3, <1>4 DEF ClientStep

LEMMA FindStepSafe ==
    ASSUME TypeOK, Safe, EventsFresh, NEW p \in Players, NEW k \in Slots, FindStep(p, k)
    PROVE  Safe' /\ EventsFresh'
<1> USE DEF clientVars, queueVars, reqVars, rsVars
<1>0. NoEntry \notin MatchIds /\ Searching \notin MatchIds
  BY BoundFacts DEF NoEntry, Searching
<1>1. ASSUME UNCHANGED <<entry, data, ticket, matches, reqVars, events, formed>>
      PROVE  Safe' /\ EventsFresh'
  BY <1>1, FreshKept
  DEF Safe, EntryHasData, EntryNamesLiveMatch, TicketInHand, PendingIsInFlight,
      NoNewMatch, Live
<1>2. ASSUME FinishFind(p, k), events' = events, formed' = formed
      PROVE  Safe' /\ EventsFresh'
  <2>1. CASE RemoveClient(p)
    BY <1>2, <2>1, RemoveClientSafe, RemoveClientEnds, FreshKept
  <2>2. CASE UNCHANGED <<queueVars, matches, reqVars, wire>>
    BY <1>1, <1>2, <2>2
  <2> QED
    BY <1>2, <2>1, <2>2 DEF FinishFind
<1>3. CASE FindStart(p, k) \/ FindPrepFails(p, k) \/ FindRetry(p, k) \/ FindToken(p, k)
  BY <1>1, <1>3 DEF FindStart, FindPrepFails, FindRetry, FindToken
<1>4. CASE FindPost(p, k)
  <2>1. EntryHasData' /\ EntryNamesLiveMatch' /\ TicketInHand' /\ PendingIsInFlight'
    BY <1>0, <1>4
    DEF FindPost, Safe, EntryHasData, EntryNamesLiveMatch, TicketInHand,
        PendingIsInFlight, Live, TypeOK
  <2>2. NoNewMatch
    BY <1>4 DEF FindPost, NoNewMatch, Live
  <2> QED
    BY <1>4, <2>1, <2>2, FreshKept DEF FindPost, Safe
<1>5. CASE FindQueued(p, k)
  <2>1. CASE UNCHANGED <<subbed, queueVars, matches, reqVars, wire, watchdog>>
    BY <1>1, <1>5, <2>1 DEF FindQueued
  <2>2. CASE FinishFind(p, k)
    BY <1>2, <1>5, <2>2 DEF FindQueued
  <2> QED
    BY <1>5, <2>1, <2>2 DEF FindQueued
<1>6. CASE FindBaseline(p, k)
  BY <1>2, <1>6 DEF FindBaseline
<1>7. CASE FindFailed(p, k)
  <2>0. /\ \A q \in Players : entry'[q] = IF q = p THEN NoEntry ELSE entry[q]
        /\ data' = data \ {p} /\ UNCHANGED <<ticket, matches>>
    BY <1>7 DEF FindFailed, TypeOK
  <2>1. EntryHasData' /\ EntryNamesLiveMatch' /\ TicketInHand'
    BY <1>0, <2>0 DEF Safe, EntryHasData, EntryNamesLiveMatch, TicketInHand, Live
  <2>2. PendingIsInFlight'
    <3>1. CancelInRust(p) /\ pending' = pending
      BY <1>7 DEF FindFailed
    <3>2. \A r \in requeues : \E q \in requeues' : q.p = r.p /\ q.m = r.m
      BY <3>1, CancelType
    <3> QED
      BY <3>1, <3>2 DEF Safe, PendingIsInFlight
  <2>3. NoNewMatch
    BY <1>7 DEF FindFailed, NoNewMatch, Live
  <2> QED
    BY <1>7, <2>1, <2>2, <2>3, FreshKept DEF FindFailed, Safe
<1> QED
  BY <1>3, <1>4, <1>5, <1>6, <1>7 DEF FindStep

LEMMA MatchStepSafe ==
    ASSUME TypeOK, Safe, EventsFresh, NEW m \in MatchIds, MatchStep(m)
    PROVE  Safe' /\ EventsFresh'
<1>0. NoEntry \notin MatchIds
  BY BoundFacts DEF NoEntry
<1>1. matchOnlyUnchanged
  BY DEF MatchStep, AcceptTimeout, MapPicked, MapFails, DraftDone, LoadSucceeds, LoadFails
<1>2. ASSUME NEW ban \in SUBSET Players,
             Fail(m, ban) \/ FailMatch(m, matches[m].group, ban, ticket)
      PROVE  Safe' /\ NoNewMatch
  BY <1>2, EndMatchSafe, FailMatchEnds DEF Fail
<1>3. matches[m].group \in SUBSET Players /\ {} \in SUBSET Players
      /\ matches[m].group \ matches[m].accepted \in SUBSET Players
  BY DEF TypeOK
<1>4. Safe' /\ NoNewMatch
  <2>1. CASE AcceptTimeout(m)
    BY <1>2, <1>3, <2>1 DEF AcceptTimeout
  <2>2. CASE MapPicked(m)
    <3>1. Live(m)
      BY <2>2 DEF MapPicked, Live
    <3>2. CASE BeginLoad(m)
      BY <3>1, <3>2, BeginLoadSafe, BeginLoadEnds
    <3>3. CASE Fail(m, {})
      BY <1>2, <1>3, <3>3
    <3>4. CASE /\ matches' = [matches EXCEPT ![m].phase = "drafting"]
               /\ UNCHANGED <<subbed, queueVars, reqVars, wire>>
      <4>1. Safe'
        BY <3>4, PhaseSafe DEF Phases
      <4>2. NoNewMatch
        BY <3>1, <3>4 DEF NoNewMatch, Live, TypeOK
      <4> QED
        BY <4>1, <4>2
    <3> QED
      BY <2>2, <3>2, <3>3, <3>4 DEF MapPicked
  <2>3. CASE MapFails(m)
    BY <1>2, <1>3, <2>3 DEF MapFails
  <2>4. CASE DraftDone(m)
    BY <2>4, BeginLoadSafe, BeginLoadEnds DEF DraftDone, Live
  <2>5. CASE LoadSucceeds(m)
    <3> DEFINE group == matches[m].group
    <3>1. /\ \A p \in Players : /\ entry'[p] = IF p \in group THEN NoEntry ELSE entry[p]
                                /\ ticket'[p] = IF p \in group THEN NoTicket ELSE ticket[p]
          /\ data' = data \ group
          /\ matches' = [matches EXCEPT ![m] = NoMatch]
          /\ UNCHANGED reqVars
      BY <2>5 DEF LoadSucceeds, EntryWithout
    <3>2. \A p \in Players : entry[p] = m => p \in group
      BY DEF Safe, EntryNamesLiveMatch
    <3>3. \A n \in MatchIds : n # m => matches'[n] = matches[n]
      BY <3>1 DEF TypeOK
    <3>4. NoNewMatch
      BY <2>5 DEF LoadSucceeds, NoNewMatch, NoMatch, Live, TypeOK
    <3> HIDE DEF group
    <3>5. EntryHasData' /\ TicketInHand' /\ PendingIsInFlight'
      BY <1>0, <3>1 DEF Safe, EntryHasData, TicketInHand, PendingIsInFlight, reqVars
    <3>6. EntryNamesLiveMatch'
      BY <1>0, <3>1, <3>2, <3>3 DEF Safe, EntryNamesLiveMatch, Live
    <3> QED
      BY <3>4, <3>5, <3>6 DEF Safe
  <2>6. ASSUME NEW blamed \in SUBSET matches[m].group, LoadFails(m, blamed)
        PROVE  Safe' /\ NoNewMatch
    <3>1. blamed \in SUBSET Players
      BY <1>3
    <3> QED
      BY <1>2, <2>6, <3>1 DEF LoadFails
  <2> QED
    BY <2>1, <2>2, <2>3, <2>4, <2>5, <2>6 DEF MatchStep
<1> QED
  BY <1>1, <1>4, FreshKept DEF matchOnlyUnchanged, rsVars

LEMMA WatchdogStepSafe ==
    ASSUME TypeOK, Safe, EventsFresh, WatchdogStep
    PROVE  Safe' /\ EventsFresh'
<1> USE DEF queueVars, reqVars, rsVars, pollUnchanged
<1>1. UNCHANGED <<matches, reqVars, events, formed>>
  BY DEF WatchdogStep, PollSend, WatchdogStops, PollAnswer, PollDone
<1>2. EventsFresh' /\ PendingIsInFlight'
  BY <1>1, FreshKept DEF NoNewMatch, Live, Safe, PendingIsInFlight
<1>3. CASE UNCHANGED queueVars
  BY <1>1, <1>2, <1>3 DEF Safe, EntryHasData, EntryNamesLiveMatch, TicketInHand, Live
<1>4. CASE PollDone
  <2>1. SearchingPlayers \in SUBSET Players /\ {} \in SUBSET Players
    BY DEF SearchingPlayers
  <2>2. \/ UNCHANGED queueVars
        \/ \E P \in SUBSET Players : EjectAnd(P, NoDeletes)
    BY <1>4, <2>1 DEF PollDone
  <2> QED
    BY <1>1, <1>2, <1>3, <2>2, EjectSafe DEF Safe
<1> QED
  BY <1>3, <1>4 DEF WatchdogStep, PollSend, WatchdogStops, PollAnswer

LEMMA RequeueDoneSafe ==
    ASSUME TypeOK, Safe, EventsFresh, NEW r \in requeues, RequeueDone(r)
    PROVE  Safe' /\ EventsFresh'
<1>1. r.p \in Players
  BY DEF TypeOK
<1>2. EventsFresh'
  BY FreshKept DEF RequeueDone, NoNewMatch, Live, rsVars
<1>3. EntryHasData' /\ EntryNamesLiveMatch' /\ TicketInHand'
  <2>1. (IF r.st = "err" THEN {r.p} ELSE {}) \in SUBSET Players
    BY <1>1
  <2> QED
    BY <2>1, EjectSafe DEF RequeueDone
<1>4. PendingIsInFlight'
  <2>1. \A p \in Players : pending'[p] = IF p = r.p /\ pending[p] = r.m THEN 0 ELSE pending[p]
    BY <1>1 DEF RequeueDone, PendingWithout, TypeOK
  <2>2. requeues' = requeues \ {r}
    BY DEF RequeueDone
  <2> QED
    BY <2>1, <2>2 DEF Safe, PendingIsInFlight
<1> QED
  BY <1>2, <1>3, <1>4 DEF Safe

LEMMA MatchFoundSafe ==
    ASSUME TypeOK, Safe, EventsFresh, NEW ev \in events, MatchFound(ev)
    PROVE  Safe' /\ EventsFresh'
<1>0. NoEntry \notin MatchIds /\ Searching \notin MatchIds /\ NoTicket \notin Epochs
  BY BoundFacts DEF NoEntry, Searching, NoTicket, NoToken
<1>1. ev.id \in MatchIds /\ ev.group \in SUBSET Players /\ ev.tk \in Epochs
      /\ ~Live(ev.id) /\ ev.id <= formed
  BY DEF TypeOK, EventsFresh
<1>2. events' = events \ {ev} /\ formed' = formed
  BY DEF MatchFound, rsVars
<1>3. \A p \in Players : entry[p] # ev.id
  BY <1>1 DEF Safe, EntryNamesLiveMatch
<1>4. CASE DropMatch(ev)
  <2> DEFINE keep == {p \in ev.group : p \in data /\ entry[p] # NoEntry}
             gone == ev.group \ keep
  <2>1. /\ \A p \in Players : /\ entry'[p] = IF p \in gone THEN NoEntry ELSE entry[p]
                              /\ ticket'[p] = IF p \in gone THEN NoTicket ELSE ticket[p]
                              /\ pending'[p] = IF p \in keep THEN ev.id ELSE pending[p]
        /\ data' = data \ gone
        /\ UNCHANGED matches
        /\ requeues' = requeues \union
              {[p |-> p, m |-> ev.id, tk |-> ev.tk, st |-> "sent", dels |-> 0] : p \in keep}
    BY <1>4 DEF DropMatch, EntryWithout
  <2>2. NoNewMatch
    BY <2>1 DEF NoNewMatch, Live
  <2> HIDE DEF keep, gone
  <2>3. EntryHasData' /\ EntryNamesLiveMatch' /\ TicketInHand'
    BY <1>0, <2>1 DEF Safe, EntryHasData, EntryNamesLiveMatch, TicketInHand, Live
  <2>4. PendingIsInFlight'
    <3>1. SUFFICES ASSUME NEW p \in Players, pending'[p] # 0
                   PROVE  \E r \in requeues' : r.p = p /\ r.m = pending'[p]
      BY DEF PendingIsInFlight
    <3>2. CASE p \in keep
      <4>1. [p |-> p, m |-> ev.id, tk |-> ev.tk, st |-> "sent", dels |-> 0] \in requeues'
        BY <2>1, <3>2
      <4> QED
        BY <2>1, <3>2, <4>1
    <3>3. CASE p \notin keep
      BY <2>1, <3>1, <3>3 DEF Safe, PendingIsInFlight
    <3> QED
      BY <3>2, <3>3
  <2> QED
    BY <1>2, <2>2, <2>3, <2>4, FreshKept DEF Safe
<1>5. CASE FailMatch(ev.id, ev.group, {p \in ev.group : activity[p] = NoClient},
                     TicketsWith(ev))
  <2> DEFINE absent == {p \in ev.group : activity[p] = NoClient}
  <2>1. absent \in SUBSET Players
    BY <1>1
  <2>2. \A p \in Players \ ev.group : TicketsWith(ev)[p] = ticket[p]
    BY DEF TicketsWith
  <2> HIDE DEF absent
  <2>3. FailMatch(ev.id, ev.group, absent, TicketsWith(ev))
    BY <1>5 DEF absent
  <2>4. TicketsWith(ev) \in [Players -> {NoTicket} \union Epochs]
    BY TicketsWithType
  <2>5. \A p \in Players : entry[p] = ev.id => p \in ev.group
    BY <1>3
  <2>6. Safe'
    BY <1>1, <2>1, <2>2, <2>3, <2>4, <2>5, FailMatchSafe
  <2>7. NoNewMatch
    BY <1>1, <2>3, FailMatchEnds
  <2> QED
    BY <1>2, <2>6, <2>7, FreshKept
<1>6. CASE /\ ev.group \subseteq data
           /\ ticket' = TicketsWith(ev)
           /\ entry' = [p \in Players |-> IF p \in ev.group /\ entry[p] # NoEntry
                                            THEN ev.id ELSE entry[p]]
           /\ matches' = [matches EXCEPT ![ev.id] =
                            [NoMatch EXCEPT !.phase = "accepting", !.group = ev.group]]
           /\ UNCHANGED <<subbed, data, activity, reqVars, wire>>
  <2>1. /\ matches'[ev.id].phase = "accepting" /\ matches'[ev.id].group = ev.group
        /\ \A n \in MatchIds : n # ev.id => matches'[n] = matches[n]
    BY <1>1, <1>6 DEF TypeOK, NoMatch
  <2>2. EntryHasData'
    BY <1>0, <1>6 DEF Safe, EntryHasData
  <2>3. EntryNamesLiveMatch'
    BY <1>0, <1>1, <1>3, <1>6, <2>1 DEF Safe, EntryNamesLiveMatch, Live
  <2>4. TicketInHand'
    BY <1>0, <1>1, <1>6 DEF Safe, TicketInHand, TicketsWith
  <2>5. PendingIsInFlight'
    BY <1>6 DEF Safe, PendingIsInFlight, reqVars
  <2>6. EventsFresh'
    <3>1. \A e \in events' : e \in events /\ e.id \in MatchIds /\ e.id # ev.id
      BY <1>2 DEF EventsFresh, TypeOK
    <3>2. \A e \in events' : e.id <= formed' /\ ~Live(e.id)'
      BY <1>2, <2>1, <3>1 DEF EventsFresh, Live
    <3>3. \A e1, e2 \in events' : e1.id = e2.id => e1 = e2
      BY <3>1 DEF EventsFresh
    <3>4. \A n \in MatchIds : n > formed' => ~Live(n)'
      <4>1. \A n \in MatchIds : n > formed => n # ev.id
        BY <1>1, BoundFacts DEF TypeOK
      <4> QED
        BY <1>2, <2>1, <4>1 DEF EventsFresh, Live
    <3> QED
      BY <3>2, <3>3, <3>4 DEF EventsFresh
  <2> QED
    BY <2>2, <2>3, <2>4, <2>5, <2>6 DEF Safe
<1> QED
  BY <1>4, <1>5, <1>6 DEF MatchFound, StartMatch

LEMMA RsStepSafe ==
    ASSUME TypeOK, Safe, EventsFresh, RsStep
    PROVE  Safe' /\ EventsFresh'
<1> USE DEF clientVars, queueVars, reqVars
<1>1. UNCHANGED <<entry, data, ticket, matches, pending>>
  <2>1. ASSUME NEW p \in Players, NEW i \in 1..Len(wire[p]), NEW fate \in Fates,
               RsReceive(p, i, fate)
        PROVE  UNCHANGED <<entry, data, ticket, matches, pending>>
    BY <2>1 DEF RsReceive
  <2>2. ASSUME NEW group, RsFormMatch(group)
        PROVE  UNCHANGED <<entry, data, ticket, matches, pending>>
    BY <2>2 DEF RsFormMatch
  <2>3. ASSUME NEW lost, RsRestart(lost)
        PROVE  UNCHANGED <<entry, data, ticket, matches, pending>>
    BY <2>3 DEF RsRestart
  <2> QED
    BY <2>1, <2>2, <2>3 DEF RsStep
<1>2. EntryHasData' /\ EntryNamesLiveMatch' /\ TicketInHand'
  BY <1>1 DEF Safe, EntryHasData, EntryNamesLiveMatch, TicketInHand, Live
<1>3. NoNewMatch
  BY <1>1 DEF NoNewMatch, Live
<1>4. CASE \E p \in Players : \E i \in 1..Len(wire[p]), fate \in Fates :
             RsReceive(p, i, fate)
  <2>1. PICK p \in Players : \E i \in 1..Len(wire[p]), fate \in Fates :
               RsReceive(p, i, fate)
    BY <1>4
  <2>2. PICK i \in 1..Len(wire[p]), fate \in Fates : RsReceive(p, i, fate)
    BY <2>1
  <2> DEFINE done(q) == IF q.p = p /\ q.m = wire[p][i].id
                          THEN [q EXCEPT !.st = IF fate = "answered"
                                                   /\ Accepts(p, wire[p][i])
                                                  THEN "ok" ELSE "err"]
                          ELSE q
             T == [p : Players, m : MatchIds, tk : {NoTicket} \union Epochs,
                   st : {"sent", "ok", "err"}, dels : Nat]
  <2>3. requeues' = requeues \/ requeues' = {done(q) : q \in requeues}
    BY <2>2 DEF RsReceive
  <2>4. \A q \in T : done(q).p = q.p /\ done(q).m = q.m
    OBVIOUS
  <2>5. requeues \subseteq T
    BY DEF TypeOK
  <2> HIDE DEF done, T
  <2>6. \A q \in requeues : \E r \in requeues' : r.p = q.p /\ r.m = q.m
    BY <2>3, <2>4, <2>5
  <2>7. PendingIsInFlight'
    BY <1>1, <2>6 DEF Safe, PendingIsInFlight
  <2>8. UNCHANGED <<events, formed>>
    BY <2>2 DEF RsReceive
  <2> QED
    BY <1>2, <1>3, <2>7, <2>8, FreshKept DEF Safe
<1>5. CASE \E group \in SUBSET Players : RsFormMatch(group)
  <2>1. PICK group \in SUBSET Players : RsFormMatch(group)
    BY <1>5
  <2>2. /\ formed' = formed + 1 /\ formed \in Nat /\ formed + 1 \in MatchIds
        /\ events' = events \union {[id |-> formed + 1, group |-> group, tk |-> rsEpoch]}
    BY <2>1, BoundFacts DEF RsFormMatch, TypeOK, MatchIds
  <2>3. events \subseteq [id : MatchIds, group : SUBSET Players, tk : Epochs]
    BY DEF TypeOK
  <2>4. ~Live(formed + 1)
    BY <2>2 DEF EventsFresh
  <2>5. EventsFresh'
    BY <1>1, <2>2, <2>3, <2>4, BoundFacts DEF EventsFresh, Live
  <2>6. PendingIsInFlight'
    BY <1>1, <2>1 DEF RsFormMatch, Safe, PendingIsInFlight
  <2> QED
    BY <1>2, <2>5, <2>6 DEF Safe
<1>6. CASE \E lost \in SUBSET events : RsRestart(lost)
  <2>1. PendingIsInFlight' /\ events' \subseteq events /\ formed' = formed
    BY <1>1, <1>6 DEF RsRestart, Safe, PendingIsInFlight
  <2> QED
    BY <1>2, <1>3, <2>1, FreshKept DEF Safe
<1> QED
  BY <1>4, <1>5, <1>6 DEF RsStep

-----------------------------------------------------------------------------
(* The theorems.                                                            *)

LEMMA InitInvariant == Init => IInv
<1> SUFFICES ASSUME Init PROVE IInv
  OBVIOUS
<1>1. NoEntry \notin MatchIds
  BY BoundFacts DEF NoEntry
<1>2. Safe
  BY <1>1 DEF Init, Safe, EntryHasData, EntryNamesLiveMatch, TicketInHand,
              PendingIsInFlight
<1>3. EventsFresh
  BY DEF Init, EventsFresh, Live, NoMatch
<1> QED
  BY <1>2, <1>3, InitType DEF IInv

LEMMA StepInvariant == IInv /\ [Next]_vars => IInv'
<1> SUFFICES ASSUME TypeOK, Safe, EventsFresh, [Next]_vars PROVE IInv'
  BY DEF IInv
<1>1. Safe' /\ EventsFresh'
  <2>1. CASE UNCHANGED vars
    BY <2>1
    DEF vars, queueVars, reqVars, rsVars, Safe, EventsFresh, EntryHasData,
        EntryNamesLiveMatch, TicketInHand, PendingIsInFlight, Live
  <2>2. CASE Next
    BY <2>2, ClientStepSafe, FindStepSafe, RequeueDoneSafe, MatchFoundSafe,
       MatchStepSafe, WatchdogStepSafe, RsStepSafe DEF Next
  <2> QED
    BY <2>1, <2>2
<1> QED
  BY <1>1, TypeStep DEF IInv

(* The inductive invariant: the types, the state laws below, and that every   *)
(* event not yet handled names a match that does not exist yet.              *)
THEOREM Invariant == Spec => []IInv
BY InitInvariant, StepInvariant, PTL DEF Spec

(* The state of the service, the wire and the Rust queue is always what the   *)
(* declarations say.                                                        *)
THEOREM TypeCorrect == Spec => []TypeOK
<1>1. IInv => TypeOK
  BY DEF IInv
<1> QED
  BY <1>1, Invariant, PTL

(* A queue entry never stands without the player's queue data, whatever the   *)
(* network loses, restarts or reorders (queueSoloPlayer, runMatch,           *)
(* handleMatchFound, handleRsRestart, removeClientFromMatchmaking).          *)
THEOREM EntriesHaveData == Spec => []EntryHasData
<1>1. IInv => EntryHasData
  BY DEF IInv, Safe
<1> QED
  BY <1>1, Invariant, PTL

(* A matchId in queueEntries always names a running match of that player, so  *)
(* nobody is locked out of cancel() by a match that is over.                 *)
THEOREM EntriesNameLiveMatches == Spec => []EntryNamesLiveMatch
<1>1. IInv => EntryNamesLiveMatch
  BY DEF IInv, Safe
<1> QED
  BY <1>1, Invariant, PTL

(* Whoever is in a match can be requeued when it fails.                      *)
THEOREM TicketsInHand == Spec => []TicketInHand
<1>1. IInv => TicketInHand
  BY DEF IInv, Safe
<1> QED
  BY <1>1, Invariant, PTL

(* cancelPlayerInRust waits only for a requeue that is in flight.             *)
THEOREM PendingInFlight == Spec => []PendingIsInFlight
<1>1. IInv => PendingIsInFlight
  BY DEF IInv, Safe
<1> QED
  BY <1>1, Invariant, PTL

(* Nobody without a queue entry gets one.                                    *)
StayOut == \A q \in Players : entry[q] = NoEntry => entry'[q] = NoEntry

LEMMA FailMatchOut ==
    ASSUME NEW m, NEW group, NEW ban, NEW tickets, FailMatch(m, group, ban, tickets)
    PROVE  StayOut
  BY DEF FailMatch, Returning, StayOut

LEMMA RemoveClientOut ==
    ASSUME TypeOK, NEW p \in Players, RemoveClient(p)
    PROVE  StayOut
<1>1. CASE UNCHANGED entry \/ entry' = [entry EXCEPT ![p] = NoEntry]
  BY <1>1 DEF StayOut, TypeOK
<1>2. CASE \E ban : FailMatch(entry[p], matches[entry[p]].group, ban, ticket)
  BY <1>2, FailMatchOut
<1> QED
  BY <1>1, <1>2 DEF RemoveClient

LEMMA BeginLoadOut ==
    ASSUME NEW m, BeginLoad(m)
    PROVE  StayOut
<1>1. CASE \E ban : Fail(m, ban)
  BY <1>1, FailMatchOut DEF Fail
<1>2. CASE UNCHANGED queueVars
  BY <1>2 DEF StayOut, queueVars
<1> QED
  BY <1>1, <1>2 DEF BeginLoad

LEMMA MatchStepOut ==
    ASSUME NEW m \in MatchIds, MatchStep(m)
    PROVE  StayOut
<1>1. CASE AcceptTimeout(m)
  BY <1>1, FailMatchOut DEF AcceptTimeout
<1>2. CASE \E ban : Fail(m, ban)
  BY <1>2, FailMatchOut DEF Fail
<1>3. CASE BeginLoad(m)
  BY <1>3, BeginLoadOut
<1>4. CASE UNCHANGED queueVars
  BY <1>4 DEF StayOut, queueVars
<1>5. CASE LoadSucceeds(m)
  BY <1>5 DEF LoadSucceeds, EntryWithout, StayOut
<1> QED
  BY <1>1, <1>2, <1>3, <1>4, <1>5 DEF MatchStep, MapPicked, MapFails, DraftDone, LoadFails

LEMMA MatchFoundOut ==
    ASSUME NEW ev, MatchFound(ev)
    PROVE  StayOut
<1>1. CASE DropMatch(ev)
  BY <1>1 DEF DropMatch, EntryWithout, StayOut
<1>2. CASE \E ban, tickets : FailMatch(ev.id, ev.group, ban, tickets)
  BY <1>2, FailMatchOut
<1>3. CASE entry' = [q \in Players |-> IF q \in ev.group /\ entry[q] # NoEntry
                                         THEN ev.id ELSE entry[q]]
  BY <1>3 DEF StayOut
<1> QED
  BY <1>1, <1>2, <1>3 DEF MatchFound, StartMatch

(* Of the steps of find() only the one that POSTs makes an entry.              *)
LEMMA FindStepOut ==
    ASSUME TypeOK, NEW p \in Players, NEW k \in Slots, FindStep(p, k), ~FindPost(p, k)
    PROVE  StayOut
<1> USE DEF queueVars
<1>1. CASE FindStart(p, k) \/ FindPrepFails(p, k) \/ FindRetry(p, k) \/ FindToken(p, k)
  BY <1>1 DEF FindStart, FindPrepFails, FindRetry, FindToken, StayOut
<1>2. CASE FinishFind(p, k)
  BY <1>2, RemoveClientOut DEF FinishFind, StayOut
<1>3. CASE FindQueued(p, k) \/ FindBaseline(p, k)
  BY <1>2, <1>3 DEF FindQueued, FindBaseline, StayOut
<1>4. CASE FindFailed(p, k)
  BY <1>4 DEF FindFailed, StayOut, TypeOK
<1> QED
  BY <1>1, <1>3, <1>4 DEF FindStep

LEMMA FindPostEnters ==
    ASSUME TypeOK, NEW p \in Players, NEW k \in Slots, FindPost(p, k)
    PROVE  /\ find[p][k].pc = "prep" /\ find'[p][k].pc = "post"
           /\ \A q \in Players \ {p} : entry'[q] = entry[q]
<1>1. /\ find[p][k].pc = "prep" /\ entry' = [entry EXCEPT ![p] = Searching]
      /\ find' = [find EXCEPT ![p][k].pc = "post"]
  BY DEF FindPost, MoveFind
<1>2. find \in [Players -> [Slots -> [pc : FindPcs, conn : Nat, tok : {NoToken} \union Epochs]]]
  BY DEF TypeOK
<1> QED
  BY <1>1, <1>2 DEF TypeOK

LEMMA EntriesStep ==
    ASSUME TypeOK, [Next]_vars, NEW p \in Players, entry[p] = NoEntry, entry'[p] # NoEntry
    PROVE  \E k \in Slots : find[p][k].pc = "prep" /\ find'[p][k].pc = "post"
<1> USE DEF queueVars
<1>1. SUFFICES ASSUME \A k \in Slots : ~FindPost(p, k) PROVE StayOut \/ entry'[p] = entry[p]
  BY FindPostEnters DEF StayOut
<1>2. CASE UNCHANGED vars
  BY <1>2 DEF vars
<1>3. ASSUME NEW q \in Players, ClientStep(q) PROVE StayOut \/ entry'[p] = entry[p]
  BY <1>3, RemoveClientOut DEF ClientStep, Connect, Disconnect, Cancel, Accept
<1>4. ASSUME NEW q \in Players, NEW k \in Slots, FindStep(q, k)
      PROVE  StayOut \/ entry'[p] = entry[p]
  <2>1. CASE FindPost(q, k)
    BY <1>1, <2>1, FindPostEnters
  <2>2. CASE ~FindPost(q, k)
    BY <1>4, <2>2, FindStepOut
  <2> QED
    BY <2>1, <2>2
<1>5. ASSUME NEW r \in requeues, RequeueDone(r) PROVE StayOut
  BY <1>5 DEF RequeueDone, EjectAnd, EntryWithout, StayOut
<1>6. CASE WatchdogStep
  BY <1>6 DEF WatchdogStep, PollSend, WatchdogStops, PollAnswer, PollDone, EjectAnd, EntryWithout,
              StayOut
<1>7. ASSUME NEW q \in Players, NEW i, NEW fate, RsReceive(q, i, fate) PROVE UNCHANGED entry
  BY <1>7 DEF RsReceive
<1>8. ASSUME NEW group, RsFormMatch(group) PROVE UNCHANGED entry
  BY <1>8 DEF RsFormMatch
<1>9. ASSUME NEW lost, RsRestart(lost) PROVE UNCHANGED entry
  BY <1>9 DEF RsRestart
<1>10. CASE RsStep
  BY <1>7, <1>8, <1>9, <1>10 DEF RsStep
<1> QED
  BY <1>2, <1>3, <1>4, <1>5, <1>6, <1>10, MatchFoundOut, MatchStepOut DEF Next

(* However late match events, failed matches and requeues come: who left has no  *)
(* queue entry before a find() of their own POSTs.                            *)
THEOREM LeaversStayOutside == Spec => LeaversStayOut
<1>1. TypeOK /\ [Next]_vars =>
        \A p \in Players : entry[p] = NoEntry /\ entry'[p] # NoEntry =>
          \E k \in Slots : find[p][k].pc = "prep" /\ find'[p][k].pc = "post"
  BY EntriesStep
<1> QED
  BY <1>1, TypeCorrect, PTL DEF Spec, LeaversStayOut

-----------------------------------------------------------------------------
(* With prompt messages.  The rest of the module proves what holds under      *)
(* Prompt, Waits and QuietRestart when no HTTP exchange is lost: one law per   *)
(* aspect of a player (PlayerOk below), one lemma per effect a step can have   *)
(* on a player, and one lemma per action.                                   *)

(* The wire.                                                                *)

Holds(w, r) == \E i \in 1..Len(w) : w[i] = r
OneAsk(w) == \A i, j \in 1..Len(w) : w[i] # Delete /\ w[j] # Delete => i = j
NoAsk(w) == \A r \in Requests : Holds(w, r) => r = Delete

LEMMA EmptyWire == (\A r : ~Holds(<<>>, r)) /\ OneAsk(<<>>) /\ NoAsk(<<>>)
BY DEF Holds, OneAsk, NoAsk

LEMMA HeldIsThere ==
    ASSUME NEW w \in Seq(Requests), NEW r, Holds(w, r)
    PROVE  w # <<>> /\ r \in Requests
BY DEF Holds

LEMMA AppendWire ==
    ASSUME NEW w \in Seq(Requests), NEW r \in Requests, OneAsk(w)
    PROVE  /\ \A x : Holds(Append(w, r), x) <=> Holds(w, x) \/ x = r
           /\ r = Delete \/ NoAsk(w) => OneAsk(Append(w, r))
<1> DEFINE v == Append(w, r)
<1>1. /\ Len(w) \in Nat /\ Len(v) = Len(w) + 1 /\ v[Len(w) + 1] = r
      /\ \A i \in 1..Len(w) : v[i] = w[i] /\ w[i] \in Requests
  OBVIOUS
<1>2. \A i \in 1..Len(v) : i \in 1..Len(w) \/ i = Len(w) + 1
  BY <1>1
<1>3. \A i \in 1..Len(w) : i \in 1..Len(v)
  BY <1>1
<1>4. Len(w) + 1 \in 1..Len(v)
  BY <1>1
<1> HIDE DEF v
<1>5. \A x : Holds(v, x) <=> Holds(w, x) \/ x = r
  BY <1>1, <1>2, <1>3, <1>4 DEF Holds
<1>6. ASSUME r = Delete \/ NoAsk(w) PROVE OneAsk(v)
  <2>1. ASSUME NoAsk(w) PROVE \A i \in 1..Len(w) : w[i] = Delete
    BY <1>1, <2>1 DEF NoAsk, Holds
  <2> QED
    BY <1>1, <1>2, <1>6, <2>1 DEF OneAsk
<1> QED
  BY <1>5, <1>6 DEF v

LEMMA ConcatWire ==
    ASSUME NEW w \in Seq(Requests), NEW n \in Nat, OneAsk(w)
    PROVE  /\ \A x : Holds(w \o [i \in 1..n |-> Delete], x)
                        <=> Holds(w, x) \/ (n # 0 /\ x = Delete)
           /\ OneAsk(w \o [i \in 1..n |-> Delete])
<1> DEFINE d == [i \in 1..n |-> Delete]
           v == w \o d
<1>1. d \in Seq(Requests) /\ Len(d) = n
  BY RequestTypes
<1>2. /\ Len(w) \in Nat /\ Len(v) = Len(w) + n
      /\ \A i \in 1..Len(w) : v[i] = w[i]
      /\ \A i \in (Len(w) + 1)..Len(v) : v[i] = Delete
  BY <1>1
<1>3. \A i \in 1..Len(v) : i \in 1..Len(w) \/ (i \in (Len(w) + 1)..Len(v) /\ n # 0)
  BY <1>2
<1>4. \A i \in 1..Len(w) : i \in 1..Len(v)
  BY <1>2
<1>5. n # 0 => Len(w) + 1 \in 1..Len(v) /\ Len(w) + 1 \in (Len(w) + 1)..Len(v)
  BY <1>2
<1> HIDE DEF v
<1>6. \A x : Holds(v, x) <=> Holds(w, x) \/ (n # 0 /\ x = Delete)
  BY <1>2, <1>3, <1>4, <1>5 DEF Holds
<1>7. OneAsk(v)
  BY <1>2, <1>3 DEF OneAsk
<1> QED
  BY <1>6, <1>7 DEF v

LEMMA WithoutWire ==
    ASSUME NEW w \in Seq(Requests), NEW i \in 1..Len(w), OneAsk(w)
    PROVE  /\ \A x : Holds(Without(w, i), x) => Holds(w, x)
           /\ \A x : Holds(w, x) /\ x # w[i] => Holds(Without(w, i), x)
           /\ OneAsk(Without(w, i))
           /\ w[i] # Delete => NoAsk(Without(w, i))
<1> DEFINE v == Without(w, i)
           at(j) == IF j < i THEN j ELSE j + 1
<1>1. /\ Len(w) \in Nat /\ i \in Nat /\ Len(w) - 1 \in Nat
      /\ DOMAIN v = 1..(Len(w) - 1) /\ Len(v) = Len(w) - 1
      /\ \A j \in 1..Len(v) : v[j] = w[at(j)]
  <2>1. Len(w) - 1 \in Nat
    OBVIOUS
  <2> QED
    BY <2>1 DEF Without
<1>2. /\ \A j \in 1..Len(v) : at(j) \in 1..Len(w) /\ at(j) # i /\ j \in Nat
      /\ \A j, l \in 1..Len(v) : at(j) = at(l) => j = l
  BY <1>1
<1>3. \A l \in 1..Len(w) : l # i => \E j \in 1..Len(v) : at(j) = l
  <2>1. \A l \in 1..Len(w) : l < i => l \in 1..Len(v) /\ at(l) = l
    BY <1>1
  <2>2. \A l \in 1..Len(w) : l > i => l - 1 \in 1..Len(v) /\ at(l - 1) = l
    BY <1>1
  <2> QED
    BY <1>1, <2>1, <2>2
<1> HIDE DEF v, at
<1>4. \A x : Holds(v, x) => Holds(w, x)
  BY <1>1, <1>2 DEF Holds
<1>5. \A x : Holds(w, x) /\ x # w[i] => Holds(v, x)
  BY <1>1, <1>3 DEF Holds
<1>6. OneAsk(v)
  BY <1>1, <1>2 DEF OneAsk
<1>7. w[i] # Delete => NoAsk(v)
  BY <1>1, <1>2 DEF OneAsk, NoAsk, Holds
<1> QED
  BY <1>4, <1>5, <1>6, <1>7 DEF v

-----------------------------------------------------------------------------
(* What the service, the wire and server-rs know of one player.             *)

RequeuesOf(p) == {r \in requeues : r.p = p}
CallsOf(p)    == {ev \in events : p \in ev.group}
GamesOf(p)    == {m \in MatchIds : p \in matches[m].group}
LeftBy(p)     == {m \in MatchIds : p \in matches[m].ban}
SubsOf(p)     == {s \in subbed : s[1] = p}

Idle(p)    == \A k \in Slots : find[p][k] = FindIdle
InPrep(p)  == \E k \in Slots : find[p][k].pc = "prep"
Past(p)    == \E k \in Slots : find[p][k].pc \notin {"idle", "prep"}
Posts(p, k) == find[p][k].pc = "post"

Stale == token # NoToken /\ token # rsEpoch

FindLaw(p) ==
    \A k \in Slots :
      /\ find[p][k].pc \in FindPcs \ {"retry", "duplicate", "failed"}
      /\ find[p][k].pc = "idle" => find[p][k] = FindIdle
      /\ find[p][k].pc = "baseline" => find[p][k].tok = rsEpoch
      /\ find[p][k].pc # "idle" => /\ activity[p] = find[p][k].conn
                                   /\ \A j \in Slots \ {k} : find[p][j] = FindIdle

RegisteredLaw(p) == entry[p] # NoEntry \/ ~Idle(p) => activity[p] # NoClient

PrepLaw(p) ==
    InPrep(p) => /\ entry[p] = NoEntry /\ p \notin data /\ p \notin rsQueue
                 /\ wire[p] = <<>>
                 /\ RequeuesOf(p) = {} /\ CallsOf(p) = {} /\ GamesOf(p) = {}

PastLaw(p) ==
    Past(p) =>
      /\ entry[p] # NoEntry /\ ~Stale
      /\ \A ev \in CallsOf(p) : ev.tk = rsEpoch
      /\ \A r \in RequeuesOf(p) : r.tk = rsEpoch /\ r.st # "err"
      /\ GamesOf(p) # {} => ticket[p] = rsEpoch
      /\ p \in rsQueue \/ CallsOf(p) # {} \/ GamesOf(p) # {} \/ ~NoAsk(wire[p])

SubsLaw(p) ==
    \A s \in SubsOf(p) : activity[p] = s[2] /\ activity[p] # NoClient /\ Idle(p)

DataLaw(p) == p \in data => entry[p] # NoEntry \/ GamesOf(p) # {}

GamesLaw(p) ==
    /\ LeftBy(p) \subseteq GamesOf(p)
    /\ \A m \in GamesOf(p) : IF m \in LeftBy(p)
                               THEN entry[p] = NoEntry /\ activity[p] = NoClient
                               ELSE entry[p] = m

PlaceLaw(p) ==
    /\ p \in rsQueue => CallsOf(p) = {} /\ GamesOf(p) = {} /\ NoAsk(wire[p])
    /\ CallsOf(p) # {} => GamesOf(p) = {} /\ NoAsk(wire[p])
    /\ GamesOf(p) # {} => NoAsk(wire[p])
    /\ \A ev1, ev2 \in CallsOf(p) : ev1 = ev2
    /\ \A m1, m2 \in GamesOf(p) : m1 = m2
    /\ OneAsk(wire[p])

WireLaw(p) ==
    /\ \A k \in Slots : Posts(p, k) <=> Holds(wire[p], Post(k))
    /\ \A m \in MatchIds : Holds(wire[p], Requeue(m)) <=>
                             \E r \in RequeuesOf(p) : r.m = m /\ r.st = "sent"

RequeueLaw(p) ==
    /\ \A r, q \in RequeuesOf(p) : r.m = q.m => r = q
    /\ \A r \in RequeuesOf(p) :
         /\ r.st = "sent" => /\ pending[p] = r.m
                             /\ entry[p] = Searching \/ r.dels # 0 \/ r.tk # rsEpoch
         /\ r.st = "err" => /\ p \notin rsQueue /\ CallsOf(p) = {} /\ GamesOf(p) = {}
                            /\ NoAsk(wire[p])

NoDeleteFor(p) == ~Holds(wire[p], Delete) /\ \A r \in RequeuesOf(p) : r.dels = 0

DeleteLaw(p) == entry[p] # NoEntry => NoDeleteFor(p)

QueuedLaw(p) == p \in rsQueue => entry[p] = Searching \/ ~NoDeleteFor(p)

WatchLaw(p) == entry[p] # NoEntry => watchdog \/ ~Idle(p)

SearchLaw(p) ==
    entry[p] = Searching =>
      \/ p \in rsQueue \/ CallsOf(p) # {} \/ ~NoAsk(wire[p])
      \/ \E r \in RequeuesOf(p) : r.st = "err"
      \/ token # rsEpoch

EpochLaw(p) ==
    /\ \A ev \in CallsOf(p) : ev.tk <= rsEpoch /\ (Stale => ev.tk # rsEpoch)
    /\ \A r \in RequeuesOf(p) : r.tk <= rsEpoch /\ (Stale => r.tk # rsEpoch)
    /\ ticket[p] <= rsEpoch /\ (Stale => ticket[p] # rsEpoch)
    /\ Stale => p \notin rsQueue

PlayerOk(p) ==
    /\ FindLaw(p) /\ RegisteredLaw(p) /\ PrepLaw(p) /\ PastLaw(p) /\ SubsLaw(p)
    /\ DataLaw(p) /\ GamesLaw(p) /\ PlaceLaw(p) /\ WireLaw(p) /\ RequeueLaw(p)
    /\ DeleteLaw(p) /\ QueuedLaw(p) /\ WatchLaw(p) /\ SearchLaw(p) /\ EpochLaw(p)

TokensLaw ==
    /\ token <= rsEpoch
    /\ poll \in Epochs => token <= poll /\ poll <= rsEpoch
    /\ watchdog <=> token # NoToken
    /\ poll # PollIdle => watchdog
    /\ poll # PollFailed

MatchesLaw ==
    /\ \A m \in MatchIds : Live(m) \/ matches[m] = NoMatch
    /\ \A r \in requeues : r.m <= formed /\ ~Live(r.m) /\ \A ev \in events : ev.id # r.m
    /\ \A ev \in events : Cardinality(ev.group) = MatchSize
    /\ \A p \in Players : gen[p] # NoClient

PInv == IInv /\ TokensLaw /\ MatchesLaw /\ \A p \in Players : PlayerOk(p)

Prompted == Prompt /\ Waits /\ QuietRestart /\ MaxLosses = 0

-----------------------------------------------------------------------------
(* What a step may do to a player.                                          *)

SameFind(p)     == find'[p] = find[p]
SameEntry(p)    == entry'[p] = entry[p] /\ activity'[p] = activity[p] /\ SubsOf(p)' = SubsOf(p)
SameData(p)     == (p \in data' <=> p \in data) /\ ticket'[p] = ticket[p]
SameRequests(p) == /\ wire'[p] = wire[p] /\ RequeuesOf(p)' = RequeuesOf(p)
                   /\ pending'[p] = pending[p]
SameRs(p)       == (p \in rsQueue' <=> p \in rsQueue) /\ CallsOf(p)' = CallsOf(p)
SameGames(p)    == GamesOf(p)' = GamesOf(p) /\ LeftBy(p)' = LeftBy(p)
SamePlayer(p)   == SameEntry(p) /\ SameData(p) /\ SameRequests(p) /\ SameRs(p) /\ SameGames(p)
SameTokens      == token' = token /\ rsEpoch' = rsEpoch /\ watchdog' = watchdog

(* The find() calls of a player look the same.                              *)
LEMMA FindsAgree ==
    ASSUME NEW p \in Players, SameFind(p)
    PROVE  /\ Idle(p)' = Idle(p) /\ InPrep(p)' = InPrep(p) /\ Past(p)' = Past(p)
           /\ \A k \in Slots : Posts(p, k)' = Posts(p, k)
BY DEF SameFind, Idle, InPrep, Past, Posts

LEMMA FindCases ==
    ASSUME NEW p \in Players, FindLaw(p)
    PROVE  /\ Idle(p) <=> ~InPrep(p) /\ ~Past(p)
           /\ Idle(p) => \A k \in Slots : ~Posts(p, k)
           /\ InPrep(p) => ~Past(p)
           /\ \A k \in Slots : Posts(p, k) => Past(p)
BY DEF FindLaw, Idle, InPrep, Past, Posts, FindIdle

(* Only the baseline changes, and not to one that is wrong about this player. *)
LEMMA TokenKeeps ==
    ASSUME NEW p \in Players, PlayerOk(p), SamePlayer(p), SameFind(p), rsEpoch' = rsEpoch,
           Stale' => Stale,
           WatchLaw(p)', SearchLaw(p)'
    PROVE  PlayerOk(p)'
<1>1. /\ Idle(p)' = Idle(p) /\ InPrep(p)' = InPrep(p) /\ Past(p)' = Past(p)
      /\ \A k \in Slots : Posts(p, k)' = Posts(p, k)
  BY FindsAgree
<1> USE DEF SamePlayer, SameEntry, SameData, SameRequests, SameRs, SameGames, SameFind,
            PlayerOk
<1>2. FindLaw(p)'
  BY DEF FindLaw
<1>3. RegisteredLaw(p)' /\ PrepLaw(p)' /\ SubsLaw(p)' /\ DataLaw(p)' /\ GamesLaw(p)'
  BY <1>1 DEF RegisteredLaw, PrepLaw, SubsLaw, DataLaw, GamesLaw
<1>4. PastLaw(p)'
  BY <1>1 DEF PastLaw
<1>5. PlaceLaw(p)'
  BY DEF PlaceLaw
<1>6. WireLaw(p)'
  BY <1>1 DEF WireLaw
<1>7. RequeueLaw(p)'
  BY DEF RequeueLaw
<1>8. DeleteLaw(p)' /\ QueuedLaw(p)'
  BY DEF DeleteLaw, QueuedLaw, NoDeleteFor
<1>9. EpochLaw(p)'
  BY DEF EpochLaw
<1> QED
  BY <1>2, <1>3, <1>4, <1>5, <1>6, <1>7, <1>8, <1>9

LEMMA SameKeeps ==
    ASSUME NEW p \in Players, PlayerOk(p), SamePlayer(p), SameFind(p), SameTokens
    PROVE  PlayerOk(p)'
<1>1. Stale' <=> Stale
  BY DEF Stale, SameTokens
<1>2. Idle(p)' = Idle(p)
  BY FindsAgree
<1>3. WatchLaw(p)' /\ SearchLaw(p)'
  BY <1>2 DEF PlayerOk, WatchLaw, SearchLaw, SameTokens, SamePlayer, SameEntry, SameRequests,
              SameRs
<1> QED
  BY <1>1, <1>3, TokenKeeps DEF SameTokens

(* What an exit leaves in flight about the player: the requests of before, and *)
(* a DELETE, on the wire or behind the requeue it waits for, if server-rs has  *)
(* the player or may still take the player.                                   *)
ExitRequests(p) ==
    /\ \A r \in Requests \ {Delete} : Holds(wire[p], r)' <=> Holds(wire[p], r)
    /\ OneAsk(wire[p])'
    /\ \A r, q \in RequeuesOf(p)' : r.m = q.m => r = q
    /\ \A r \in RequeuesOf(p)' :
         \E q \in RequeuesOf(p) : r.m = q.m /\ r.tk = q.tk /\ r.st = q.st
    /\ \A q \in RequeuesOf(p) : q.st = "sent" =>
         \E r \in RequeuesOf(p)' : r.m = q.m /\ r.st = q.st
    /\ \A r \in RequeuesOf(p)' : r.st = "sent" =>
         pending'[p] = r.m /\ (r.dels # 0 \/ r.tk # rsEpoch)
    /\ p \in rsQueue => ~NoDeleteFor(p)'

(* A player leaves: the search, a match, or a match that is over.           *)
LEMMA ExitKeeps ==
    ASSUME NEW p \in Players, PlayerOk(p), rsEpoch' = rsEpoch,
           p \in rsQueue' <=> p \in rsQueue, CallsOf(p)' \subseteq CallsOf(p),
           Stale' => Stale, Idle(p)', \A k \in Slots : ~Posts(p, k),
           entry'[p] = NoEntry, activity'[p] = NoClient, SubsOf(p)' = {},
           p \in data' => GamesOf(p)' # {},
           ticket'[p] \in {NoTicket, ticket[p]}, rsEpoch # NoTicket, rsEpoch \in Nat,
           GamesOf(p)' \subseteq GamesOf(p), LeftBy(p)' = GamesOf(p)',
           ExitRequests(p)
    PROVE  PlayerOk(p)'
<1>1. FindIdle.pc = "idle" /\ "idle" \in FindPcs
  BY DEF FindIdle, FindPcs
<1>2. ~InPrep(p)' /\ ~Past(p)' /\ \A k \in Slots : ~Posts(p, k)'
  BY <1>1 DEF Idle, InPrep, Past, Posts
<1>3. NoEntry # Searching
  BY DEF NoEntry, Searching
<1> USE DEF PlayerOk
<1>4. FindLaw(p)'
  BY <1>1 DEF FindLaw, Idle
<1>5. /\ RegisteredLaw(p)' /\ PrepLaw(p)' /\ PastLaw(p)' /\ SubsLaw(p)' /\ DataLaw(p)'
      /\ GamesLaw(p)' /\ DeleteLaw(p)' /\ WatchLaw(p)' /\ SearchLaw(p)'
  BY <1>2, <1>3
  DEF RegisteredLaw, PrepLaw, PastLaw, SubsLaw, DataLaw, GamesLaw, DeleteLaw, WatchLaw, SearchLaw
<1>6. NoAsk(wire[p])' <=> NoAsk(wire[p])
  BY DEF ExitRequests, NoAsk
<1>7. PlaceLaw(p)'
  BY <1>6 DEF PlaceLaw, ExitRequests
<1>8. WireLaw(p)'
  <2>1. \A k \in Slots : Post(k) \in Requests \ {Delete}
    BY RequestTypes DEF Post, Delete
  <2>2. \A m \in MatchIds : Requeue(m) \in Requests \ {Delete}
    BY RequestTypes DEF Requeue, Delete
  <2>3. \A k \in Slots : Posts(p, k)' <=> Holds(wire[p], Post(k))'
    BY <1>2, <2>1 DEF WireLaw, ExitRequests
  <2>4. \A m \in MatchIds : Holds(wire[p], Requeue(m))' <=> 
                             \E r \in RequeuesOf(p) : r.m = m /\ r.st = "sent"
    BY <2>2 DEF WireLaw, ExitRequests
  <2> QED
    BY <2>3, <2>4 DEF WireLaw, ExitRequests
<1>9. RequeueLaw(p)'
  BY <1>6 DEF RequeueLaw, ExitRequests
<1>10. QueuedLaw(p)'
  BY DEF QueuedLaw, ExitRequests
<1>11. EpochLaw(p)'
  <2>1. NoTicket <= rsEpoch
    BY DEF NoTicket
  <2> QED
    BY <2>1 DEF EpochLaw, ExitRequests
<1> QED
  BY <1>4, <1>5, <1>7, <1>8, <1>9, <1>10, <1>11

LEMMA OneAskIs ==
    ASSUME NEW w, OneAsk(w), NEW x, NEW y, Holds(w, x), Holds(w, y), x # Delete, y # Delete
    PROVE  x = y
BY DEF OneAsk, Holds

LEMMA AskKinds ==
    /\ \A k \in Slots : Post(k) \in Requests /\ Post(k) # Delete
    /\ \A m \in MatchIds : Requeue(m) \in Requests /\ Requeue(m) # Delete
    /\ \A k \in Slots, m \in MatchIds : Post(k) # Requeue(m)
    /\ \A k, l \in Slots : Post(k) = Post(l) => k = l
    /\ \A m, n \in MatchIds : Requeue(m) = Requeue(n) => m = n
    /\ \A r \in Requests : r = Delete \/ (\E k \in Slots : r = Post(k))
                                      \/ (\E m \in MatchIds : r = Requeue(m))
BY DEF Requests, Delete, Post, Requeue

LEMMA RequeueTypes ==
    ASSUME TypeOK, NEW p \in Players
    PROVE  /\ \A r \in RequeuesOf(p) : /\ r.p = p /\ r.m \in MatchIds /\ r.dels \in Nat
                                       /\ r.tk \in {NoTicket} \union Epochs
                                       /\ r.st \in {"sent", "ok", "err"}
           /\ wire[p] \in Seq(Requests)
           /\ rsEpoch \in Nat /\ rsEpoch # NoToken
BY BoundFacts DEF TypeOK, RequeuesOf

(* A player is put back in the queue of server-rs by a requeue.             *)
NewRequeue(p, m, tk) == [p |-> p, m |-> m, tk |-> tk, st |-> "sent", dels |-> 0]

LEMMA ReturnKeeps ==
    ASSUME TypeOK, NEW p \in Players, PlayerOk(p), SameFind(p),
           NEW m \in MatchIds, NEW tk,
           rsEpoch' = rsEpoch, Stale' => Stale, watchdog' \/ ~Idle(p),
           entry[p] # NoEntry, CallsOf(p) # {} \/ GamesOf(p) # {},
           entry'[p] = Searching, activity'[p] = activity[p], SubsOf(p)' = SubsOf(p),
           p \in data' <=> p \in data, p \in rsQueue' <=> p \in rsQueue,
           CallsOf(p)' = {}, GamesOf(p)' = {}, LeftBy(p)' = {},
           \A r \in RequeuesOf(p) : r.m # m,
           RequeuesOf(p)' = RequeuesOf(p) \union {NewRequeue(p, m, tk)},
           wire'[p] = Append(wire[p], Requeue(m)), pending'[p] = m,
           ticket'[p] \in {NoTicket, ticket[p]},
           tk <= rsEpoch, Stale => tk # rsEpoch, Past(p) => tk = rsEpoch
    PROVE  PlayerOk(p)'
<1>1. /\ Idle(p)' = Idle(p) /\ InPrep(p)' = InPrep(p) /\ Past(p)' = Past(p)
      /\ \A k \in Slots : Posts(p, k)' = Posts(p, k)
  BY FindsAgree
<1>2. ~InPrep(p) /\ p \notin rsQueue
  BY DEF PlayerOk, PrepLaw, PlaceLaw
<1>3. NoAsk(wire[p]) /\ OneAsk(wire[p]) /\ ~Holds(wire[p], Delete)
  BY DEF PlayerOk, PlaceLaw, DeleteLaw, NoDeleteFor
<1>4. Requeue(m) \in Requests /\ Requeue(m) # Delete
  BY AskKinds
<1>5. wire[p] \in Seq(Requests) /\ rsEpoch \in Nat /\ rsEpoch # NoToken
  BY RequeueTypes
<1>6. /\ \A x : Holds(wire[p], x)' <=> Holds(wire[p], x) \/ x = Requeue(m)
      /\ OneAsk(wire[p])'
  BY <1>3, <1>4, <1>5, AppendWire
<1>7. ~NoAsk(wire[p])'
  BY <1>4, <1>6 DEF NoAsk
<1>8. \A x \in Requests : Holds(wire[p], x)' <=> x = Requeue(m)
  BY <1>3, <1>4, <1>6 DEF NoAsk
<1>9. \A r \in RequeuesOf(p) : r.st # "sent" /\ r.st # "err" /\ r.dels = 0
  <2>1. \A r \in RequeuesOf(p) : r.st # "sent"
    BY <1>3, RequeueTypes, AskKinds DEF PlayerOk, WireLaw, NoAsk
  <2> QED
    BY <2>1 DEF PlayerOk, RequeueLaw, DeleteLaw, NoDeleteFor
<1>10. \A r \in RequeuesOf(p)' : r \in RequeuesOf(p) \/ r = NewRequeue(p, m, tk)
  OBVIOUS
<1>11. PICK n : n = NewRequeue(p, m, tk)
  OBVIOUS
<1>12. n.p = p /\ n.m = m /\ n.tk = tk /\ n.st = "sent" /\ n.dels = 0 /\ n \in RequeuesOf(p)'
  BY <1>11 DEF NewRequeue
<1>13. \A r \in RequeuesOf(p)' : r \in RequeuesOf(p) \/ r = n
  BY <1>10, <1>11
<1>14. FindLaw(p)'
  BY DEF FindLaw, SameFind, PlayerOk
<1>15. NoEntry # Searching /\ Searching \notin MatchIds
  BY BoundFacts DEF NoEntry, Searching
<1>16. /\ RegisteredLaw(p)' /\ PrepLaw(p)' /\ SubsLaw(p)' /\ DataLaw(p)' /\ GamesLaw(p)'
       /\ WatchLaw(p)'
  BY <1>1, <1>2, <1>15
  DEF PlayerOk, RegisteredLaw, PrepLaw, SubsLaw, DataLaw, GamesLaw, WatchLaw
<1>17. PastLaw(p)'
  BY <1>1, <1>7, <1>12, <1>13, <1>15 DEF PlayerOk, PastLaw
<1>18. PlaceLaw(p)'
  BY <1>2, <1>6 DEF PlaceLaw
<1>19. WireLaw(p)'
  <2>1. \A k \in Slots : ~Posts(p, k) /\ ~Holds(wire[p], Post(k))'
    BY <1>3, <1>8, AskKinds DEF PlayerOk, WireLaw, NoAsk
  <2>2. \A l \in MatchIds : Holds(wire[p], Requeue(l))' <=> l = m
    BY <1>8, AskKinds
  <2>3. \A l \in MatchIds : (\E r \in RequeuesOf(p)' : r.m = l /\ r.st = "sent") <=> l = m
    BY <1>9, <1>12, <1>13
  <2> QED
    BY <1>1, <2>1, <2>2, <2>3 DEF WireLaw
<1>20. RequeueLaw(p)'
  BY <1>9, <1>12, <1>13 DEF PlayerOk, RequeueLaw
<1>21. DeleteLaw(p)' /\ QueuedLaw(p)' /\ SearchLaw(p)'
  <2>1. ~Holds(wire[p], Delete)'
    BY <1>3, <1>4, <1>6
  <2> QED
    BY <1>2, <1>7, <1>9, <1>12, <1>13, <2>1 DEF DeleteLaw, QueuedLaw, SearchLaw, NoDeleteFor
<1>22. EpochLaw(p)'
  <2>1. NoTicket <= rsEpoch /\ NoTicket # rsEpoch
    BY <1>5 DEF NoTicket, NoToken
  <2> QED
    BY <1>2, <1>12, <1>13, <2>1 DEF PlayerOk, EpochLaw
<1> QED
  BY <1>14, <1>16, <1>17, <1>18, <1>19, <1>20, <1>21, <1>22 DEF PlayerOk

(* A called player is put in match m.                                       *)
LEMMA MatchedKeeps ==
    ASSUME TypeOK, NEW p \in Players, PlayerOk(p), SameFind(p), SameTokens, SameRequests(p),
           NEW ev \in CallsOf(p), NEW m \in MatchIds,
           entry[p] = Searching, entry'[p] = m, activity'[p] = activity[p],
           SubsOf(p)' = SubsOf(p), ticket'[p] = ev.tk,
           p \in data' <=> p \in data, p \in rsQueue' <=> p \in rsQueue,
           CallsOf(p)' = {}, GamesOf(p)' = {m}, LeftBy(p)' = {}
    PROVE  PlayerOk(p)'
<1>1. /\ Idle(p)' = Idle(p) /\ InPrep(p)' = InPrep(p) /\ Past(p)' = Past(p)
      /\ \A k \in Slots : Posts(p, k)' = Posts(p, k)
  BY FindsAgree
<1>2. NoEntry # Searching /\ m # Searching /\ m # NoEntry /\ (Stale' <=> Stale)
  BY BoundFacts DEF NoEntry, Searching, Stale, SameTokens
<1> USE DEF PlayerOk, SameRequests, SameTokens
<1>3. ~InPrep(p) /\ p \notin rsQueue /\ NoAsk(wire[p]) /\ GamesOf(p) = {}
  BY DEF PrepLaw, PlaceLaw
<1>4. FindLaw(p)'
  BY DEF FindLaw, SameFind
<1>5. /\ RegisteredLaw(p)' /\ PrepLaw(p)' /\ SubsLaw(p)' /\ DataLaw(p)' /\ GamesLaw(p)'
      /\ WatchLaw(p)' /\ SearchLaw(p)'
  BY <1>1, <1>2, <1>3
  DEF RegisteredLaw, PrepLaw, SubsLaw, DataLaw, GamesLaw, WatchLaw, SearchLaw
<1>6. PastLaw(p)'
  BY <1>1, <1>2, <1>3 DEF PastLaw
<1>7. PlaceLaw(p)' /\ WireLaw(p)'
  BY <1>1, <1>3 DEF PlaceLaw, WireLaw
<1>8. RequeueLaw(p)'
  <2>1. \A r \in RequeuesOf(p) : r.st # "sent"
    BY <1>3, RequeueTypes, AskKinds DEF WireLaw, NoAsk
  <2>2. \A r \in RequeuesOf(p) : r.st # "err"
    BY DEF RequeueLaw
  <2> QED
    BY <2>1, <2>2 DEF RequeueLaw
<1>9. DeleteLaw(p)' /\ QueuedLaw(p)'
  BY <1>2, <1>3 DEF DeleteLaw, QueuedLaw, NoDeleteFor
<1>10. EpochLaw(p)'
  BY <1>2, <1>3 DEF EpochLaw
<1> QED
  BY <1>4, <1>5, <1>6, <1>7, <1>8, <1>9, <1>10

(* server-rs puts a queued player in a match.                               *)
LEMMA FormedKeeps ==
    ASSUME NEW p \in Players, PlayerOk(p), SameFind(p), SameTokens, SameRequests(p),
           SameEntry(p), SameData(p), SameGames(p),
           p \in rsQueue, p \notin rsQueue', NEW ev, CallsOf(p)' = {ev}, ev.tk = rsEpoch,
           rsEpoch \in Nat
    PROVE  PlayerOk(p)'
<1>1. /\ Idle(p)' = Idle(p) /\ InPrep(p)' = InPrep(p) /\ Past(p)' = Past(p)
      /\ \A k \in Slots : Posts(p, k)' = Posts(p, k)
  BY FindsAgree
<1>2. Stale' <=> Stale
  BY DEF Stale, SameTokens
<1> USE DEF PlayerOk, SameRequests, SameTokens, SameEntry, SameData, SameGames
<1>3. ~InPrep(p) /\ NoAsk(wire[p]) /\ GamesOf(p) = {} /\ ~Stale
  BY DEF PrepLaw, PlaceLaw, EpochLaw
<1>4. FindLaw(p)'
  BY DEF FindLaw, SameFind
<1>5. /\ RegisteredLaw(p)' /\ PrepLaw(p)' /\ SubsLaw(p)' /\ DataLaw(p)' /\ GamesLaw(p)'
      /\ WatchLaw(p)' /\ SearchLaw(p)'
  BY <1>1, <1>3
  DEF RegisteredLaw, PrepLaw, SubsLaw, DataLaw, GamesLaw, WatchLaw, SearchLaw
<1>6. PastLaw(p)'
  BY <1>1, <1>2, <1>3 DEF PastLaw
<1>7. PlaceLaw(p)' /\ WireLaw(p)'
  BY <1>1, <1>3 DEF PlaceLaw, WireLaw
<1>8. RequeueLaw(p)'
  BY DEF RequeueLaw
<1>9. DeleteLaw(p)' /\ QueuedLaw(p)'
  BY <1>3 DEF DeleteLaw, QueuedLaw, NoDeleteFor
<1>10. EpochLaw(p)'
  BY <1>2, <1>3 DEF EpochLaw
<1> QED
  BY <1>4, <1>5, <1>6, <1>7, <1>8, <1>9, <1>10

(* A request is over.                                                       *)
DeleteHandled(p, i) ==
    /\ wire[p][i] = Delete /\ wire'[p] = Without(wire[p], i)
    /\ p \notin rsQueue' /\ CallsOf(p)' = CallsOf(p)
    /\ RequeuesOf(p)' = RequeuesOf(p) /\ pending'[p] = pending[p]

LEMMA DeleteKeeps ==
    ASSUME TypeOK, NEW p \in Players, PlayerOk(p), SameFind(p), SameTokens,
           SameEntry(p), SameData(p), SameGames(p),
           NEW i \in 1..Len(wire[p]), DeleteHandled(p, i)
    PROVE  PlayerOk(p)'
<1>1. /\ Idle(p)' = Idle(p) /\ InPrep(p)' = InPrep(p) /\ Past(p)' = Past(p)
      /\ \A k \in Slots : Posts(p, k)' = Posts(p, k)
  BY FindsAgree
<1>2. (Stale' <=> Stale) /\ NoEntry # Searching
  BY DEF Stale, SameTokens, NoEntry, Searching
<1> USE DEF PlayerOk, SameTokens, SameEntry, SameData, SameGames, DeleteHandled
<1>3. Holds(wire[p], Delete) /\ wire[p] \in Seq(Requests) /\ OneAsk(wire[p])
  BY RequeueTypes DEF Holds, PlaceLaw
<1>4. /\ entry[p] = NoEntry /\ wire[p] # <<>>
  BY <1>3, HeldIsThere DEF DeleteLaw, NoDeleteFor
<1>5. ~InPrep(p) /\ ~Past(p) /\ Idle(p)
  BY <1>4, FindCases DEF PrepLaw, PastLaw
<1>6. /\ \A x \in Requests \ {Delete} : Holds(wire[p], x)' <=> Holds(wire[p], x)
      /\ OneAsk(wire[p])'
  BY <1>3, WithoutWire
<1>7. NoAsk(wire[p])' <=> NoAsk(wire[p])
  BY <1>6 DEF NoAsk
<1>8. FindLaw(p)'
  BY DEF FindLaw, SameFind
<1>9. /\ RegisteredLaw(p)' /\ PrepLaw(p)' /\ SubsLaw(p)' /\ DataLaw(p)' /\ GamesLaw(p)'
      /\ WatchLaw(p)' /\ SearchLaw(p)' /\ PastLaw(p)' /\ DeleteLaw(p)' /\ QueuedLaw(p)'
  BY <1>1, <1>2, <1>4, <1>5
  DEF RegisteredLaw, PrepLaw, SubsLaw, DataLaw, GamesLaw, WatchLaw, SearchLaw, PastLaw,
      DeleteLaw, QueuedLaw
<1>10. PlaceLaw(p)'
  BY <1>6, <1>7 DEF PlaceLaw
<1>11. WireLaw(p)'
  BY <1>1, <1>6, AskKinds DEF WireLaw
<1>12. RequeueLaw(p)'
  BY <1>7 DEF RequeueLaw
<1>13. EpochLaw(p)'
  BY <1>2 DEF EpochLaw
<1> QED
  BY <1>8, <1>9, <1>10, <1>11, <1>12, <1>13

(* What a searching player is: in one of the places, and in no match.        *)
LEMMA SearcherPlace ==
    ASSUME TypeOK, EntryNamesLiveMatch, NEW p \in Players, entry[p] # NoEntry, GamesOf(p) = {}
    PROVE  entry[p] = Searching
<1>1. entry[p] \notin MatchIds
  BY DEF EntryNamesLiveMatch, GamesOf
<1> QED
  BY <1>1 DEF TypeOK

PostHandled(p, i, k) ==
    /\ wire[p][i] = Post(k) /\ wire'[p] = Without(wire[p], i)
    /\ p \in rsQueue' /\ CallsOf(p)' = CallsOf(p)
    /\ RequeuesOf(p)' = RequeuesOf(p) /\ pending'[p] = pending[p]
    /\ find'[p] = [find[p] EXCEPT ![k].pc = "queued"]

LEMMA PostKeeps ==
    ASSUME TypeOK, EntryNamesLiveMatch, NEW p \in Players, PlayerOk(p), SameTokens,
           SameEntry(p), SameData(p), SameGames(p),
           NEW i \in 1..Len(wire[p]), NEW k \in Slots, PostHandled(p, i, k)
    PROVE  PlayerOk(p)'
<1>1. /\ Post(k) \in Requests /\ Post(k) # Delete /\ wire[p] \in Seq(Requests)
      /\ Holds(wire[p], Post(k)) /\ OneAsk(wire[p])
  BY RequeueTypes, AskKinds DEF PostHandled, Holds, PlayerOk, PlaceLaw
<1>2. Posts(p, k) /\ ~NoAsk(wire[p]) /\ FindLaw(p)
  BY <1>1 DEF PlayerOk, WireLaw, NoAsk
<1>3. Past(p) /\ ~InPrep(p) /\ ~Idle(p) /\ entry[p] # NoEntry /\ ~Stale
  BY <1>2, FindCases DEF PlayerOk, PastLaw
<1>4. p \notin rsQueue /\ CallsOf(p) = {} /\ GamesOf(p) = {}
  BY <1>2 DEF PlayerOk, PlaceLaw
<1>5. entry[p] = Searching
  BY <1>3, <1>4, SearcherPlace
<1>6. /\ \A x : Holds(wire[p], x)' => Holds(wire[p], x)
      /\ OneAsk(wire[p])' /\ NoAsk(wire[p])'
  BY <1>1, WithoutWire DEF PostHandled
<1>7. PICK f : f = [find[p][k] EXCEPT !.pc = "queued"]
  OBVIOUS
<1>8. /\ find'[p][k] = f /\ f.pc = "queued" /\ f.conn = find[p][k].conn
      /\ \A j \in Slots \ {k} : find'[p][j] = find[p][j]
  <2>1. /\ find[p] \in [Slots -> [pc : FindPcs, conn : Nat, tok : {NoToken} \union Epochs]]
        /\ find[p][k] \in [pc : FindPcs, conn : Nat, tok : {NoToken} \union Epochs]
    BY DEF TypeOK
  <2>2. f.pc = "queued" /\ f.conn = find[p][k].conn
    BY <1>7, <2>1
  <2>3. find'[p] = [find[p] EXCEPT ![k] = f]
    BY <1>7 DEF PostHandled
  <2> QED
    BY <2>1, <2>2, <2>3
<1>9. \A j \in Slots \ {k} : find[p][j] = FindIdle
  BY <1>2 DEF FindLaw, Posts
<1>10. FindLaw(p)' /\ Past(p)' /\ ~InPrep(p)' /\ ~Idle(p)' /\ (\A j \in Slots : ~Posts(p, j)')
  <2>1. FindIdle.pc = "idle"
    BY DEF FindIdle
  <2>2. Past(p)' /\ ~Idle(p)'
    BY <1>8, <2>1 DEF Past, Idle
  <2>3. \A j \in Slots : find'[p][j].pc \in {"idle", "queued"}
    BY <1>8, <1>9, <2>1
  <2>4. FindLaw(p)'
    BY <1>2, <1>8, <1>9, <2>1, <2>3 DEF FindLaw, FindPcs, SameEntry, Posts
  <2> QED
    BY <2>2, <2>3, <2>4 DEF InPrep, Posts
<1> USE DEF PlayerOk, SameTokens, SameEntry, SameData, SameGames, PostHandled
<1>11. (Stale' <=> Stale) /\ NoEntry # Searching
  BY DEF Stale, NoEntry, Searching
<1>12. \A r \in RequeuesOf(p) : r.st # "sent" /\ r.st # "err"
  <2>1. \A r \in RequeuesOf(p) : r.st = "sent" => FALSE
    BY <1>1, RequeueTypes, AskKinds, OneAskIs DEF WireLaw
  <2> QED
    BY <1>2, <2>1 DEF RequeueLaw
<1>13. /\ RegisteredLaw(p)' /\ PrepLaw(p)' /\ SubsLaw(p)' /\ DataLaw(p)' /\ GamesLaw(p)'
       /\ WatchLaw(p)' /\ SearchLaw(p)' /\ QueuedLaw(p)'
  BY <1>3, <1>4, <1>5, <1>10, <1>11
  DEF RegisteredLaw, PrepLaw, SubsLaw, DataLaw, GamesLaw, WatchLaw, SearchLaw, QueuedLaw
<1>14. PastLaw(p)' /\ PlaceLaw(p)'
  BY <1>3, <1>4, <1>6, <1>10, <1>11 DEF PastLaw, PlaceLaw
<1>15. WireLaw(p)'
  BY <1>6, <1>10, <1>12, AskKinds DEF WireLaw, NoAsk
<1>16. RequeueLaw(p)' /\ DeleteLaw(p)'
  BY <1>6, <1>12 DEF RequeueLaw, DeleteLaw, NoDeleteFor
<1>17. EpochLaw(p)'
  BY <1>3, <1>11 DEF EpochLaw
<1> QED
  BY <1>10, <1>13, <1>14, <1>15, <1>16, <1>17

(* server-rs takes a requeue with the ticket of its own process only.       *)
RequeueHandled(p, i, r) ==
    /\ wire[p][i] = Requeue(r.m) /\ wire'[p] = Without(wire[p], i)
    /\ p \in rsQueue' <=> r.tk = rsEpoch
    /\ CallsOf(p)' = CallsOf(p) /\ pending'[p] = pending[p]
    /\ RequeuesOf(p)' = (RequeuesOf(p) \ {r}) \union
                          {[r EXCEPT !.st = IF r.tk = rsEpoch THEN "ok" ELSE "err"]}

LEMMA RequeueKeeps ==
    ASSUME TypeOK, EntryNamesLiveMatch, NEW p \in Players, PlayerOk(p), SameFind(p),
           SameTokens, SameEntry(p), SameData(p), SameGames(p),
           NEW i \in 1..Len(wire[p]), NEW r \in RequeuesOf(p), RequeueHandled(p, i, r)
    PROVE  PlayerOk(p)'
<1>1. /\ Idle(p)' = Idle(p) /\ InPrep(p)' = InPrep(p) /\ Past(p)' = Past(p)
      /\ \A k \in Slots : Posts(p, k)' = Posts(p, k)
  BY FindsAgree
<1>2. (Stale' <=> Stale) /\ NoEntry # Searching
  BY DEF Stale, SameTokens, NoEntry, Searching
<1>3. /\ r.p = p /\ r.m \in MatchIds /\ r.dels \in Nat /\ wire[p] \in Seq(Requests)
      /\ r \in [p : Players, m : MatchIds, tk : {NoTicket} \union Epochs,
                st : {"sent", "ok", "err"}, dels : Nat]
  BY RequeueTypes DEF TypeOK, RequeuesOf
<1>4. /\ Requeue(r.m) \in Requests /\ Requeue(r.m) # Delete
      /\ Holds(wire[p], Requeue(r.m)) /\ OneAsk(wire[p]) /\ ~NoAsk(wire[p])
  BY <1>3, AskKinds DEF RequeueHandled, Holds, PlayerOk, PlaceLaw, NoAsk
<1>5. /\ \A x : Holds(wire[p], x)' => Holds(wire[p], x)
      /\ \A x : Holds(wire[p], x) /\ x # Requeue(r.m) => Holds(wire[p], x)'
      /\ OneAsk(wire[p])' /\ NoAsk(wire[p])'
  BY <1>3, <1>4, WithoutWire DEF RequeueHandled
<1>6. p \notin rsQueue /\ CallsOf(p) = {} /\ GamesOf(p) = {} /\ ~InPrep(p)
  BY <1>4 DEF PlayerOk, PlaceLaw, PrepLaw
<1>7. \A q \in RequeuesOf(p) : q.st = "sent" <=> q = r
  <2>1. \A q \in RequeuesOf(p) : q.m = r.m => q = r
    BY DEF PlayerOk, RequeueLaw
  <2>2. \E q \in RequeuesOf(p) : q.m = r.m /\ q.st = "sent"
    BY <1>3, <1>4 DEF PlayerOk, WireLaw
  <2>3. r.st = "sent"
    BY <2>1, <2>2
  <2>4. \A q \in RequeuesOf(p) : q.st = "sent" => q.m = r.m
    BY <1>3, <1>4, RequeueTypes, AskKinds, OneAskIs DEF PlayerOk, WireLaw
  <2> QED
    BY <2>1, <2>3, <2>4
<1>8. PICK n : n = [r EXCEPT !.st = IF r.tk = rsEpoch THEN "ok" ELSE "err"]
  OBVIOUS
<1>9. /\ n.p = p /\ n.m = r.m /\ n.tk = r.tk /\ n.dels = r.dels
      /\ n.st = (IF r.tk = rsEpoch THEN "ok" ELSE "err")
  BY <1>3, <1>8
<1>10. /\ n \in RequeuesOf(p)'
       /\ \A q \in RequeuesOf(p)' : q = n \/ (q \in RequeuesOf(p) /\ q # r)
       /\ \A q \in RequeuesOf(p) : q # r => q \in RequeuesOf(p)'
  BY <1>8 DEF RequeueHandled
<1> HIDE DEF NoTicket
<1> USE DEF PlayerOk, SameTokens, SameEntry, SameData, SameGames
<1>11. FindLaw(p)'
  BY DEF FindLaw, SameFind
<1>12. /\ RegisteredLaw(p)' /\ PrepLaw(p)' /\ SubsLaw(p)' /\ DataLaw(p)' /\ GamesLaw(p)'
       /\ WatchLaw(p)'
  BY <1>1, <1>6 DEF RegisteredLaw, PrepLaw, SubsLaw, DataLaw, GamesLaw, WatchLaw
<1>13. PastLaw(p)'
  BY <1>1, <1>2, <1>6, <1>9, <1>10 DEF PastLaw, RequeueHandled
<1>14. PlaceLaw(p)'
  BY <1>5, <1>6 DEF PlaceLaw, RequeueHandled
<1>15. WireLaw(p)'
  <2>1. \A k \in Slots : ~Posts(p, k)
    BY <1>3, <1>4, AskKinds, OneAskIs DEF WireLaw
  <2>2. \A x \in Requests : x # Delete => ~Holds(wire[p], x)'
    BY <1>5 DEF NoAsk
  <2>3. \A q \in RequeuesOf(p)' : q.st # "sent"
    BY <1>7, <1>9, <1>10
  <2> QED
    BY <1>1, <2>1, <2>2, <2>3, AskKinds DEF WireLaw
<1>16. RequeueLaw(p)'
  <2>1. \A q1, q2 \in RequeuesOf(p)' : q1.m = q2.m => q1 = q2
    BY <1>9, <1>10 DEF RequeueLaw
  <2>2. \A q \in RequeuesOf(p)' : q.st # "sent"
    BY <1>7, <1>9, <1>10
  <2>3. \A q \in RequeuesOf(p)' : q.st = "err" => q = n /\ p \notin rsQueue'
    <3>1. \A q \in RequeuesOf(p) : q.st # "err"
      BY <1>4 DEF RequeueLaw
    <3> QED
      BY <1>9, <1>10, <3>1 DEF RequeueHandled
  <2> QED
    BY <1>5, <1>6, <2>1, <2>2, <2>3 DEF RequeueLaw, RequeueHandled
<1>17. DeleteLaw(p)'
  BY <1>5, <1>9, <1>10 DEF DeleteLaw, NoDeleteFor
<1>18. QueuedLaw(p)'
  <2>1. p \in rsQueue' => entry[p] = Searching \/ n.dels # 0
    BY <1>7, <1>9 DEF RequeueLaw, RequeueHandled
  <2> QED
    BY <1>10, <2>1 DEF QueuedLaw, NoDeleteFor
<1>19. SearchLaw(p)'
  BY <1>9, <1>10 DEF SearchLaw, RequeueHandled
<1>20. EpochLaw(p)'
  BY <1>2, <1>6, <1>9, <1>10 DEF EpochLaw, RequeueHandled
<1> QED
  BY <1>11, <1>12, <1>13, <1>14, <1>15, <1>16, <1>17, <1>18, <1>19, <1>20

(* server-rs restarts: whatever it issued before is out of date.            *)
LEMMA RestartKeeps ==
    ASSUME TypeOK, NEW p \in Players, PlayerOk(p), SameFind(p), SameEntry(p), SameData(p),
           SameRequests(p), SameGames(p), ~Past(p), token' = token, watchdog' = watchdog,
           token <= rsEpoch, rsEpoch' = rsEpoch + 1, p \notin rsQueue',
           CallsOf(p)' \subseteq CallsOf(p)
    PROVE  PlayerOk(p)'
<1>1. /\ Idle(p)' = Idle(p) /\ InPrep(p)' = InPrep(p) /\ Past(p)' = Past(p)
      /\ \A k \in Slots : Posts(p, k)' = Posts(p, k)
  BY FindsAgree
<1>2. /\ rsEpoch \in Nat /\ token \in Nat /\ ticket[p] \in Nat
      /\ \A ev \in CallsOf(p) : ev.tk \in Nat
      /\ \A r \in RequeuesOf(p) : r.tk \in Nat
  <2>1. \A e \in Epochs : e \in Nat
    BY BoundFacts
  <2>2. \A ev \in CallsOf(p) : ev.tk \in Nat
    BY <2>1 DEF TypeOK, CallsOf
  <2>3. \A r \in RequeuesOf(p) : r.tk \in Nat
    BY <2>1, RequeueTypes DEF NoTicket
  <2>4. token \in Nat /\ ticket[p] \in Nat
    BY <2>1 DEF TypeOK, NoTicket, NoToken
  <2> QED
    BY <2>2, <2>3, <2>4, RequeueTypes
<1> USE DEF PlayerOk, SameEntry, SameData, SameGames, SameRequests
<1>3. FindLaw(p)'
  <2>1. \A k \in Slots : find[p][k].pc \in {"idle", "prep"}
    BY DEF Past
  <2> QED
    BY <2>1 DEF FindLaw, SameFind
<1>4. /\ RegisteredLaw(p)' /\ PrepLaw(p)' /\ SubsLaw(p)' /\ DataLaw(p)' /\ GamesLaw(p)'
      /\ WatchLaw(p)' /\ PastLaw(p)' /\ QueuedLaw(p)'
  BY <1>1 DEF RegisteredLaw, PrepLaw, SubsLaw, DataLaw, GamesLaw, WatchLaw, PastLaw, QueuedLaw
<1>5. PlaceLaw(p)' /\ WireLaw(p)'
  BY <1>1 DEF PlaceLaw, WireLaw
<1>6. \A r \in RequeuesOf(p) : r.tk # rsEpoch'
  BY <1>2 DEF EpochLaw
<1>7. RequeueLaw(p)' /\ DeleteLaw(p)'
  BY <1>6 DEF RequeueLaw, DeleteLaw, NoDeleteFor
<1>8. SearchLaw(p)'
  BY <1>2 DEF SearchLaw
<1>9. EpochLaw(p)'
  BY <1>2 DEF EpochLaw
<1> QED
  BY <1>3, <1>4, <1>5, <1>7, <1>8, <1>9

(* The answer to a requeue reaches Node, and the DELETEs it held back leave.  *)
LEMMA AnswerKeeps ==
    ASSUME TypeOK, NEW p \in Players, PlayerOk(p), SameFind(p), SameTokens, SameEntry(p),
           SameData(p), SameRs(p), SameGames(p), NEW r \in RequeuesOf(p), r.st = "ok",
           RequeuesOf(p)' = RequeuesOf(p) \ {r},
           pending'[p] = IF pending[p] = r.m THEN 0 ELSE pending[p],
           \A x : Holds(wire[p], x)' <=> Holds(wire[p], x) \/ (r.dels # 0 /\ x = Delete),
           OneAsk(wire[p])'
    PROVE  PlayerOk(p)'
<1>1. /\ Idle(p)' = Idle(p) /\ InPrep(p)' = InPrep(p) /\ Past(p)' = Past(p)
      /\ \A k \in Slots : Posts(p, k)' = Posts(p, k)
  BY FindsAgree
<1>2. (Stale' <=> Stale)
  BY DEF Stale, SameTokens
<1>3. NoAsk(wire[p])' <=> NoAsk(wire[p])
  BY DEF NoAsk
<1> USE DEF PlayerOk, SameTokens, SameEntry, SameData, SameGames, SameRs
<1>4. ~InPrep(p)
  BY DEF PrepLaw
<1>5. FindLaw(p)'
  BY DEF FindLaw, SameFind
<1>6. /\ RegisteredLaw(p)' /\ PrepLaw(p)' /\ SubsLaw(p)' /\ DataLaw(p)' /\ GamesLaw(p)'
      /\ WatchLaw(p)'
  BY <1>1, <1>4 DEF RegisteredLaw, PrepLaw, SubsLaw, DataLaw, GamesLaw, WatchLaw
<1>7. PastLaw(p)'
  BY <1>1, <1>2, <1>3 DEF PastLaw
<1>8. PlaceLaw(p)'
  BY <1>3 DEF PlaceLaw
<1>9. WireLaw(p)'
  <2>1. \A m \in MatchIds : (\E q \in RequeuesOf(p)' : q.m = m /\ q.st = "sent") <=>
                             \E q \in RequeuesOf(p) : q.m = m /\ q.st = "sent"
    OBVIOUS
  <2> QED
    BY <1>1, <2>1, AskKinds DEF WireLaw
<1>10. RequeueLaw(p)'
  BY <1>3 DEF RequeueLaw
<1>11. DeleteLaw(p)' /\ QueuedLaw(p)'
  BY DEF DeleteLaw, QueuedLaw, NoDeleteFor
<1>12. SearchLaw(p)'
  BY <1>3 DEF SearchLaw
<1>13. EpochLaw(p)'
  BY <1>2 DEF EpochLaw
<1> QED
  BY <1>5, <1>6, <1>7, <1>8, <1>9, <1>10, <1>11, <1>12, <1>13

-----------------------------------------------------------------------------
(* find().                                                                  *)

LEMMA FindIdleIs == /\ FindIdle.pc = "idle" /\ FindIdle.conn = NoClient
                    /\ FindIdle.tok = NoToken
BY DEF FindIdle

(* The k-th call of p moves on, and it is the only one.                     *)
LEMMA OneFind ==
    ASSUME TypeOK, NEW p \in Players, NEW k \in Slots, NEW f, FindLaw(p),
           Idle(p) \/ find[p][k].pc # "idle", SetFind(p, k, f)
    PROVE  /\ find'[p][k] = f
           /\ \A j \in Slots \ {k} : find'[p][j] = FindIdle /\ find[p][j] = FindIdle
           /\ \A q \in Players \ {p} : SameFind(q)
<1>1. find[p] \in [Slots -> [pc : FindPcs, conn : Nat, tok : {NoToken} \union Epochs]]
      /\ find \in [Players -> [Slots -> [pc : FindPcs, conn : Nat,
                                       tok : {NoToken} \union Epochs]]]
  BY DEF TypeOK
<1>2. \A j \in Slots \ {k} : find[p][j] = FindIdle
  BY DEF FindLaw, Idle
<1>3. find'[p] = [find[p] EXCEPT ![k] = f] /\ \A q \in Players \ {p} : find'[q] = find[q]
  BY <1>1 DEF SetFind
<1> QED
  BY <1>1, <1>2, <1>3 DEF SameFind

LEMMA OneFindIs ==
    ASSUME NEW p \in Players, NEW k \in Slots, 
           \A j \in Slots \ {k} : find'[p][j] = FindIdle
    PROVE  /\ Idle(p)' <=> find'[p][k] = FindIdle
           /\ InPrep(p)' <=> find'[p][k].pc = "prep"
           /\ Past(p)' <=> find'[p][k].pc \notin {"idle", "prep"}
           /\ \A j \in Slots : Posts(p, j)' <=> j = k /\ find'[p][k].pc = "post"
BY FindIdleIs DEF Idle, InPrep, Past, Posts

(* find() starts.                                                          *)
LEMMA StartKeeps ==
    ASSUME TypeOK, NEW p \in Players, NEW k \in Slots, NEW g \in Nat, PlayerOk(p),
           g # NoClient, activity[p] = NoClient, activity'[p] = g,
           SetFind(p, k, [FindIdle EXCEPT !.pc = "prep", !.conn = g]),
           entry'[p] = entry[p], SubsOf(p)' = SubsOf(p), SameData(p), SameRequests(p),
           SameRs(p), SameGames(p), SameTokens,
           wire[p] = <<>>, RequeuesOf(p) = {}, CallsOf(p) = {}, GamesOf(p) = {}
    PROVE  PlayerOk(p)'
<1>1. Idle(p) /\ entry[p] = NoEntry /\ p \notin data /\ SubsOf(p) = {}
  BY DEF PlayerOk, RegisteredLaw, DataLaw, SubsLaw
<1>2. p \notin rsQueue /\ NoEntry # Searching
  BY <1>1, EmptyWire DEF PlayerOk, QueuedLaw, NoDeleteFor, NoEntry, Searching
<1>3. PICK f : f = [FindIdle EXCEPT !.pc = "prep", !.conn = g]
  OBVIOUS
<1>4. f.pc = "prep" /\ f.conn = g /\ f # FindIdle
  BY <1>3 DEF FindIdle
<1>5. find'[p][k] = f /\ \A j \in Slots \ {k} : find'[p][j] = FindIdle
  <2>1. SetFind(p, k, f)
    BY <1>3
  <2> QED
    BY <1>1, <2>1, OneFind DEF PlayerOk
<1>6. /\ ~Idle(p)' /\ InPrep(p)' /\ ~Past(p)' /\ \A j \in Slots : ~Posts(p, j)'
      /\ \A j \in Slots : ~Posts(p, j)
  BY <1>1, <1>4, <1>5, OneFindIs, FindCases DEF PlayerOk
<1> USE DEF SameData, SameRequests, SameRs, SameGames, SameTokens
<1>7. FindLaw(p)'
  BY <1>4, <1>5, FindIdleIs DEF FindLaw, FindPcs
<1>8. /\ RegisteredLaw(p)' /\ PrepLaw(p)' /\ PastLaw(p)' /\ SubsLaw(p)' /\ DataLaw(p)'
      /\ GamesLaw(p)' /\ DeleteLaw(p)' /\ WatchLaw(p)' /\ SearchLaw(p)' /\ QueuedLaw(p)'
  BY <1>1, <1>2, <1>6
  DEF PlayerOk, RegisteredLaw, PrepLaw, PastLaw, SubsLaw, DataLaw, GamesLaw, DeleteLaw,
      WatchLaw, SearchLaw, QueuedLaw
<1>9. PlaceLaw(p)' /\ RequeueLaw(p)' /\ WireLaw(p)'
  BY <1>2, <1>6, EmptyWire DEF PlaceLaw, RequeueLaw, WireLaw
<1>10. EpochLaw(p)'
  BY DEF PlayerOk, EpochLaw, Stale
<1> QED
  BY <1>7, <1>8, <1>9, <1>10 DEF PlayerOk

(* A lookup of find() throws.                                              *)
LEMMA PrepFailsKeeps ==
    ASSUME TypeOK, NEW p \in Players, NEW k \in Slots, PlayerOk(p),
           find[p][k].pc = "prep", activity'[p] = NoClient, SetFind(p, k, FindIdle),
           entry'[p] = entry[p], SubsOf(p)' = SubsOf(p), SameData(p), SameRequests(p),
           SameRs(p), SameGames(p), SameTokens
    PROVE  PlayerOk(p)'
<1>1. /\ InPrep(p) /\ ~Idle(p) /\ SubsOf(p) = {}
      /\ \A j \in Slots : ~Posts(p, j)
  BY FindCases DEF InPrep, PlayerOk, SubsLaw
<1>2. find'[p][k] = FindIdle /\ \A j \in Slots \ {k} : find'[p][j] = FindIdle
  BY OneFind DEF PlayerOk
<1>3. /\ Idle(p)' /\ ~InPrep(p)' /\ ~Past(p)' /\ \A j \in Slots : ~Posts(p, j)'
  BY <1>2, OneFindIs, FindIdleIs
<1>4. /\ wire[p] = <<>> /\ RequeuesOf(p) = {} /\ CallsOf(p) = {} /\ GamesOf(p) = {}
      /\ entry[p] = NoEntry /\ p \notin data /\ p \notin rsQueue /\ NoEntry # Searching
  BY <1>1 DEF PlayerOk, PrepLaw, NoEntry, Searching
<1> USE DEF SameData, SameRequests, SameRs, SameGames, SameTokens
<1>5. FindLaw(p)'
  BY <1>2, FindIdleIs DEF FindLaw, FindPcs
<1>6. /\ RegisteredLaw(p)' /\ PrepLaw(p)' /\ PastLaw(p)' /\ SubsLaw(p)' /\ DataLaw(p)'
      /\ GamesLaw(p)' /\ DeleteLaw(p)' /\ WatchLaw(p)' /\ SearchLaw(p)' /\ QueuedLaw(p)'
  BY <1>1, <1>3, <1>4
  DEF PlayerOk, RegisteredLaw, PrepLaw, PastLaw, SubsLaw, DataLaw, GamesLaw, DeleteLaw,
      WatchLaw, SearchLaw, QueuedLaw
<1>7. PlaceLaw(p)' /\ RequeueLaw(p)' /\ WireLaw(p)'
  BY <1>3, <1>4, EmptyWire DEF PlaceLaw, RequeueLaw, WireLaw
<1>8. EpochLaw(p)'
  BY DEF PlayerOk, EpochLaw, Stale
<1> QED
  BY <1>5, <1>6, <1>7, <1>8 DEF PlayerOk

(* The lookups are done: the POST goes out.                                 *)
LEMMA SentKeeps ==
    ASSUME TypeOK, NEW p \in Players, NEW k \in Slots, PlayerOk(p),
           find[p][k].pc = "prep", MoveFind(p, k, "post"), ~Stale,
           entry'[p] = Searching, activity'[p] = activity[p], SubsOf(p)' = SubsOf(p),
           p \in data', ticket'[p] = ticket[p], wire'[p] = Append(wire[p], Post(k)),
           RequeuesOf(p)' = RequeuesOf(p), SameRs(p), SameGames(p), SameTokens
    PROVE  PlayerOk(p)'
<1>1. /\ InPrep(p) /\ ~Idle(p) /\ SubsOf(p) = {}
      /\ activity[p] = find[p][k].conn /\ activity[p] # NoClient
  BY FindCases DEF InPrep, PlayerOk, SubsLaw, RegisteredLaw, FindLaw
<1>2. PICK f : f = [find[p][k] EXCEPT !.pc = "post"]
  OBVIOUS
<1>3. f.pc = "post" /\ f.conn = find[p][k].conn /\ SetFind(p, k, f) /\ f # FindIdle
  <2>1. find[p][k] \in [pc : FindPcs, conn : Nat, tok : {NoToken} \union Epochs]
    BY DEF TypeOK
  <2> QED
    BY <1>2, <2>1, FindIdleIs DEF MoveFind, SetFind
<1>4. find'[p][k] = f /\ \A j \in Slots \ {k} : find'[p][j] = FindIdle
  BY <1>3, OneFind DEF PlayerOk
<1>5. ~Idle(p)' /\ ~InPrep(p)' /\ Past(p)' /\ \A j \in Slots : Posts(p, j)' <=> j = k
  BY <1>3, <1>4, OneFindIs
<1>6. /\ wire[p] = <<>> /\ RequeuesOf(p) = {} /\ CallsOf(p) = {} /\ GamesOf(p) = {}
      /\ p \notin rsQueue
  BY <1>1 DEF PlayerOk, PrepLaw
<1>7. Post(k) \in Requests /\ Post(k) # Delete
  BY AskKinds
<1>8. (\A x : Holds(wire[p], x)' <=> x = Post(k)) /\ OneAsk(wire[p])' /\ ~NoAsk(wire[p])'
  <2>1. <<>> \in Seq(Requests)
    OBVIOUS
  <2>2. (\A x : Holds(wire[p], x)' <=> x = Post(k)) /\ OneAsk(wire[p])'
    <3>1. /\ \A x : Holds(Append(<<>>, Post(k)), x) <=> Holds(<<>>, x) \/ x = Post(k)
          /\ OneAsk(Append(<<>>, Post(k)))
      BY <1>7, <2>1, EmptyWire, AppendWire
    <3>2. wire'[p] = Append(<<>>, Post(k))
      BY <1>6
    <3> QED
      BY <3>1, <3>2, EmptyWire
  <2> QED
    BY <1>7, <2>2 DEF NoAsk
<1>9. NoEntry # Searching /\ (Stale' <=> Stale)
  BY DEF NoEntry, Searching, Stale, SameTokens
<1> USE DEF SameRs, SameGames, SameTokens
<1>10. FindLaw(p)'
  BY <1>1, <1>3, <1>4, FindIdleIs DEF FindLaw, FindPcs
<1>11. /\ RegisteredLaw(p)' /\ PrepLaw(p)' /\ PastLaw(p)' /\ SubsLaw(p)' /\ DataLaw(p)'
       /\ GamesLaw(p)' /\ DeleteLaw(p)' /\ WatchLaw(p)' /\ SearchLaw(p)' /\ QueuedLaw(p)'
  BY <1>1, <1>5, <1>6, <1>7, <1>8, <1>9
  DEF PlayerOk, RegisteredLaw, PrepLaw, PastLaw, SubsLaw, DataLaw, GamesLaw, DeleteLaw,
      WatchLaw, SearchLaw, QueuedLaw, NoDeleteFor
<1>12. PlaceLaw(p)' /\ RequeueLaw(p)'
  BY <1>6, <1>8 DEF PlaceLaw, RequeueLaw
<1>13. WireLaw(p)'
  BY <1>5, <1>6, <1>8, AskKinds DEF WireLaw
<1>14. EpochLaw(p)'
  BY <1>6, <1>9 DEF PlayerOk, EpochLaw
<1> QED
  BY <1>10, <1>11, <1>12, <1>13, <1>14 DEF PlayerOk

(* find() waits for the baseline of the watchdog.                           *)
LEMMA MovedKeeps ==
    ASSUME TypeOK, NEW p \in Players, NEW k \in Slots, NEW f, PlayerOk(p), SamePlayer(p),
           SameTokens, find[p][k].pc \in {"queued", "token"}, SetFind(p, k, f),
           f.conn = find[p][k].conn,
           \/ f.pc = "token"
           \/ f.pc = "baseline" /\ f.tok = rsEpoch
    PROVE  PlayerOk(p)'
<1>1. /\ Past(p) /\ ~InPrep(p) /\ ~Idle(p) /\ activity[p] = find[p][k].conn
      /\ \A j \in Slots : ~Posts(p, j)
  <2>1. find[p][k].pc # "idle" /\ find[p][k].pc # "prep" /\ find[p][k].pc # "post"
    OBVIOUS
  <2>2. Past(p)
    BY <2>1 DEF Past
  <2>3. \A j \in Slots \ {k} : find[p][j] = FindIdle
    BY <2>1 DEF PlayerOk, FindLaw
  <2> QED
    BY <2>1, <2>2, <2>3, FindCases, FindIdleIs DEF PlayerOk, FindLaw, Posts
<1>2. find'[p][k] = f /\ \A j \in Slots \ {k} : find'[p][j] = FindIdle
  BY OneFind DEF PlayerOk
<1>3. Past(p)' /\ ~InPrep(p)' /\ ~Idle(p)' /\ \A j \in Slots : ~Posts(p, j)'
  BY <1>2, OneFindIs, FindIdleIs
<1>4. Stale' <=> Stale
  BY DEF Stale, SameTokens
<1> USE DEF PlayerOk, SamePlayer, SameEntry, SameData, SameRequests, SameRs, SameGames,
            SameTokens
<1>5. FindLaw(p)'
  BY <1>1, <1>2, FindIdleIs DEF FindLaw, FindPcs
<1>6. /\ RegisteredLaw(p)' /\ PrepLaw(p)' /\ SubsLaw(p)' /\ DataLaw(p)' /\ GamesLaw(p)'
      /\ WatchLaw(p)' /\ SearchLaw(p)'
  BY <1>1, <1>3 DEF RegisteredLaw, PrepLaw, SubsLaw, DataLaw, GamesLaw, WatchLaw, SearchLaw
<1>7. PastLaw(p)'
  BY <1>1, <1>3, <1>4 DEF PastLaw
<1>8. PlaceLaw(p)' /\ WireLaw(p)'
  BY <1>1, <1>3 DEF PlaceLaw, WireLaw
<1>9. RequeueLaw(p)' /\ DeleteLaw(p)' /\ QueuedLaw(p)'
  BY DEF RequeueLaw, DeleteLaw, QueuedLaw, NoDeleteFor
<1>10. EpochLaw(p)'
  BY <1>4 DEF EpochLaw
<1> QED
  BY <1>5, <1>6, <1>7, <1>8, <1>9, <1>10

(* find() returns: the client group joins the matchmaking path.             *)
LEMMA FinishedKeeps ==
    ASSUME TypeOK, NEW p \in Players, NEW k \in Slots, PlayerOk(p),
           find[p][k].pc \in {"queued", "baseline"}, SetFind(p, k, FindIdle),
           entry'[p] = entry[p], activity'[p] = activity[p],
           SubsOf(p)' = SubsOf(p) \union {<<p, find[p][k].conn>>},
           SameData(p), SameRequests(p), SameRs(p), SameGames(p),
           watchdog' = TRUE, rsEpoch' = rsEpoch, ~Stale'
    PROVE  PlayerOk(p)'
<1>1. /\ Past(p) /\ ~InPrep(p) /\ ~Idle(p) /\ activity[p] = find[p][k].conn
      /\ activity[p] # NoClient /\ SubsOf(p) = {}
      /\ \A j \in Slots : ~Posts(p, j)
  <2>1. find[p][k].pc # "idle" /\ find[p][k].pc # "prep" /\ find[p][k].pc # "post"
    OBVIOUS
  <2>2. Past(p)
    BY <2>1 DEF Past
  <2>3. \A j \in Slots \ {k} : find[p][j] = FindIdle
    BY <2>1 DEF PlayerOk, FindLaw
  <2> QED
    BY <2>1, <2>2, <2>3, FindCases, FindIdleIs
    DEF PlayerOk, FindLaw, Posts, SubsLaw, RegisteredLaw
<1>2. find'[p][k] = FindIdle /\ \A j \in Slots \ {k} : find'[p][j] = FindIdle
  BY OneFind DEF PlayerOk
<1>3. Idle(p)' /\ ~InPrep(p)' /\ ~Past(p)' /\ \A j \in Slots : ~Posts(p, j)'
  BY <1>2, OneFindIs, FindIdleIs
<1>4. entry[p] # NoEntry /\ ~Stale /\ Searching \notin MatchIds
  BY <1>1, BoundFacts DEF PlayerOk, PastLaw, Searching
<1>5. \A s \in SubsOf(p)' : s[2] = activity[p]
  BY <1>1
<1> USE DEF PlayerOk, SameData, SameRequests, SameRs, SameGames
<1>6. FindLaw(p)'
  BY <1>2, FindIdleIs DEF FindLaw, FindPcs
<1>7. /\ RegisteredLaw(p)' /\ PrepLaw(p)' /\ SubsLaw(p)' /\ DataLaw(p)' /\ GamesLaw(p)'
      /\ WatchLaw(p)' /\ PastLaw(p)'
  BY <1>1, <1>3, <1>4, <1>5
  DEF RegisteredLaw, PrepLaw, SubsLaw, DataLaw, GamesLaw, WatchLaw, PastLaw
<1>8. SearchLaw(p)'
  <2>1. GamesOf(p) \subseteq MatchIds
    BY DEF GamesOf
  <2>2. entry[p] = Searching => GamesOf(p) = {}
    BY <1>4, <2>1 DEF GamesLaw
  <2> QED
    BY <1>1, <2>2 DEF SearchLaw, PastLaw
<1>9. PlaceLaw(p)' /\ WireLaw(p)'
  BY <1>1, <1>3 DEF PlaceLaw, WireLaw
<1>10. RequeueLaw(p)' /\ DeleteLaw(p)' /\ QueuedLaw(p)'
  BY DEF RequeueLaw, DeleteLaw, QueuedLaw, NoDeleteFor
<1>11. EpochLaw(p)'
  BY <1>4 DEF EpochLaw
<1> QED
  BY <1>6, <1>7, <1>8, <1>9, <1>10, <1>11

-----------------------------------------------------------------------------
(* The building blocks keep the laws of every player.                       *)

AllOk == TypeOK /\ Safe /\ EventsFresh /\ MatchesLaw /\ \A q \in Players : PlayerOk(q)

(* Something answers for the search of q.                                   *)
Placed(q) == \/ q \in rsQueue \/ CallsOf(q) # {} \/ ~NoAsk(wire[q])
             \/ \E r \in RequeuesOf(q) : r.st = "err"

(* A step that takes the baseline only where no search depends on the old one. *)
TokenStep ==
    /\ rsEpoch' = rsEpoch /\ (Stale' => Stale) /\ (watchdog => watchdog')
    /\ \A q \in Players : entry[q] = Searching /\ token # rsEpoch =>
                            token' # rsEpoch \/ Placed(q)

LEMMA SameTokenStep ==
    ASSUME SameTokens PROVE TokenStep
BY DEF SameTokens, TokenStep, Stale

LEMMA StepKeeps ==
    ASSUME NEW q \in Players, PlayerOk(q), SamePlayer(q), SameFind(q), TokenStep
    PROVE  PlayerOk(q)'
<1>1. Idle(q)' = Idle(q)
  BY FindsAgree
<1>2. WatchLaw(q)'
  BY <1>1 DEF PlayerOk, WatchLaw, TokenStep, SamePlayer, SameEntry
<1>3. SearchLaw(q)'
  BY DEF PlayerOk, SearchLaw, TokenStep, SamePlayer, SameEntry, SameRequests, SameRs, Placed
<1> QED
  BY <1>2, <1>3, TokenKeeps DEF TokenStep

LEMMA UnregisterIs ==
    ASSUME TypeOK, NEW P \in SUBSET Players, NEW q \in Players, Unregister(P), PlayerOk(q)
    PROVE  IF q \in P THEN activity'[q] = NoClient /\ SubsOf(q)' = {}
                      ELSE activity'[q] = activity[q] /\ SubsOf(q)' = SubsOf(q)
<1>1. activity'[q] = IF q \in P THEN NoClient ELSE activity[q]
  BY DEF Unregister
<1>2. CASE q \in P
  <2>1. SUFFICES ASSUME NEW s \in SubsOf(q)' PROVE FALSE
    BY <1>1, <1>2
  <2>2. s \in subbed /\ s[1] = q /\ s \notin {<<p, activity[p]>> : p \in P}
    BY <2>1 DEF SubsOf, Unregister
  <2>3. s \in Players \X Nat /\ s[2] = activity[q]
    BY <2>2 DEF TypeOK, PlayerOk, SubsLaw, SubsOf
  <2>4. s = <<q, activity[q]>>
    BY <2>2, <2>3
  <2> QED
    BY <1>2, <2>2, <2>4
<1>3. CASE q \notin P
  <2>1. \A s \in subbed : s[1] = q => s \notin {<<p, activity[p]>> : p \in P}
    BY <1>3
  <2>2. SubsOf(q)' = SubsOf(q)
    BY <2>1 DEF SubsOf, Unregister
  <2> QED
    BY <1>1, <1>3, <2>2
<1> QED
  BY <1>2, <1>3

(* Nothing about q is on its way but what was before.                       *)
LEMMA ExitSame ==
    ASSUME NEW q \in Players, PlayerOk(q), SameRequests(q),
           q \in rsQueue => ~NoDeleteFor(q),
           \A r \in RequeuesOf(q) : r.st = "sent" => r.dels # 0 \/ r.tk # rsEpoch
    PROVE  ExitRequests(q)
BY DEF ExitRequests, SameRequests, PlayerOk, PlaceLaw, RequeueLaw, NoDeleteFor

(* No requeue of a called or matched player is on its way, and server-rs does *)
(* not have the player.                                                     *)
LEMMA BusyPlace ==
    ASSUME TypeOK, NEW q \in Players, PlayerOk(q), CallsOf(q) # {} \/ GamesOf(q) # {}
    PROVE  /\ q \notin rsQueue /\ NoAsk(wire[q]) /\ ~InPrep(q)
           /\ \A r \in RequeuesOf(q) : r.st # "sent" /\ r.st # "err"
<1>1. q \notin rsQueue /\ NoAsk(wire[q]) /\ ~InPrep(q)
  BY DEF PlayerOk, PlaceLaw, PrepLaw
<1>2. \A r \in RequeuesOf(q) : r.st # "sent"
  BY <1>1, RequeueTypes, AskKinds DEF PlayerOk, WireLaw, NoAsk
<1> QED
  BY <1>1, <1>2 DEF PlayerOk, RequeueLaw

(* What FailMatch does to q.                                                *)
FailEffect(m, ban, q) ==
    /\ GamesOf(q)' = GamesOf(q) \ {m} /\ LeftBy(q)' = LeftBy(q) \ {m}
    /\ q \notin matches[m].group => SameEntry(q) /\ SameData(q) /\ SameRequests(q)
    /\ q \in matches[m].group /\ (q \in ban \/ entry[q] = NoEntry) =>
         /\ entry'[q] = NoEntry /\ activity'[q] = NoClient /\ SubsOf(q)' = {}
         /\ q \notin data' /\ ticket'[q] = NoTicket /\ SameRequests(q)
    /\ q \in matches[m].group /\ q \notin ban /\ entry[q] # NoEntry =>
         /\ entry[q] = m /\ entry'[q] = Searching /\ activity'[q] = activity[q]
         /\ SubsOf(q)' = SubsOf(q) /\ (q \in data' <=> q \in data)
         /\ ticket'[q] = NoTicket /\ pending'[q] = m
         /\ wire'[q] = Append(wire[q], Requeue(m))
         /\ RequeuesOf(q)' = RequeuesOf(q) \union {NewRequeue(q, m, ticket[q])}

LEMMA FailMatchIs ==
    ASSUME TypeOK, Safe, NEW m \in MatchIds, NEW ban \in SUBSET matches[m].group,
           NEW q \in Players, PlayerOk(q), 
           FailMatch(m, matches[m].group, ban, ticket)
    PROVE  FailEffect(m, ban, q)
<1>0. ban \in SUBSET Players
  BY DEF TypeOK
<1> DEFINE group == matches[m].group
           stay == Returning(group, ban)
           back == {p \in stay : ticket[p] # NoTicket}
           gone == Dismissed(group, ban)
<1>1. /\ entry'[q] = IF q \in ban THEN NoEntry ELSE IF q \in stay THEN Searching ELSE entry[q]
      /\ ticket'[q] = IF q \in back \union gone THEN NoTicket ELSE ticket[q]
      /\ pending'[q] = IF q \in back THEN m ELSE pending[q]
      /\ wire'[q] = IF q \in back THEN Append(wire[q], Requeue(m)) ELSE wire[q]
      /\ data' = data \ gone
      /\ matches' = [matches EXCEPT ![m] = NoMatch]
      /\ requeues' = requeues \union
            {[p |-> p, m |-> m, tk |-> ticket[p], st |-> "sent", dels |-> 0] : p \in back}
      /\ Unregister(ban)
  BY DEF FailMatch
<1>2. q \in stay <=> q \in group /\ q \notin ban /\ entry[q] # NoEntry
  BY DEF Returning
<1>3. q \in gone <=> q \in group /\ (q \in ban \/ entry[q] = NoEntry)
  BY DEF Dismissed
<1>4. q \in group => IF m \in LeftBy(q) THEN entry[q] = NoEntry /\ activity[q] = NoClient
                                        ELSE entry[q] = m
  BY DEF PlayerOk, GamesLaw, GamesOf
<1>5. q \in back <=> q \in stay
  BY <1>2, <1>4 DEF Safe, TicketInHand
<1>6. RequeuesOf(q)' = IF q \in back THEN RequeuesOf(q) \union {NewRequeue(q, m, ticket[q])}
                                     ELSE RequeuesOf(q)
  <2> DEFINE new(p) == [p |-> p, m |-> m, tk |-> ticket[p], st |-> "sent", dels |-> 0]
  <2>1. \A p : new(p).p = p
    OBVIOUS
  <2>2. new(q) = NewRequeue(q, m, ticket[q])
    BY DEF NewRequeue
  <2>3. requeues' = requeues \union {new(p) : p \in back}
    BY <1>1
  <2> HIDE DEF new, back
  <2>4. RequeuesOf(q)' = RequeuesOf(q) \union {r \in {new(p) : p \in back} : r.p = q}
    BY <2>3 DEF RequeuesOf
  <2>5. {r \in {new(p) : p \in back} : r.p = q} = IF q \in back THEN {new(q)} ELSE {}
    BY <2>1
  <2> QED
    BY <2>2, <2>4, <2>5
<1>7. GamesOf(q)' = GamesOf(q) \ {m} /\ LeftBy(q)' = LeftBy(q) \ {m}
  <2>1. \A n \in MatchIds : matches'[n] = IF n = m THEN NoMatch ELSE matches[n]
    BY <1>1 DEF TypeOK
  <2>2. NoMatch.group = {} /\ NoMatch.ban = {}
    BY DEF NoMatch
  <2> QED
    BY <2>1, <2>2 DEF GamesOf, LeftBy
<1>8. IF q \in ban THEN activity'[q] = NoClient /\ SubsOf(q)' = {}
                   ELSE activity'[q] = activity[q] /\ SubsOf(q)' = SubsOf(q)
  BY <1>0, <1>1, UnregisterIs
<1>9. activity[q] = NoClient => SubsOf(q) = {}
  BY DEF PlayerOk, SubsLaw
<1>10. m # NoEntry
  BY BoundFacts
<1> HIDE DEF stay, back, gone
<1>11. CASE q \notin group
  BY <1>1, <1>2, <1>3, <1>5, <1>6, <1>7, <1>8, <1>11
  DEF FailEffect, SameEntry, SameData, SameRequests
<1>12. CASE q \in group /\ (q \in ban \/ entry[q] = NoEntry)
  BY <1>1, <1>2, <1>3, <1>4, <1>5, <1>6, <1>7, <1>8, <1>9, <1>10, <1>12
  DEF FailEffect, SameRequests
<1>13. CASE q \in group /\ q \notin ban /\ entry[q] # NoEntry
  BY <1>1, <1>2, <1>3, <1>4, <1>5, <1>6, <1>7, <1>8, <1>13
  DEF FailEffect
<1> QED
  BY <1>11, <1>12, <1>13

SameRsState == rsQueue' = rsQueue /\ events' = events

LEMMA FailKeeps ==
    ASSUME AllOk, TokenStep, SameRsState, NEW m \in MatchIds, Live(m),
           NEW ban \in SUBSET matches[m].group,
           FailMatch(m, matches[m].group, ban, ticket),
           \A q \in Players \ ban : SameFind(q),
           \A q \in ban : Idle(q)' /\ \A k \in Slots : ~Posts(q, k)
    PROVE  \A q \in Players : PlayerOk(q)'
<1> SUFFICES ASSUME NEW q \in Players PROVE PlayerOk(q)'
  OBVIOUS
<1>1. TypeOK /\ Safe /\ MatchesLaw /\ PlayerOk(q) /\ rsEpoch \in Nat /\ rsEpoch # NoTicket
  BY BoundFacts DEF AllOk, TypeOK, NoTicket, NoToken
<1>2. SameRs(q)
  BY DEF SameRsState, SameRs, CallsOf
<1>3. FailEffect(m, ban, q)
  BY <1>1, FailMatchIs
<1>4. CASE q \notin matches[m].group
  <2>1. m \notin GamesOf(q) /\ m \notin LeftBy(q)
    BY <1>1, <1>4 DEF GamesOf, PlayerOk, GamesLaw
  <2>2. SamePlayer(q)
    BY <1>1, <1>2, <1>3, <1>4, <2>1 DEF FailEffect, SamePlayer, SameGames
  <2> QED
    BY <1>1, <1>4, <2>2, StepKeeps
<1>5. q \in matches[m].group => GamesOf(q) = {m} /\ GamesOf(q)' = {} /\ LeftBy(q)' = {}
  <2>1. q \in matches[m].group => m \in GamesOf(q)
    BY DEF GamesOf
  <2> QED
    BY <1>1, <1>3, <2>1 DEF FailEffect, PlayerOk, PlaceLaw, GamesLaw
<1>6. CASE q \in matches[m].group /\ (q \in ban \/ entry[q] = NoEntry)
  <2>1. /\ entry'[q] = NoEntry /\ activity'[q] = NoClient /\ SubsOf(q)' = {}
        /\ q \notin data' /\ ticket'[q] = NoTicket /\ SameRequests(q)
    BY <1>3, <1>6 DEF FailEffect
  <2>2. Idle(q)' /\ \A k \in Slots : ~Posts(q, k)
    <3>1. CASE q \notin ban
      <4>1. activity[q] = NoClient
        BY <1>1, <1>5, <1>6, <3>1, BoundFacts DEF PlayerOk, GamesLaw
      <4>2. Idle(q)
        BY <1>1, <4>1 DEF PlayerOk, RegisteredLaw
      <4> QED
        BY <1>1, <3>1, <4>2, FindsAgree, FindCases DEF PlayerOk
    <3> QED
      BY <3>1
  <2>3. ExitRequests(q)
    BY <1>1, <1>5, <1>6, <2>1, BusyPlace, ExitSame
  <2> QED
    BY <1>1, <1>2, <1>5, <1>6, <2>1, <2>2, <2>3, ExitKeeps DEF TokenStep, SameRs
<1>7. CASE q \in matches[m].group /\ q \notin ban /\ entry[q] # NoEntry
  <2>1. /\ entry'[q] = Searching /\ activity'[q] = activity[q]
        /\ SubsOf(q)' = SubsOf(q) /\ (q \in data' <=> q \in data)
        /\ ticket'[q] = NoTicket /\ pending'[q] = m
        /\ wire'[q] = Append(wire[q], Requeue(m))
        /\ RequeuesOf(q)' = RequeuesOf(q) \union {NewRequeue(q, m, ticket[q])}
    BY <1>3, <1>7 DEF FailEffect
  <2>2. watchdog' \/ ~Idle(q)
    BY <1>1, <1>7 DEF PlayerOk, WatchLaw, TokenStep
  <2>3. CallsOf(q)' = {} /\ (q \in rsQueue' <=> q \in rsQueue)
    BY <1>1, <1>2, <1>5, <1>7 DEF PlayerOk, PlaceLaw, SameRs
  <2>4. \A r \in RequeuesOf(q) : r.m # m
    BY <1>1 DEF MatchesLaw, RequeuesOf
  <2>5. ticket[q] <= rsEpoch /\ (Stale => ticket[q] # rsEpoch) /\ (Past(q) => ticket[q] = rsEpoch)
    BY <1>1, <1>5, <1>7 DEF PlayerOk, EpochLaw, PastLaw
  <2>6. SameFind(q) /\ rsEpoch' = rsEpoch /\ (Stale' => Stale)
    BY <1>7 DEF TokenStep
  <2> QED
    BY <1>1, <1>5, <1>7, <2>1, <2>2, <2>3, <2>4, <2>5, <2>6, ReturnKeeps
<1> QED
  BY <1>4, <1>6, <1>7

LEMMA CancelIs ==
    ASSUME TypeOK, Safe, NEW p \in Players, NEW q \in Players, PlayerOk(q), CancelInRust(p),
           UNCHANGED pending
    PROVE  IF q = p THEN ExitRequests(q) ELSE SameRequests(q)
<1>0. /\ wire[q] \in Seq(Requests) /\ Delete \in Requests /\ OneAsk(wire[q])
  BY RequeueTypes, RequestTypes DEF PlayerOk, PlaceLaw
<1>1. CASE pending[p] = 0
  <2>1. requeues' = requeues /\ wire' = [wire EXCEPT ![p] = Append(@, Delete)]
    BY <1>1 DEF CancelInRust, Send
  <2>2. RequeuesOf(q)' = RequeuesOf(q)
    BY <2>1 DEF RequeuesOf
  <2>3. CASE q # p
    BY <2>1, <2>2, <2>3 DEF SameRequests, TypeOK
  <2>4. CASE q = p
    <3>1. wire'[q] = Append(wire[q], Delete)
      BY <2>1, <2>4 DEF TypeOK
    <3>2. (\A x : Holds(wire[q], x)' <=> Holds(wire[q], x) \/ x = Delete) /\ OneAsk(wire[q])'
      BY <1>0, <3>1, AppendWire
    <3>3. \A r \in RequeuesOf(q) : r.st # "sent"
      BY <1>1, <2>4, RequeueTypes, BoundFacts DEF PlayerOk, RequeueLaw
    <3> QED
      BY <2>2, <2>4, <3>2, <3>3 DEF ExitRequests, PlayerOk, RequeueLaw, NoDeleteFor
  <2> QED
    BY <2>3, <2>4
<1>2. CASE pending[p] # 0
  <2> DEFINE bump(r) == IF r.p = p /\ r.m = pending[p] THEN [r EXCEPT !.dels = @ + 1] ELSE r
             T == [p : Players, m : MatchIds, tk : {NoTicket} \union Epochs,
                   st : {"sent", "ok", "err"}, dels : Nat]
  <2>1. requeues' = {bump(r) : r \in requeues} /\ wire' = wire
    BY <1>2 DEF CancelInRust
  <2>2. requeues \subseteq T
    BY DEF TypeOK
  <2>3. \A r \in T : /\ bump(r).p = r.p /\ bump(r).m = r.m /\ bump(r).tk = r.tk
                     /\ bump(r).st = r.st
                     /\ r.p = p /\ r.m = pending[p] => bump(r).dels # 0
                     /\ r.p # p => bump(r) = r
    OBVIOUS
  <2> HIDE DEF bump, T
  <2>4. RequeuesOf(q)' = {bump(r) : r \in RequeuesOf(q)}
    BY <2>1, <2>2, <2>3 DEF RequeuesOf
  <2>5. CASE q # p
    <3>1. \A r \in RequeuesOf(q) : bump(r) = r
      BY <2>2, <2>3, <2>5 DEF RequeuesOf
    <3>2. RequeuesOf(q)' = RequeuesOf(q)
      BY <2>4, <3>1
    <3> QED
      BY <2>1, <2>5, <3>2 DEF SameRequests
  <2>6. CASE q = p
    <3>1. \A r \in RequeuesOf(q) : /\ bump(r).m = r.m /\ bump(r).tk = r.tk /\ bump(r).st = r.st
                                   /\ r.m = pending[q] => bump(r).dels # 0
      BY <2>2, <2>3, <2>6 DEF RequeuesOf
    <3>2. \A r, o \in RequeuesOf(q)' : r.m = o.m => r = o
      BY <2>4, <3>1 DEF PlayerOk, RequeueLaw
    <3>3. \A r \in RequeuesOf(q)' : r.st = "sent" => pending'[q] = r.m /\ r.dels # 0
      BY <2>4, <3>1 DEF PlayerOk, RequeueLaw
    <3>4. \E r \in RequeuesOf(q) : r.m = pending[q]
      BY <1>2, <2>6 DEF Safe, PendingIsInFlight, RequeuesOf
    <3>5. ~NoDeleteFor(q)'
      BY <2>4, <3>1, <3>4 DEF NoDeleteFor
    <3> QED
      BY <1>0, <2>1, <2>4, <2>6, <3>1, <3>2, <3>3, <3>5 DEF ExitRequests
  <2> QED
    BY <2>5, <2>6
<1> QED
  BY <1>1, <1>2

(* removeClientFromMatchmaking, with no find() call of the player left.     *)
LEMMA RemoveKeeps ==
    ASSUME AllOk, TokenStep, SameRsState, NEW p \in Players, RemoveClient(p),
           \A q \in Players \ {p} : SameFind(q),
           Idle(p)', \A k \in Slots : ~Posts(p, k)
    PROVE  \A q \in Players : PlayerOk(q)'
<1>1. TypeOK /\ Safe /\ rsEpoch \in Nat /\ rsEpoch # NoTicket
  BY BoundFacts DEF AllOk, TypeOK, NoTicket, NoToken
<1>2. /\ NoEntry # Searching /\ NoEntry \notin MatchIds /\ Searching \notin MatchIds
      /\ {p} \in SUBSET Players
  BY BoundFacts DEF NoEntry, Searching
<1>3. \A q \in Players : PlayerOk(q) /\ SameRs(q)
  BY DEF AllOk, SameRsState, SameRs, CallsOf
<1>4. rsEpoch' = rsEpoch /\ (Stale' => Stale)
  BY DEF TokenStep
<1>5. CASE entry[p] = NoEntry /\ Unregister({p})
           /\ UNCHANGED <<entry, data, ticket, matches, reqVars, wire>>
  <2> SUFFICES ASSUME NEW q \in Players PROVE PlayerOk(q)'
    OBVIOUS
  <2>1. SameData(q) /\ SameRequests(q) /\ SameGames(q)
    BY <1>5 DEF SameData, SameRequests, SameGames, RequeuesOf, GamesOf, LeftBy, reqVars
  <2>2. IF q = p THEN activity'[q] = NoClient /\ SubsOf(q)' = {}
                 ELSE activity'[q] = activity[q] /\ SubsOf(q)' = SubsOf(q)
    BY <1>1, <1>2, <1>3, <1>5, UnregisterIs
  <2>3. CASE q # p
    <3>1. SamePlayer(q)
      BY <1>3, <1>5, <2>1, <2>2, <2>3 DEF SamePlayer, SameEntry
    <3> QED
      BY <1>3, <2>3, <3>1, StepKeeps
  <2>4. CASE q = p
    <3>1. entry[q] = NoEntry /\ entry'[q] = NoEntry
      BY <1>5, <2>4
    <3>2. q \in rsQueue => ~NoDeleteFor(q)
      BY <1>2, <1>3, <3>1 DEF PlayerOk, QueuedLaw
    <3>3. \A r \in RequeuesOf(q) : r.st = "sent" => r.dels # 0 \/ r.tk # rsEpoch
      BY <1>2, <1>3, <3>1 DEF PlayerOk, RequeueLaw
    <3>4. ExitRequests(q)
      BY <1>3, <2>1, <3>2, <3>3, ExitSame
    <3>5. LeftBy(q) = GamesOf(q)
      BY <1>2, <1>3, <3>1 DEF PlayerOk, GamesLaw, GamesOf
    <3>6. q \in data' => GamesOf(q)' # {}
      BY <1>3, <2>1, <3>1 DEF PlayerOk, DataLaw, SameData, SameGames
    <3>7. GamesOf(q)' \subseteq GamesOf(q) /\ LeftBy(q)' = GamesOf(q)'
          /\ ticket'[q] \in {NoTicket, ticket[q]}
      BY <2>1, <3>5 DEF SameGames, SameData
    <3> QED
      BY <1>1, <1>3, <1>4, <2>2, <2>4, <3>1, <3>4, <3>6, <3>7, ExitKeeps DEF SameRs
  <2> QED
    BY <2>3, <2>4
<1>6. CASE /\ entry[p] = Searching
           /\ entry' = [entry EXCEPT ![p] = NoEntry]
           /\ data' = data \ {p}
           /\ CancelInRust(p) /\ Unregister({p})
           /\ UNCHANGED <<ticket, matches, pending>>
  <2> SUFFICES ASSUME NEW q \in Players PROVE PlayerOk(q)'
    OBVIOUS
  <2>1. SameGames(q) /\ ticket'[q] = ticket[q]
    BY <1>6 DEF SameGames, GamesOf, LeftBy
  <2>2. IF q = p THEN activity'[q] = NoClient /\ SubsOf(q)' = {}
                 ELSE activity'[q] = activity[q] /\ SubsOf(q)' = SubsOf(q)
    BY <1>1, <1>2, <1>3, <1>6, UnregisterIs
  <2>3. IF q = p THEN ExitRequests(q) ELSE SameRequests(q)
    BY <1>1, <1>3, <1>6, CancelIs
  <2>4. CASE q # p
    <3>1. SamePlayer(q)
      BY <1>1, <1>3, <1>6, <2>1, <2>2, <2>3, <2>4
      DEF SamePlayer, SameEntry, SameData, TypeOK
    <3> QED
      BY <1>3, <2>4, <3>1, StepKeeps
  <2>5. CASE q = p
    <3>1. entry[q] = Searching /\ entry'[q] = NoEntry /\ q \notin data'
      BY <1>1, <1>6, <2>5 DEF TypeOK
    <3>2. GamesOf(q) = {} /\ LeftBy(q) = {}
      BY <1>2, <1>3, <3>1 DEF PlayerOk, GamesLaw, GamesOf
    <3>3. GamesOf(q)' \subseteq GamesOf(q) /\ LeftBy(q)' = GamesOf(q)'
      BY <2>1, <3>2 DEF SameGames
    <3> QED
      BY <1>1, <1>3, <1>4, <2>1, <2>2, <2>3, <2>5, <3>1, <3>3, ExitKeeps DEF SameRs
  <2> QED
    BY <2>4, <2>5
<1>7. CASE /\ entry[p] \in MatchIds
           /\ FailMatch(entry[p], matches[entry[p]].group,
                        matches[entry[p]].ban \union {p}, ticket)
  <2> DEFINE m == entry[p]
             ban == matches[m].ban \union {p}
  <2>1. Live(m) /\ p \in matches[m].group
    BY <1>1, <1>7 DEF Safe, EntryNamesLiveMatch
  <2>2. matches[m].ban \in SUBSET Players /\ matches[m].group \in SUBSET Players
    BY <1>1, <1>7 DEF TypeOK
  <2>3. ban \in SUBSET matches[m].group
    <3>1. \A q \in matches[m].ban : m \in LeftBy(q) /\ q \in Players
      BY <1>7, <2>2 DEF LeftBy
    <3>2. \A q \in matches[m].ban : m \in GamesOf(q)
      BY <1>3, <3>1 DEF PlayerOk, GamesLaw
    <3> QED
      BY <2>1, <3>2 DEF GamesOf
  <2>4. \A q \in ban : Idle(q)' /\ \A k \in Slots : ~Posts(q, k)
    <3> SUFFICES ASSUME NEW q \in matches[m].ban, q # p
                 PROVE  Idle(q)' /\ \A k \in Slots : ~Posts(q, k)
      OBVIOUS
    <3>1. q \in Players /\ m \in LeftBy(q) /\ PlayerOk(q) /\ SameFind(q)
      BY <1>3, <1>7, <2>2 DEF LeftBy
    <3>2. activity[q] = NoClient
      BY <3>1 DEF PlayerOk, GamesLaw
    <3>3. Idle(q)
      BY <3>1, <3>2 DEF PlayerOk, RegisteredLaw
    <3> QED
      BY <3>1, <3>3, FindsAgree, FindCases DEF PlayerOk
  <2>5. FailMatch(m, matches[m].group, ban, ticket) /\ m \in MatchIds
    BY <1>7
  <2>6. \A q \in Players \ ban : SameFind(q)
    OBVIOUS
  <2> HIDE DEF ban, m
  <2> QED
    BY <2>1, <2>3, <2>4, <2>5, <2>6, FailKeeps
<1>8. CASE /\ entry[p] \in MatchIds
           /\ entry' = [entry EXCEPT ![p] = NoEntry]
           /\ matches' = IF Live(entry[p])
                           THEN [matches EXCEPT ![entry[p]].ban = @ \union {p}] ELSE matches
           /\ Unregister({p})
           /\ UNCHANGED <<data, ticket, reqVars, wire>>
  <2> SUFFICES ASSUME NEW q \in Players PROVE PlayerOk(q)'
    OBVIOUS
  <2> DEFINE m == entry[p]
  <2>1. Live(m) /\ p \in matches[m].group /\ m \in MatchIds
    BY <1>1, <1>8 DEF Safe, EntryNamesLiveMatch
  <2>2. \A n \in MatchIds : /\ matches'[n].group = matches[n].group
                            /\ matches'[n].ban = IF n = m THEN matches[n].ban \union {p}
                                                          ELSE matches[n].ban
    <3>1. PICK o : o = [matches[m] EXCEPT !.ban = @ \union {p}]
      OBVIOUS
    <3>2. matches[m] \in [phase : Phases, group : SUBSET Players,
                          accepted : SUBSET Players, ban : SUBSET Players]
      BY <1>1, <2>1 DEF TypeOK
    <3>3. o.group = matches[m].group /\ o.ban = matches[m].ban \union {p}
      BY <3>1, <3>2
    <3>4. matches' = [matches EXCEPT ![m] = o]
      BY <1>8, <2>1, <3>1
    <3> QED
      BY <1>1, <2>1, <3>3, <3>4 DEF TypeOK
  <2>3. /\ GamesOf(q)' = GamesOf(q)
        /\ LeftBy(q)' = IF q = p THEN LeftBy(q) \union {m} ELSE LeftBy(q)
    BY <2>1, <2>2 DEF GamesOf, LeftBy
  <2>4. SameData(q) /\ SameRequests(q)
    BY <1>8 DEF SameData, SameRequests, RequeuesOf, reqVars
  <2>5. IF q = p THEN activity'[q] = NoClient /\ SubsOf(q)' = {}
                 ELSE activity'[q] = activity[q] /\ SubsOf(q)' = SubsOf(q)
    BY <1>1, <1>2, <1>3, <1>8, UnregisterIs
  <2>6. CASE q # p
    <3>1. SamePlayer(q)
      BY <1>1, <1>3, <1>8, <2>3, <2>4, <2>5, <2>6
      DEF SamePlayer, SameEntry, SameGames, TypeOK
    <3> QED
      BY <1>3, <2>6, <3>1, StepKeeps
  <2>7. CASE q = p
    <3>1. entry'[q] = NoEntry /\ m \in GamesOf(q)
      BY <1>1, <1>8, <2>1, <2>7 DEF TypeOK, GamesOf
    <3>2. GamesOf(q) = {m}
      BY <1>3, <3>1 DEF PlayerOk, PlaceLaw
    <3>3. GamesOf(q)' \subseteq GamesOf(q) /\ LeftBy(q)' = GamesOf(q)' /\ GamesOf(q)' # {}
      BY <1>3, <2>3, <2>7, <3>2 DEF PlayerOk, GamesLaw
    <3>4. ExitRequests(q)
      BY <1>1, <1>3, <2>4, <3>1, BusyPlace, ExitSame
    <3>5. ticket'[q] \in {NoTicket, ticket[q]}
      BY <2>4 DEF SameData
    <3> QED
      BY <1>1, <1>3, <1>4, <2>5, <2>7, <3>1, <3>3, <3>4, <3>5, ExitKeeps DEF SameRs
  <2> QED
    BY <2>6, <2>7
<1> QED
  BY <1>5, <1>6, <1>7, <1>8 DEF RemoveClient

LEMMA NoDeletesWire ==
    ASSUME NEW w \in Seq(Requests)
    PROVE  w \o [i \in 1..0 |-> Delete] = w
<1> DEFINE d == [i \in 1..0 |-> Delete]
<1>1. d = <<>>
  OBVIOUS
<1> QED
  BY <1>1

(* What EjectAnd(P, n) does to q.                                           *)
EjectEffect(P, n, q) ==
    /\ q \in P => /\ entry'[q] = NoEntry /\ activity'[q] = NoClient /\ SubsOf(q)' = {}
                  /\ q \notin data' /\ ticket'[q] = NoTicket
                  /\ \A x : Holds(wire[q], x)' <=> Holds(wire[q], x) \/ x = Delete
    /\ q \notin P => /\ SameEntry(q) /\ SameData(q)
                     /\ \A x : Holds(wire[q], x)' <=>
                                 Holds(wire[q], x) \/ (n[q] # 0 /\ x = Delete)
                     /\ n[q] = 0 => wire'[q] = wire[q]
    /\ OneAsk(wire[q])'

LEMMA EjectIs ==
    ASSUME TypeOK, NEW P \in SUBSET Players, NEW n \in [Players -> Nat], EjectAnd(P, n),
           NEW q \in Players, PlayerOk(q)
    PROVE  EjectEffect(P, n, q)
<1>1. /\ entry'[q] = IF q \in P THEN NoEntry ELSE entry[q]
      /\ ticket'[q] = IF q \in P THEN NoTicket ELSE ticket[q]
      /\ data' = data \ P
      /\ wire'[q] = wire[q] \o [i \in 1..(n[q] + IF q \in P THEN 1 ELSE 0) |-> Delete]
  BY DEF EjectAnd, EntryWithout
<1>2. IF q \in P THEN activity'[q] = NoClient /\ SubsOf(q)' = {}
                 ELSE activity'[q] = activity[q] /\ SubsOf(q)' = SubsOf(q)
  BY UnregisterIs DEF EjectAnd
<1>3. wire[q] \in Seq(Requests) /\ OneAsk(wire[q]) /\ n[q] \in Nat
  BY RequeueTypes DEF PlayerOk, PlaceLaw
<1>4. CASE q \in P
  <2>1. n[q] + 1 \in Nat /\ n[q] + 1 # 0
    BY <1>3
  <2>2. wire'[q] = wire[q] \o [i \in 1..(n[q] + 1) |-> Delete]
    BY <1>1, <1>4
  <2>3. /\ \A x : Holds(wire[q], x)' <=> Holds(wire[q], x) \/ x = Delete
        /\ OneAsk(wire[q])'
    BY <1>3, <2>1, <2>2, ConcatWire
  <2> QED
    BY <1>1, <1>2, <1>4, <2>3 DEF EjectEffect
<1>5. CASE q \notin P
  <2>1. wire'[q] = wire[q] \o [i \in 1..n[q] |-> Delete]
    BY <1>1, <1>3, <1>5
  <2>2. /\ \A x : Holds(wire[q], x)' <=> Holds(wire[q], x) \/ (n[q] # 0 /\ x = Delete)
        /\ OneAsk(wire[q])'
    BY <1>3, <2>1, ConcatWire
  <2>3. n[q] = 0 => wire'[q] = wire[q]
    BY <1>3, <2>1, NoDeletesWire
  <2> QED
    BY <1>1, <1>2, <1>5, <2>2, <2>3 DEF EjectEffect, SameEntry, SameData
<1> QED
  BY <1>4, <1>5

(* checkProcessToken with an answer: nobody is ejected, or everybody who       *)
(* searches, and server-rs has none of them.                                *)
LEMMA PollKeeps ==
    ASSUME AllOk, TokensLaw, PollDone
    PROVE  /\ \A q \in Players : PlayerOk(q)'
           /\ \A q \in Players : entry[q] = Searching /\ entry'[q] = NoEntry => q \notin rsQueue
<1>1. TypeOK /\ \A q \in Players : PlayerOk(q)
  BY DEF AllOk
<1>2. poll \in Epochs /\ token' = poll /\ token # NoToken /\ token <= poll /\ poll <= rsEpoch
      /\ EjectAnd(IF TokenChanged THEN SearchingPlayers ELSE {}, NoDeletes)
  <2>1. poll \in Epochs /\ poll # PollIdle
    BY BoundFacts DEF PollDone, TokensLaw, PollIdle
  <2> QED
    BY <2>1 DEF PollDone, TokensLaw
<1>3. /\ token \in Nat /\ poll \in Nat /\ rsEpoch \in Nat /\ rsEpoch # NoTicket
  BY <1>1, <1>2, BoundFacts DEF TypeOK, NoTicket, NoToken
<1>4. UNCHANGED <<watchdog, rsQueue, rsEpoch, events, matches, find, requeues, pending>>
  BY DEF PollDone, pollUnchanged, rsVars, reqVars
<1>5. \A q \in Players : /\ SameFind(q) /\ SameRs(q) /\ SameGames(q)
                         /\ RequeuesOf(q)' = RequeuesOf(q) /\ pending'[q] = pending[q]
  BY <1>4 DEF SameFind, SameRs, SameGames, CallsOf, GamesOf, LeftBy, RequeuesOf
<1>6. NoDeletes \in [Players -> Nat] /\ \A q \in Players : NoDeletes[q] = 0
  BY DEF NoDeletes
<1>7. NoEntry # Searching /\ Searching \notin MatchIds
  BY BoundFacts DEF NoEntry, Searching
<1>8. CASE poll = token
  <2>1. EjectAnd({}, NoDeletes) /\ {} \in SUBSET Players
    BY <1>2, <1>8 DEF TokenChanged
  <2>2. \A q \in Players : EjectEffect({}, NoDeletes, q)
    BY <1>1, <1>6, <2>1, EjectIs
  <2>3. \A q \in Players : SamePlayer(q)
    BY <1>5, <1>6, <2>2 DEF EjectEffect, SamePlayer, SameRequests
  <2>4. SameTokens
    BY <1>2, <1>4, <1>8 DEF SameTokens
  <2>5. \A q \in Players : entry'[q] = entry[q]
    BY <2>3 DEF SamePlayer, SameEntry
  <2> QED
    BY <1>1, <1>5, <1>7, <2>3, <2>4, <2>5, SameKeeps
<1>9. CASE poll # token
  <2>1. Stale
    BY <1>2, <1>3, <1>9 DEF Stale
  <2>2. EjectAnd(SearchingPlayers, NoDeletes) /\ SearchingPlayers \in SUBSET Players
    BY <1>2, <1>9 DEF TokenChanged, SearchingPlayers
  <2>3. \A q \in Players : EjectEffect(SearchingPlayers, NoDeletes, q)
    BY <1>1, <1>6, <2>2, EjectIs
  <2>4. \A q \in Players : q \notin rsQueue
    BY <1>1, <2>1 DEF PlayerOk, EpochLaw
  <2> SUFFICES ASSUME NEW q \in Players PROVE PlayerOk(q)'
    BY <2>4
  <2>5. CASE entry[q] # Searching
    <3>1. SamePlayer(q)
      BY <1>5, <1>6, <2>3, <2>5 DEF EjectEffect, SearchingPlayers, SamePlayer, SameRequests
    <3>2. WatchLaw(q)'
      BY <1>1, <1>4, <1>5, <3>1, FindsAgree DEF PlayerOk, WatchLaw, SamePlayer, SameEntry
    <3>3. SearchLaw(q)'
      BY <2>5, <3>1 DEF SearchLaw, SamePlayer, SameEntry
    <3> QED
      BY <1>1, <1>4, <1>5, <2>1, <3>1, <3>2, <3>3, TokenKeeps
  <2>6. CASE entry[q] = Searching
    <3>1. q \in SearchingPlayers
      BY <2>6 DEF SearchingPlayers
    <3>2. ~InPrep(q) /\ ~Past(q)
      BY <1>1, <1>7, <2>1, <2>6 DEF PlayerOk, PrepLaw, PastLaw
    <3>3. Idle(q)' /\ \A k \in Slots : ~Posts(q, k)
      BY <1>1, <1>5, <3>2, FindCases, FindsAgree DEF PlayerOk
    <3>4. GamesOf(q) = {} /\ LeftBy(q) = {}
      BY <1>1, <1>7, <2>6 DEF PlayerOk, GamesLaw, GamesOf
    <3>5. ExitRequests(q)
      <4>1. \A r \in RequeuesOf(q) : r.tk # rsEpoch
        BY <1>1, <2>1 DEF PlayerOk, EpochLaw
      <4>2. /\ OneAsk(wire[q])'
            /\ \A x : Holds(wire[q], x)' <=> Holds(wire[q], x) \/ x = Delete
        BY <2>3, <3>1 DEF EjectEffect
      <4> QED
        BY <1>1, <1>4, <1>5, <2>4, <4>1, <4>2 DEF ExitRequests, PlayerOk, RequeueLaw
    <3>6. /\ entry'[q] = NoEntry /\ activity'[q] = NoClient /\ SubsOf(q)' = {}
          /\ q \notin data' /\ ticket'[q] = NoTicket
      BY <2>3, <3>1 DEF EjectEffect
    <3> QED
      BY <1>1, <1>3, <1>4, <1>5, <2>1, <3>3, <3>4, <3>5, <3>6, ExitKeeps DEF SameRs, SameGames
  <2> QED
    BY <2>5, <2>6
<1> QED
  BY <1>8, <1>9

-----------------------------------------------------------------------------
(* The actions.                                                             *)

(* The answer to a requeue, or its failure, reaches Node.                   *)
LEMMA RequeueDoneKeeps ==
    ASSUME AllOk, NEW r \in requeues, RequeueDone(r)
    PROVE  \A q \in Players : PlayerOk(q)'
<1> SUFFICES ASSUME NEW q \in Players PROVE PlayerOk(q)'
  OBVIOUS
<1>1. TypeOK /\ PlayerOk(q) /\ rsEpoch \in Nat /\ rsEpoch # NoTicket
  BY BoundFacts DEF AllOk, TypeOK, NoTicket, NoToken
<1>2. r.p \in Players /\ r.m \in MatchIds /\ r.dels \in Nat
  BY <1>1 DEF TypeOK
<1>3. UNCHANGED <<matches, find, token, watchdog, rsQueue, rsEpoch, events>>
  BY DEF RequeueDone, tokenVars, rsVars
<1>4. SameFind(q) /\ SameTokens /\ SameRs(q) /\ SameGames(q)
  BY <1>3 DEF SameFind, SameTokens, SameRs, SameGames, CallsOf, GamesOf, LeftBy
<1>5. requeues' = requeues \ {r}
  BY DEF RequeueDone
<1>6. pending'[q] = IF q = r.p /\ pending[q] = r.m THEN 0 ELSE pending[q]
  BY <1>1, <1>2 DEF RequeueDone, PendingWithout, TypeOK
<1> DEFINE P == IF r.st = "err" THEN {r.p} ELSE {}
           n == [NoDeletes EXCEPT ![r.p] = r.dels]
<1>7. P \in SUBSET Players /\ n \in [Players -> Nat]
      /\ n[q] = IF q = r.p THEN r.dels ELSE 0
  BY <1>2 DEF NoDeletes
<1>8. EjectAnd(P, n)
  BY DEF RequeueDone
<1>9. q \in P <=> q = r.p /\ r.st = "err"
  OBVIOUS
<1> HIDE DEF P, n
<1>10. EjectEffect(P, n, q)
  BY <1>1, <1>7, <1>8, EjectIs
<1>11. CASE q # r.p
  <2>1. RequeuesOf(q)' = RequeuesOf(q)
    BY <1>5, <1>11 DEF RequeuesOf
  <2>2. SamePlayer(q)
    BY <1>4, <1>6, <1>7, <1>9, <1>10, <1>11, <2>1 DEF EjectEffect, SamePlayer, SameRequests
  <2> QED
    BY <1>1, <1>4, <2>2, SameKeeps
<1>12. q = r.p => r \in RequeuesOf(q) /\ RequeuesOf(q)' = RequeuesOf(q) \ {r}
  BY <1>5 DEF RequeuesOf
<1>13. CASE q = r.p /\ r.st # "err"
  <2>1. r.st = "ok"
    BY <1>13 DEF RequeueDone
  <2>2. /\ SameEntry(q) /\ SameData(q) /\ OneAsk(wire[q])'
        /\ \A x : Holds(wire[q], x)' <=> Holds(wire[q], x) \/ (r.dels # 0 /\ x = Delete)
    BY <1>7, <1>9, <1>10, <1>13 DEF EjectEffect
  <2>3. pending'[q] = IF pending[q] = r.m THEN 0 ELSE pending[q]
    BY <1>6, <1>13
  <2> QED
    BY <1>1, <1>4, <1>12, <1>13, <2>1, <2>2, <2>3, AnswerKeeps
<1>14. CASE q = r.p /\ r.st = "err"
  <2>1. q \notin rsQueue /\ CallsOf(q) = {} /\ GamesOf(q) = {} /\ NoAsk(wire[q])
    BY <1>1, <1>12, <1>14 DEF PlayerOk, RequeueLaw
  <2>2. ~InPrep(q) /\ ~Past(q)
    BY <1>1, <1>12, <1>14 DEF PlayerOk, PrepLaw, PastLaw
  <2>3. Idle(q)' /\ \A k \in Slots : ~Posts(q, k)
    BY <1>1, <1>4, <2>2, FindCases, FindsAgree DEF PlayerOk
  <2>4. /\ entry'[q] = NoEntry /\ activity'[q] = NoClient /\ SubsOf(q)' = {}
        /\ q \notin data' /\ ticket'[q] = NoTicket
        /\ \A x : Holds(wire[q], x)' <=> Holds(wire[q], x) \/ x = Delete
        /\ OneAsk(wire[q])'
    BY <1>9, <1>10, <1>14 DEF EjectEffect
  <2>5. \A x \in RequeuesOf(q) : x.st # "sent"
    BY <1>1, <2>1, RequeueTypes, AskKinds DEF PlayerOk, WireLaw, NoAsk
  <2>6. ExitRequests(q)
    BY <1>1, <1>12, <1>14, <2>1, <2>4, <2>5 DEF ExitRequests, PlayerOk, RequeueLaw
  <2>7. GamesOf(q)' = {} /\ LeftBy(q)' = {} /\ LeftBy(q) = {}
    BY <1>1, <1>4, <2>1 DEF PlayerOk, GamesLaw, SameGames
  <2>8. Stale' <=> Stale
    BY <1>4 DEF SameTokens, Stale
  <2> QED
    BY <1>1, <1>3, <1>4, <2>1, <2>3, <2>4, <2>6, <2>7, <2>8, ExitKeeps DEF SameRs, SameTokens
<1> QED
  BY <1>11, <1>13, <1>14

(* What handleMatchFound needs to know of a called player.                  *)
LEMMA CalledIs ==
    ASSUME AllOk, NEW ev \in events, NEW q \in ev.group
    PROVE  /\ q \in Players /\ ev \in CallsOf(q) /\ CallsOf(q) = {ev}
           /\ GamesOf(q) = {} /\ LeftBy(q) = {}
           /\ IF q \in data THEN entry[q] = Searching /\ activity[q] # NoClient
                            ELSE entry[q] = NoEntry
<1>1. TypeOK /\ EntryNamesLiveMatch /\ EntryHasData
  BY DEF AllOk, Safe
<1>2. q \in Players /\ PlayerOk(q) /\ ev \in CallsOf(q)
  BY <1>1 DEF AllOk, TypeOK, CallsOf
<1>3. CallsOf(q) = {ev} /\ GamesOf(q) = {} /\ LeftBy(q) = {}
  BY <1>2 DEF PlayerOk, PlaceLaw, GamesLaw
<1>4. q \in data <=> entry[q] # NoEntry
  BY <1>1, <1>2, <1>3 DEF PlayerOk, DataLaw, EntryHasData
<1>5. entry[q] # NoEntry => entry[q] = Searching /\ activity[q] # NoClient
  BY <1>1, <1>2, <1>3, SearcherPlace DEF PlayerOk, RegisteredLaw
<1> QED
  BY <1>2, <1>3, <1>4, <1>5

(* The event of a match, by the players it is about.                        *)
LEMMA FreshMatch ==
    ASSUME AllOk, NEW ev \in events
    PROVE  /\ ev.id \in MatchIds /\ ev.tk \in Epochs /\ matches[ev.id] = NoMatch
           /\ ev.group \in SUBSET Players
           /\ \A r \in requeues : r.m # ev.id
<1>1. ev.id \in MatchIds /\ ev.tk \in Epochs /\ ev.group \in SUBSET Players
  BY DEF AllOk, TypeOK
<1> QED
  BY <1>1 DEF AllOk, EventsFresh, MatchesLaw

(* A formed match reaches Node: it starts, or players come back or are out.  *)
LEMMA MatchFoundKeeps ==
    ASSUME AllOk, NEW ev \in events, MatchFound(ev)
    PROVE  \A q \in Players : PlayerOk(q)'
<1>1. TypeOK /\ rsEpoch \in Nat /\ rsEpoch # NoTicket
  BY BoundFacts DEF AllOk, TypeOK, NoTicket, NoToken
<1>2. UNCHANGED <<find, token, watchdog, rsQueue, rsEpoch>> /\ events' = events \ {ev}
  BY DEF MatchFound, tokenVars
<1>3. SameTokens /\ (Stale' <=> Stale)
  BY <1>2 DEF SameTokens, Stale
<1>4. /\ ev.id \in MatchIds /\ ev.tk \in Epochs /\ matches[ev.id] = NoMatch
      /\ ev.group \in SUBSET Players /\ \A r \in requeues : r.m # ev.id
  BY FreshMatch
<1> SUFFICES ASSUME NEW q \in Players PROVE PlayerOk(q)'
  OBVIOUS
<1>5. PlayerOk(q) /\ SameFind(q) /\ (q \in rsQueue' <=> q \in rsQueue)
  BY <1>2 DEF AllOk, SameFind
<1>6. CallsOf(q)' = CallsOf(q) \ {ev}
  BY <1>2 DEF CallsOf
<1>7. q \notin ev.group => ev \notin CallsOf(q) /\ SameRs(q)
  BY <1>5, <1>6 DEF CallsOf, SameRs
<1>8. q \in ev.group => CallsOf(q)' = {}
  BY <1>6, CalledIs
<1>9. CASE ev.group \subseteq data /\ StartMatch(ev)
  <2>1. \A p \in ev.group : activity[p] # NoClient /\ entry[p] = Searching
    BY <1>9, CalledIs
  <2>2. /\ ticket' = TicketsWith(ev)
        /\ entry' = [p \in Players |-> IF p \in ev.group /\ entry[p] # NoEntry
                                         THEN ev.id ELSE entry[p]]
        /\ matches' = [matches EXCEPT ![ev.id] =
                         [NoMatch EXCEPT !.phase = "accepting", !.group = ev.group]]
        /\ UNCHANGED <<subbed, data, activity, reqVars, wire>>
    BY <1>9, <2>1 DEF StartMatch
  <2>3. /\ \A n \in MatchIds \ {ev.id} : matches'[n] = matches[n]
        /\ matches'[ev.id].group = ev.group /\ matches'[ev.id].ban = {}
    BY <1>1, <1>4, <2>2 DEF TypeOK, NoMatch
  <2>4. matches[ev.id].group = {} /\ matches[ev.id].ban = {}
    BY <1>4 DEF NoMatch
  <2>5. /\ GamesOf(q)' = IF q \in ev.group THEN GamesOf(q) \union {ev.id} ELSE GamesOf(q)
        /\ LeftBy(q)' = LeftBy(q)
    BY <1>4, <2>3, <2>4 DEF GamesOf, LeftBy
  <2>6. SameRequests(q) /\ activity'[q] = activity[q] /\ SubsOf(q)' = SubsOf(q)
        /\ (q \in data' <=> q \in data)
    BY <2>2 DEF SameRequests, RequeuesOf, SubsOf, reqVars
  <2>7. /\ entry'[q] = IF q \in ev.group THEN ev.id ELSE entry[q]
        /\ ticket'[q] = IF q \in ev.group THEN ev.tk ELSE ticket[q]
    <3>1. Searching # NoEntry
      BY DEF Searching, NoEntry
    <3> QED
      BY <2>1, <2>2, <3>1 DEF TicketsWith
  <2>8. CASE q \in ev.group
    <3>1. ev \in CallsOf(q) /\ GamesOf(q) = {} /\ LeftBy(q) = {} /\ entry[q] = Searching
      BY <2>1, <2>8, CalledIs
    <3>2. GamesOf(q)' = {ev.id} /\ LeftBy(q)' = {}
      BY <2>5, <2>8, <3>1
    <3> QED
      BY <1>1, <1>3, <1>4, <1>5, <1>8, <2>6, <2>7, <2>8, <3>1, <3>2, MatchedKeeps
  <2>9. CASE q \notin ev.group
    <3>1. SamePlayer(q)
      BY <1>7, <2>5, <2>6, <2>7, <2>9 DEF SamePlayer, SameEntry, SameData, SameGames
    <3> QED
      BY <1>3, <1>5, <3>1, SameKeeps
  <2> QED
    BY <2>8, <2>9
<1>10. CASE DropMatch(ev)
  <2> DEFINE keep == {p \in ev.group : p \in data /\ entry[p] # NoEntry}
             gone == ev.group \ keep
             new(p) == [p |-> p, m |-> ev.id, tk |-> ev.tk, st |-> "sent", dels |-> 0]
  <2>1. /\ entry'[q] = IF q \in gone THEN NoEntry ELSE entry[q]
        /\ ticket'[q] = IF q \in gone THEN NoTicket ELSE ticket[q]
        /\ pending'[q] = IF q \in keep THEN ev.id ELSE pending[q]
        /\ wire'[q] = IF q \in keep THEN Append(wire[q], Requeue(ev.id)) ELSE wire[q]
        /\ data' = data \ gone /\ Unregister(gone) /\ UNCHANGED matches
        /\ requeues' = requeues \union {new(p) : p \in keep}
    BY <1>10 DEF DropMatch, EntryWithout
  <2>2. gone \in SUBSET Players /\ (q \in keep => q \in ev.group)
        /\ (q \in gone <=> q \in ev.group /\ q \notin keep)
    BY <1>4
  <2>3. q \in ev.group => (q \in keep <=> q \in data)
    <3>1. Searching # NoEntry
      BY DEF Searching, NoEntry
    <3> QED
      BY <3>1, CalledIs
  <2>4. \A p : new(p).p = p
    OBVIOUS
  <2>5. new(q) = NewRequeue(q, ev.id, ev.tk)
    BY DEF NewRequeue
  <2> HIDE DEF keep, gone, new
  <2>6. RequeuesOf(q)' = IF q \in keep THEN RequeuesOf(q) \union {NewRequeue(q, ev.id, ev.tk)}
                                       ELSE RequeuesOf(q)
    <3>1. RequeuesOf(q)' = RequeuesOf(q) \union {r \in {new(p) : p \in keep} : r.p = q}
      BY <2>1 DEF RequeuesOf
    <3>2. {r \in {new(p) : p \in keep} : r.p = q} = IF q \in keep THEN {new(q)} ELSE {}
      BY <2>4
    <3> QED
      BY <2>5, <3>1, <3>2
  <2>7. SameGames(q) /\ GamesOf(q)' = GamesOf(q) /\ LeftBy(q)' = LeftBy(q)
    BY <2>1 DEF SameGames, GamesOf, LeftBy
  <2>8. IF q \in gone THEN activity'[q] = NoClient /\ SubsOf(q)' = {}
                      ELSE activity'[q] = activity[q] /\ SubsOf(q)' = SubsOf(q)
    BY <1>1, <1>5, <2>1, <2>2, UnregisterIs
  <2>9. CASE q \notin ev.group
    <3>1. SamePlayer(q)
      BY <1>7, <2>1, <2>2, <2>6, <2>7, <2>8, <2>9
      DEF SamePlayer, SameEntry, SameData, SameRequests
    <3> QED
      BY <1>3, <1>5, <3>1, SameKeeps
  <2>10. CASE q \in keep
    <3>1. /\ ev \in CallsOf(q) /\ GamesOf(q) = {} /\ LeftBy(q) = {}
          /\ entry[q] = Searching /\ q \notin gone /\ q \in ev.group
      BY <2>2, <2>3, <2>10, CalledIs
    <3>2. /\ entry'[q] = Searching /\ activity'[q] = activity[q] /\ SubsOf(q)' = SubsOf(q)
          /\ (q \in data' <=> q \in data) /\ ticket'[q] = ticket[q] /\ pending'[q] = ev.id
          /\ wire'[q] = Append(wire[q], Requeue(ev.id))
          /\ RequeuesOf(q)' = RequeuesOf(q) \union {NewRequeue(q, ev.id, ev.tk)}
      BY <2>1, <2>6, <2>8, <2>10, <3>1
    <3>3. entry[q] # NoEntry /\ (watchdog' \/ ~Idle(q))
      BY <1>2, <1>5, <3>1 DEF Searching, NoEntry, PlayerOk, WatchLaw
    <3>4. ev.tk <= rsEpoch /\ (Stale => ev.tk # rsEpoch) /\ (Past(q) => ev.tk = rsEpoch)
      BY <1>5, <3>1 DEF PlayerOk, EpochLaw, PastLaw
    <3>5. \A r \in RequeuesOf(q) : r.m # ev.id
      BY <1>4 DEF RequeuesOf
    <3>6. CallsOf(q) # {} /\ GamesOf(q)' = {} /\ LeftBy(q)' = {}
      BY <2>7, <3>1
    <3> QED
      BY <1>1, <1>2, <1>3, <1>4, <1>5, <1>8, <3>1, <3>2, <3>3, <3>4, <3>5, <3>6, ReturnKeeps
  <2>11. CASE q \in ev.group /\ q \notin keep
    <3>1. /\ ev \in CallsOf(q) /\ GamesOf(q) = {} /\ LeftBy(q) = {}
          /\ entry[q] = NoEntry /\ q \in gone
      BY <2>2, <2>3, <2>11, CalledIs
    <3>2. /\ entry'[q] = NoEntry /\ activity'[q] = NoClient /\ SubsOf(q)' = {}
          /\ q \notin data' /\ ticket'[q] = NoTicket /\ SameRequests(q)
      BY <2>1, <2>6, <2>8, <2>11, <3>1 DEF SameRequests
    <3>3. ExitRequests(q)
      BY <1>1, <1>5, <3>1, <3>2, BusyPlace, ExitSame
    <3>4. ~InPrep(q) /\ ~Past(q)
      BY <1>5, <3>1 DEF PlayerOk, PrepLaw, PastLaw
    <3>5. Idle(q)' /\ \A k \in Slots : ~Posts(q, k)
      BY <1>5, <3>4, FindCases, FindsAgree DEF PlayerOk
    <3>6. CallsOf(q)' \subseteq CallsOf(q) /\ GamesOf(q)' \subseteq GamesOf(q)
          /\ LeftBy(q)' = GamesOf(q)'
      BY <1>6, <2>7, <3>1
    <3> QED
      BY <1>1, <1>2, <1>3, <1>5, <3>2, <3>3, <3>5, <3>6, ExitKeeps
  <2> QED
    BY <2>9, <2>10, <2>11
<1> QED
  BY <1>9, <1>10 DEF MatchFound

(* server-rs handles a request.                                             *)
LEMMA ReceiveKeeps ==
    ASSUME AllOk, MaxLosses = 0, NEW p \in Players, NEW i \in 1..Len(wire[p]),
           NEW fate \in Fates, RsReceive(p, i, fate)
    PROVE  \A q \in Players : PlayerOk(q)'
<1>1. TypeOK /\ EntryNamesLiveMatch /\ PlayerOk(p)
  BY DEF AllOk, Safe
<1>2. fate = "answered"
  BY <1>1 DEF RsReceive, TypeOK
<1>3. PICK r : r = wire[p][i]
  OBVIOUS
<1>4. r \in Requests /\ Holds(wire[p], r)
  BY <1>1, <1>3 DEF TypeOK, Holds
<1>5. /\ wire' = [wire EXCEPT ![p] = Without(@, i)]
      /\ rsQueue' = IF ~Accepts(p, r) THEN rsQueue
                    ELSE IF r.kind = "delete" THEN rsQueue \ {p} ELSE rsQueue \union {p}
      /\ find' = IF r.kind # "post" THEN find
                 ELSE [find EXCEPT ![p][r.id].pc =
                         IF Accepts(p, r) THEN "queued"
                         ELSE IF @ = "post" THEN "duplicate" ELSE "failed"]
      /\ requeues' = IF r.kind # "requeue" THEN requeues
                     ELSE {IF q.p = p /\ q.m = r.id
                             THEN [q EXCEPT !.st = IF Accepts(p, r) THEN "ok" ELSE "err"]
                             ELSE q : q \in requeues}
  BY <1>2, <1>3 DEF RsReceive
<1>6. UNCHANGED <<subbed, entry, data, ticket, activity, matches, pending, token, watchdog,
                  rsEpoch, events>>
  BY DEF RsReceive, clientVars, queueVars, tokenVars
<1>7. SameTokens /\ \A q \in Players : /\ SameEntry(q) /\ SameData(q) /\ SameGames(q)
                                       /\ CallsOf(q)' = CallsOf(q) /\ pending'[q] = pending[q]
  BY <1>6 DEF SameTokens, SameEntry, SameData, SameGames, SubsOf, GamesOf, LeftBy, CallsOf
<1>8. wire'[p] = Without(wire[p], i) /\ \A q \in Players \ {p} : wire'[q] = wire[q]
  BY <1>1, <1>5 DEF TypeOK
<1> DEFINE done(q) == IF q.p = p /\ q.m = r.id
                        THEN [q EXCEPT !.st = IF Accepts(p, r) THEN "ok" ELSE "err"] ELSE q
           T == [p : Players, m : MatchIds, tk : {NoTicket} \union Epochs,
                 st : {"sent", "ok", "err"}, dels : Nat]
<1>9. requeues' = requeues \/ requeues' = {done(q) : q \in requeues}
  BY <1>5
<1>10. requeues \subseteq T /\ \A q \in T : done(q).p = q.p /\ (q.p # p => done(q) = q)
  BY <1>1 DEF TypeOK
<1>11. r.kind = "requeue" => requeues' = {done(q) : q \in requeues}
  BY <1>5
<1> HIDE DEF done, T
<1>12. \A q \in Players \ {p} : RequeuesOf(q)' = RequeuesOf(q)
  BY <1>9, <1>10 DEF RequeuesOf
<1>13. \A q \in Players \ {p} : find'[q] = find[q] /\ (q \in rsQueue' <=> q \in rsQueue)
  BY <1>1, <1>5 DEF TypeOK
<1>14. \A q \in Players \ {p} : PlayerOk(q)'
  <2> SUFFICES ASSUME NEW q \in Players \ {p} PROVE PlayerOk(q)'
    OBVIOUS
  <2>1. SamePlayer(q) /\ SameFind(q)
    BY <1>7, <1>8, <1>12, <1>13 DEF SamePlayer, SameRequests, SameRs, SameFind
  <2> QED
    BY <1>7, <2>1, SameKeeps DEF AllOk
<1>15. r # Delete => p \notin rsQueue
  BY <1>1, <1>4 DEF PlayerOk, PlaceLaw, NoAsk
<1>16. CASE r = Delete
  <2>1. r.kind = "delete" /\ Accepts(p, r)
    BY <1>16 DEF Delete, Accepts
  <2>2. p \notin rsQueue' /\ SameFind(p) /\ RequeuesOf(p)' = RequeuesOf(p)
    BY <1>5, <2>1 DEF SameFind, RequeuesOf
  <2>3. DeleteHandled(p, i)
    BY <1>3, <1>7, <1>8, <1>16, <2>2 DEF DeleteHandled
  <2> QED
    BY <1>1, <1>7, <1>14, <2>2, <2>3, DeleteKeeps
<1>17. CASE \E k \in Slots : r = Post(k)
  <2>1. PICK k \in Slots : r = Post(k)
    BY <1>17
  <2>2. r.kind = "post" /\ r.id = k
    BY <2>1 DEF Post
  <2>3. Accepts(p, r)
    BY <1>15, <2>1, <2>2, AskKinds DEF Accepts
  <2>4. p \in rsQueue' /\ RequeuesOf(p)' = RequeuesOf(p)
        /\ find' = [find EXCEPT ![p][k].pc = "queued"]
    BY <1>5, <2>2, <2>3 DEF RequeuesOf
  <2>5. find'[p] = [find[p] EXCEPT ![k].pc = "queued"]
    BY <1>1, <2>4 DEF TypeOK
  <2>6. PostHandled(p, i, k)
    BY <1>3, <1>7, <1>8, <2>1, <2>4, <2>5 DEF PostHandled
  <2> QED
    BY <1>1, <1>7, <1>14, <2>6, PostKeeps
<1>18. CASE \E m \in MatchIds : r = Requeue(m)
  <2>1. PICK m \in MatchIds : r = Requeue(m)
    BY <1>18
  <2>2. r.kind = "requeue" /\ r.id = m
    BY <2>1 DEF Requeue
  <2>3. PICK x \in RequeuesOf(p) : x.m = m /\ x.st = "sent"
    BY <1>1, <1>4, <2>1 DEF PlayerOk, WireLaw
  <2>4. \A q \in RequeuesOf(p) : q.m = m => q = x
    BY <1>1, <2>3 DEF PlayerOk, RequeueLaw
  <2>5. x \in requeues /\ x.p = p
    BY <2>3 DEF RequeuesOf
  <2>6. Accepts(p, r) <=> x.tk = rsEpoch
    BY <1>15, <2>1, <2>2, <2>3, <2>4, <2>5, AskKinds DEF Accepts, RequeuesOf
  <2>7. SameFind(p) /\ (p \in rsQueue' <=> x.tk = rsEpoch)
    BY <1>5, <1>15, <2>1, <2>2, <2>6, AskKinds DEF SameFind
  <2>8. done(x) = [x EXCEPT !.st = IF x.tk = rsEpoch THEN "ok" ELSE "err"]
    BY <2>2, <2>3, <2>5, <2>6 DEF done
  <2>9. \A q \in requeues : q.p = p /\ q # x => done(q) = q
    BY <2>2, <2>4 DEF done, RequeuesOf
  <2>10. RequeuesOf(p)' = (RequeuesOf(p) \ {x}) \union {done(x)}
    <3>1. RequeuesOf(p)' = {done(q) : q \in RequeuesOf(p)}
      BY <1>10, <1>11, <2>2 DEF RequeuesOf
    <3> QED
      BY <2>3, <2>9, <3>1 DEF RequeuesOf
  <2>11. RequeueHandled(p, i, x)
    BY <1>3, <1>7, <1>8, <2>1, <2>3, <2>7, <2>8, <2>10 DEF RequeueHandled
  <2> QED
    BY <1>1, <1>7, <1>14, <2>3, <2>7, <2>11, RequeueKeeps
<1> QED
  BY <1>4, <1>16, <1>17, <1>18, AskKinds

(* A search tick forms a match.                                             *)
LEMMA FormKeeps ==
    ASSUME AllOk, NEW group \in SUBSET Players, RsFormMatch(group)
    PROVE  \A q \in Players : PlayerOk(q)'
<1> SUFFICES ASSUME NEW q \in Players PROVE PlayerOk(q)'
  OBVIOUS
<1>1. TypeOK /\ PlayerOk(q) /\ rsEpoch \in Nat
  BY BoundFacts DEF AllOk, TypeOK
<1> DEFINE ev == [id |-> formed + 1, group |-> group, tk |-> rsEpoch]
<1>2. rsQueue' = rsQueue \ group /\ group \subseteq rsQueue /\ events' = events \union {ev}
  BY DEF RsFormMatch, RsTake
<1>3. UNCHANGED <<subbed, entry, data, ticket, activity, matches, find, requeues, pending, token,
                  watchdog, wire, rsEpoch>>
  BY DEF RsFormMatch, clientVars, queueVars, tokenVars, reqVars
<1>4. /\ SameTokens /\ SameEntry(q) /\ SameData(q) /\ SameGames(q) /\ SameRequests(q)
      /\ SameFind(q)
  BY <1>3 DEF SameTokens, SameEntry, SameData, SameGames, SubsOf, GamesOf, LeftBy, SameRequests,
              RequeuesOf, SameFind
<1>5. ev.group = group /\ ev.tk = rsEpoch
  OBVIOUS
<1> HIDE DEF ev
<1>6. CallsOf(q)' = IF q \in group THEN CallsOf(q) \union {ev} ELSE CallsOf(q)
  BY <1>2, <1>5 DEF CallsOf
<1>7. CASE q \in group
  <2>1. q \in rsQueue /\ q \notin rsQueue'
    BY <1>2, <1>7
  <2>2. CallsOf(q)' = {ev}
    BY <1>1, <1>6, <1>7, <2>1 DEF PlayerOk, PlaceLaw
  <2> QED
    BY <1>1, <1>4, <1>5, <2>1, <2>2, FormedKeeps
<1>8. CASE q \notin group
  <2>1. SamePlayer(q)
    BY <1>2, <1>4, <1>6, <1>8 DEF SamePlayer, SameRs
  <2> QED
    BY <1>1, <1>4, <2>1, SameKeeps
<1> QED
  BY <1>7, <1>8

(* server-rs restarts while no find() call is past its lookups.             *)
LEMMA RestartStepKeeps ==
    ASSUME AllOk, TokensLaw, QuietRestart, NEW lost \in SUBSET events, RsRestart(lost)
    PROVE  \A q \in Players : PlayerOk(q)'
<1> SUFFICES ASSUME NEW q \in Players PROVE PlayerOk(q)'
  OBVIOUS
<1>1. TypeOK /\ PlayerOk(q) /\ ~Past(q)
  BY DEF AllOk, RsRestart, Past
<1>2. UNCHANGED <<subbed, entry, data, ticket, activity, matches, find, requeues, pending, token,
                  watchdog, wire>>
  BY DEF RsRestart, clientVars, queueVars, tokenVars, reqVars
<1>3. /\ SameEntry(q) /\ SameData(q) /\ SameGames(q) /\ SameRequests(q) /\ SameFind(q)
  BY <1>2 DEF SameEntry, SameData, SameGames, SubsOf, GamesOf, LeftBy, SameRequests, RequeuesOf,
              SameFind
<1>4. q \notin rsQueue' /\ CallsOf(q)' \subseteq CallsOf(q) /\ rsEpoch' = rsEpoch + 1
  BY DEF RsRestart, CallsOf
<1> QED
  BY <1>1, <1>2, <1>3, <1>4, RestartKeeps DEF TokensLaw

(* A find() call that waits for server-rs or for the baseline.              *)
LEMMA CallIs ==
    ASSUME AllOk, NEW p \in Players, NEW k \in Slots
    PROVE  /\ find[p][k].pc \in {"idle", "prep", "post", "queued", "token", "baseline"}
           /\ find[p][k].pc = "baseline" => find[p][k].tok = rsEpoch
           /\ find[p][k].pc \in {"queued", "token", "baseline"} =>
                Past(p) /\ ~Stale /\ \A j \in Slots : ~Posts(p, j)
           /\ find[p][k].pc # "idle" => \A j \in Slots \ {k} : find[p][j] = FindIdle
<1>1. PlayerOk(p)
  BY DEF AllOk
<1>2. FindIdle.pc = "idle"
  BY FindIdleIs
<1>3. find[p][k].pc \in {"queued", "token", "baseline"} => Past(p)
  BY DEF Past
<1>4. find[p][k].pc # "idle" => \A j \in Slots \ {k} : find[p][j] = FindIdle
  BY <1>1 DEF PlayerOk, FindLaw
<1>5. find[p][k].pc \in {"queued", "token", "baseline"} => \A j \in Slots : ~Posts(p, j)
  BY <1>2, <1>4 DEF Posts
<1> QED
  BY <1>1, <1>3, <1>4, <1>5 DEF PlayerOk, PastLaw, FindLaw, FindPcs

(* A step of find() that touches only the call, the activity registry and     *)
(* the queue data of its player.                                            *)
OthersKept(p) ==
    \A q \in Players \ {p} :
        /\ SameFind(q) /\ entry'[q] = entry[q] /\ activity'[q] = activity[q]
        /\ SubsOf(q)' = SubsOf(q) /\ SameData(q) /\ wire'[q] = wire[q]

(* The other players keep their laws.                                       *)
LEMMA OthersKeep ==
    ASSUME AllOk, TokenStep, NEW p \in Players, OthersKept(p), SameRsState,
           UNCHANGED <<matches, reqVars>>
    PROVE  \A q \in Players \ {p} : PlayerOk(q)'
<1> SUFFICES ASSUME NEW q \in Players \ {p} PROVE PlayerOk(q)'
  OBVIOUS
<1>1. SameRequests(q) /\ SameRs(q) /\ SameGames(q) /\ SameData(q)
  BY DEF OthersKept, SameRequests, SameRs, SameGames, SameRsState, CallsOf, GamesOf, LeftBy,
         RequeuesOf, reqVars
<1>2. SamePlayer(q) /\ SameFind(q)
  BY <1>1 DEF OthersKept, SamePlayer, SameEntry
<1> QED
  BY <1>2, StepKeeps DEF AllOk

(* Moving a call on is setting it.                                          *)
LEMMA MoveIsSet ==
    ASSUME TypeOK, NEW p \in Players, NEW k \in Slots, NEW pc, MoveFind(p, k, pc)
    PROVE  SetFind(p, k, [find[p][k] EXCEPT !.pc = pc])
BY DEF TypeOK, MoveFind, SetFind

(* find() returns, to an open group or to a closed one.                     *)
LEMMA FinishKeeps ==
    ASSUME AllOk, TokenStep, SameRsState, ~Stale', NEW p \in Players, NEW k \in Slots,
           find[p][k].pc \in {"queued", "baseline"}, FinishFind(p, k)
    PROVE  \A q \in Players : PlayerOk(q)'
<1>1. TypeOK /\ PlayerOk(p) /\ FindLaw(p)
  BY DEF AllOk, PlayerOk
<1>2. SetFind(p, k, FindIdle) /\ watchdog' = TRUE /\ rsEpoch' = rsEpoch
  BY DEF FinishFind, TokenStep
<1>3. \A j \in Slots : ~Posts(p, j)
  BY CallIs
<1>4. Idle(p)' /\ \A q \in Players \ {p} : SameFind(q)
  <2>1. /\ find'[p][k] = FindIdle /\ \A j \in Slots \ {k} : find'[p][j] = FindIdle
        /\ \A q \in Players \ {p} : SameFind(q)
    BY <1>1, <1>2, OneFind
  <2> QED
    BY <2>1 DEF Idle
<1>5. CASE RemoveClient(p)
  BY <1>3, <1>4, <1>5, RemoveKeeps
<1>6. CASE /\ subbed' = subbed \union {<<p, find[p][k].conn>>}
           /\ UNCHANGED <<queueVars, matches, reqVars, wire>>
  <2>1. /\ SubsOf(p)' = SubsOf(p) \union {<<p, find[p][k].conn>>}
        /\ \A q \in Players \ {p} : SubsOf(q)' = SubsOf(q)
    BY <1>6 DEF SubsOf
  <2>2. UNCHANGED <<entry, activity, data, ticket, matches, reqVars, wire>>
    BY <1>6 DEF queueVars
  <2>3. OthersKept(p)
    BY <1>4, <2>1, <2>2 DEF OthersKept, SameData
  <2>4. \A q \in Players \ {p} : PlayerOk(q)'
    BY <2>2, <2>3, OthersKeep
  <2>5. SameData(p) /\ SameRequests(p) /\ SameRs(p) /\ SameGames(p)
    BY <2>2 DEF SameData, SameRequests, SameRs, SameGames, SameRsState, CallsOf, GamesOf, LeftBy,
                RequeuesOf, reqVars
  <2>6. PlayerOk(p)'
    BY <1>1, <1>2, <2>1, <2>2, <2>5, FinishedKeeps
  <2> QED
    BY <2>4, <2>6
<1> QED
  BY <1>5, <1>6 DEF FinishFind

(* Every step of find().                                                    *)
LEMMA FindStepKeeps ==
    ASSUME AllOk, TokensLaw, Prompted, NEW p \in Players, NEW k \in Slots, FindStep(p, k)
    PROVE  \A q \in Players : PlayerOk(q)'
<1>1. TypeOK /\ PlayerOk(p) /\ FindLaw(p)
  BY DEF AllOk, PlayerOk
<1>2. /\ find[p][k].pc \in {"idle", "prep", "post", "queued", "token", "baseline"}
      /\ find[p][k].pc = "baseline" => find[p][k].tok = rsEpoch
      /\ find[p][k].pc \in {"queued", "token", "baseline"} => Past(p) /\ ~Stale
  BY CallIs
<1>3. Prompt /\ Waits /\ QuietRestart /\ MaxLosses = 0
  BY DEF Prompted
<1>4. CASE FindStart(p, k)
  <2>1. find[p][k] = FindIdle /\ activity[p] = NoClient /\ activity' = [activity EXCEPT ![p] = gen[p]]
        /\ SetFind(p, k, [FindIdle EXCEPT !.pc = "prep", !.conn = gen[p]])
        /\ UNCHANGED <<clientVars, entry, data, ticket, matches, reqVars, tokenVars, wire, rsVars>>
    BY <1>4 DEF FindStart
  <2>2. wire[p] = <<>> /\ RequeuesOf(p) = {} /\ CallsOf(p) = {} /\ GamesOf(p) = {}
    BY <1>3, <1>4 DEF FindStart, InFlight, RequeuesOf, CallsOf, GamesOf
  <2>3. gen[p] \in Nat /\ gen[p] # NoClient /\ activity'[p] = gen[p]
    BY <1>1, <2>1 DEF AllOk, TypeOK, MatchesLaw
  <2>4. /\ SameData(p) /\ SameRequests(p) /\ SameRs(p) /\ SameGames(p) /\ SameTokens
        /\ entry'[p] = entry[p] /\ SubsOf(p)' = SubsOf(p) /\ SameRsState
    BY <2>1 DEF SameData, SameRequests, SameRs, SameGames, SameTokens, SameRsState, CallsOf, GamesOf,
                LeftBy, RequeuesOf, SubsOf, clientVars, reqVars, tokenVars, rsVars
  <2>5. PlayerOk(p)'
    BY <1>1, <2>1, <2>2, <2>3, <2>4, StartKeeps
  <2>6. Idle(p)
    BY <1>1, <2>1 DEF PlayerOk, RegisteredLaw
  <2>7. \A q \in Players \ {p} : SameFind(q)
    BY <1>1, <2>1, <2>6, OneFind
  <2>8. OthersKept(p)
    BY <1>1, <2>1, <2>7 DEF OthersKept, SameData, SubsOf, clientVars, TypeOK
  <2> QED
    BY <2>1, <2>4, <2>5, <2>8, OthersKeep, SameTokenStep
<1>5. CASE FindPrepFails(p, k)
  <2>1. /\ find[p][k].pc = "prep" /\ activity' = [activity EXCEPT ![p] = NoClient]
        /\ SetFind(p, k, FindIdle)
        /\ UNCHANGED <<clientVars, entry, data, ticket, matches, reqVars, tokenVars, wire, rsVars>>
    BY <1>5 DEF FindPrepFails
  <2>2. /\ SameData(p) /\ SameRequests(p) /\ SameRs(p) /\ SameGames(p) /\ SameTokens
        /\ entry'[p] = entry[p] /\ SubsOf(p)' = SubsOf(p) /\ SameRsState
    BY <2>1 DEF SameData, SameRequests, SameRs, SameGames, SameTokens, SameRsState, CallsOf, GamesOf,
                LeftBy, RequeuesOf, SubsOf, clientVars, reqVars, tokenVars, rsVars
  <2>3. activity'[p] = NoClient
    BY <1>1, <2>1 DEF TypeOK
  <2>4. PlayerOk(p)'
    BY <1>1, <2>1, <2>2, <2>3, PrepFailsKeeps
  <2>5. \A q \in Players \ {p} : SameFind(q)
    BY <1>1, <2>1, OneFind
  <2>6. OthersKept(p)
    BY <1>1, <2>1, <2>5 DEF OthersKept, SameData, SubsOf, clientVars, TypeOK
  <2> QED
    BY <2>1, <2>2, <2>4, <2>6, OthersKeep, SameTokenStep
<1>6. CASE FindPost(p, k)
  <2>1. /\ find[p][k].pc = "prep" /\ (watchdog => token \in {NoToken, rsEpoch})
        /\ data' = data \union {p} /\ entry' = [entry EXCEPT ![p] = Searching]
        /\ wire' = [wire EXCEPT ![p] = Append(@, Post(k))] /\ MoveFind(p, k, "post")
        /\ UNCHANGED <<clientVars, ticket, activity, matches, reqVars, tokenVars, rsVars>>
    BY <1>3, <1>6 DEF FindPost, Send
  <2>2. ~Stale
    BY <2>1 DEF TokensLaw, Stale
  <2>3. /\ RequeuesOf(p)' = RequeuesOf(p) /\ SameRs(p) /\ SameGames(p) /\ SameTokens
        /\ activity'[p] = activity[p] /\ SubsOf(p)' = SubsOf(p) /\ SameRsState
        /\ p \in data' /\ ticket'[p] = ticket[p]
    BY <2>1 DEF SameRs, SameGames, SameTokens, SameRsState, CallsOf, GamesOf, LeftBy, RequeuesOf,
                SubsOf, clientVars, reqVars, tokenVars, rsVars
  <2>4. entry'[p] = Searching /\ wire'[p] = Append(wire[p], Post(k))
    BY <1>1, <2>1 DEF TypeOK
  <2>5. PlayerOk(p)'
    BY <1>1, <2>1, <2>2, <2>3, <2>4, SentKeeps
  <2>6. \A q \in Players \ {p} : SameFind(q)
    BY <1>1, <2>1, MoveIsSet, OneFind
  <2>7. OthersKept(p)
    BY <1>1, <2>1, <2>6 DEF OthersKept, SameData, SubsOf, clientVars, TypeOK
  <2> QED
    BY <2>1, <2>3, <2>5, <2>7, OthersKeep, SameTokenStep
<1>7. CASE FindRetry(p, k) \/ FindFailed(p, k)
  BY <1>2, <1>7 DEF FindRetry, FindFailed
<1>8. ASSUME NEW f, SetFind(p, k, f), find[p][k].pc \in {"queued", "token"},
             f.conn = find[p][k].conn,
             f.pc = "token" \/ (f.pc = "baseline" /\ f.tok = rsEpoch),
             UNCHANGED <<subbed, queueVars, matches, reqVars, tokenVars, wire, rsVars>>
      PROVE  \A q \in Players : PlayerOk(q)'
  <2>1. \A q \in Players : SamePlayer(q)
    BY <1>8 DEF SamePlayer, SameEntry, SameData, SameRequests, SameRs, SameGames, CallsOf, GamesOf,
                LeftBy, RequeuesOf, SubsOf, queueVars, reqVars, rsVars
  <2>2. SameTokens
    BY <1>8 DEF SameTokens, tokenVars, rsVars
  <2>3. PlayerOk(p)'
    BY <1>1, <1>8, <2>1, <2>2, MovedKeeps
  <2>4. \A q \in Players \ {p} : SameFind(q)
    BY <1>1, <1>8, OneFind
  <2> QED
    BY <2>1, <2>2, <2>3, <2>4, SameKeeps DEF AllOk
<1>9. find[p][k] \in [pc : FindPcs, conn : Nat, tok : {NoToken} \union Epochs]
  BY <1>1 DEF TypeOK
<1>10. CASE FindToken(p, k)
  <2>1. /\ find[p][k].pc = "token"
        /\ SetFind(p, k, [find[p][k] EXCEPT !.pc = "baseline", !.tok = rsEpoch])
        /\ UNCHANGED <<clientVars, queueVars, matches, reqVars, tokenVars, wire, rsVars>>
    BY <1>1, <1>3, <1>10 DEF FindToken, TypeOK
  <2>2. PICK f : f = [find[p][k] EXCEPT !.pc = "baseline", !.tok = rsEpoch]
    OBVIOUS
  <2>3. f.conn = find[p][k].conn /\ f.pc = "baseline" /\ f.tok = rsEpoch
    BY <1>9, <2>2
  <2>4. SetFind(p, k, f) /\ UNCHANGED subbed
    BY <2>1, <2>2 DEF clientVars
  <2> QED
    BY <1>8, <2>1, <2>3, <2>4
<1>11. CASE FindQueued(p, k) /\ token = NoToken
  <2>1. /\ find[p][k].pc = "queued" /\ MoveFind(p, k, "token")
        /\ UNCHANGED <<subbed, queueVars, matches, reqVars, tokenVars, wire, rsVars>>
    BY <1>11 DEF FindQueued, tokenVars
  <2>2. PICK f : f = [find[p][k] EXCEPT !.pc = "token"]
    OBVIOUS
  <2>3. f.conn = find[p][k].conn /\ f.pc = "token"
    BY <1>9, <2>2
  <2>4. SetFind(p, k, f)
    BY <1>1, <2>1, <2>2, MoveIsSet
  <2> QED
    BY <1>8, <2>1, <2>3, <2>4
<1>12. CASE FindQueued(p, k) /\ token # NoToken
  <2>1. /\ find[p][k].pc = "queued" /\ FinishFind(p, k)
        /\ UNCHANGED <<token, rsVars>> /\ watchdog' = TRUE
    BY <1>12 DEF FindQueued, FinishFind
  <2>2. rsEpoch' = rsEpoch /\ SameRsState
    BY <2>1 DEF rsVars, SameRsState
  <2>3. ~Stale' /\ TokenStep
    BY <1>2, <2>1, <2>2 DEF Stale, TokenStep
  <2> QED
    BY <2>1, <2>2, <2>3, FinishKeeps
<1>13. CASE FindBaseline(p, k)
  <2>1. /\ find[p][k].pc = "baseline" /\ FinishFind(p, k)
        /\ token' = find[p][k].tok /\ UNCHANGED rsVars /\ watchdog' = TRUE
    BY <1>13 DEF FindBaseline, FinishFind
  <2>2. rsEpoch' = rsEpoch /\ SameRsState /\ token' = rsEpoch /\ ~Stale
    BY <1>2, <2>1 DEF rsVars, SameRsState
  <2>3. ASSUME NEW q \in Players, entry[q] = Searching, token # rsEpoch
        PROVE  Placed(q)
    <3>1. PlayerOk(q) /\ FindLaw(q)
      BY DEF AllOk, PlayerOk
    <3>2. Searching # NoEntry /\ Searching \notin MatchIds
      BY BoundFacts DEF Searching, NoEntry
    <3>3. ~watchdog
      BY <2>2, <2>3 DEF TokensLaw, Stale
    <3>4. Past(q)
      BY <2>3, <3>1, <3>2, <3>3, FindCases DEF PlayerOk, WatchLaw, PrepLaw
    <3>5. GamesOf(q) = {}
      BY <2>3, <3>1, <3>2 DEF PlayerOk, GamesLaw, GamesOf
    <3> QED
      BY <3>1, <3>4, <3>5 DEF PlayerOk, PastLaw, Placed
  <2>4. ~Stale' /\ TokenStep
    BY <2>1, <2>2, <2>3 DEF Stale, TokenStep
  <2> QED
    BY <2>1, <2>2, <2>4, FinishKeeps
<1> QED
  BY <1>4, <1>5, <1>6, <1>7, <1>10, <1>11, <1>12, <1>13 DEF FindStep

(* The matches of a player do not depend on phases and accepts.             *)
SameGroups == \A m \in MatchIds : /\ matches'[m].group = matches[m].group
                                  /\ matches'[m].ban = matches[m].ban

(* Only phases, accepts, clients or the poll change.                        *)
LEMMA GroupsKeep ==
    ASSUME AllOk, SameTokens, SameGroups,
           UNCHANGED <<subbed, queueVars, find, reqVars, wire, rsQueue, events>>
    PROVE  \A q \in Players : PlayerOk(q)'
<1> SUFFICES ASSUME NEW q \in Players PROVE PlayerOk(q)'
  OBVIOUS
<1>1. GamesOf(q)' = GamesOf(q) /\ LeftBy(q)' = LeftBy(q)
  BY DEF SameGroups, GamesOf, LeftBy
<1>2. SamePlayer(q) /\ SameFind(q)
  BY <1>1 DEF SamePlayer, SameEntry, SameData, SameRequests, SameRs, SameGames, SameFind, CallsOf,
              RequeuesOf, SubsOf, queueVars, reqVars
<1> QED
  BY <1>2, SameKeeps DEF AllOk

(* A phase change is such a step.                                           *)
LEMMA PhaseGroups ==
    ASSUME TypeOK, NEW m \in MatchIds, NEW ph, matches' = [matches EXCEPT ![m].phase = ph]
    PROVE  SameGroups
<1>1. PICK o : o = [matches[m] EXCEPT !.phase = ph]
  OBVIOUS
<1>2. matches[m] \in [phase : Phases, group : SUBSET Players,
                      accepted : SUBSET Players, ban : SUBSET Players]
  BY DEF TypeOK
<1>3. o.group = matches[m].group /\ o.ban = matches[m].ban
  BY <1>1, <1>2
<1>4. matches' = [matches EXCEPT ![m] = o]
  BY <1>1
<1> QED
  BY <1>3, <1>4 DEF TypeOK, SameGroups

(* Nobody without a client has a find() call.                               *)
LEMMA AbsentIdle ==
    ASSUME AllOk, NEW q \in Players, activity[q] = NoClient \/ Idle(q), SameFind(q)
    PROVE  Idle(q)' /\ \A k \in Slots : ~Posts(q, k)
<1>1. PlayerOk(q) /\ FindLaw(q)
  BY DEF AllOk, PlayerOk
<1>2. Idle(q)
  BY <1>1 DEF PlayerOk, RegisteredLaw
<1> QED
  BY <1>1, <1>2, FindsAgree, FindCases

(* The players of a match, and those who left it.                           *)
LEMMA BannedAre ==
    ASSUME AllOk, NEW m \in MatchIds
    PROVE  /\ matches[m].group \in SUBSET Players /\ matches[m].ban \subseteq matches[m].group
           /\ \A q \in matches[m].ban : activity[q] = NoClient
<1>1. matches[m].group \in SUBSET Players /\ matches[m].ban \in SUBSET Players
  BY DEF AllOk, TypeOK
<1>2. ASSUME NEW q \in matches[m].ban PROVE q \in matches[m].group /\ activity[q] = NoClient
  <2>1. q \in Players /\ m \in LeftBy(q) /\ PlayerOk(q)
    BY <1>1 DEF LeftBy, AllOk
  <2>2. m \in GamesOf(q)
    BY <2>1 DEF PlayerOk, GamesLaw
  <2> QED
    BY <2>1, <2>2 DEF PlayerOk, GamesLaw, GamesOf
<1> QED
  BY <1>1, <1>2

(* Connecting, disconnecting, cancelling and accepting.                     *)
LEMMA ClientStepKeeps ==
    ASSUME AllOk, Prompt, NEW p \in Players, ClientStep(p)
    PROVE  \A q \in Players : PlayerOk(q)'
<1>1. TypeOK /\ PlayerOk(p)
  BY DEF AllOk
<1>2. ASSUME RemoveClient(p), Idle(p), UNCHANGED <<find, tokenVars, rsVars>>
      PROVE  \A q \in Players : PlayerOk(q)'
  <2>1. \A q \in Players : SameFind(q)
    BY <1>2 DEF SameFind
  <2>2. Idle(p)' /\ \A k \in Slots : ~Posts(p, k)
    BY <1>2, <2>1, AbsentIdle
  <2>3. SameTokens /\ SameRsState
    BY <1>2 DEF SameTokens, SameRsState, tokenVars, rsVars
  <2> QED
    BY <1>2, <2>1, <2>2, <2>3, RemoveKeeps, SameTokenStep
<1>3. ASSUME UNCHANGED <<subbed, queueVars, matches, find, reqVars, tokenVars, wire, rsVars>>
      PROVE  \A q \in Players : PlayerOk(q)'
  BY <1>3, GroupsKeep DEF SameTokens, SameGroups, tokenVars, rsVars
<1>4. CASE Connect(p)
  BY <1>3, <1>4 DEF Connect
<1>5. CASE Disconnect(p)
  <2>1. <<p, gen[p]>> \in subbed => Idle(p)
    BY <1>1 DEF PlayerOk, SubsLaw, SubsOf
  <2> QED
    BY <1>2, <1>3, <1>5, <2>1 DEF Disconnect
<1>6. CASE Cancel(p)
  <2>1. Idle(p)
    BY <1>6 DEF Cancel, Settled, Idle
  <2> QED
    BY <1>2, <1>6, <2>1 DEF Cancel
<1>7. CASE Accept(p)
  <2> DEFINE m == entry[p]
             acc == matches[m].accepted \union {p}
  <2>1. m \in MatchIds
    BY <1>7 DEF Accept
  <2>2. PICK o : o = [matches[m] EXCEPT !.accepted = acc,
                        !.phase = IF acc = matches[m].group THEN "map" ELSE @]
    OBVIOUS
  <2>3. matches[m] \in [phase : Phases, group : SUBSET Players,
                        accepted : SUBSET Players, ban : SUBSET Players]
    BY <1>1, <2>1 DEF TypeOK
  <2>4. o.group = matches[m].group /\ o.ban = matches[m].ban
    BY <2>2, <2>3
  <2>5. matches' = [matches EXCEPT ![m] = o]
    BY <1>1, <1>7, <2>1, <2>2 DEF Accept, TypeOK
  <2>6. SameGroups
    BY <1>1, <2>1, <2>4, <2>5 DEF TypeOK, SameGroups
  <2>7. /\ UNCHANGED <<subbed, queueVars, find, reqVars, wire, rsQueue, events>> /\ SameTokens
    BY <1>7 DEF Accept, SameTokens, clientVars, tokenVars, rsVars
  <2> QED
    BY <2>6, <2>7, GroupsKeep
<1> QED
  BY <1>4, <1>5, <1>6, <1>7 DEF ClientStep

(* The ways a match fails.                                                  *)
LEMMA FailStepKeeps ==
    ASSUME AllOk, NEW m \in MatchIds, Live(m), NEW ban \in SUBSET matches[m].group,
           FailMatch(m, matches[m].group, ban, ticket),
           \A q \in ban : activity[q] = NoClient \/ Idle(q),
           UNCHANGED <<find, tokenVars, rsVars>>
    PROVE  \A q \in Players : PlayerOk(q)'
<1>1. \A q \in Players : SameFind(q)
  BY DEF SameFind
<1>2. SameTokens /\ SameRsState
  BY DEF SameTokens, SameRsState, tokenVars, rsVars
<1>3. ban \in SUBSET Players
  BY BannedAre
<1>4. \A q \in ban : Idle(q)' /\ \A k \in Slots : ~Posts(q, k)
  BY <1>1, <1>3, AbsentIdle
<1> QED
  BY <1>1, <1>2, <1>4, FailKeeps, SameTokenStep

(* A match fails, with those who left it before and the players of S out.    *)
LEMMA FailBanKeeps ==
    ASSUME AllOk, NEW m \in MatchIds, Live(m), NEW S \in SUBSET matches[m].group, Fail(m, S),
           \A q \in S : activity[q] = NoClient \/ Idle(q),
           UNCHANGED <<find, tokenVars, rsVars>>
    PROVE  \A q \in Players : PlayerOk(q)'
<1> DEFINE ban == matches[m].ban \union S
<1>1. ban \in SUBSET matches[m].group /\ \A q \in ban : activity[q] = NoClient \/ Idle(q)
  BY BannedAre
<1>2. FailMatch(m, matches[m].group, ban, ticket)
  BY DEF Fail
<1> HIDE DEF ban
<1> QED
  BY <1>1, <1>2, FailStepKeeps

(* doGameLoad: absent players are without find() calls.                     *)
LEMMA BeginLoadKeeps ==
    ASSUME AllOk, NEW m \in MatchIds, Live(m), BeginLoad(m), UNCHANGED <<find, tokenVars, rsVars>>
    PROVE  \A q \in Players : PlayerOk(q)'
<1> DEFINE absent == {p \in matches[m].group : activity[p] = NoClient}
<1>1. CASE absent # {} /\ Fail(m, absent)
  <2>1. absent \in SUBSET matches[m].group /\ \A q \in absent : activity[q] = NoClient \/ Idle(q)
    OBVIOUS
  <2> HIDE DEF absent
  <2> QED
    BY <1>1, <2>1, FailBanKeeps
<1>2. CASE /\ matches' = [matches EXCEPT ![m].phase = "loading"]
           /\ UNCHANGED <<subbed, queueVars, reqVars, wire>>
  <2>1. SameGroups /\ SameTokens
    BY <1>2, PhaseGroups DEF AllOk, SameTokens, tokenVars, rsVars
  <2> QED
    BY <1>2, <2>1, GroupsKeep DEF rsVars
<1> QED
  BY <1>1, <1>2 DEF BeginLoad

(* The game is loaded, its players are through with matchmaking.            *)
LEMMA LaunchKeeps ==
    ASSUME AllOk, Prompt, NEW m \in MatchIds, LoadSucceeds(m)
    PROVE  \A q \in Players : PlayerOk(q)'
<1> DEFINE group == matches[m].group
<1>1. TypeOK /\ rsEpoch \in Nat /\ rsEpoch # NoTicket /\ group \in SUBSET Players
  BY BoundFacts DEF AllOk, TypeOK, NoTicket, NoToken
<1>2. /\ entry' = EntryWithout(group) /\ Unregister(group) /\ data' = data \ group
      /\ ticket' = [p \in Players |-> IF p \in group THEN NoTicket ELSE ticket[p]]
      /\ matches' = [matches EXCEPT ![m] = NoMatch]
      /\ UNCHANGED <<reqVars, wire, find, tokenVars, rsVars>>
  BY DEF LoadSucceeds, matchOnlyUnchanged
<1>3. SameTokens /\ (Stale' <=> Stale) /\ rsEpoch' = rsEpoch
  BY <1>2 DEF SameTokens, Stale, tokenVars, rsVars
<1> SUFFICES ASSUME NEW q \in Players PROVE PlayerOk(q)'
  OBVIOUS
<1>4. PlayerOk(q) /\ SameFind(q) /\ SameRs(q) /\ SameRequests(q)
  BY <1>2 DEF AllOk, SameFind, SameRs, SameRequests, CallsOf, RequeuesOf, reqVars, rsVars
<1>5. IF q \in group THEN activity'[q] = NoClient /\ SubsOf(q)' = {}
                     ELSE activity'[q] = activity[q] /\ SubsOf(q)' = SubsOf(q)
  BY <1>1, <1>2, <1>4, UnregisterIs
<1>6. GamesOf(q)' = GamesOf(q) \ {m} /\ LeftBy(q)' = LeftBy(q) \ {m}
  <2>1. \A n \in MatchIds : matches'[n] = IF n = m THEN NoMatch ELSE matches[n]
    BY <1>1, <1>2 DEF TypeOK
  <2>2. NoMatch.group = {} /\ NoMatch.ban = {}
    BY DEF NoMatch
  <2> QED
    BY <2>1, <2>2 DEF GamesOf, LeftBy
<1>7. m \in GamesOf(q) <=> q \in group
  BY DEF GamesOf
<1> HIDE DEF group
<1>8. CASE q \notin group
  <2>1. SameGames(q)
    BY <1>4, <1>6, <1>7, <1>8 DEF SameGames, PlayerOk, GamesLaw
  <2>2. SamePlayer(q)
    BY <1>2, <1>4, <1>5, <1>8, <2>1 DEF SamePlayer, SameEntry, SameData, EntryWithout
  <2> QED
    BY <1>3, <1>4, <2>2, SameKeeps
<1>9. CASE q \in group
  <2>1. GamesOf(q) = {m} /\ GamesOf(q)' = {} /\ LeftBy(q)' = {}
    BY <1>4, <1>6, <1>7, <1>9 DEF PlayerOk, PlaceLaw, GamesLaw
  <2>2. Idle(q)
    BY <1>9 DEF LoadSucceeds, Settled, Idle, group
  <2>3. Idle(q)' /\ \A k \in Slots : ~Posts(q, k)
    BY <1>4, <2>2, AbsentIdle
  <2>4. entry'[q] = NoEntry /\ q \notin data' /\ ticket'[q] = NoTicket
    BY <1>2, <1>9 DEF EntryWithout
  <2>5. ExitRequests(q)
    BY <1>1, <1>4, <2>1, BusyPlace, ExitSame
  <2> QED
    BY <1>1, <1>3, <1>4, <1>5, <1>9, <2>1, <2>3, <2>4, <2>5, ExitKeeps DEF SameRs
<1> QED
  BY <1>8, <1>9

(* Every step of runMatch.                                                  *)
LEMMA MatchStepKeeps ==
    ASSUME AllOk, Prompt, NEW m \in MatchIds, MatchStep(m)
    PROVE  \A q \in Players : PlayerOk(q)'
<1>1. TypeOK
  BY DEF AllOk
<1>2. \A q \in matches[m].group : Settled(matches[m].group) => Idle(q)
  BY DEF Settled, Idle
<1>3. CASE AcceptTimeout(m)
  <2> DEFINE ban == matches[m].group \ matches[m].accepted
  <2>1. /\ ban \in SUBSET matches[m].group /\ FailMatch(m, matches[m].group, ban, ticket)
        /\ Live(m) /\ \A q \in ban : Idle(q)
        /\ UNCHANGED <<find, tokenVars, rsVars>>
    BY <1>2, <1>3 DEF AcceptTimeout, AcceptTimerRuns, Live, matchOnlyUnchanged
  <2> HIDE DEF ban
  <2> QED
    BY <2>1, FailStepKeeps
<1>4. CASE MapPicked(m)
  <2>1. Live(m) /\ UNCHANGED <<find, tokenVars, rsVars>>
    BY <1>4 DEF MapPicked, Live, matchOnlyUnchanged
  <2>2. CASE BeginLoad(m)
    BY <2>1, <2>2, BeginLoadKeeps
  <2>3. CASE Fail(m, {})
    <3>1. {} \in SUBSET matches[m].group
      OBVIOUS
    <3> QED
      BY <2>1, <2>3, <3>1, FailBanKeeps
  <2>4. CASE /\ matches' = [matches EXCEPT ![m].phase = "drafting"]
             /\ UNCHANGED <<subbed, queueVars, reqVars, wire>>
    <3>1. SameGroups /\ SameTokens
      BY <1>1, <2>1, <2>4, PhaseGroups DEF SameTokens, tokenVars, rsVars
    <3> QED
      BY <2>1, <2>4, <3>1, GroupsKeep DEF rsVars
  <2> QED
    BY <1>4, <2>2, <2>3, <2>4 DEF MapPicked
<1>5. CASE MapFails(m)
  <2>1. Live(m) /\ Fail(m, {}) /\ UNCHANGED <<find, tokenVars, rsVars>>
    BY <1>5 DEF MapFails, Live, matchOnlyUnchanged
  <2>2. {} \in SUBSET matches[m].group
    OBVIOUS
  <2> QED
    BY <2>1, <2>2, FailBanKeeps
<1>6. CASE DraftDone(m)
  BY <1>6, BeginLoadKeeps DEF DraftDone, Live, matchOnlyUnchanged
<1>7. CASE LoadSucceeds(m)
  BY <1>7, LaunchKeeps
<1>8. CASE \E blamed \in SUBSET matches[m].group : LoadFails(m, blamed)
  <2>1. PICK blamed \in SUBSET matches[m].group : LoadFails(m, blamed)
    BY <1>8
  <2>2. /\ Live(m) /\ Fail(m, blamed) /\ UNCHANGED <<find, tokenVars, rsVars>>
        /\ \A q \in blamed : Idle(q)
    BY <1>2, <2>1 DEF LoadFails, Live, matchOnlyUnchanged
  <2> QED
    BY <2>1, <2>2, FailBanKeeps
<1> QED
  BY <1>3, <1>4, <1>5, <1>6, <1>7, <1>8 DEF MatchStep

(* Every step of the watchdog.                                              *)
LEMMA WatchdogStepKeeps ==
    ASSUME AllOk, TokensLaw, WatchdogStep
    PROVE  \A q \in Players : PlayerOk(q)'
<1>1. CASE PollSend \/ PollAnswer
  <2>1. /\ UNCHANGED <<subbed, queueVars, matches, find, reqVars, wire, rsQueue, events>>
        /\ SameTokens
    BY <1>1 DEF PollSend, PollAnswer, pollUnchanged, rsVars, SameTokens
  <2>2. SameGroups
    BY <2>1 DEF SameGroups
  <2> QED
    BY <2>1, <2>2, GroupsKeep
<1>2. CASE WatchdogStops
  <2>1. /\ UNCHANGED <<subbed, queueVars, matches, find, reqVars, wire, rsQueue, rsEpoch, events>>
        /\ data = {} /\ token' = NoToken
    BY <1>2 DEF WatchdogStops, pollUnchanged, rsVars
  <2> SUFFICES ASSUME NEW q \in Players PROVE PlayerOk(q)'
    OBVIOUS
  <2>2. SamePlayer(q) /\ SameFind(q) /\ PlayerOk(q)
    BY <2>1 DEF SamePlayer, SameEntry, SameData, SameRequests, SameRs, SameGames, SameFind, CallsOf,
                RequeuesOf, SubsOf, GamesOf, LeftBy, queueVars, reqVars, AllOk
  <2>3. entry'[q] = NoEntry /\ NoEntry # Searching
    BY <2>1 DEF AllOk, Safe, EntryHasData, queueVars, NoEntry, Searching
  <2>4. WatchLaw(q)' /\ SearchLaw(q)' /\ ~Stale'
    BY <2>1, <2>3 DEF WatchLaw, SearchLaw, Stale
  <2> QED
    BY <2>1, <2>2, <2>4, TokenKeeps
<1>3. CASE PollDone
  BY <1>3, PollKeeps
<1> QED
  BY <1>1, <1>2, <1>3 DEF WatchdogStep

(* The baseline and the poll of the watchdog.                               *)
LEMMA TokensSame ==
    ASSUME TokensLaw, UNCHANGED <<token, watchdog, poll, rsEpoch>>
    PROVE  TokensLaw'
BY DEF TokensLaw

LEMMA PollFacts ==
    /\ PollIdle \notin Epochs /\ PollSent \notin Epochs /\ PollFailed \notin Epochs
    /\ PollSent # PollFailed /\ PollIdle # PollFailed
BY BoundFacts DEF PollIdle, PollSent, PollFailed, Epochs

(* The baseline never runs ahead of server-rs or of the poll.               *)
LEMMA TokensStep ==
    ASSUME AllOk, TokensLaw, Prompted, Next
    PROVE  TokensLaw'
<1>1. TypeOK /\ token \in Nat /\ rsEpoch \in Epochs /\ rsEpoch \in Nat /\ MaxLosses = 0 /\ Prompt
  BY BoundFacts DEF AllOk, TypeOK, NoToken, Prompted
<1>2. CASE \E p \in Players : ClientStep(p)
  BY <1>2, TokensSame DEF ClientStep, Connect, Disconnect, Cancel, Accept, tokenVars, rsVars
<1>3. ASSUME NEW p \in Players, NEW k \in Slots, FindStep(p, k) PROVE TokensLaw'
  <2>1. /\ find[p][k].pc = "baseline" => find[p][k].tok = rsEpoch
        /\ find[p][k].pc \in {"queued", "token", "baseline"} => ~Stale
    BY CallIs
  <2>2. CASE FindBaseline(p, k)
    <3>1. token' = rsEpoch /\ watchdog' = TRUE /\ UNCHANGED <<poll, rsEpoch>> /\ ~Stale
      BY <2>1, <2>2 DEF FindBaseline, FinishFind, rsVars
    <3>2. poll \in Epochs => rsEpoch <= poll
      BY <3>1, PollFacts DEF TokensLaw, Stale
    <3> QED
      BY <1>1, <3>1, <3>2, BoundFacts DEF TokensLaw
  <2>3. CASE FindQueued(p, k)
    <3>1. UNCHANGED <<token, poll, rsEpoch>> /\ (watchdog' = watchdog \/ (watchdog' /\ token # NoToken))
      BY <2>3 DEF FindQueued, FinishFind, rsVars
    <3>2. watchdog' <=> watchdog
      BY <3>1 DEF TokensLaw
    <3> QED
      BY <3>1, <3>2 DEF TokensLaw
  <2>4. CASE \/ FindStart(p, k) \/ FindPrepFails(p, k) \/ FindPost(p, k) \/ FindRetry(p, k)
             \/ FindToken(p, k) \/ FindFailed(p, k)
    BY <2>4, TokensSame
    DEF FindStart, FindPrepFails, FindPost, FindRetry, FindToken, FindFailed, tokenVars, rsVars
  <2> QED
    BY <1>3, <2>2, <2>3, <2>4 DEF FindStep
<1>4. CASE \/ \E r \in requeues : RequeueDone(r)
           \/ \E ev \in events : MatchFound(ev)
           \/ \E m \in MatchIds : MatchStep(m)
  BY <1>4, TokensSame
  DEF RequeueDone, MatchFound, MatchStep, AcceptTimeout, MapPicked, MapFails, DraftDone,
      LoadSucceeds, LoadFails, matchOnlyUnchanged, tokenVars, rsVars
<1>5. CASE WatchdogStep
  <2>1. CASE PollSend
    <3>1. watchdog /\ poll' = PollSent /\ UNCHANGED <<token, watchdog, rsEpoch>>
      BY <2>1 DEF PollSend, pollUnchanged, rsVars
    <3> QED
      BY <3>1, PollFacts DEF TokensLaw
  <2>2. CASE WatchdogStops
    <3>1. poll' = PollIdle /\ watchdog' = FALSE /\ token' = NoToken /\ rsEpoch' = rsEpoch
      BY <1>1, <2>2 DEF WatchdogStops, rsVars
    <3>2. NoToken <= rsEpoch
      BY <1>1 DEF NoToken
    <3> QED
      BY <3>1, <3>2, PollFacts DEF TokensLaw
  <2>3. CASE PollAnswer
    <3>1. poll = PollSent /\ poll' = rsEpoch /\ UNCHANGED <<token, watchdog, rsEpoch>>
      BY <1>1, <2>3 DEF PollAnswer, rsVars, TypeOK
    <3>2. PollSent # PollIdle
      BY DEF PollSent, PollIdle
    <3> QED
      BY <1>1, <3>1, <3>2, PollFacts DEF TokensLaw
  <2>4. CASE PollDone
    <3>1. poll \in Epochs /\ poll # PollIdle
      BY <2>4, PollFacts DEF PollDone, TokensLaw
    <3>2. token' = poll /\ poll' = PollIdle /\ UNCHANGED <<watchdog, rsEpoch>>
      BY <2>4, <3>1, PollFacts DEF PollDone, rsVars
    <3>3. poll # NoToken /\ poll <= rsEpoch /\ watchdog
      BY <3>1, BoundFacts DEF TokensLaw
    <3> QED
      BY <3>1, <3>2, <3>3, PollFacts DEF TokensLaw
  <2> QED
    BY <1>5, <2>1, <2>2, <2>3, <2>4 DEF WatchdogStep
<1>6. CASE RsStep
  <2>1. CASE \/ \E p \in Players : \E i \in 1..Len(wire[p]), fate \in Fates : RsReceive(p, i, fate)
             \/ \E group \in SUBSET Players : RsFormMatch(group)
    <3>1. ASSUME NEW p \in Players, NEW i \in 1..Len(wire[p]), NEW fate \in Fates,
                 RsReceive(p, i, fate)
          PROVE  UNCHANGED <<token, watchdog, poll, rsEpoch>>
      BY <3>1 DEF RsReceive, tokenVars
    <3>2. ASSUME NEW group \in SUBSET Players, RsFormMatch(group)
          PROVE  UNCHANGED <<token, watchdog, poll, rsEpoch>>
      BY <3>2 DEF RsFormMatch, tokenVars
    <3>3. UNCHANGED <<token, watchdog, poll, rsEpoch>>
      BY <2>1, <3>1, <3>2
    <3> QED
      BY <3>3, TokensSame
  <2>2. CASE \E lost \in SUBSET events : RsRestart(lost)
    <3>1. rsEpoch' = rsEpoch + 1 /\ UNCHANGED <<token, watchdog, poll>>
      BY <2>2 DEF RsRestart, tokenVars
    <3>2. (poll \in Epochs => poll \in Nat) /\ token <= rsEpoch
      BY BoundFacts DEF TokensLaw
    <3>3. token <= rsEpoch' /\ (poll \in Epochs /\ poll <= rsEpoch => poll <= rsEpoch')
      BY <1>1, <3>1, <3>2
    <3> QED
      BY <3>1, <3>3 DEF TokensLaw
  <2> QED
    BY <1>6, <2>1, <2>2 DEF RsStep
<1> QED
  BY <1>2, <1>3, <1>4, <1>5, <1>6 DEF Next

-----------------------------------------------------------------------------
(* The matches map, the requeues and the events.                            *)

(* Matches only change or end, and a new requeue is for a match that ends.   *)
MatchesMove ==
    /\ \A m \in MatchIds : \/ matches'[m] = matches[m]
                           \/ matches'[m] = NoMatch
                           \/ Live(m) /\ Live(m)'
    /\ \A r \in requeues' : \/ \E q \in requeues : q.m = r.m
                            \/ r.m \in MatchIds /\ Live(r.m) /\ matches'[r.m] = NoMatch

(* Such steps keep MatchesLaw.                                              *)
LEMMA MoveKeeps ==
    ASSUME AllOk, MatchesMove, events' \subseteq events, formed' = formed, gen' = gen
    PROVE  MatchesLaw'
<1>1. NoMatch.phase = "none"
  BY DEF NoMatch
<1>2. \A m \in MatchIds : Live(m)' => Live(m)
  BY <1>1 DEF MatchesMove, Live
<1>3. \A m \in MatchIds : Live(m)' \/ matches'[m] = NoMatch
  BY DEF MatchesMove, AllOk, MatchesLaw, Live
<1>4. ASSUME NEW r \in requeues'
      PROVE  r.m <= formed' /\ ~Live(r.m)' /\ \A ev \in events' : ev.id # r.m
  <2>1. CASE \E q \in requeues : q.m = r.m
    <3>1. PICK q \in requeues : q.m = r.m
      BY <2>1
    <3>2. q.m \in MatchIds /\ q.m <= formed /\ ~Live(q.m) /\ \A ev \in events : ev.id # q.m
      BY DEF AllOk, TypeOK, MatchesLaw
    <3>3. ~Live(q.m)'
      BY <1>2, <3>2
    <3> QED
      BY <3>1, <3>2, <3>3 DEF Live
  <2>2. CASE r.m \in MatchIds /\ Live(r.m) /\ matches'[r.m] = NoMatch
    <3>1. r.m \in Nat /\ formed \in Nat
      BY <2>2, BoundFacts DEF AllOk, TypeOK
    <3>2. r.m <= formed /\ \A ev \in events : ev.id # r.m
      BY <2>2, <3>1 DEF AllOk, EventsFresh
    <3> QED
      BY <1>1, <2>2, <3>2 DEF Live
  <2> QED
    BY <2>1, <2>2 DEF MatchesMove
<1> QED
  BY <1>3, <1>4 DEF MatchesLaw, AllOk

(* The steps that are of this kind.                                         *)
LEMMA StillMoves ==
    ASSUME UNCHANGED <<matches, requeues>> PROVE MatchesMove
BY DEF MatchesMove

LEMMA FailMoves ==
    ASSUME TypeOK, NEW m \in MatchIds, Live(m), NEW group, NEW ban, NEW tickets,
           FailMatch(m, group, ban, tickets)
    PROVE  MatchesMove
<1>1. matches' = [matches EXCEPT ![m] = NoMatch]
  BY DEF FailMatch
<1> DEFINE new(p) == [p |-> p, m |-> m, tk |-> tickets[p], st |-> "sent", dels |-> 0]
           back == {p \in Returning(group, ban) : tickets[p] # NoTicket}
<1>2. requeues' = requeues \union {new(p) : p \in back}
  BY DEF FailMatch
<1>3. \A p : new(p).m = m
  OBVIOUS
<1> HIDE DEF new, back
<1>4. \A r \in requeues' : r \in requeues \/ r.m = m
  BY <1>2, <1>3
<1> QED
  BY <1>1, <1>4 DEF TypeOK, MatchesMove

(* A running match changes otherwise.                                       *)
LEMMA UpdateMoves ==
    ASSUME TypeOK, NEW m \in MatchIds, Live(m), UNCHANGED requeues,
           \/ \E ph \in Phases \ {"none"} : matches' = [matches EXCEPT ![m].phase = ph]
           \/ \E B : matches' = [matches EXCEPT ![m].ban = B]
    PROVE  MatchesMove
<1>1. PICK o : matches' = [matches EXCEPT ![m] = o] /\ o.phase # "none"
  <2>1. matches[m] \in [phase : Phases, group : SUBSET Players,
                        accepted : SUBSET Players, ban : SUBSET Players]
    BY DEF TypeOK
  <2>2. CASE \E ph \in Phases \ {"none"} : matches' = [matches EXCEPT ![m].phase = ph]
    <3>1. PICK ph \in Phases \ {"none"} : matches' = [matches EXCEPT ![m].phase = ph]
      BY <2>2
    <3>2. PICK o : o = [matches[m] EXCEPT !.phase = ph]
      OBVIOUS
    <3>3. o.phase = ph
      BY <2>1, <3>2
    <3> QED
      BY <3>1, <3>2, <3>3
  <2>3. CASE \E B : matches' = [matches EXCEPT ![m].ban = B]
    <3>1. PICK B : matches' = [matches EXCEPT ![m].ban = B]
      BY <2>3
    <3>2. PICK o : o = [matches[m] EXCEPT !.ban = B]
      OBVIOUS
    <3>3. o.phase = matches[m].phase
      BY <2>1, <3>2
    <3> QED
      BY <3>1, <3>2, <3>3 DEF Live
  <2> QED
    BY <2>2, <2>3
<1>2. /\ Live(m)' /\ \A n \in MatchIds \ {m} : matches'[n] = matches[n]
  BY <1>1 DEF TypeOK, Live
<1> QED
  BY <1>2 DEF MatchesMove

LEMMA CancelMoves ==
    ASSUME TypeOK, NEW p \in Players, CancelInRust(p), UNCHANGED matches
    PROVE  MatchesMove
<1> DEFINE bump(r) == IF r.p = p /\ r.m = pending[p] THEN [r EXCEPT !.dels = @ + 1] ELSE r
           T == [p : Players, m : MatchIds, tk : {NoTicket} \union Epochs,
                 st : {"sent", "ok", "err"}, dels : Nat]
<1>1. requeues' = requeues \/ requeues' = {bump(r) : r \in requeues}
  BY DEF CancelInRust
<1>2. requeues \subseteq T /\ \A r \in T : bump(r).m = r.m
  BY DEF TypeOK
<1> HIDE DEF bump, T
<1>3. \A r \in requeues' : \E q \in requeues : q.m = r.m
  BY <1>1, <1>2
<1> QED
  BY <1>3 DEF MatchesMove

LEMMA RemoveMoves ==
    ASSUME TypeOK, NEW p \in Players, RemoveClient(p)
    PROVE  MatchesMove
<1>1. CASE UNCHANGED <<matches, reqVars>>
  BY <1>1, StillMoves DEF reqVars
<1>2. CASE CancelInRust(p) /\ UNCHANGED matches
  BY <1>2, CancelMoves
<1>3. CASE /\ entry[p] \in MatchIds /\ matches[entry[p]].phase \in {"accepting", "drafting"}
           /\ FailMatch(entry[p], matches[entry[p]].group, matches[entry[p]].ban \union {p}, ticket)
  BY <1>3, FailMoves DEF Live
<1>4. CASE /\ entry[p] \in MatchIds /\ UNCHANGED reqVars
           /\ matches' = IF Live(entry[p])
                           THEN [matches EXCEPT ![entry[p]].ban = @ \union {p}] ELSE matches
  <2>1. CASE ~Live(entry[p])
    BY <1>4, <2>1, StillMoves DEF reqVars
  <2>2. CASE Live(entry[p])
    <3>1. matches' = [matches EXCEPT ![entry[p]].ban = matches[entry[p]].ban \union {p}]
          /\ UNCHANGED requeues
      BY <1>4, <2>2 DEF reqVars
    <3> QED
      BY <1>4, <2>2, <3>1, UpdateMoves
  <2> QED
    BY <2>1, <2>2
<1> QED
  BY <1>1, <1>2, <1>3, <1>4 DEF RemoveClient, reqVars

LEMMA RunMoves ==
    ASSUME TypeOK, NEW m \in MatchIds, MatchStep(m)
    PROVE  MatchesMove
<1>1. Live(m)
  BY DEF MatchStep, AcceptTimeout, AcceptTimerRuns, MapPicked, MapFails, DraftDone, LoadSucceeds,
         LoadFails, Live
<1>2. ASSUME NEW ph \in Phases \ {"none"}, matches' = [matches EXCEPT ![m].phase = ph],
             UNCHANGED reqVars
      PROVE  MatchesMove
  BY <1>1, <1>2, UpdateMoves DEF reqVars
<1>3. ASSUME NEW S, Fail(m, S) PROVE MatchesMove
  BY <1>1, <1>3, FailMoves DEF Fail
<1>4. ASSUME BeginLoad(m) PROVE MatchesMove
  BY <1>2, <1>3, <1>4 DEF BeginLoad, Phases
<1>5. CASE AcceptTimeout(m)
  BY <1>1, <1>5, FailMoves DEF AcceptTimeout
<1>6. CASE MapPicked(m)
  BY <1>2, <1>3, <1>4, <1>6 DEF MapPicked, Phases
<1>7. CASE MapFails(m) \/ DraftDone(m) \/ \E blamed \in SUBSET matches[m].group : LoadFails(m, blamed)
  BY <1>3, <1>4, <1>7 DEF MapFails, DraftDone, LoadFails
<1>8. CASE LoadSucceeds(m)
  BY <1>8 DEF LoadSucceeds, TypeOK, MatchesMove, reqVars
<1> QED
  BY <1>5, <1>6, <1>7, <1>8 DEF MatchStep

LEMMA ClientMoves ==
    ASSUME TypeOK, NEW p \in Players, ClientStep(p)
    PROVE  MatchesMove
<1>1. CASE Connect(p)
  BY <1>1, StillMoves DEF Connect, reqVars
<1>2. CASE Disconnect(p)
  BY <1>2, RemoveMoves, StillMoves DEF Disconnect, reqVars
<1>3. CASE Cancel(p)
  BY <1>3, RemoveMoves DEF Cancel
<1>4. CASE Accept(p)
  <2> DEFINE m == entry[p]
             acc == matches[m].accepted \union {p}
  <2>1. m \in MatchIds /\ matches[m].phase = "accepting"
    BY <1>4 DEF Accept
  <2>2. PICK o : o = [matches[m] EXCEPT !.accepted = acc,
                        !.phase = IF acc = matches[m].group THEN "map" ELSE @]
    OBVIOUS
  <2>3. matches[m] \in [phase : Phases, group : SUBSET Players,
                        accepted : SUBSET Players, ban : SUBSET Players]
    BY <2>1 DEF TypeOK
  <2>4. o.phase # "none"
    BY <2>1, <2>2, <2>3
  <2>5. matches' = [matches EXCEPT ![m] = o] /\ UNCHANGED requeues
    BY <1>4, <2>1, <2>2 DEF Accept, TypeOK, reqVars
  <2> QED
    BY <2>1, <2>4, <2>5 DEF TypeOK, MatchesMove, Live
<1> QED
  BY <1>1, <1>2, <1>3, <1>4 DEF ClientStep

LEMMA FindMoves ==
    ASSUME TypeOK, NEW p \in Players, NEW k \in Slots, FindStep(p, k)
    PROVE  MatchesMove
<1>1. ASSUME FinishFind(p, k) PROVE MatchesMove
  BY <1>1, RemoveMoves, StillMoves DEF FinishFind, reqVars
<1>2. CASE FindQueued(p, k) \/ FindBaseline(p, k)
  BY <1>1, <1>2, StillMoves DEF FindQueued, FindBaseline, reqVars
<1>3. CASE FindFailed(p, k)
  BY <1>3, CancelMoves DEF FindFailed
<1>4. CASE \/ FindStart(p, k) \/ FindPrepFails(p, k) \/ FindPost(p, k) \/ FindRetry(p, k)
           \/ FindToken(p, k)
  BY <1>4, StillMoves DEF FindStart, FindPrepFails, FindPost, FindRetry, FindToken, reqVars
<1> QED
  BY <1>2, <1>3, <1>4 DEF FindStep

LEMMA ReceiveMoves ==
    ASSUME TypeOK, NEW p \in Players, NEW i \in 1..Len(wire[p]), NEW fate \in Fates,
           RsReceive(p, i, fate)
    PROVE  MatchesMove
<1> DEFINE st == IF fate = "answered" /\ Accepts(p, wire[p][i]) THEN "ok" ELSE "err"
           done(q) == IF q.p = p /\ q.m = wire[p][i].id THEN [q EXCEPT !.st = st] ELSE q
           T == [p : Players, m : MatchIds, tk : {NoTicket} \union Epochs,
                 st : {"sent", "ok", "err"}, dels : Nat]
<1>1. (requeues' = requeues \/ requeues' = {done(q) : q \in requeues}) /\ matches' = matches
  BY DEF RsReceive
<1>2. requeues \subseteq T /\ \A q \in T : done(q).m = q.m
  BY DEF TypeOK
<1> HIDE DEF done, T
<1>3. \A r \in requeues' : \E q \in requeues : q.m = r.m
  BY <1>1, <1>2
<1> QED
  BY <1>1, <1>3 DEF MatchesMove

(* Every step keeps MatchesLaw.                                             *)
LEMMA MatchesStep ==
    ASSUME AllOk, Next
    PROVE  MatchesLaw'
<1>1. TypeOK
  BY DEF AllOk
<1>2. CASE \E p \in Players : ClientStep(p)
  <2>1. PICK p \in Players : ClientStep(p)
    BY <1>2
  <2>2. MatchesMove
    BY <1>1, <2>1, ClientMoves
  <2>3. CASE Connect(p)
    <3>1. UNCHANGED <<matches, requeues, events, formed>> /\ gen' = [gen EXCEPT ![p] = @ + 1]
      BY <2>3 DEF Connect, reqVars, rsVars
    <3>2. \A q \in Players : gen'[q] # NoClient
      BY <1>1, <3>1 DEF AllOk, TypeOK, MatchesLaw, NoClient
    <3> QED
      BY <3>1, <3>2 DEF AllOk, MatchesLaw, Live
  <2>4. CASE ~Connect(p)
    <3>1. UNCHANGED <<gen, events, formed>>
      BY <2>1, <2>4 DEF ClientStep, Disconnect, Cancel, Accept, clientVars, rsVars
    <3> QED
      BY <2>2, <3>1, MoveKeeps
  <2> QED
    BY <2>3, <2>4
<1>3. CASE \E p \in Players, k \in Slots : FindStep(p, k)
  <2>1. PICK p \in Players, k \in Slots : FindStep(p, k)
    BY <1>3
  <2>2. UNCHANGED <<gen, events, formed>>
    BY <2>1 DEF FindStep, FindStart, FindPrepFails, FindPost, FindRetry, FindToken, FindQueued,
                FindBaseline, FindFailed, clientVars, rsVars
  <2> QED
    BY <1>1, <2>1, <2>2, FindMoves, MoveKeeps
<1>4. CASE \E r \in requeues : RequeueDone(r)
  <2>1. /\ matches' = matches /\ requeues' \subseteq requeues
        /\ UNCHANGED <<gen, events, formed>>
    BY <1>4 DEF RequeueDone, rsVars
  <2> QED
    BY <2>1, MoveKeeps DEF MatchesMove
<1>5. CASE \E ev \in events : MatchFound(ev)
  <2>1. PICK ev \in events : MatchFound(ev)
    BY <1>5
  <2>2. /\ ev.id \in MatchIds /\ matches[ev.id] = NoMatch /\ \A r \in requeues : r.m # ev.id
        /\ ev.id <= formed /\ \A x \in events : x.id = ev.id => x = ev
    BY FreshMatch DEF AllOk, EventsFresh
  <2>3. events' = events \ {ev} /\ UNCHANGED <<gen, formed>>
    BY <2>1 DEF MatchFound
  <2>4. CASE ev.group \subseteq data /\ StartMatch(ev)
    <3>1. {p \in ev.group : activity[p] = NoClient} = {}
      BY <2>4, CalledIs
    <3>2. /\ matches' = [matches EXCEPT ![ev.id] =
                           [NoMatch EXCEPT !.phase = "accepting", !.group = ev.group]]
          /\ requeues' = requeues
      BY <2>4, <3>1 DEF StartMatch, reqVars
    <3>3. matches'[ev.id].phase = "accepting" /\ \A m \in MatchIds \ {ev.id} : matches'[m] = matches[m]
      BY <1>1, <2>2, <3>2 DEF TypeOK, NoMatch
    <3> QED
      BY <2>2, <2>3, <3>2, <3>3 DEF AllOk, MatchesLaw, Live, TypeOK
  <2>5. CASE DropMatch(ev)
    <3> DEFINE new(p) == [p |-> p, m |-> ev.id, tk |-> ev.tk, st |-> "sent", dels |-> 0]
               keep == {p \in ev.group : p \in data /\ entry[p] # NoEntry}
    <3>1. matches' = matches /\ requeues' = requeues \union {new(p) : p \in keep}
      BY <2>5 DEF DropMatch
    <3>2. \A p : new(p).m = ev.id
      OBVIOUS
    <3> HIDE DEF new, keep
    <3>3. \A r \in requeues' : r \in requeues \/ r.m = ev.id
      BY <3>1, <3>2
    <3>4. ~Live(ev.id)
      BY <2>2 DEF Live, NoMatch
    <3> QED
      BY <2>2, <2>3, <3>1, <3>3, <3>4 DEF AllOk, MatchesLaw, Live
  <2> QED
    BY <2>1, <2>4, <2>5 DEF MatchFound
<1>6. CASE \E m \in MatchIds : MatchStep(m)
  <2>1. PICK m \in MatchIds : MatchStep(m)
    BY <1>6
  <2>2. UNCHANGED <<gen, events, formed>>
    BY <2>1 DEF MatchStep, AcceptTimeout, MapPicked, MapFails, DraftDone, LoadSucceeds, LoadFails,
                matchOnlyUnchanged, rsVars
  <2> QED
    BY <1>1, <2>1, <2>2, RunMoves, MoveKeeps
<1>7. CASE WatchdogStep
  <2>1. UNCHANGED <<gen, matches, requeues, events, formed>>
    BY <1>7 DEF WatchdogStep, PollSend, WatchdogStops, PollAnswer, PollDone, pollUnchanged, reqVars,
                rsVars
  <2> QED
    BY <2>1, StillMoves, MoveKeeps
<1>8. CASE RsStep
  <2>1. CASE \E p \in Players : \E i \in 1..Len(wire[p]), fate \in Fates : RsReceive(p, i, fate)
    <3>1. UNCHANGED <<gen, events, formed>>
      BY <2>1 DEF RsReceive, clientVars
    <3> QED
      BY <1>1, <2>1, <3>1, ReceiveMoves, MoveKeeps
  <2>2. CASE \E group \in SUBSET Players : RsFormMatch(group)
    <3>1. PICK group \in SUBSET Players : RsFormMatch(group)
      BY <2>2
    <3> DEFINE ev == [id |-> formed + 1, group |-> group, tk |-> rsEpoch]
    <3>2. /\ events' = events \union {ev} /\ formed' = formed + 1
          /\ Cardinality(group) = MatchSize /\ UNCHANGED <<gen, matches, requeues>>
      BY <3>1 DEF RsFormMatch, clientVars, reqVars
    <3>3. ev.id = formed + 1 /\ ev.group = group
      OBVIOUS
    <3> HIDE DEF ev
    <3>4. formed \in Nat /\ \A r \in requeues : r.m \in Nat
      BY <1>1, BoundFacts DEF TypeOK
    <3>5. \A r \in requeues : r.m <= formed'
      BY <3>2, <3>4 DEF AllOk, MatchesLaw
    <3>6. \A r \in requeues : ev.id # r.m
      BY <3>3, <3>4 DEF AllOk, MatchesLaw
    <3> QED
      BY <3>2, <3>3, <3>5, <3>6 DEF AllOk, MatchesLaw, Live
  <2>3. CASE \E lost \in SUBSET events : RsRestart(lost)
    <3>1. UNCHANGED <<gen, matches, requeues, formed>> /\ events' \subseteq events
      BY <2>3 DEF RsRestart, clientVars, reqVars
    <3> QED
      BY <3>1, StillMoves, MoveKeeps
  <2> QED
    BY <1>8, <2>1, <2>2, <2>3 DEF RsStep
<1> QED
  BY <1>2, <1>3, <1>4, <1>5, <1>6, <1>7, <1>8 DEF Next

-----------------------------------------------------------------------------
(* The invariant.                                                           *)

LEMMA PInvInit == Init => PInv
<1> SUFFICES ASSUME Init PROVE PInv
  OBVIOUS
<1>1. IInv
  BY InitInvariant
<1>2. TokensLaw
  BY PollFacts DEF Init, TokensLaw, NoToken
<1>3. MatchesLaw
  BY DEF Init, MatchesLaw, NoClient
<1>4. ASSUME NEW p \in Players PROVE PlayerOk(p)
  <2>1. /\ RequeuesOf(p) = {} /\ CallsOf(p) = {} /\ SubsOf(p) = {} /\ wire[p] = <<>>
        /\ activity[p] = NoClient /\ entry[p] = NoEntry /\ p \notin data /\ ticket[p] = NoTicket
        /\ p \notin rsQueue
    BY <1>4 DEF Init, RequeuesOf, CallsOf, SubsOf
  <2>2. GamesOf(p) = {} /\ LeftBy(p) = {}
    BY DEF Init, GamesOf, LeftBy, NoMatch
  <2>3. \A k \in Slots : find[p][k] = FindIdle
    BY <1>4 DEF Init
  <2>4. Idle(p) /\ ~InPrep(p) /\ ~Past(p) /\ \A k \in Slots : ~Posts(p, k)
    BY <2>3, FindIdleIs DEF Idle, InPrep, Past, Posts
  <2>5. FindLaw(p)
    BY <2>3, FindIdleIs DEF FindLaw, FindPcs
  <2>6. NoEntry # Searching /\ NoTicket <= rsEpoch /\ ~Stale
    BY DEF Init, NoEntry, Searching, NoTicket, Stale
  <2>7. /\ RegisteredLaw(p) /\ PrepLaw(p) /\ PastLaw(p) /\ SubsLaw(p) /\ DataLaw(p) /\ GamesLaw(p)
        /\ RequeueLaw(p) /\ DeleteLaw(p) /\ QueuedLaw(p) /\ WatchLaw(p) /\ SearchLaw(p)
        /\ EpochLaw(p)
    BY <2>1, <2>2, <2>4, <2>6
    DEF RegisteredLaw, PrepLaw, PastLaw, SubsLaw, DataLaw, GamesLaw, RequeueLaw, DeleteLaw,
        QueuedLaw, WatchLaw, SearchLaw, EpochLaw
  <2>8. PlaceLaw(p)
    BY <2>1, <2>2, EmptyWire DEF PlaceLaw
  <2>9. WireLaw(p)
    BY <2>1, <2>4, EmptyWire DEF WireLaw
  <2> QED
    BY <2>5, <2>7, <2>8, <2>9 DEF PlayerOk
<1> QED
  BY <1>1, <1>2, <1>3, <1>4 DEF PInv

(* Every step keeps the laws of every player.                               *)
LEMMA PlayersStep ==
    ASSUME AllOk, TokensLaw, Prompted, Next
    PROVE  \A q \in Players : PlayerOk(q)'
<1>1. Prompt /\ QuietRestart /\ MaxLosses = 0
  BY DEF Prompted
<1>2. CASE \E p \in Players : ClientStep(p)
  BY <1>1, <1>2, ClientStepKeeps
<1>3. CASE \E p \in Players, k \in Slots : FindStep(p, k)
  BY <1>3, FindStepKeeps
<1>4. CASE \E r \in requeues : RequeueDone(r)
  BY <1>4, RequeueDoneKeeps
<1>5. CASE \E ev \in events : MatchFound(ev)
  BY <1>5, MatchFoundKeeps
<1>6. CASE \E m \in MatchIds : MatchStep(m)
  BY <1>1, <1>6, MatchStepKeeps
<1>7. CASE WatchdogStep
  BY <1>7, WatchdogStepKeeps
<1>8. CASE RsStep
  BY <1>1, <1>8, ReceiveKeeps, FormKeeps, RestartStepKeeps DEF RsStep
<1> QED
  BY <1>2, <1>3, <1>4, <1>5, <1>6, <1>7, <1>8 DEF Next

LEMMA PInvStep ==
    ASSUME Prompted, PInv, [Next]_vars
    PROVE  PInv'
<1>1. AllOk /\ TokensLaw
  BY DEF PInv, IInv, AllOk
<1>2. IInv'
  BY StepInvariant DEF PInv
<1>3. CASE Next
  BY <1>1, <1>2, <1>3, PlayersStep, TokensStep, MatchesStep DEF PInv
<1>4. CASE UNCHANGED vars
  <2>1. /\ UNCHANGED <<subbed, queueVars, matches, find, reqVars, wire, rsQueue, events>>
        /\ UNCHANGED <<token, watchdog, poll, rsEpoch, requeues, formed, gen>>
    BY <1>4 DEF vars, clientVars, queueVars, reqVars, tokenVars, rsVars
  <2>2. SameTokens /\ SameGroups
    BY <2>1 DEF SameTokens, SameGroups
  <2>3. \A q \in Players : PlayerOk(q)'
    BY <1>1, <2>1, <2>2, GroupsKeep
  <2> QED
    BY <1>1, <1>2, <2>1, <2>3, TokensSame, StillMoves, MoveKeeps DEF PInv
<1> QED
  BY <1>3, <1>4

(* With prompt messages the laws hold of every player at all times, for any   *)
(* number of players, finds, matches and restarts.                          *)
THEOREM PromptInvariant == Prompted => (Spec => []PInv)
<1> SUFFICES ASSUME Prompted PROVE Spec => []PInv
  OBVIOUS
<1>1. PInv /\ [Next]_vars => PInv'
  BY PInvStep
<1> QED
  BY <1>1, PInvInit, PTL DEF Spec

(* What the laws mean for the properties the runs check.                    *)
LEMMA PromptSafety ==
    ASSUME PInv
    PROVE  EntryIsRegistered /\ MembersCanAccept /\ QueuedHasData /\ SearchIsBacked
<1>1. \A p \in Players : PlayerOk(p)
  BY DEF PInv
<1>2. EntryHasData /\ Searching # NoEntry
  BY DEF PInv, IInv, Safe, Searching, NoEntry
<1>3. EntryIsRegistered
  BY <1>1 DEF PlayerOk, RegisteredLaw, EntryIsRegistered
<1>4. MembersCanAccept
  <2> SUFFICES ASSUME NEW m \in MatchIds, NEW p \in matches[m].group \ matches[m].ban
               PROVE  entry[p] = m /\ activity[p] # NoClient
    BY DEF MembersCanAccept
  <2>1. p \in Players /\ m \in GamesOf(p) /\ m \notin LeftBy(p)
    BY DEF PInv, IInv, TypeOK, GamesOf, LeftBy
  <2>2. entry[p] = m /\ m # NoEntry
    BY <1>1, <2>1, BoundFacts DEF PlayerOk, GamesLaw
  <2> QED
    BY <1>3, <2>1, <2>2 DEF EntryIsRegistered
<1>5. ASSUME NEW p \in Players, CallsOf(p) # {} \/ RequeuesOf(p) # {} \/ wire[p] # <<>>
      PROVE  InFlight(p)
  BY <1>5 DEF InFlight, CallsOf, RequeuesOf
<1>6. \A p \in Players : ~NoDeleteFor(p) => InFlight(p)
  BY <1>5, EmptyWire DEF NoDeleteFor
<1>7. QueuedHasData
  <2> SUFFICES ASSUME NEW p \in rsQueue PROVE p \in data \/ InFlight(p)
    BY DEF QueuedHasData
  <2>1. p \in Players
    BY DEF PInv, IInv, TypeOK
  <2> QED
    BY <1>1, <1>2, <1>6, <2>1 DEF PlayerOk, QueuedLaw, EntryHasData
<1>8. SearchIsBacked
  <2> SUFFICES ASSUME NEW p \in Players, entry[p] = Searching
               PROVE  p \in rsQueue \/ InFlight(p) \/ token # rsEpoch
    BY DEF SearchIsBacked, Backed
  <2>1. ~NoAsk(wire[p]) => wire[p] # <<>>
    BY EmptyWire
  <2>2. \/ p \in rsQueue \/ CallsOf(p) # {} \/ ~NoAsk(wire[p])
        \/ \E r \in RequeuesOf(p) : r.st = "err"
        \/ token # rsEpoch
    BY <1>1 DEF PlayerOk, SearchLaw
  <2> QED
    BY <1>5, <2>1, <2>2
<1> QED
  BY <1>3, <1>4, <1>7, <1>8

(* Whoever has a queue entry is registered as the active gameplay client, so  *)
(* cancel() and runMatch find a client for the entry.                       *)
THEOREM RegisteredUnderPromptness == Prompted => (Spec => []EntryIsRegistered)
BY PromptInvariant, PromptSafety, PTL

(* Whoever did not leave a running match still has its entry and a client: no *)
(* clean-up of an earlier search or match takes a member out of a new one.   *)
THEOREM MembersCanAcceptUnderPromptness == Prompted => (Spec => []MembersCanAccept)
BY PromptInvariant, PromptSafety, PTL

(* Whoever is in the Rust queue has queue data in Node, or something is in    *)
(* flight that settles the difference.                                      *)
THEOREM QueuedHasDataUnderPromptness == Prompted => (Spec => []QueuedHasData)
BY PromptInvariant, PromptSafety, PTL

(* Nobody searches for nothing: server-rs has the player, a message is in      *)
(* flight, or the watchdog is going to notice a restart.                    *)
THEOREM SearchIsBackedUnderPromptness == Prompted => (Spec => []SearchIsBacked)
BY PromptInvariant, PromptSafety, PTL

(* The watchdog ejects only players whom the running server-rs does not have  *)
(* in its queue, whatever restarts happened before its GET was answered.     *)
THEOREM KicksOnlyLostUnderPromptness == Prompted => (Spec => WatchdogKicksOnlyLost)
<1> SUFFICES ASSUME Prompted PROVE Spec => WatchdogKicksOnlyLost
  OBVIOUS
<1>1. ASSUME PInv, [Next]_vars
      PROVE  [PollDone /\ poll # PollFailed =>
                \A p \in Players : entry[p] = Searching /\ entry'[p] = NoEntry =>
                                     p \notin rsQueue]_vars
  BY <1>1, PollKeeps DEF PInv, IInv, AllOk
<1>2. Spec => []PInv
  BY PromptInvariant
<1> QED
  BY <1>1, <1>2, PTL DEF Spec, WatchdogKicksOnlyLost

-----------------------------------------------------------------------------
(* Matchmaking implements MatchPromise.                                     *)

PromiseStep == Promise!Next \/ UNCHANGED <<Statuses, Members>>

LEMMA StatusCases ==
    /\ NoEntry # Searching /\ \A m \in MatchIds : m # NoEntry /\ m # Searching
    /\ \A p \in Players : Statuses[p] = StatusOf(p)
    /\ \A m \in MatchIds : Members[m] = matches[m].group \ matches[m].ban
BY BoundFacts DEF NoEntry, Searching, Statuses, Members

(* Who a match still has.                                                   *)
LEMMA MembersAre ==
    ASSUME AllOk, NEW m \in MatchIds
    PROVE  /\ Members[m] \in SUBSET Players
           /\ \A p \in Players : p \in Members[m] <=> entry[p] = m
           /\ \A p \in matches[m].group \ Members[m] : entry[p] = NoEntry
<1>1. matches[m].group \in SUBSET Players /\ Members[m] = matches[m].group \ matches[m].ban
  BY StatusCases DEF AllOk, TypeOK
<1>2. ASSUME NEW p \in matches[m].group
      PROVE  IF p \in matches[m].ban THEN entry[p] = NoEntry ELSE entry[p] = m
  <2>1. p \in Players /\ m \in GamesOf(p) /\ (m \in LeftBy(p) <=> p \in matches[m].ban)
    BY <1>1 DEF GamesOf, LeftBy
  <2> QED
    BY <2>1 DEF AllOk, PlayerOk, GamesLaw
<1>3. ASSUME NEW p \in Players, entry[p] = m PROVE p \in matches[m].group
  BY <1>3 DEF AllOk, Safe, EntryNamesLiveMatch
<1> QED
  BY <1>1, <1>2, <1>3, StatusCases

(* The promise does not see the step.                                      *)
LEMMA StutterPromise ==
    ASSUME SameGroups, UNCHANGED entry
    PROVE  PromiseStep
<1>1. Members' = Members
  BY DEF SameGroups, Members
<1> QED
  BY <1>1 DEF PromiseStep, Statuses, StatusOf

(* Users who search or are idle are told that the search is over.           *)
LEMMA StopPromise ==
    ASSUME SameGroups, NEW P \in SUBSET Players,
           \A p \in P : entry[p] \in {NoEntry, Searching},
           \A p \in Players : entry'[p] = IF p \in P THEN NoEntry ELSE entry[p]
    PROVE  PromiseStep
<1> DEFINE S == {p \in P : entry[p] = Searching}
<1>1. Members' = Members
  BY DEF SameGroups, Members
<1>2. S \subseteq Promise!Of("searching")
  BY StatusCases DEF Promise!Of, StatusOf
<1>3. Statuses' = [p \in Players |-> IF p \in S THEN "idle" ELSE Statuses[p]]
  <2>1. ASSUME NEW p \in Players
        PROVE  StatusOf(p)' = IF p \in S THEN "idle" ELSE StatusOf(p)
    BY StatusCases DEF StatusOf
  <2> QED
    BY <2>1, StatusCases DEF Statuses
<1>4. S \in SUBSET Players
  OBVIOUS
<1> HIDE DEF S
<1>5. Promise!StopSearching(S)
  BY <1>1, <1>2, <1>3 DEF Promise!StopSearching
<1> QED
  BY <1>4, <1>5 DEF PromiseStep, Promise!Next

(* A match is over.                                                         *)
LEMMA EndPromise ==
    ASSUME AllOk, NEW m \in MatchIds, NEW out \in SUBSET Members[m],
           matches' = [matches EXCEPT ![m] = NoMatch],
           \A p \in Players : entry'[p] = IF p \in out THEN NoEntry
                                          ELSE IF p \in Members[m] THEN Searching ELSE entry[p]
    PROVE  PromiseStep
<1>1. Members' = [Members EXCEPT ![m] = {}]
  BY DEF AllOk, TypeOK, Members, NoMatch
<1>2. Statuses' = [p \in Players |-> IF p \in out THEN "idle"
                                     ELSE IF p \in Members[m] THEN "searching" ELSE Statuses[p]]
  <2>1. ASSUME NEW p \in Players
        PROVE  StatusOf(p)' = IF p \in out THEN "idle"
                              ELSE IF p \in Members[m] THEN "searching" ELSE StatusOf(p)
    BY StatusCases DEF StatusOf
  <2> QED
    BY <2>1, StatusCases DEF Statuses
<1>3. Promise!End(m, out)
  BY <1>1, <1>2 DEF Promise!End
<1> QED
  BY <1>3 DEF PromiseStep, Promise!Next

(* runMatch fails a match.                                                  *)
LEMMA FailPromise ==
    ASSUME AllOk, NEW m \in MatchIds, NEW ban \in SUBSET matches[m].group,
           FailMatch(m, matches[m].group, ban, ticket)
    PROVE  PromiseStep
<1> DEFINE out == Members[m] \cap ban
<1>1. TypeOK /\ Safe
  BY DEF AllOk
<1>2. ASSUME NEW p \in Players
      PROVE  entry'[p] = IF p \in out THEN NoEntry
                         ELSE IF p \in Members[m] THEN Searching ELSE entry[p]
  <2>1. FailEffect(m, ban, p)
    BY <1>1, FailMatchIs DEF AllOk
  <2>2. p \in Members[m] => p \in matches[m].group /\ entry[p] = m /\ m # NoEntry
    BY MembersAre, StatusCases
  <2>3. p \in matches[m].group /\ p \notin Members[m] => entry[p] = NoEntry
    BY MembersAre
  <2> QED
    BY <2>1, <2>2, <2>3 DEF FailEffect, SameEntry
<1>3. matches' = [matches EXCEPT ![m] = NoMatch] /\ out \in SUBSET Members[m]
  BY DEF FailMatch
<1> HIDE DEF out
<1> QED
  BY <1>2, <1>3, EndPromise

LEMMA FailBanPromise ==
    ASSUME AllOk, NEW m \in MatchIds, NEW S \in SUBSET matches[m].group, Fail(m, S)
    PROVE  PromiseStep
<1> DEFINE ban == matches[m].ban \union S
<1>1. ban \in SUBSET matches[m].group /\ FailMatch(m, matches[m].group, ban, ticket)
  BY BannedAre DEF Fail
<1> HIDE DEF ban
<1> QED
  BY <1>1, FailPromise

(* removeClientFromMatchmaking.                                            *)
LEMMA RemovePromise ==
    ASSUME AllOk, NEW p \in Players, RemoveClient(p)
    PROVE  PromiseStep
<1>1. TypeOK /\ EntryNamesLiveMatch
  BY DEF AllOk, Safe
<1>2. CASE UNCHANGED <<entry, matches>>
  BY <1>2, StutterPromise DEF SameGroups
<1>3. CASE /\ entry[p] = Searching /\ entry' = [entry EXCEPT ![p] = NoEntry]
           /\ UNCHANGED matches
  <2>1. \A q \in Players : entry'[q] = IF q \in {p} THEN NoEntry ELSE entry[q]
    BY <1>1, <1>3 DEF TypeOK
  <2> QED
    BY <1>3, <2>1, StopPromise DEF SameGroups
<1>4. CASE /\ entry[p] \in MatchIds
           /\ FailMatch(entry[p], matches[entry[p]].group, matches[entry[p]].ban \union {p}, ticket)
  <2> DEFINE m == entry[p]
             ban == matches[m].ban \union {p}
  <2>1. /\ m \in MatchIds /\ FailMatch(m, matches[m].group, ban, ticket)
        /\ ban \in SUBSET matches[m].group
    BY <1>1, <1>4, BannedAre DEF EntryNamesLiveMatch
  <2> HIDE DEF m, ban
  <2> QED
    BY <2>1, FailPromise
<1>5. CASE /\ entry[p] \in MatchIds /\ entry' = [entry EXCEPT ![p] = NoEntry]
           /\ matches' = IF Live(entry[p])
                           THEN [matches EXCEPT ![entry[p]].ban = @ \union {p}] ELSE matches
  <2> DEFINE m == entry[p]
  <2>1. m \in MatchIds /\ p \in Members[m] /\ Live(m)
    BY <1>1, <1>5, MembersAre DEF EntryNamesLiveMatch
  <2>2. PICK o : o = [matches[m] EXCEPT !.ban = @ \union {p}]
    OBVIOUS
  <2>3. matches[m] \in [phase : Phases, group : SUBSET Players,
                        accepted : SUBSET Players, ban : SUBSET Players]
    BY <1>1, <2>1 DEF TypeOK
  <2>4. o.group = matches[m].group /\ o.ban = matches[m].ban \union {p}
    BY <2>2, <2>3
  <2>5. matches' = [matches EXCEPT ![m] = o]
    BY <1>5, <2>1, <2>2
  <2>6. Members' = [Members EXCEPT ![m] = @ \ {p}]
    BY <1>1, <2>1, <2>4, <2>5 DEF TypeOK, Members
  <2>7. Statuses' = [Statuses EXCEPT ![p] = "idle"]
    BY <1>1, <1>5 DEF TypeOK, Statuses, StatusOf
  <2>8. Promise!Desert(m, p)
    BY <2>1, <2>6, <2>7 DEF Promise!Desert
  <2> QED
    BY <2>1, <2>8 DEF PromiseStep, Promise!Next
<1> QED
  BY <1>2, <1>3, <1>4, <1>5 DEF RemoveClient

LEMMA ClientPromise ==
    ASSUME AllOk, NEW p \in Players, ClientStep(p)
    PROVE  PromiseStep
<1>1. CASE Connect(p)
  BY <1>1, StutterPromise DEF Connect, SameGroups, queueVars
<1>2. CASE Disconnect(p)
  BY <1>2, RemovePromise, StutterPromise DEF Disconnect, SameGroups, queueVars
<1>3. CASE Cancel(p)
  BY <1>3, RemovePromise DEF Cancel
<1>4. CASE Accept(p)
  <2> DEFINE m == entry[p]
             acc == matches[m].accepted \union {p}
  <2>1. m \in MatchIds
    BY <1>4 DEF Accept
  <2>2. PICK o : o = [matches[m] EXCEPT !.accepted = acc,
                        !.phase = IF acc = matches[m].group THEN "map" ELSE @]
    OBVIOUS
  <2>3. matches[m] \in [phase : Phases, group : SUBSET Players,
                        accepted : SUBSET Players, ban : SUBSET Players]
    BY <2>1 DEF AllOk, TypeOK
  <2>4. o.group = matches[m].group /\ o.ban = matches[m].ban
    BY <2>2, <2>3
  <2>5. matches' = [matches EXCEPT ![m] = o] /\ entry' = entry
    BY <1>4, <2>1, <2>2 DEF AllOk, Accept, TypeOK, queueVars
  <2> QED
    BY <2>1, <2>4, <2>5, StutterPromise DEF AllOk, TypeOK, SameGroups
<1> QED
  BY <1>1, <1>2, <1>3, <1>4 DEF ClientStep

LEMMA FindPromise ==
    ASSUME AllOk, NEW p \in Players, NEW k \in Slots, FindStep(p, k)
    PROVE  PromiseStep
<1>1. ASSUME FinishFind(p, k) PROVE PromiseStep
  BY <1>1, RemovePromise, StutterPromise DEF FinishFind, SameGroups, queueVars
<1>2. CASE FindQueued(p, k) \/ FindBaseline(p, k)
  BY <1>1, <1>2, StutterPromise DEF FindQueued, FindBaseline, SameGroups, queueVars
<1>3. CASE FindFailed(p, k)
  BY <1>3, CallIs DEF FindFailed
<1>4. CASE FindPost(p, k)
  <2>1. /\ find[p][k].pc = "prep" /\ entry' = [entry EXCEPT ![p] = Searching]
        /\ UNCHANGED matches
    BY <1>4 DEF FindPost
  <2>2. entry[p] = NoEntry
    BY <2>1 DEF AllOk, PlayerOk, PrepLaw, InPrep
  <2>3. Statuses[p] = "idle" /\ Statuses' = [Statuses EXCEPT ![p] = "searching"]
    BY <2>1, <2>2, StatusCases DEF AllOk, TypeOK, Statuses, StatusOf
  <2>4. Members' = Members
    BY <2>1 DEF Members
  <2>5. Promise!Search(p)
    BY <2>3, <2>4 DEF Promise!Search
  <2> QED
    BY <2>5 DEF PromiseStep, Promise!Next
<1>5. CASE FindStart(p, k) \/ FindPrepFails(p, k) \/ FindRetry(p, k) \/ FindToken(p, k)
  BY <1>5, StutterPromise
  DEF FindStart, FindPrepFails, FindRetry, FindToken, SameGroups, queueVars
<1> QED
  BY <1>2, <1>3, <1>4, <1>5 DEF FindStep

LEMMA FoundPromise ==
    ASSUME AllOk, NEW ev \in events, MatchFound(ev)
    PROVE  PromiseStep
<1>1. /\ ev.id \in MatchIds /\ matches[ev.id] = NoMatch /\ ev.group \in SUBSET Players
      /\ Cardinality(ev.group) = MatchSize
  BY FreshMatch DEF AllOk, MatchesLaw
<1>2. CASE ev.group \subseteq data /\ StartMatch(ev)
  <2>1. \A p \in ev.group : activity[p] # NoClient /\ entry[p] = Searching
    BY <1>2, CalledIs
  <2>2. {p \in ev.group : activity[p] = NoClient} = {}
    BY <2>1
  <2>3. /\ entry' = [p \in Players |-> IF p \in ev.group /\ entry[p] # NoEntry
                                         THEN ev.id ELSE entry[p]]
        /\ matches' = [matches EXCEPT ![ev.id] =
                         [NoMatch EXCEPT !.phase = "accepting", !.group = ev.group]]
    BY <1>2, <2>2 DEF StartMatch
  <2>4. /\ \A n \in MatchIds \ {ev.id} : matches'[n] = matches[n]
        /\ matches'[ev.id].group = ev.group /\ matches'[ev.id].ban = {}
    BY <1>1, <2>3 DEF AllOk, TypeOK, NoMatch
  <2>5. Members[ev.id] = {} /\ Members' = [Members EXCEPT ![ev.id] = ev.group]
    <3>1. ASSUME NEW n \in MatchIds
          PROVE  (matches[n].group \ matches[n].ban)' = IF n = ev.id THEN ev.group ELSE Members[n]
      BY <1>1, <2>4, StatusCases
    <3>2. matches[ev.id].group = {}
      BY <1>1 DEF NoMatch
    <3>3. Members[ev.id] = {}
      BY <1>1, <3>2, StatusCases
    <3>4. Members' = [n \in MatchIds |-> IF n = ev.id THEN ev.group ELSE Members[n]]
      BY <3>1 DEF Members
    <3>5. [Members EXCEPT ![ev.id] = ev.group]
            = [n \in MatchIds |-> IF n = ev.id THEN ev.group ELSE Members[n]]
      BY DEF Members
    <3> QED
      BY <3>3, <3>4, <3>5
  <2>6. ev.group \subseteq Promise!Available
    BY <1>1, <2>1, StatusCases DEF Promise!Available, Promise!Of, StatusOf
  <2>7. Statuses' = [p \in Players |-> IF p \in ev.group THEN "matched" ELSE Statuses[p]]
    <3>1. ASSUME NEW p \in Players
          PROVE  StatusOf(p)' = IF p \in ev.group THEN "matched" ELSE StatusOf(p)
      BY <1>1, <2>1, <2>3, StatusCases DEF StatusOf
    <3> QED
      BY <3>1, StatusCases DEF Statuses
  <2>8. Promise!Cardinality(ev.group) = MatchSize
    BY <1>1 DEF Promise!Cardinality, Cardinality
  <2>9. Promise!Form(ev.id, ev.group)
    BY <2>5, <2>6, <2>7, <2>8 DEF Promise!Form
  <2> QED
    BY <1>1, <2>9 DEF PromiseStep, Promise!Next
<1>3. CASE DropMatch(ev)
  <2> DEFINE gone == ev.group \ {p \in ev.group : p \in data /\ entry[p] # NoEntry}
  <2>1. entry' = EntryWithout(gone) /\ matches' = matches
    BY <1>3 DEF DropMatch
  <2>2. gone \in SUBSET Players /\ \A p \in gone : entry[p] \in {NoEntry, Searching}
    BY <1>1, CalledIs
  <2> HIDE DEF gone
  <2>3. \A p \in Players : entry'[p] = IF p \in gone THEN NoEntry ELSE entry[p]
    BY <2>1 DEF EntryWithout
  <2> QED
    BY <2>1, <2>2, <2>3, StopPromise DEF SameGroups
<1> QED
  BY <1>2, <1>3 DEF MatchFound

LEMMA RunPromise ==
    ASSUME AllOk, NEW m \in MatchIds, MatchStep(m)
    PROVE  PromiseStep
<1>1. TypeOK
  BY DEF AllOk
<1>2. ASSUME NEW ph, matches' = [matches EXCEPT ![m].phase = ph], UNCHANGED queueVars
      PROVE  PromiseStep
  BY <1>1, <1>2, PhaseGroups, StutterPromise DEF queueVars
<1>3. ASSUME BeginLoad(m) PROVE PromiseStep
  <2>1. {p \in matches[m].group : activity[p] = NoClient} \in SUBSET matches[m].group
    OBVIOUS
  <2> QED
    BY <1>2, <1>3, <2>1, FailBanPromise DEF BeginLoad
<1>4. CASE AcceptTimeout(m)
  <2>1. (matches[m].group \ matches[m].accepted) \in SUBSET matches[m].group
    OBVIOUS
  <2> QED
    BY <1>4, <2>1, FailPromise DEF AcceptTimeout
<1>5. {} \in SUBSET matches[m].group
  OBVIOUS
<1>6. CASE MapPicked(m)
  BY <1>2, <1>3, <1>5, <1>6, FailBanPromise DEF MapPicked
<1>7. CASE MapFails(m) \/ DraftDone(m) \/ \E blamed \in SUBSET matches[m].group : LoadFails(m, blamed)
  BY <1>3, <1>5, <1>7, FailBanPromise DEF MapFails, DraftDone, LoadFails
<1>8. CASE LoadSucceeds(m)
  <2>1. /\ entry' = EntryWithout(matches[m].group)
        /\ matches' = [matches EXCEPT ![m] = NoMatch]
    BY <1>8 DEF LoadSucceeds
  <2>2. ASSUME NEW p \in Players
        PROVE  entry'[p] = IF p \in Members[m] THEN NoEntry
                           ELSE IF p \in Members[m] THEN Searching ELSE entry[p]
    <3>1. p \in Members[m] => p \in matches[m].group
      BY StatusCases
    <3> QED
      BY <2>1, <3>1, MembersAre DEF EntryWithout
  <2>3. Members[m] \in SUBSET Members[m]
    OBVIOUS
  <2> QED
    BY <2>1, <2>2, <2>3, EndPromise
<1> QED
  BY <1>4, <1>6, <1>7, <1>8 DEF MatchStep

LEMMA AnswerPromise ==
    ASSUME AllOk, NEW r \in requeues, RequeueDone(r)
    PROVE  PromiseStep
<1> DEFINE P == IF r.st = "err" THEN {r.p} ELSE {}
<1>1. /\ entry' = EntryWithout(P) /\ matches' = matches
  BY DEF RequeueDone, EjectAnd
<1>2. P \in SUBSET Players /\ \A p \in P : entry[p] \in {NoEntry, Searching}
  <2> SUFFICES ASSUME r.st = "err"
               PROVE  r.p \in Players /\ entry[r.p] \in {NoEntry, Searching}
    OBVIOUS
  <2>1. r.p \in Players /\ r \in RequeuesOf(r.p) /\ TypeOK /\ EntryNamesLiveMatch
    BY DEF AllOk, TypeOK, RequeuesOf, Safe
  <2>2. PlayerOk(r.p)
    BY <2>1 DEF AllOk
  <2>3. GamesOf(r.p) = {}
    BY <2>1, <2>2 DEF PlayerOk, RequeueLaw
  <2> QED
    BY <2>1, <2>3, SearcherPlace
<1> HIDE DEF P
<1>3. \A p \in Players : entry'[p] = IF p \in P THEN NoEntry ELSE entry[p]
  BY <1>1 DEF EntryWithout
<1> QED
  BY <1>1, <1>2, <1>3, StopPromise DEF SameGroups

LEMMA WatchdogPromise ==
    ASSUME AllOk, WatchdogStep
    PROVE  PromiseStep
<1>1. CASE UNCHANGED entry
  BY <1>1, StutterPromise
  DEF WatchdogStep, PollSend, WatchdogStops, PollAnswer, PollDone, pollUnchanged, SameGroups
<1>2. CASE PollDone /\ entry' # entry
  <2>1. PICK P \in {{}, SearchingPlayers} : EjectAnd(P, NoDeletes)
    <3>1. \/ EjectAnd(SearchingPlayers, NoDeletes)
          \/ EjectAnd(IF TokenChanged THEN SearchingPlayers ELSE {}, NoDeletes)
      BY <1>2 DEF PollDone, queueVars
    <3> QED
      BY <3>1
  <2>2. P \in SUBSET Players /\ \A p \in P : entry[p] \in {NoEntry, Searching}
    BY <2>1 DEF SearchingPlayers
  <2>3. \A p \in Players : entry'[p] = IF p \in P THEN NoEntry ELSE entry[p]
    BY <2>1 DEF EjectAnd, EntryWithout
  <2>4. SameGroups
    BY <1>2 DEF PollDone, pollUnchanged, SameGroups
  <2> QED
    BY <2>2, <2>3, <2>4, StopPromise
<1>3. PollSend \/ WatchdogStops \/ PollAnswer => entry' = entry
  BY DEF PollSend, WatchdogStops, PollAnswer, queueVars
<1> QED
  BY <1>1, <1>2, <1>3 DEF WatchdogStep

(* Every step maps to a step of the promise or to a stutter.                 *)
LEMMA StepPromise ==
    ASSUME PInv, [Next]_vars
    PROVE  [Promise!Next]_<<Statuses, Members>>
<1> SUFFICES PromiseStep
  BY DEF PromiseStep
<1>1. AllOk
  BY DEF PInv, IInv, AllOk
<1>2. CASE RsStep \/ UNCHANGED vars
  <2>1. UNCHANGED <<queueVars, matches>>
    BY <1>2 DEF RsStep, RsReceive, RsFormMatch, RsRestart, vars
  <2> QED
    BY <2>1, StutterPromise DEF queueVars, SameGroups
<1>3. CASE \E p \in Players : ClientStep(p)
  BY <1>1, <1>3, ClientPromise
<1>4. CASE \E p \in Players, k \in Slots : FindStep(p, k)
  BY <1>1, <1>4, FindPromise
<1>5. CASE \E r \in requeues : RequeueDone(r)
  BY <1>1, <1>5, AnswerPromise
<1>6. CASE \E ev \in events : MatchFound(ev)
  BY <1>1, <1>6, FoundPromise
<1>7. CASE \E m \in MatchIds : MatchStep(m)
  BY <1>1, <1>7, RunPromise
<1>8. CASE WatchdogStep
  BY <1>1, <1>8, WatchdogPromise
<1> QED
  BY <1>2, <1>3, <1>4, <1>5, <1>6, <1>7, <1>8 DEF Next

(* The service implements MatchPromise: a match takes searching users only,   *)
(* all of them at once, a user is in one match at a time, and when a match is *)
(* over each member it still has launched, left or searches again.           *)
THEOREM KeepsPromiseUnderPromptness == Prompted => (Spec => KeepsPromise)
<1> SUFFICES ASSUME Prompted PROVE Spec => KeepsPromise
  OBVIOUS
<1>1. Init => Promise!Init
  <2> SUFFICES ASSUME Init PROVE Promise!Init
    OBVIOUS
  <2>1. Statuses = [p \in Players |-> "idle"]
    BY DEF Init, Statuses, StatusOf
  <2>2. Members = [m \in MatchIds |-> {}]
    BY DEF Init, Members, NoMatch
  <2> QED
    BY <2>1, <2>2 DEF Promise!Init
<1>2. Spec => []PInv
  BY PromptInvariant
<1>3. PInv /\ [Next]_vars => [Promise!Next]_<<Statuses, Members>>
  BY StepPromise
<1> QED
  BY <1>1, <1>2, <1>3, PTL DEF Spec, KeepsPromise, Promise!Spec, Promise!vars

=============================================================================
