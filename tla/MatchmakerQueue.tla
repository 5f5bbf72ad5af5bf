-------------------------- MODULE MatchmakerQueue --------------------------
(***************************************************************************)
(* The queue inside server-rs: Matchmaker in                                *)
(* server-rs/src/matchmaking/matchmaker.rs and the handlers of api.rs that   *)
(* call it under one mutex, so every handler and every search tick is one    *)
(* action.  Whether a roster is good enough, and which of two is better, is  *)
(* abstracted: a tick proposes any rosters of queued players, in any order   *)
(* that keeps the proposals of a mode together.  Of a mode's smoothed         *)
(* population, which only moves the quality threshold, the model keeps        *)
(* whether there is one yet.                                                *)
(***************************************************************************)
EXTENDS Integers, Sequences, FiniteSets

CONSTANTS
    Ids,           \* users
    Modes,         \* MatchmakingType
    Size,          \* Size[m]: mode.total_players()
    Examined,      \* max_players_examined
    Window,        \* POPULATION_WINDOW, in clock ticks
    Grain,         \* clock ticks per millisecond
    MaxTime,       \* bound: clock ticks in a behaviour
    MaxEntries,    \* bound: players that enter the queue, requeues included
    MaxProposals,  \* bound: qualifying rosters of one search tick
    MaxStarts      \* bound: processes, one after the other

ASSUME ModesAssumption == Size \in [Modes -> Nat \ {0}]
ASSUME ClockAssumption ==
    /\ Window \in Nat \ {0} /\ Grain \in Nat \ {0} /\ MaxTime \in Nat
    /\ Examined \in Nat /\ MaxEntries \in Nat /\ MaxProposals \in Nat
    /\ MaxStarts \in Nat

VARIABLES
    now,           \* the monotonic clock
    start,         \* Matchmaker.start
    process,       \* process_token, as the number of the process
    queue,         \* the entries: id, queue_time and modes
    ids,           \* queued_player_ids
    sizes,         \* queue_sizes
    peak,          \* population_peak
    windowStart,   \* population_window_start
    seeded,        \* the modes that have a population_estimate
    tickets,       \* the tickets of the players matched so far
    formed,        \* the matches of the latest tick
    entered        \* players that entered the queue so far

population == <<peak, windowStart, seeded>>
vars == <<now, start, process, queue, ids, sizes, population, tickets, formed, entered>>

Times   == 0..MaxTime
ModeSets == SUBSET Modes \ {{}}
Entries == [id : Ids, time : Times, modes : ModeSets]
Tickets == [id : Ids, ms : Nat, modes : ModeSets, process : Nat]
Candidates == {c \in [mode : Modes, ids : SUBSET Ids] : Cardinality(c.ids) = Size[c.mode]}

InMode(m) == {queue[i].id : i \in {j \in DOMAIN queue : m \in queue[j].modes}}

-----------------------------------------------------------------------------
MayJoin(id) == id \notin ids

(* create_entry_and_update_modes for a player of the modes M.               *)
CountIn(id, M) ==
    /\ MayJoin(id) /\ entered < MaxEntries
    /\ ids' = ids \union {id}
    /\ sizes' = [m \in Modes |-> IF m \in M THEN sizes[m] + 1 ELSE sizes[m]]
    /\ peak' = [m \in Modes |-> IF m \in M /\ sizes[m] + 1 > peak[m]
                                  THEN sizes[m] + 1 ELSE peak[m]]
    /\ entered' = entered + 1
    /\ UNCHANGED <<now, start, process, windowStart, seeded, tickets, formed>>

Insert(id, M) ==
    /\ CountIn(id, M)
    /\ queue' = Append(queue, [id |-> id, time |-> now, modes |-> M])

Last(t) == {Len(queue) + 1}       \* mutant of Positions: to the end of the queue

(* Where binary_search_by_key may place queue_time t: in front of an entry of *)
(* the same time, else between the earlier and the later ones.               *)
Positions(t) ==
    {i \in 1..(Len(queue) + 1) :
        /\ \A j \in 1..(i - 1) : queue[j].time <= t
        /\ \A j \in i..Len(queue) : queue[j].time >= t
        /\ (\E j \in DOMAIN queue : queue[j].time = t)
              => i <= Len(queue) /\ queue[i].time = t}

(* A ticket of another process is refused.                                  *)
Valid(tk) == tk.process = process

(* requeue_player: queue_time is read back from the ticket's milliseconds.   *)
Requeue(tk) ==
    LET t == start + tk.ms * Grain IN
    /\ Valid(tk)
    /\ CountIn(tk.id, tk.modes)
    /\ \E i \in Positions(t) :
          queue' = SubSeq(queue, 1, i - 1)
                     \o <<[id |-> tk.id, time |-> t, modes |-> tk.modes]>>
                     \o SubSeq(queue, i, Len(queue))

\* mutant of CountedModes: the sizes stay up
UncountedModes(e) == {}

CountedModes(e) == e.modes

(* remove_player, the cancel handler.                                       *)
Remove(id) ==
    \E i \in DOMAIN queue :
        /\ queue[i].id = id
        /\ queue' = SubSeq(queue, 1, i - 1) \o SubSeq(queue, i + 1, Len(queue))
        /\ ids' = ids \ {id}
        /\ sizes' = [m \in Modes |-> IF m \in CountedModes(queue[i])
                                       THEN sizes[m] - 1 ELSE sizes[m]]
        /\ UNCHANGED <<now, start, process, population, tickets, formed, entered>>

-----------------------------------------------------------------------------
NextPeak(m) == 0                  \* mutant of LivePeak: the peak restarts at 0
LivePeak(m) == sizes[m]           \* the peak a new window starts from

(* update_population_estimates: fold every window that has passed.  The peak  *)
(* that begins the next window is the size before this tick's matches leave.  *)
FoldWindows ==
    LET passed == (now - windowStart) \div Window
    IN  \/ passed = 0 /\ UNCHANGED population
        \/ /\ passed > 0
           /\ windowStart' = windowStart + passed * Window
           /\ peak' = [m \in Modes |-> LivePeak(m)]
           /\ seeded' = seeded \union {m \in Modes : peak[m] > 0}

(* The rosters find_match_candidates_for_modes may propose.  A mode is        *)
(* searched only if its size says that it has enough players, and only       *)
(* Examined of them are looked at.                                           *)
Proposable(cands) ==
    /\ \A i \in DOMAIN cands :
          LET c == cands[i] IN
          /\ sizes[c.mode] >= Size[c.mode]
          /\ c.ids \subseteq InMode(c.mode)
    /\ \A m \in Modes :
          Cardinality(UNION {cands[i].ids : i \in {j \in DOMAIN cands : cands[j].mode = m}})
             <= Examined
    /\ \A i, j, k \in DOMAIN cands :
          i < j /\ j < k /\ cands[i].mode = cands[k].mode => cands[j].mode = cands[i].mode

\* mutant of Claims: a roster may hold a claimed player
ClaimsAll(cands, kept) == kept = DOMAIN cands

(* The proposals kept are those that share no player with a kept one before.  *)
Claims(cands, kept) ==
    \A i \in DOMAIN cands :
        i \in kept <=> \A j \in kept : j < i => cands[i].ids \cap cands[j].ids = {}

(* The tickets of the matched players: build_ticket rounds the time down.     *)
TicketOf(e) ==
    [id |-> e.id, ms |-> (e.time - start) \div Grain, modes |-> e.modes,
     process |-> process]

(* What remains of the queue once the claimed players are drained from it.    *)
Remaining(q, claimed) ==
    LET kept[i \in 0..Len(q)] ==
          IF i = 0 THEN <<>>
          ELSE IF q[i].id \in claimed THEN kept[i - 1] ELSE Append(kept[i - 1], q[i])
    IN  kept[Len(q)]

(* run_tick, and build_ticket for the players of the matches.                *)
Tick(cands) ==
    /\ FoldWindows
    /\ Proposable(cands)
    /\ \E kept \in SUBSET DOMAIN cands :
         LET claimed == UNION {cands[i].ids : i \in kept}
             leaving == {e \in {queue[i] : i \in DOMAIN queue} : e.id \in claimed}
         IN  /\ Claims(cands, kept)
             /\ formed' = {cands[i] : i \in kept}
             /\ queue' = Remaining(queue, claimed)
             /\ ids' = ids \ claimed
             /\ sizes' = [m \in Modes |->
                            sizes[m] - Cardinality({e \in leaving : m \in e.modes})]
             /\ tickets' = tickets \union {TicketOf(e) : e \in leaving}
    /\ UNCHANGED <<now, start, process, entered>>

Advance ==
    /\ now < MaxTime
    /\ now' = now + 1
    /\ UNCHANGED <<start, process, queue, ids, sizes, population, tickets, formed, entered>>

(* The process dies and another takes its place.                            *)
Restart ==
    /\ process < MaxStarts
    /\ process' = process + 1
    /\ start' = now /\ windowStart' = now
    /\ queue' = <<>> /\ ids' = {} /\ formed' = {}
    /\ sizes' = [m \in Modes |-> 0] /\ peak' = [m \in Modes |-> 0]
    /\ seeded' = {}
    /\ UNCHANGED <<now, tickets, entered>>

-----------------------------------------------------------------------------
Init ==
    /\ now = 0 /\ start = 0 /\ process = 1 /\ windowStart = 0
    /\ queue = <<>> /\ ids = {} /\ formed = {} /\ tickets = {} /\ entered = 0
    /\ sizes = [m \in Modes |-> 0] /\ peak = [m \in Modes |-> 0]
    /\ seeded = {}

Proposals == UNION {[1..n -> Candidates] : n \in 0..MaxProposals}

Next ==
    \/ \E id \in Ids, M \in ModeSets : Insert(id, M)
    \/ \E tk \in tickets : Requeue(tk)
    \/ \E id \in Ids : Remove(id)
    \/ \E cands \in Proposals : Tick(cands)
    \/ Advance
    \/ Restart

Spec == Init /\ [][Next]_vars

-----------------------------------------------------------------------------
TypeOK ==
    /\ now \in Times /\ start \in Times /\ windowStart \in Times
    /\ process \in Nat /\ entered \in Nat
    /\ queue \in Seq(Entries)
    /\ ids \subseteq Ids
    /\ sizes \in [Modes -> Nat]
    /\ peak \in [Modes -> Nat]
    /\ seeded \subseteq Modes
    /\ tickets \subseteq Tickets
    /\ formed \subseteq Candidates

(* The id set that answers AlreadyInQueue is exactly who is in the queue, nobody *)
(* is in it twice, and the sizes, which decide whether a mode is searched at    *)
(* all and which a usize could not hold below zero, count the queued players.   *)
CountsAgree ==
    /\ ids = {queue[i].id : i \in DOMAIN queue}
    /\ \A i, j \in DOMAIN queue : queue[i].id = queue[j].id => i = j
    /\ \A m \in Modes : sizes[m] = Cardinality(InMode(m))

(* The queue is ordered by queue_time, as requeue_player's binary search      *)
(* presumes, so a requeued player stands before everyone who came later; and   *)
(* no queue_time lies before the process started or in the future.           *)
QueueSorted ==
    /\ \A i, j \in DOMAIN queue : i < j => queue[i].time <= queue[j].time
    /\ \A i \in DOMAIN queue : queue[i].time \in start..now

(* Between two folds the peak covers every size the mode had: the threshold   *)
(* is not relaxed because the matches of busy minutes drain the queue.       *)
PeakCoversWindow ==
    [][\A m \in Modes : /\ peak'[m] >= sizes'[m]
                        /\ windowStart' = windowStart /\ process' = process
                             => peak'[m] >= peak[m]]_vars

Entry(q) == {q[i] : i \in DOMAIN q}

(* Who leaves the queue in a tick leaves it into exactly one match of a mode  *)
(* they queued for; the others stay as they are, in the order they were in.   *)
TickConserves ==
    [][formed' # formed /\ process' = process =>
         /\ \A c \in formed' : c.ids \subseteq InMode(c.mode)
         /\ \A c, d \in formed' : c # d => c.ids \cap d.ids = {}
         /\ ids' = ids \ UNION {c.ids : c \in formed'}
         /\ Entry(queue') = {e \in Entry(queue) : e.id \in ids'}
         /\ \A i, j \in DOMAIN queue' : i < j =>
               \E k, l \in DOMAIN queue :
                  k < l /\ queue[k] = queue'[i] /\ queue[l] = queue'[j]]_vars

=============================================================================
