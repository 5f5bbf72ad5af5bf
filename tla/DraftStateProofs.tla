-------------------------- MODULE DraftStateProofs --------------------------
(* DraftState keeps its pick order, its clock and its locks, for teams of any *)
(* size and any set of races.                                               *)
EXTENDS DraftState, TLAPS, WellFoundedInduction

(* The first n picks are locked, and no others.                             *)
LockedUpTo(n) == \A i \in Turns : Picker(i) \in locked <=> i <= n

(* What the draft waits for while it runs: the first pick, the pick of the     *)
(* current player, or the pause after it.                                   *)
AtStart == /\ timers = {<<"start", NoTurn>>} /\ pickTimeout = NoTurn /\ current = NoTurn
           /\ LockedUpTo(0)
AtPick(i) == /\ timers = {<<"pick", i>>} /\ pickTimeout = i /\ current = i
             /\ LockedUpTo(i - 1)
AtPause(i) == /\ timers = {<<"pause", i>>} /\ pickTimeout = NoTurn /\ current = i
              /\ LockedUpTo(i)

ClockInv ==
    /\ result = "none" => timers = {} /\ pickTimeout = NoTurn /\ current = NoTurn /\ LockedUpTo(0)
    /\ result = "running" => AtStart \/ \E i \in Turns : AtPick(i) \/ AtPause(i)
    /\ result \in {"done", "failed"} =>
          timers = {} /\ pickTimeout = NoTurn /\ \E n \in Turns \union {0} : LockedUpTo(n)
    /\ result = "done" => locked = Players

IInv == TypeOK /\ ClockInv

(* Every player has exactly one turn.                                       *)
LEMMA PickerOnce ==
    ASSUME first \in {1, 2}
    PROVE  /\ \A i \in Turns : Picker(i) \in Players
           /\ \A i, j \in Turns : Picker(i) = Picker(j) => i = j
           /\ \A p \in Players : \E i \in Turns : Picker(i) = p
<1> USE SizeAssumption DEF Turns, Players, Picker
<1>1. \A i \in Turns : Picker(i) \in Players
  OBVIOUS
<1>2. ASSUME NEW i \in Turns, NEW j \in Turns, Picker(i) = Picker(j) PROVE i = j
  <2>1. i % 2 = j % 2
    BY <1>2
  <2>2. (i + 1) \div 2 = (j + 1) \div 2
    BY <1>2
  <2>3. i \in Int /\ j \in Int
    OBVIOUS
  <2> QED
    BY <2>1, <2>2, <2>3
<1>3. ASSUME NEW p \in Players PROVE \E i \in Turns : Picker(i) = p
  <2>1. PICK t \in {1, 2}, s \in 1..TeamSize : p = <<t, s>>
    OBVIOUS
  <2>2. CASE t = first
    <3>1. 2 * s - 1 \in Turns /\ (2 * s - 1) % 2 = 1 /\ (2 * s) \div 2 = s
      OBVIOUS
    <3>2. Picker(2 * s - 1) = p
      BY <2>1, <2>2, <3>1
    <3> QED
      BY <3>1, <3>2
  <2>3. CASE t # first
    <3>1. 2 * s \in Turns /\ (2 * s) % 2 = 0 /\ (2 * s + 1) \div 2 = s /\ t = 3 - first
      BY <2>3
    <3>2. Picker(2 * s) = p
      BY <2>1, <3>1
    <3> QED
      BY <3>1, <3>2
  <2> QED
    BY <2>2, <2>3
<1> QED
  BY <1>1, <1>2, <1>3

(* Everything but the watched client.                                       *)
DraftType ==
    /\ first \in {1, 2}
    /\ race \in [Players -> Races] /\ locked \subseteq Players
    /\ current \in Turns \union {NoTurn} /\ pickTimeout \in Turns \union {NoTurn}
    /\ timers \subseteq Timers
    /\ result \in {"none", "running", "done", "failed"}
    /\ aborted \in BOOLEAN /\ gone \subseteq Players /\ changes \in 0..MaxChanges

ClientType ==
    /\ watcher \in Players /\ reconnects \in 0..MaxReconnects
    /\ chan \in Seq(Messages) /\ view \in Views

LEMMA TypeParts == TypeOK <=> DraftType /\ ClientType
BY DEF TypeOK, DraftType, ClientType

LEMMA MessagesTyped ==
    ASSUME TypeOK
    PROVE  /\ Started \in Messages /\ Completed \in Messages /\ Canceled \in Messages
           /\ \A i \in Turns : PickStarted(i) \in Messages
           /\ \A p \in Players, r \in Races :
                 Provisional(p, r) \in Messages /\ PickLocked(p, r) \in Messages
           /\ Blank \in Views
<1>1. Snapshot \in Views
  BY DEF TypeOK, Snapshot, Views, Shown
<1>2. Blank \in Views
  BY DEF Blank, Views, Shown
<1>3. Started \in Messages
  BY <1>1 DEF Started, Messages
<1>4. Completed \in Messages /\ Canceled \in Messages
  BY DEF Completed, Canceled, Messages
<1>5. \A i \in Turns : PickStarted(i) \in Messages
  BY DEF PickStarted, Messages
<1>6. \A p \in Players, r \in Races : Provisional(p, r) \in Messages /\ PickLocked(p, r) \in Messages
  BY DEF Provisional, PickLocked, Messages
<1> QED
  BY <1>2, <1>3, <1>4, <1>5, <1>6

LEMMA SendTyped ==
    ASSUME TypeOK, NEW ms \in Seq(Messages), Send(ms)
    PROVE  ClientType'
BY TypeParts DEF ClientType, Send

LEMMA SendOneTyped ==
    ASSUME TypeOK, NEW m \in Messages, Send(<<m>>)
    PROVE  ClientType'
<1>1. <<m>> \in Seq(Messages)
  OBVIOUS
<1> QED
  BY <1>1, SendTyped

LEMMA ReduceTyped ==
    ASSUME NEW v \in Views, NEW m \in Messages
    PROVE  Reduce(v, m) \in Views
<1>1. CASE m.type = "draftStarted"
  BY <1>1 DEF Reduce, Messages
<1>2. CASE m.type = "draftCancel"
  BY <1>2 DEF Reduce, Messages, Blank, Views, Shown
<1>3. CASE m.type = "draftPickStarted"
  BY <1>3 DEF Reduce, Messages, Views
<1>4. CASE m.type = "draftProvisionalPick"
  BY <1>4 DEF Reduce, Messages, Views, Shown
<1>5. CASE m.type = "draftPickLocked"
  BY <1>5 DEF Reduce, Messages, Views, Shown
<1>6. CASE m.type = "draftCompleted"
  BY <1>6 DEF Reduce, Messages, Views
<1> QED
  BY <1>1, <1>2, <1>3, <1>4, <1>5, <1>6 DEF Messages

LEMMA InitHolds == Init => IInv
<1> SUFFICES ASSUME Init PROVE IInv
  OBVIOUS
<1>1. DraftType
  <2>1. 0 \in 0..MaxChanges
    BY BoundsAssumption
  <2> QED
    BY <2>1 DEF Init, DraftType
<1>2. ClientType
  BY BoundsAssumption, WatchersAssumption DEF Init, ClientType, Blank, Views, Shown
<1>3. LockedUpTo(0)
  <2>1. locked = {}
    BY DEF Init
  <2> QED
    BY <2>1, SizeAssumption DEF LockedUpTo, Turns
<1>4. ClockInv
  BY <1>3 DEF Init, ClockInv
<1> QED
  BY <1>1, <1>2, <1>4, TypeParts DEF IInv

(* Where the draft stands if one of its timers runs.                        *)
LEMMA Standing ==
    ASSUME IInv, NEW t \in timers
    PROVE  /\ result = "running"
           /\ \/ AtStart
              \/ \E i \in Turns : AtPick(i) \/ AtPause(i)
BY DEF IInv, ClockInv, TypeOK

LEMMA AdvanceKeeps ==
    ASSUME IInv, NEW t, t[1] \in {"start", "pause"}, AdvanceToNextPicker(t)
    PROVE  IInv'
<1> USE DEF NoTurn
<1>0. t \in timers /\ UNCHANGED <<race, locked, first, aborted, gone, changes>>
  BY DEF AdvanceToNextPicker, matchVars
<1>1. first \in {1, 2} /\ TypeOK
  BY DEF IInv, TypeOK
<1>2. PICK n \in Turns \union {0} : LockedUpTo(n) /\ timers = {t}
  <2>1. CASE AtStart
    BY <2>1, <1>0 DEF AtStart
  <2>2. ASSUME NEW i \in Turns, AtPick(i) PROVE FALSE
    BY <2>2, <1>0 DEF AtPick
  <2>3. ASSUME NEW i \in Turns, AtPause(i)
        PROVE \E n \in Turns \union {0} : LockedUpTo(n) /\ timers = {t}
    BY <2>3, <1>0 DEF AtPause
  <2> QED
    BY <2>1, <2>2, <2>3, <1>0, Standing
<1>3. CASE /\ locked = Players
           /\ result' = "done" /\ timers' = RunsOut /\ pickTimeout' = NoTurn
           /\ Send(<<Completed>>)
           /\ UNCHANGED current
  <2>1. DraftType'
    BY <1>0, <1>1, <1>3 DEF DraftType, TypeOK, RunsOut
  <2>2. ClientType'
    BY <1>1, <1>3, MessagesTyped, SendOneTyped
  <2>3. LockedUpTo(n)'
    BY <1>0, <1>2 DEF LockedUpTo, Picker
  <2>4. ClockInv'
    BY <1>0, <1>3, <2>3 DEF ClockInv, RunsOut, Players, Turns
  <2> QED
    BY <2>1, <2>2, <2>4, TypeParts DEF IInv, TypeOK, DraftType, ClientType
<1>4. ASSUME NEW i \in Turns,
             IsNext(i), current' = i,
             timers' = (timers \ {t}) \union PickTimer(i), pickTimeout' = i,
             Send(<<PickStarted(i)>>), UNCHANGED result
      PROVE  IInv'
  <2>1. timers' = {<<"pick", i>>}
    BY <1>2, <1>4 DEF PickTimer
  <2>2. DraftType'
    BY <1>0, <1>1, <1>4, <2>1 DEF DraftType, TypeOK, Timers
  <2>3. ClientType'
    BY <1>1, <1>4, MessagesTyped, SendOneTyped
  <2>4. \A j \in Turns : j <= n <=> j <= i - 1
    BY <1>2, <1>4, SizeAssumption DEF LockedUpTo, IsNext, Unlocked, Turns
  <2>5. LockedUpTo(i - 1)'
    BY <1>0, <1>2, <2>4 DEF LockedUpTo, Picker
  <2>6. AtPick(i)'
    BY <1>4, <2>1, <2>5 DEF AtPick
  <2>7. result' = "running"
    BY <1>0, <1>4, Standing
  <2>8. ClockInv'
    BY <2>6, <2>7 DEF ClockInv, Turns
  <2> QED
    BY <2>2, <2>3, <2>8, TypeParts DEF IInv, TypeOK, DraftType, ClientType
<1> QED
  BY <1>3, <1>4 DEF AdvanceToNextPicker

LEMMA LockKeeps ==
    ASSUME IInv, NEW p \in Players, NEW r \in Races,
           NEW running, running \subseteq ClearPickTimeout, LockPick(p, r, running)
    PROVE  IInv'
<1> USE DEF NoTurn
<1>0. /\ p \notin locked /\ result = "running" /\ current # NoTurn /\ Picker(current) = p
      /\ race' = [race EXCEPT ![p] = r] /\ locked' = locked \union {p}
      /\ timers' = running \union {<<"pause", current>>} /\ pickTimeout' = NoTurn
      /\ UNCHANGED <<current, result, first, aborted, gone, changes>>
  BY DEF LockPick, MayLock, IsCurrent, matchVars
<1>1. TypeOK /\ first \in {1, 2} /\ current \in Turns
  BY <1>0 DEF IInv, TypeOK
<1>2. AtPick(current)
  <2>1. ~AtStart /\ ~AtPause(current)
    BY <1>0, <1>1 DEF AtStart, AtPause, LockedUpTo, Turns
  <2>2. \A i \in Turns : AtPick(i) \/ AtPause(i) => i = current
    BY DEF AtPick, AtPause
  <2> QED
    BY <1>0, <2>1, <2>2 DEF IInv, ClockInv
<1>3. timers' = {<<"pause", current>>}
  BY <1>0, <1>2 DEF AtPick, ClearPickTimeout
<1>4. DraftType'
  BY <1>0, <1>1, <1>3 DEF DraftType, TypeOK, Timers
<1>5. ClientType'
  <2>1. Send(<<PickLocked(p, r)>>)
    BY DEF LockPick, LockNews
  <2> QED
    BY <1>1, <2>1, MessagesTyped, SendOneTyped
<1>6. LockedUpTo(current)'
  <2>1. \A i \in Turns : Picker(i)' = Picker(i)
    BY <1>0 DEF Picker
  <2>2. \A i \in Turns : Picker(i) = p <=> i = current
    BY <1>0, <1>1, PickerOnce
  <2>3. \A i \in Turns : Picker(i) \in locked' <=> i <= current - 1 \/ i = current
    BY <1>0, <1>2, <2>2 DEF AtPick, LockedUpTo
  <2>4. \A i \in Turns : i <= current <=> i <= current - 1 \/ i = current
    BY <1>1 DEF Turns
  <2> QED
    BY <1>0, <2>1, <2>3, <2>4 DEF LockedUpTo
<1>7. AtPause(current)'
  BY <1>0, <1>3, <1>6 DEF AtPause
<1>8. ClockInv'
  BY <1>0, <1>1, <1>7 DEF ClockInv, Turns
<1> QED
  BY <1>4, <1>5, <1>8, TypeParts DEF IInv, TypeOK, DraftType, ClientType

LEMMA PickTimesOutKeeps ==
    ASSUME IInv, NEW i \in Turns, PickTimesOut(i)
    PROVE  IInv'
<1>1. current \in Turns /\ TypeOK /\ first \in {1, 2}
  BY DEF PickTimesOut, IInv, TypeOK
<1>2. Picker(current) \in Players /\ race[Picker(current)] \in Races
  BY <1>1, PickerOnce DEF TypeOK
<1> QED
  BY <1>2, LockKeeps DEF PickTimesOut

LEMMA UpdateKeeps ==
    ASSUME IInv, NEW p \in Players, NEW r \in Races, UpdateProvisionalRace(p, r)
    PROVE  IInv'
<1>0. /\ TypeOK /\ changes < MaxChanges /\ changes' = changes + 1
      /\ race' = [race EXCEPT ![p] = r]
      /\ UNCHANGED <<locked, current, timers, pickTimeout, result, first, aborted, gone>>
  BY DEF UpdateProvisionalRace, matchVars, IInv
<1>1. DraftType'
  <2>1. changes' \in 0..MaxChanges
    BY <1>0, BoundsAssumption DEF TypeOK
  <2> QED
    BY <1>0, <2>1 DEF DraftType, TypeOK
<1>2. ClientType'
  <2>1. (IF p[1] = watcher[1] THEN <<Provisional(p, r)>> ELSE <<>>) \in Seq(Messages)
    BY <1>0, MessagesTyped
  <2> QED
    BY <1>0, <2>1, SendTyped DEF UpdateProvisionalRace
<1>3. ClockInv'
  BY <1>0 DEF IInv, ClockInv, AtStart, AtPick, AtPause, LockedUpTo, Picker
<1> QED
  BY <1>1, <1>2, <1>3, TypeParts DEF IInv, TypeOK, DraftType, ClientType

LEMMA RunDraftKeeps ==
    ASSUME IInv, RunDraft
    PROVE  IInv'
<1>0. /\ TypeOK /\ result = "none"
      /\ UNCHANGED <<race, locked, current, pickTimeout, first, aborted, gone, changes>>
  BY DEF RunDraft, matchVars, IInv
<1>1. timers = {} /\ pickTimeout = NoTurn /\ current = NoTurn /\ LockedUpTo(0)
  BY <1>0 DEF IInv, ClockInv
<1>2. LockedUpTo(0)'
  BY <1>0, <1>1 DEF LockedUpTo, Picker
<1>3. CASE /\ result' = "failed" /\ timers' = {}
           /\ Send(<<Started, Canceled>>)
  <2>1. DraftType'
    BY <1>0, <1>3 DEF DraftType, TypeOK
  <2>2. ClientType'
    <3>1. <<Started, Canceled>> \in Seq(Messages)
      BY <1>0, MessagesTyped
    <3> QED
      BY <1>0, <1>3, <3>1, SendTyped
  <2>3. ClockInv'
    BY <1>0, <1>1, <1>2, <1>3 DEF ClockInv
  <2> QED
    BY <2>1, <2>2, <2>3, TypeParts DEF IInv, TypeOK, DraftType, ClientType
<1>4. CASE /\ result' = "running" /\ timers' = {<<"start", NoTurn>>}
           /\ Send(<<Started>>)
  <2>1. DraftType'
    BY <1>0, <1>4 DEF DraftType, TypeOK, Timers
  <2>2. ClientType'
    BY <1>0, <1>4, MessagesTyped, SendOneTyped
  <2>3. ClockInv'
    BY <1>0, <1>1, <1>2, <1>4 DEF ClockInv, AtStart
  <2> QED
    BY <2>1, <2>2, <2>3, TypeParts DEF IInv, TypeOK, DraftType, ClientType
<1> QED
  BY <1>3, <1>4 DEF RunDraft, RunsOut

LEMMA LeaveKeeps ==
    ASSUME IInv, NEW p \in Players, ClientLeaves(p)
    PROVE  IInv'
<1>0. /\ TypeOK /\ gone' = gone \union {p} /\ aborted' = TRUE
      /\ UNCHANGED <<race, locked, current, first, changes, watcher, reconnects>>
  BY DEF ClientLeaves, IInv
<1>1. CASE /\ result = "running"
           /\ result' = "failed" /\ timers' = {} /\ pickTimeout' = NoTurn
           /\ chan' = IF watcher \in gone' THEN <<>> ELSE Append(chan, Canceled)
           /\ view' = IF watcher \in gone' THEN Blank ELSE view
  <2>1. DraftType'
    BY <1>0, <1>1 DEF DraftType, TypeOK
  <2>2. ClientType'
    BY <1>0, <1>1, MessagesTyped DEF TypeOK, ClientType
  <2>3. PICK n \in Turns \union {0} : LockedUpTo(n)
    <3>1. \A i \in Turns : i - 1 \in Turns \union {0}
      BY SizeAssumption DEF Turns
    <3> QED
      BY <1>1, <3>1 DEF IInv, ClockInv, AtStart, AtPick, AtPause
  <2>4. LockedUpTo(n)'
    BY <1>0, <2>3 DEF LockedUpTo, Picker
  <2>5. ClockInv'
    <3>1. timers' = {} /\ pickTimeout' = NoTurn /\ result' = "failed"
      BY <1>1
    <3>2. \E k \in Turns \union {0} : LockedUpTo(k)'
      BY <2>4
    <3> QED
      BY <3>1, <3>2 DEF ClockInv, Turns
  <2> QED
    BY <2>1, <2>2, <2>5, TypeParts DEF IInv, TypeOK, DraftType, ClientType
<1>2. CASE /\ result = "none"
           /\ UNCHANGED <<result, timers, pickTimeout, chan, view>>
  <2>1. DraftType' /\ ClientType'
    BY <1>0, <1>2 DEF DraftType, ClientType, TypeOK
  <2>2. ClockInv'
    BY <1>0, <1>2 DEF IInv, ClockInv, LockedUpTo, Picker
  <2> QED
    BY <2>1, <2>2, TypeParts DEF IInv, TypeOK, DraftType, ClientType
<1> QED
  BY <1>1, <1>2 DEF ClientLeaves, RunsOut

LEMMA ScreenKeeps ==
    ASSUME IInv, Reconnect \/ Deliver \/ UNCHANGED vars
    PROVE  IInv'
<1>1. TypeOK /\ UNCHANGED <<draftVars, matchVars, changes, watcher>>
  BY DEF Reconnect, Deliver, vars, clientVars, IInv
<1>2. DraftType'
  BY <1>1 DEF TypeOK, DraftType, draftVars, matchVars
<1>3. ClientType'
  <2>1. CASE Reconnect
    <3>1. reconnects' \in 0..MaxReconnects
      BY <1>1, <2>1, BoundsAssumption DEF Reconnect, TypeOK
    <3>2. chan' \in Seq(Messages) /\ view' \in Views
      BY <1>1, <2>1, MessagesTyped DEF Reconnect
    <3> QED
      BY <1>1, <3>1, <3>2 DEF TypeOK, ClientType
  <2>2. CASE Deliver
    <3>1. Head(chan) \in Messages /\ Tail(chan) \in Seq(Messages)
      BY <1>1, <2>2 DEF Deliver, TypeOK
    <3>2. Reduce(view, Head(chan)) \in Views
      BY <1>1, <3>1, ReduceTyped DEF TypeOK
    <3> QED
      BY <1>1, <2>2, <3>1, <3>2 DEF Deliver, TypeOK, ClientType
  <2>3. CASE UNCHANGED vars
    BY <1>1, <2>3 DEF vars, clientVars, TypeOK, ClientType
  <2> QED
    BY <2>1, <2>2, <2>3
<1>4. ClockInv'
  BY <1>1 DEF IInv, ClockInv, AtStart, AtPick, AtPause, LockedUpTo, Picker, draftVars, matchVars
<1> QED
  BY <1>2, <1>3, <1>4, TypeParts DEF IInv, TypeOK, DraftType, ClientType

LEMMA StepHolds == IInv /\ [Next]_vars => IInv'
<1> SUFFICES ASSUME IInv, [Next]_vars PROVE IInv'
  OBVIOUS
<1>1. CASE RunDraft
  BY <1>1, RunDraftKeeps
<1>2. CASE StartElapsed
  BY <1>2, AdvanceKeeps DEF StartElapsed
<1>3. ASSUME NEW i \in Turns, PauseElapsed(i) PROVE IInv'
  BY <1>3, AdvanceKeeps DEF PauseElapsed
<1>4. ASSUME NEW i \in Turns, PickTimesOut(i) PROVE IInv'
  BY <1>4, PickTimesOutKeeps
<1>5. ASSUME NEW p \in Players, ClientLeaves(p) PROVE IInv'
  BY <1>5, LeaveKeeps
<1>6. ASSUME NEW p \in Players, NEW r \in Races, LockInPick(p, r) PROVE IInv'
  BY <1>6, LockKeeps DEF LockInPick
<1>7. ASSUME NEW p \in Players, NEW r \in Races, UpdateProvisionalRace(p, r) PROVE IInv'
  BY <1>7, UpdateKeeps
<1>8. CASE Reconnect \/ Deliver \/ UNCHANGED vars
  BY <1>8, ScreenKeeps
<1> QED
  BY <1>1, <1>2, <1>3, <1>4, <1>5, <1>6, <1>7, <1>8 DEF Next, Elapses

(* The strengthened invariant: where the draft stands determines its clock     *)
(* and its locks (advanceToNextPicker, lockInPick, cleanup).                *)
THEOREM Invariant == Spec => []IInv
<1> QED
  BY InitHolds, StepHolds, PTL DEF Spec

(* Type correctness of the draft and of the watched client.                 *)
THEOREM TypeCorrect == Spec => []TypeOK
<1>1. IInv => TypeOK
  BY DEF IInv
<1> QED
  BY <1>1, Invariant, PTL

(* A draft that runs waits for exactly one timer, any other for none.        *)
THEOREM OneClockOnly == Spec => []OneClock
<1>1. IInv => OneClock
  <2> SUFFICES ASSUME IInv PROVE OneClock
    OBVIOUS
  <2>1. CASE result = "running"
    BY <2>1, SizeAssumption DEF IInv, ClockInv, AtStart, AtPick, AtPause, OneClock, NoTurn, Turns
  <2>2. CASE result # "running"
    BY <2>2 DEF IInv, ClockInv, TypeOK, OneClock
  <2> QED
    BY <2>1, <2>2
<1> QED
  BY <1>1, Invariant, PTL

(* Picks are locked in the pick order, all of them in a completed draft.      *)
THEOREM PicksInOrder == Spec => []PicksAreInOrder
<1>1. IInv => PicksAreInOrder
  <2> SUFFICES ASSUME IInv PROVE PicksAreInOrder
    OBVIOUS
  <2>1. PICK n \in Int : LockedUpTo(n)
    BY SizeAssumption DEF IInv, ClockInv, TypeOK, AtStart, AtPick, AtPause, Turns
  <2>2. \A i, j \in Turns : i < j /\ Picker(j) \in locked => Picker(i) \in locked
    BY <2>1, SizeAssumption DEF LockedUpTo, Turns
  <2> QED
    BY <2>2 DEF PicksAreInOrder, IInv, ClockInv
<1> QED
  BY <1>1, Invariant, PTL

(* Locked races stay, and only a running draft locks, one pick at a time.     *)
THEOREM LocksStay == Spec => LocksAreFinal
<1> DEFINE Final == /\ locked \subseteq locked'
                    /\ \A p \in locked : race'[p] = race[p]
                    /\ locked' # locked =>
                          result = "running" /\ \E p \in Players : locked' = locked \union {p}
<1>1. IInv /\ [Next]_vars => [Final]_vars
  <2> SUFFICES ASSUME IInv, Next PROVE Final
    OBVIOUS
  <2>1. TypeOK
    BY DEF IInv
  <2>2. ASSUME NEW p \in Players, NEW r, NEW running, LockPick(p, r, running) PROVE Final
    BY <2>1, <2>2 DEF LockPick, MayLock, IsCurrent, TypeOK
  <2>3. ASSUME NEW p \in Players, NEW r \in Races, UpdateProvisionalRace(p, r) PROVE Final
    BY <2>1, <2>3 DEF UpdateProvisionalRace, MayChange, TypeOK
  <2>4. ASSUME NEW i \in Turns, PickTimesOut(i) PROVE Final
    <3>1. Picker(current) \in Players
      BY <2>1, <2>4, PickerOnce DEF PickTimesOut, TypeOK
    <3> QED
      BY <2>2, <2>4, <3>1 DEF PickTimesOut
  <2>5. ASSUME NEW t, AdvanceToNextPicker(t) PROVE Final
    BY <2>5 DEF AdvanceToNextPicker
  <2>6. CASE RunDraft \/ Reconnect \/ Deliver \/ \E p \in Players : ClientLeaves(p)
    BY <2>6 DEF RunDraft, Reconnect, Deliver, ClientLeaves, draftVars
  <2> QED
    BY <2>2, <2>3, <2>4, <2>5, <2>6 DEF Next, Elapses, StartElapsed, PauseElapsed, LockInPick
<1> QED
  BY <1>1, Invariant, PTL DEF Spec, LocksAreFinal

-----------------------------------------------------------------------------
(* The screen of the watched client.                                        *)

LEMMA LessIs == OpToRel(<, Nat) = {s \in Nat \X Nat : s[1] < s[2]}
  BY Zenon DEF OpToRel

(* Every non-empty set of naturals has a least element.                        *)
LEMMA Least ==
  ASSUME NEW T \in SUBSET Nat, T # {}
  PROVE  \E x \in T : \A y \in T : x <= y
<1> DEFINE R == {s \in Nat \X Nat : s[1] < s[2]}
<1>1. IsWellFoundedOn(R, Nat)
  BY NatLessThanWellFounded, LessIs, Zenon
<1>2. PICK x \in T : \A y \in T : ~(<<y, x>> \in R)
  BY <1>1, WFMin, Zenon
<1>3. ASSUME NEW y \in T PROVE x <= y
  <2>1. <<y, x>> \notin R
    BY <1>2
  <2> QED
    BY <2>1
<1> QED
  BY <1>3

(* A set that holds the successor of each of its elements below n, and 0,      *)
(* holds all of 0..n: what induction there is without an operator parameter.    *)
LEMMA UpTo ==
  ASSUME NEW n \in Nat, NEW T, 0 \in T, \A i \in 0..(n - 1) : i \in T => i + 1 \in T
  PROVE  \A i \in 0..n : i \in T
<1> SUFFICES ASSUME {i \in 0..n : i \notin T} # {} PROVE FALSE
  OBVIOUS
<1>1. PICK x \in {i \in 0..n : i \notin T} : \A y \in {i \in 0..n : i \notin T} : x <= y
  <2>1. {i \in 0..n : i \notin T} \in SUBSET Nat
    OBVIOUS
  <2> QED
    BY <2>1, Least
<1>2. x # 0 /\ x - 1 \in 0..(n - 1) /\ x - 1 \in 0..n
  BY <1>1
<1>3. x - 1 \in T
  BY <1>1, <1>2
<1>4. (x - 1) + 1 = x
  BY <1>1
<1> QED
  BY <1>1, <1>2, <1>3, <1>4

(* f are the screens that the first n of the messages ms make of v.             *)
Screens(v, ms, n, f) ==
    f = [i \in 0..n |-> IF i = 0 THEN v ELSE Reduce(f[i - 1], ms[i])]

LEMMA ScreensExist ==
  ASSUME NEW v, NEW ms, NEW n \in Nat
  PROVE  \E f : Screens(v, ms, n, f)
<1> DEFINE T == {i \in Nat : \E f : Screens(v, ms, i, f)}
<1>1. 0 \in T
  <2> DEFINE g == [i \in 0..0 |-> v]
  <2>1. Screens(v, ms, 0, g)
    BY DEF Screens
  <2> QED
    BY <2>1
<1>2. ASSUME NEW i \in 0..(n - 1), i \in T PROVE i + 1 \in T
  <2>1. PICK f : Screens(v, ms, i, f)
    BY <1>2
  <2> DEFINE g == [j \in 0..(i + 1) |-> IF j = i + 1 THEN Reduce(f[i], ms[i + 1]) ELSE f[j]]
  <2>2. g[i + 1] = Reduce(f[i], ms[i + 1]) /\ \A j \in 0..i : g[j] = f[j]
    OBVIOUS
  <2>3. ASSUME NEW j \in 0..(i + 1)
        PROVE  g[j] = IF j = 0 THEN v ELSE Reduce(g[j - 1], ms[j])
    <3> HIDE DEF g
    <3>1. CASE j = i + 1
      <4>1. j # 0 /\ j - 1 = i /\ g[i] = f[i]
        BY <2>2, <3>1
      <4> QED
        BY <2>2, <3>1, <4>1
    <3>2. CASE j \in 0..i
      <4>1. f[j] = IF j = 0 THEN v ELSE Reduce(f[j - 1], ms[j])
        BY <2>1, <3>2 DEF Screens
      <4>2. g[j] = f[j] /\ (j # 0 => g[j - 1] = f[j - 1])
        BY <2>2, <3>2
      <4> QED
        BY <4>1, <4>2
    <3> QED
      BY <3>1, <3>2
  <2>4. g = [j \in 0..(i + 1) |-> g[j]]
    OBVIOUS
  <2> HIDE DEF g
  <2>5. Screens(v, ms, i + 1, g)
    BY <2>3, <2>4 DEF Screens
  <2> QED
    BY <2>5
<1> HIDE DEF T
<1>3. n \in T
  BY <1>1, <1>2, UpTo
<1> QED
  BY <1>3 DEF T

LEMMA AfterIs ==
  ASSUME NEW v, NEW ms \in Seq(Messages)
  PROVE  \E f : Screens(v, ms, Len(ms), f) /\ After(v, ms) = f[Len(ms)]
<1> DEFINE c == CHOOSE f : f = [i \in 0..Len(ms) |-> IF i = 0 THEN v ELSE Reduce(f[i - 1], ms[i])]
<1>1. After(v, ms) = c[Len(ms)]
  BY Zenon DEF After
<1>2. \E f : f = [i \in 0..Len(ms) |-> IF i = 0 THEN v ELSE Reduce(f[i - 1], ms[i])]
  <2>1. Len(ms) \in Nat
    OBVIOUS
  <2>2. PICK f : Screens(v, ms, Len(ms), f)
    BY <2>1, ScreensExist
  <2>3. f = [i \in 0..Len(ms) |-> IF i = 0 THEN v ELSE Reduce(f[i - 1], ms[i])]
    BY <2>2, Zenon DEF Screens
  <2> QED
    BY <2>3, Zenon
<1>3. c = [i \in 0..Len(ms) |-> IF i = 0 THEN v ELSE Reduce(c[i - 1], ms[i])]
  BY <1>2, Zenon
<1> HIDE DEF c
<1> QED
  BY <1>1, <1>3 DEF Screens

LEMMA ScreenStep ==
  ASSUME NEW v, NEW ms, NEW n \in Nat, NEW f, Screens(v, ms, n, f)
  PROVE  f[0] = v /\ \A j \in 1..n : f[j] = Reduce(f[j - 1], ms[j])
<1>1. 0 \in 0..n
  OBVIOUS
<1>2. f[0] = v
  BY <1>1 DEF Screens
<1>3. ASSUME NEW j \in 1..n PROVE f[j] = Reduce(f[j - 1], ms[j])
  <2>1. j \in 0..n /\ j # 0
    OBVIOUS
  <2> QED
    BY <2>1 DEF Screens
<1> QED
  BY <1>2, <1>3

(* After d of the messages ms the screens f come to w, and the k messages ns   *)
(* are those that follow.                                                    *)
Resumes(w, ns, k, f, ms, d) == f[d] = w /\ \A i \in 1..k : ns[i] = ms[d + i]

(* The same messages make the same screens of the same screen.                 *)
LEMMA ScreensAgree ==
  ASSUME NEW v, NEW ms, NEW n \in Nat, NEW f, Screens(v, ms, n, f),
         NEW w, NEW ns, NEW k \in Nat, NEW g, Screens(w, ns, k, g),
         NEW d \in Nat, d + k <= n, Resumes(w, ns, k, f, ms, d)
  PROVE  g[k] = f[d + k]
<1> DEFINE T == {i \in 0..k : g[i] = f[d + i]}
<1>0. g[0] = w /\ \A j \in 1..k : g[j] = Reduce(g[j - 1], ns[j])
  BY ScreenStep
<1>1. 0 \in T
  <2>1. 0 \in 0..k /\ d + 0 = d
    OBVIOUS
  <2> QED
    BY <1>0, <2>1 DEF Resumes
<1>2. ASSUME NEW i \in 0..(k - 1), i \in T PROVE i + 1 \in T
  <2>1. i + 1 \in 1..k /\ (i + 1) - 1 = i /\ i + 1 \in 0..k
    OBVIOUS
  <2>2. d + (i + 1) \in 1..n /\ (d + (i + 1)) - 1 = d + i
    OBVIOUS
  <2>3. g[i + 1] = Reduce(g[i], ns[i + 1])
    BY <1>0, <2>1
  <2>4. f[d + (i + 1)] = Reduce(f[d + i], ms[d + (i + 1)])
    BY <2>2, ScreenStep
  <2>5. ns[i + 1] = ms[d + (i + 1)]
    BY <2>1 DEF Resumes
  <2> QED
    BY <1>2, <2>1, <2>3, <2>4, <2>5
<1> HIDE DEF T
<1>3. \A i \in 0..k : i \in T
  BY <1>1, <1>2, UpTo
<1> QED
  BY <1>3 DEF T

LEMMA AfterNone == ASSUME NEW v PROVE After(v, <<>>) = v
<1>1. <<>> \in Seq(Messages) /\ Len(<<>>) = 0
  OBVIOUS
<1>2. PICK f : Screens(v, <<>>, 0, f) /\ After(v, <<>>) = f[0]
  BY <1>1, AfterIs
<1> QED
  BY <1>2 DEF Screens

LEMMA AfterAppend ==
  ASSUME NEW v, NEW ms \in Seq(Messages), NEW m \in Messages
  PROVE  After(v, Append(ms, m)) = Reduce(After(v, ms), m)
<1> DEFINE ns == Append(ms, m)
<1> DEFINE n == Len(ms)
<1>1. /\ ns \in Seq(Messages) /\ Len(ns) = n + 1 /\ n \in Nat /\ ns[n + 1] = m
      /\ \A i \in 1..n : ns[i] = ms[i]
  OBVIOUS
<1>2. PICK f : Screens(v, ms, n, f) /\ After(v, ms) = f[n]
  BY AfterIs
<1> HIDE DEF ns, n
<1>3. PICK g : Screens(v, ns, n + 1, g) /\ After(v, ns) = g[n + 1]
  BY <1>1, AfterIs
<1>4. Resumes(v, ms, n, g, ns, 0)
  <2>1. g[0] = v
    BY <1>1, <1>3, ScreenStep
  <2>2. \A i \in 1..n : ms[i] = ns[0 + i]
    BY <1>1
  <2> QED
    BY <2>1, <2>2 DEF Resumes
<1>5. n + 1 \in Nat /\ 0 + n <= n + 1 /\ 0 \in Nat
  BY <1>1
<1>6. f[n] = g[0 + n]
  BY <1>1, <1>2, <1>3, <1>4, <1>5, ScreensAgree
<1>7. f[n] = g[n]
  BY <1>1, <1>6
<1>8. n + 1 \in 1..(n + 1) /\ (n + 1) - 1 = n
  BY <1>1
<1>9. g[n + 1] = Reduce(g[n], m)
  BY <1>1, <1>3, <1>5, <1>8, ScreenStep
<1> QED
  BY <1>2, <1>3, <1>7, <1>9 DEF ns

LEMMA AfterHead ==
  ASSUME NEW v, NEW ms \in Seq(Messages), ms # <<>>
  PROVE  After(Reduce(v, Head(ms)), Tail(ms)) = After(v, ms)
<1> DEFINE ns == Tail(ms)
<1> DEFINE n == Len(ms)
<1> DEFINE w == Reduce(v, Head(ms))
<1>1. /\ ns \in Seq(Messages) /\ n \in Nat /\ n >= 1 /\ Len(ns) = n - 1 /\ n - 1 \in Nat
      /\ Head(ms) = ms[1] /\ \A i \in 1..(n - 1) : ns[i] = ms[1 + i]
  <2>1. n \in Nat /\ n >= 1 /\ ns \in Seq(Messages) /\ Len(ns) = n - 1 /\ Head(ms) = ms[1]
    OBVIOUS
  <2>2. \A i \in 1..(n - 1) : ns[i] = ms[i + 1]
    OBVIOUS
  <2> HIDE DEF n, ns
  <2>3. \A i \in 1..(n - 1) : i + 1 = 1 + i
    BY <2>1
  <2> QED
    BY <2>1, <2>2, <2>3
<1>2. PICK f : Screens(v, ms, n, f) /\ After(v, ms) = f[n]
  BY AfterIs
<1> HIDE DEF ns, n
<1>3. PICK g : Screens(w, ns, n - 1, g) /\ After(w, ns) = g[n - 1]
  BY <1>1, AfterIs
<1>4. f[1] = w
  <2>1. 1 \in 1..n /\ 1 - 1 = 0
    BY <1>1
  <2>2. f[1] = Reduce(f[0], ms[1]) /\ f[0] = v
    BY <1>1, <1>2, <2>1, ScreenStep
  <2> QED
    BY <1>1, <2>2
<1> HIDE DEF w
<1>5. 1 \in Nat /\ 1 + (n - 1) <= n /\ 1 + (n - 1) = n /\ Resumes(w, ns, n - 1, f, ms, 1)
  BY <1>1, <1>4 DEF Resumes
<1>6. g[n - 1] = f[1 + (n - 1)]
  BY <1>1, <1>2, <1>3, <1>4, <1>5, ScreensAgree
<1>7. g[n - 1] = f[n]
  BY <1>5, <1>6
<1> QED
  BY <1>2, <1>3, <1>7 DEF ns, w
(* What the server shows of the races, and an open screen v.                 *)
ShownNow ==
    [p \in Players |-> IF p[1] = watcher[1] \/ p \in locked THEN race[p] ELSE Hidden]
IsScreen(v, c, k, l, s) ==
    v = [open |-> TRUE, complete |-> c, picker |-> k, locked |-> l, shown |-> s]

LEMMA SnapshotIs == IsScreen(Snapshot, FALSE, current, locked, ShownNow)
BY DEF Snapshot, IsScreen, ShownNow

LEMMA ScreenPicker ==
    ASSUME NEW c, NEW k, NEW l, NEW s, NEW v, IsScreen(v, c, k, l, s)
    PROVE  v.picker = k
BY DEF IsScreen

LEMMA ScreenEnds ==
    ASSUME NEW c, NEW k, NEW l, NEW s, NEW u, IsScreen(u, c, k, l, s),
           NEW v, IsScreen(v, TRUE, NoTurn, l, s)
    PROVE  v = [u EXCEPT !.complete = TRUE, !.picker = NoTurn]
<1>1. PICK x : x = [u EXCEPT !.complete = TRUE, !.picker = NoTurn]
  OBVIOUS
<1>2. IsScreen(x, TRUE, NoTurn, l, s)
  BY <1>1 DEF IsScreen
<1> QED
  BY <1>1, <1>2 DEF IsScreen

(* What the messages make of an open screen.                                 *)
LEMMA ReducePick ==
    ASSUME NEW c, NEW k, NEW l, NEW s, NEW v, IsScreen(v, c, k, l, s), NEW i
    PROVE  IsScreen(Reduce(v, PickStarted(i)), c, i, l, s)
<1>1. PICK u : u = Reduce(v, PickStarted(i))
  OBVIOUS
<1>2. u = [v EXCEPT !.picker = i]
  BY <1>1 DEF Reduce, PickStarted, IsScreen
<1>3. IsScreen(u, c, i, l, s)
  BY <1>2 DEF IsScreen
<1> QED
  BY <1>1, <1>3

LEMMA ReduceCompleted ==
    ASSUME NEW c, NEW k, NEW l, NEW s, NEW v, IsScreen(v, c, k, l, s)
    PROVE  IsScreen(Reduce(v, Completed), TRUE, NoTurn, l, s)
<1>1. PICK u : u = Reduce(v, Completed)
  OBVIOUS
<1>2. u = [v EXCEPT !.complete = TRUE, !.picker = NoTurn]
  BY <1>1 DEF Reduce, Completed, IsScreen
<1>3. IsScreen(u, TRUE, NoTurn, l, s)
  BY <1>2 DEF IsScreen
<1> QED
  BY <1>1, <1>3

LEMMA ReduceProvisional ==
    ASSUME NEW c, NEW k, NEW l, NEW s, NEW v, IsScreen(v, c, k, l, s), NEW p, NEW r, p \notin l
    PROVE  IsScreen(Reduce(v, Provisional(p, r)), c, k, l, [s EXCEPT ![p] = r])
<1>1. PICK u : u = Reduce(v, Provisional(p, r))
  OBVIOUS
<1>2. u = [v EXCEPT !.shown[p] = r]
  BY <1>1 DEF Reduce, Provisional, IsScreen
<1>3. IsScreen(u, c, k, l, [s EXCEPT ![p] = r])
  BY <1>2 DEF IsScreen
<1> QED
  BY <1>1, <1>3

LEMMA ReduceLocked ==
    ASSUME NEW c, NEW k, NEW l, NEW s, NEW v, IsScreen(v, c, k, l, s), NEW p, NEW r
    PROVE  IsScreen(Reduce(v, PickLocked(p, r)), c, NoTurn, l \union {p}, [s EXCEPT ![p] = r])
<1>1. PICK u : u = Reduce(v, PickLocked(p, r))
  OBVIOUS
<1>2. u = [v EXCEPT !.locked = @ \union {p}, !.shown[p] = r, !.picker = NoTurn]
  BY <1>1 DEF Reduce, PickLocked, IsScreen
<1>3. IsScreen(u, c, NoTurn, l \union {p}, [s EXCEPT ![p] = r])
  BY <1>2 DEF IsScreen
<1> QED
  BY <1>1, <1>3

(* What the screen v may show, wherever the draft stands.                     *)
ScreenAt(v) ==
    /\ result = "none" => ~v.open
    /\ result = "running" =>
          /\ IsScreen(v, FALSE, v.picker, locked, ShownNow)
          /\ v.picker = current \/ (v.picker = NoTurn /\ pickTimeout = NoTurn)
    /\ result = "done" => ~v.open \/ IsScreen(v, TRUE, NoTurn, locked, ShownNow)
    /\ result = "failed" => ~v.open

(* It does once the messages on the socket have arrived, and only a match that *)
(* is aborted has lost a client.                                            *)
ScreenInv ==
    /\ gone # {} => aborted
    /\ result \in {"running", "done"} => gone = {}
    /\ ScreenAt(After(view, chan))

LEMMA SendMakes ==
    ASSUME TypeOK, NEW m \in Messages, Send(<<m>>)
    PROVE  After(view', chan') = IF Watching THEN Reduce(After(view, chan), m)
                                            ELSE After(view, chan)
<1>1. chan \in Seq(Messages) /\ view' = view
  BY DEF TypeOK, Send
<1>2. CASE Watching
  <2>1. chan' = Append(chan, m)
    BY <1>1, <1>2 DEF Send
  <2> QED
    BY <1>1, <1>2, <2>1, AfterAppend
<1>3. CASE ~Watching
  BY <1>1, <1>3 DEF Send
<1> QED
  BY <1>2, <1>3

LEMMA SendNone ==
    ASSUME TypeOK, Send(<<>>)
    PROVE  After(view', chan') = After(view, chan)
<1>1. chan' = chan /\ view' = view
  BY DEF TypeOK, Send
<1> QED
  BY <1>1

LEMMA BlankClosed ==
    ~Blank.open /\ \A v : Reduce(v, Canceled) = Blank /\ Reduce(v, Started) = Snapshot
<1>1. ~Blank.open
  BY DEF Blank
<1>2. ASSUME NEW v PROVE Reduce(v, Canceled) = Blank
  BY DEF Reduce, Canceled
<1>3. ASSUME NEW v PROVE Reduce(v, Started) = Snapshot
  BY DEF Reduce, Started
<1> QED
  BY <1>1, <1>2, <1>3

LEMMA InitScreens == Init => ScreenInv
<1> SUFFICES ASSUME Init PROVE ScreenInv
  OBVIOUS
<1>1. After(view, chan) = Blank
  BY AfterNone DEF Init
<1> QED
  BY <1>1, BlankClosed DEF Init, ScreenInv, ScreenAt

LEMMA ScreensAdvance ==
    ASSUME IInv, ScreenInv, NEW t, AdvanceToNextPicker(t)
    PROVE  ScreenInv'
<1> DEFINE v == After(view, chan)
<1>1. /\ TypeOK /\ result = "running" /\ gone = {} /\ Watching
      /\ UNCHANGED <<race, locked, first, aborted, gone, watcher>>
  <2>1. t \in timers
    BY DEF AdvanceToNextPicker
  <2>2. result = "running"
    BY <2>1, Standing
  <2> QED
    BY <2>2 DEF AdvanceToNextPicker, Send, matchVars, IInv, ScreenInv, Watching
<1>2. IsScreen(v, FALSE, v.picker, locked, ShownNow)
  BY <1>1 DEF ScreenInv, ScreenAt
<1>3. ShownNow' = ShownNow
  BY <1>1 DEF ShownNow
<1>4. CASE result' = "done" /\ Send(<<Completed>>)
  <2>1. After(view', chan') = Reduce(v, Completed)
    BY <1>1, <1>4, MessagesTyped, SendMakes
  <2>2. IsScreen(Reduce(v, Completed), TRUE, NoTurn, locked, ShownNow)
    BY <1>2, ReduceCompleted
  <2> QED
    BY <1>1, <1>3, <1>4, <2>1, <2>2 DEF ScreenInv, ScreenAt
<1>5. ASSUME NEW i \in Turns, current' = i, Send(<<PickStarted(i)>>), UNCHANGED result
      PROVE  ScreenInv'
  <2>1. After(view', chan') = Reduce(v, PickStarted(i))
    BY <1>1, <1>5, MessagesTyped, SendMakes
  <2>2. IsScreen(Reduce(v, PickStarted(i)), FALSE, i, locked, ShownNow)
    BY <1>2, ReducePick
  <2> HIDE DEF v
  <2> QED
    BY <1>1, <1>3, <1>5, <2>1, <2>2, ScreenPicker DEF ScreenInv, ScreenAt
<1> QED
  BY <1>4, <1>5 DEF AdvanceToNextPicker

LEMMA ScreensLock ==
    ASSUME IInv, ScreenInv, NEW p \in Players, NEW r \in Races, NEW running,
           LockPick(p, r, running)
    PROVE  ScreenInv'
<1> DEFINE v == After(view, chan)
<1>1. /\ TypeOK /\ result = "running" /\ gone = {} /\ Watching
      /\ race' = [race EXCEPT ![p] = r] /\ locked' = locked \union {p}
      /\ pickTimeout' = NoTurn /\ Send(<<PickLocked(p, r)>>)
      /\ UNCHANGED <<current, result, first, aborted, gone, watcher>>
  BY DEF LockPick, LockNews, MayLock, IsCurrent, Send, matchVars, IInv, ScreenInv, Watching
<1>2. IsScreen(v, FALSE, v.picker, locked, ShownNow)
  BY <1>1 DEF ScreenInv, ScreenAt
<1>3. After(view', chan') = Reduce(v, PickLocked(p, r))
  BY <1>1, MessagesTyped, SendMakes
<1>4. ShownNow' = [ShownNow EXCEPT ![p] = r]
  BY <1>1 DEF ShownNow, TypeOK
<1>5. IsScreen(Reduce(v, PickLocked(p, r)), FALSE, NoTurn, locked', ShownNow')
  <2>1. IsScreen(Reduce(v, PickLocked(p, r)), FALSE, NoTurn, locked \union {p}, [ShownNow EXCEPT ![p] = r])
    BY <1>2, ReduceLocked
  <2> QED
    BY <1>1, <1>4, <2>1
<1> HIDE DEF v
<1> QED
  BY <1>1, <1>3, <1>5, ScreenPicker DEF ScreenInv, ScreenAt

LEMMA ScreensUpdate ==
    ASSUME IInv, ScreenInv, NEW p \in Players, NEW r \in Races, UpdateProvisionalRace(p, r)
    PROVE  ScreenInv'
<1> DEFINE v == After(view, chan)
<1>1. /\ TypeOK /\ result = "running" /\ gone = {} /\ Watching /\ p \notin locked
      /\ race' = [race EXCEPT ![p] = r]
      /\ UNCHANGED <<locked, pickTimeout, current, result, first, aborted, gone, watcher>>
  BY DEF UpdateProvisionalRace, MayChange, Send, matchVars, IInv, ScreenInv, Watching
<1>2. /\ IsScreen(v, FALSE, v.picker, locked, ShownNow)
      /\ v.picker = current \/ (v.picker = NoTurn /\ pickTimeout = NoTurn)
  BY <1>1 DEF ScreenInv, ScreenAt
<1>3. IsScreen(After(view', chan'), FALSE, v.picker, locked, ShownNow')
  <2>1. CASE p[1] = watcher[1]
    <3>1. After(view', chan') = Reduce(v, Provisional(p, r))
      BY <1>1, <2>1, MessagesTyped, SendMakes DEF UpdateProvisionalRace
    <3>2. IsScreen(Reduce(v, Provisional(p, r)), FALSE, v.picker, locked, [ShownNow EXCEPT ![p] = r])
      BY <1>1, <1>2, ReduceProvisional
    <3>3. ShownNow' = [ShownNow EXCEPT ![p] = r]
      BY <1>1, <2>1 DEF ShownNow, TypeOK
    <3> QED
      BY <3>1, <3>2, <3>3
  <2>2. CASE p[1] # watcher[1]
    <3>1. After(view', chan') = v
      BY <1>1, <2>2, SendNone DEF UpdateProvisionalRace
    <3>2. ShownNow' = ShownNow
      BY <1>1, <2>2 DEF ShownNow, TypeOK
    <3> QED
      BY <1>2, <3>1, <3>2
  <2> QED
    BY <2>1, <2>2
<1> HIDE DEF v
<1> QED
  BY <1>1, <1>2, <1>3, ScreenPicker DEF ScreenInv, ScreenAt

LEMMA ScreensRun ==
    ASSUME IInv, ScreenInv, RunDraft
    PROVE  ScreenInv'
<1> DEFINE v == After(view, chan)
<1>1. /\ TypeOK /\ result = "none" /\ ~v.open
      /\ UNCHANGED <<race, locked, current, pickTimeout, first, aborted, gone, watcher>>
  <2>1. UNCHANGED <<race, locked, current, pickTimeout, first, aborted, gone, watcher>>
    BY DEF RunDraft, Send, matchVars
  <2> QED
    BY <2>1 DEF RunDraft, ScreenInv, ScreenAt, IInv
<1>2. CASE aborted
  <2>1. result' = "failed" /\ Send(<<Started, Canceled>>)
    BY <1>2 DEF RunDraft
  <2>2. ~After(view', chan').open
    <3>1. CASE Watching
      <4>1. Started \in Messages /\ Canceled \in Messages /\ chan \in Seq(Messages)
        BY <1>1, MessagesTyped DEF TypeOK
      <4>2. chan \o <<Started, Canceled>> = Append(Append(chan, Started), Canceled)
        BY <4>1
      <4>3. Append(chan, Started) \in Seq(Messages)
        BY <4>1
      <4>4. After(view, Append(Append(chan, Started), Canceled)) = Blank
        BY <4>1, <4>3, AfterAppend, BlankClosed
      <4> QED
        BY <2>1, <3>1, <4>2, <4>4, BlankClosed DEF Send
    <3>2. CASE ~Watching
      BY <1>1, <2>1, <3>2 DEF Send
    <3> QED
      BY <3>1, <3>2
  <2> HIDE DEF v
  <2> QED
    BY <1>1, <1>2, <2>1, <2>2 DEF ScreenInv, ScreenAt
<1>3. CASE ~aborted
  <2>1. result' = "running" /\ Send(<<Started>>) /\ gone = {} /\ Watching
    BY <1>3 DEF RunDraft, ScreenInv, Watching
  <2>2. After(view', chan') = Snapshot
    BY <1>1, <2>1, MessagesTyped, SendMakes, BlankClosed
  <2>3. ShownNow' = ShownNow
    BY <1>1 DEF ShownNow
  <2>4. IsScreen(After(view', chan'), FALSE, current, locked, ShownNow)
    BY <2>2, SnapshotIs
  <2> HIDE DEF v
  <2> QED
    BY <1>1, <1>3, <2>1, <2>3, <2>4, ScreenPicker DEF ScreenInv, ScreenAt
<1> QED
  BY <1>2, <1>3

LEMMA ScreensLeave ==
    ASSUME IInv, ScreenInv, NEW p \in Players, ClientLeaves(p)
    PROVE  ScreenInv'
<1>1. TypeOK /\ aborted' = TRUE
  BY DEF ClientLeaves, IInv
<1>2. CASE /\ result = "running" /\ result' = "failed"
           /\ chan' = IF watcher \in gone' THEN <<>> ELSE Append(chan, Canceled)
           /\ view' = IF watcher \in gone' THEN Blank ELSE view
  <2>1. After(view', chan') = Blank
    <3>1. CASE watcher \in gone'
      BY <1>2, <3>1, AfterNone
    <3>2. CASE watcher \notin gone'
      <4>1. chan \in Seq(Messages) /\ Canceled \in Messages
        BY <1>1, MessagesTyped DEF TypeOK
      <4> QED
        BY <1>2, <3>2, <4>1, AfterAppend, BlankClosed
    <3> QED
      BY <3>1, <3>2
  <2> QED
    BY <1>1, <1>2, <2>1, BlankClosed DEF ScreenInv, ScreenAt
<1>3. CASE result = "none" /\ UNCHANGED <<result, chan, view>>
  BY <1>1, <1>3 DEF ScreenInv, ScreenAt
<1> QED
  BY <1>2, <1>3 DEF ClientLeaves

LEMMA ScreensStand ==
    ASSUME IInv, ScreenInv, Reconnect \/ Deliver \/ UNCHANGED vars
    PROVE  ScreenInv'
<1>1. TypeOK /\ UNCHANGED <<race, locked, current, pickTimeout, result, first, aborted, gone, watcher>>
  BY DEF Reconnect, Deliver, vars, draftVars, matchVars, clientVars, IInv
<1>2. ShownNow' = ShownNow
  BY <1>1 DEF ShownNow
<1>3. CASE Reconnect
  <2>1. CASE result = "running"
    <3>1. view' = Blank /\ chan' = Append(<<>>, Started)
      BY <1>3, <2>1 DEF Reconnect
    <3>2. <<>> \in Seq(Messages) /\ Started \in Messages
      BY <1>1, MessagesTyped
    <3>3. After(view', chan') = Snapshot
      BY <3>1, <3>2, AfterAppend, BlankClosed
    <3>4. IsScreen(After(view', chan'), FALSE, current, locked, ShownNow)
      BY <3>3, SnapshotIs
    <3> QED
      BY <1>1, <1>2, <2>1, <3>4, ScreenPicker DEF ScreenInv, ScreenAt
  <2>2. CASE result # "running"
    <3>1. After(view', chan') = Blank
      BY <1>3, <2>2, AfterNone DEF Reconnect
    <3> QED
      BY <1>1, <2>2, <3>1, BlankClosed DEF ScreenInv, ScreenAt
  <2> QED
    BY <2>1, <2>2
<1>4. CASE Deliver \/ UNCHANGED vars
  <2>1. After(view', chan') = After(view, chan)
    BY <1>1, <1>4, AfterHead DEF Deliver, vars, clientVars, TypeOK
  <2> QED
    BY <1>1, <1>2, <2>1 DEF ScreenInv, ScreenAt
<1> QED
  BY <1>3, <1>4

LEMMA ScreenStepHolds == IInv /\ ScreenInv /\ [Next]_vars => ScreenInv'
<1> SUFFICES ASSUME IInv, ScreenInv, [Next]_vars PROVE ScreenInv'
  OBVIOUS
<1>1. CASE RunDraft
  BY <1>1, ScreensRun
<1>2. CASE StartElapsed
  BY <1>2, ScreensAdvance DEF StartElapsed
<1>3. ASSUME NEW i \in Turns, PauseElapsed(i) PROVE ScreenInv'
  BY <1>3, ScreensAdvance DEF PauseElapsed
<1>4. ASSUME NEW i \in Turns, PickTimesOut(i) PROVE ScreenInv'
  <2>1. current \in Turns /\ TypeOK /\ first \in {1, 2}
    BY <1>4 DEF PickTimesOut, IInv, TypeOK
  <2>2. Picker(current) \in Players /\ race[Picker(current)] \in Races
    BY <2>1, PickerOnce DEF TypeOK
  <2> QED
    BY <1>4, <2>2, ScreensLock DEF PickTimesOut
<1>5. ASSUME NEW p \in Players, ClientLeaves(p) PROVE ScreenInv'
  BY <1>5, ScreensLeave
<1>6. ASSUME NEW p \in Players, NEW r \in Races, LockInPick(p, r) PROVE ScreenInv'
  BY <1>6, ScreensLock DEF LockInPick
<1>7. ASSUME NEW p \in Players, NEW r \in Races, UpdateProvisionalRace(p, r) PROVE ScreenInv'
  BY <1>7, ScreensUpdate
<1>8. CASE Reconnect \/ Deliver \/ UNCHANGED vars
  BY <1>8, ScreensStand
<1> QED
  BY <1>1, <1>2, <1>3, <1>4, <1>5, <1>6, <1>7, <1>8 DEF Next, Elapses

(* Whatever is still on its socket, a watched client comes to show the draft   *)
(* the server has (the publishes of DraftState and the reducers of             *)
(* draft-atoms.ts), and nobody stays in a draft that failed.                *)
THEOREM ScreensFollow == Spec => []ScreensCatchUp
<1>1. ASSUME ScreenInv PROVE ScreensCatchUp
  <2> DEFINE v == After(view, chan)
  <2>1. ScreenAt(v)
    BY <1>1 DEF ScreenInv
  <2> HIDE DEF v
  <2>2. ASSUME result = "running"
        PROVE  /\ v = [Snapshot EXCEPT !.picker = v.picker]
               /\ v.picker = current \/ (v.picker = NoTurn /\ pickTimeout = NoTurn)
    <3> DEFINE k == v.picker
    <3>1. IsScreen(v, FALSE, k, locked, ShownNow)
      BY <2>1, <2>2 DEF ScreenAt
    <3> HIDE DEF k
    <3>2. v = [Snapshot EXCEPT !.picker = k]
      <4>1. PICK x : x = [Snapshot EXCEPT !.picker = k]
        OBVIOUS
      <4>2. IsScreen(x, FALSE, k, locked, ShownNow)
        BY <4>1, SnapshotIs DEF IsScreen
      <4> QED
        BY <3>1, <4>1, <4>2 DEF IsScreen
    <3> USE DEF k
    <3> QED
      BY <2>1, <2>2, <3>2 DEF ScreenAt
  <2>3. ASSUME result = "done", v.open
        PROVE  v = [Snapshot EXCEPT !.complete = TRUE, !.picker = NoTurn]
    <3>1. IsScreen(v, TRUE, NoTurn, locked, ShownNow)
      BY <2>1, <2>3 DEF ScreenAt
    <3> QED
      BY <3>1, SnapshotIs, ScreenEnds
  <2>4. result = "failed" => ~v.open
    BY <2>1 DEF ScreenAt
  <2> QED
    BY <2>2, <2>3, <2>4 DEF ScreensCatchUp, v
<1> QED
  BY <1>1, InitHolds, StepHolds, InitScreens, ScreenStepHolds, PTL DEF Spec
=============================================================================
