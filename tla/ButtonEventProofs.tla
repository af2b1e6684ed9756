------------------------- MODULE ButtonEventProofs -------------------------
(***************************************************************************)
(* What holds of the events the driver creates, for any number of buttons, *)
(* delays, thresholds and faults: the types, the alternation of pressed    *)
(* and released, the debouncing and the bound on SEEN; and of their        *)
(* messages, while one worker at a time runs.                              *)
(***************************************************************************)
EXTENDS ButtonHotplugProofs, UeventWorkProofs, FiniteSetTheorems

USE ConstantTypes

LEMMA MoreConstantTypes ==
    /\ MaxAge \in Nat /\ MaxEdges \in Nat /\ HZ \in Nat \ {0}
    /\ Lag \in Nat
    /\ Polled => Delay > 0
<1>1. Threshold * Delay \in Nat
  BY DriverAssumption
<1>2. QED
  BY <1>1, DriverAssumption DEF Lag

\* The types of the histories that TypeOK leaves out.
SteadyTypes == steady \in [Buttons -> [level : {Released, Pressed}, n : Nat]]

TypeInv == TypeOK /\ SteadyTypes

LEMMA TypeInvParts ==
    ASSUME TypeInv
    PROVE  /\ EventTypes
           /\ line \in [Buttons -> {Released, Pressed}]
           /\ lastState \in [Buttons -> {Unknown, Released, Pressed}]
           /\ count \in [Buttons -> 0 .. Threshold]
           /\ age \in [Buttons -> Times]
           /\ timer \in [Buttons -> {Idle} \cup 0 .. Delay]
           /\ missed \in [Buttons -> BOOLEAN]
           /\ held \in [Buttons -> {Never} \cup 0 .. MaxAge + Lag]
           /\ hold \in [Buttons -> {Never} \cup 0 .. MaxAge + Lag]
           /\ cur \in 1 .. NButtons + 1
           /\ steady \in [Buttons -> [level : {Released, Pressed}, n : Nat]]
BY DEF TypeInv, TypeOK, SteadyTypes, EventTypes, Names

\* The duration that an event reports is a number of whole seconds.
LEMMA SeenType ==
    ASSUME age \in [Buttons -> Times], NEW b \in Buttons
    PROVE  /\ Seen(b) \in Nat
           /\ Seen(b) * HZ <= IF age[b] = Never THEN 0 ELSE age[b]
<1>1. HZ \in Nat \ {0} /\ age[b] \in {Never} \cup Nat
  BY MoreConstantTypes DEF Times
<1>2. ASSUME NEW a \in Nat, NEW h \in Nat \ {0} PROVE a \div h \in Nat /\ (a \div h) * h <= a
  BY <1>2, SMTT(30)
<1>3. CASE age[b] = Never
  BY <1>1, <1>3 DEF Seen
<1>4. CASE age[b] # Never
  <2>1. age[b] \in Nat
    BY <1>1, <1>4
  <2>2. QED
    BY <1>1, <1>2, <1>4, <2>1 DEF Seen
<1>5. QED
  BY <1>3, <1>4

\* What a sample may do: the driver's state follows an event or is set in silence.
LEMMA HandleTypes ==
    ASSUME TypeInv, NEW b \in Buttons, Handle(b)
    PROVE  /\ EventTypes'
           /\ lastState' \in [Buttons -> {Unknown, Released, Pressed}]
           /\ count' \in [Buttons -> 0 .. Threshold]
           /\ age' \in [Buttons -> Times]
           /\ missed' \in [Buttons -> BOOLEAN]
           /\ held' \in [Buttons -> {Never} \cup 0 .. MaxAge + Lag]
           /\ hold' \in [Buttons -> {Never} \cup 0 .. MaxAge + Lag]
<1> USE TypeInvParts
<1>1. lastState' \in [Buttons -> {Unknown, Released, Pressed}]
  <2>1. lastState' = [lastState EXCEPT ![b] = IF Quiet(b) \/ Fires(b) THEN line[b] ELSE @]
    BY DEF Handle
  <2>2. QED
    BY <2>1
<1>2. count' \in [Buttons -> 0 .. Threshold]
  <2>1. count' = [count EXCEPT ![b] = IF Changed(b) /\ ~Fires(b) THEN @ + 1 ELSE 0]
    BY DEF Handle
  <2>2. Changed(b) /\ ~Fires(b) => count[b] + 1 \in 0 .. Threshold
    BY DEF Fires
  <2>3. QED
    BY <2>1, <2>2
<1>3. age' \in [Buttons -> Times]
  <2>1. age' = [age EXCEPT ![b] = IF Fires(b) THEN 0 ELSE @]
    BY DEF Handle
  <2>2. QED
    BY <2>1, MoreConstantTypes DEF Times
<1>4. missed' \in [Buttons -> BOOLEAN]
  BY DEF Handle
<1>5. held' \in [Buttons -> {Never} \cup 0 .. MaxAge + Lag]
  <2>1. \/ held' = [held EXCEPT ![b] = Never]
        \/ held' = [held EXCEPT ![b] = held[b]]
    BY DEF Handle
  <2>2. QED
    BY <2>1
<1>6. EventTypes'
  <2>1. CASE Fires(b)
    <3>1. Create(b, line[b], Seen(b))
      BY <2>1 DEF Handle
    <3>2. line[b] \in {Released, Pressed} /\ Seen(b) \in Nat
      BY SeenType
    <3>3. EventTypes
      OBVIOUS
    <3> DEFINE a == line[b]
               t == Seen(b)
    <3>4. a \in {Released, Pressed} /\ t \in Nat /\ Create(b, a, t)
      BY <3>1, <3>2
    <3> HIDE DEF a, t
    <3>5. QED
      BY <3>3, <3>4, CreateAppends
  <2>2. CASE ~Fires(b)
    BY <2>2 DEF Handle, eventVars, EventTypes
  <2>3. QED
    BY <2>1, <2>2
<1>7. hold' \in [Buttons -> {Never} \cup 0 .. MaxAge + Lag]
  <2>1. PICK h \in {0, hold[b]} : hold' = [hold EXCEPT ![b] = h]
    BY DEF Handle
  <2>2. h \in {Never} \cup 0 .. MaxAge + Lag
    BY MoreConstantTypes, SMTT(60)
  <2>3. QED
    BY <2>1, <2>2
<1>8. QED
  BY <1>1, <1>2, <1>3, <1>4, <1>5, <1>6, <1>7

\* The delayed work of a button is scheduled, cancelled or left alone.
LEMMA TimerSet ==
    ASSUME TypeInv, NEW b \in Buttons,
           \/ timer' = [timer EXCEPT ![b] = Delay]
           \/ timer' = [timer EXCEPT ![b] = Idle]
           \/ timer' = timer
    PROVE  timer' \in [Buttons -> {Idle} \cup 0 .. Delay]
<1>1. timer \in [Buttons -> {Idle} \cup 0 .. Delay]
  BY TypeInvParts
<1>2. CASE timer' = [timer EXCEPT ![b] = Delay]
  BY <1>1, <1>2
<1>3. CASE timer' = [timer EXCEPT ![b] = Idle]
  BY <1>1, <1>3
<1>4. QED
  BY <1>1, <1>2, <1>3

\* Each step keeps the types.
LEMMA NextTypes == DriverInv /\ TypeInv /\ [Next]_vars => TypeInv'
<1> SUFFICES ASSUME DriverInv, TypeInv, [Next]_vars PROVE TypeInv'
  OBVIOUS
<1> USE TypeInvParts, MoreConstantTypes
<1> DEFINE Phases == {"queue", "poll", "schedule", "request", "bound", "disable", "cancel", "gone"}
<1>1. ASSUME EventTypes', edges' \in 0 .. MaxEdges, cur' \in 1 .. NButtons + 1,
             age' \in [Buttons -> Times], count' \in [Buttons -> 0 .. Threshold],
             timer' \in [Buttons -> {Idle} \cup 0 .. Delay],
             held' \in [Buttons -> {Never} \cup 0 .. MaxAge + Lag],
             hold' \in [Buttons -> {Never} \cup 0 .. MaxAge + Lag], SteadyTypes'
      PROVE  TypeInv'
  <2>1. DriverTypes'
    BY NextDriver DEF DriverInv
  <2>2. phase' \in Phases
    BY <2>1 DEF DriverTypes, PolledPhases, IrqPhases
  <2>3. QED
    BY <1>1, <2>1, <2>2 DEF TypeInv, TypeOK, EventTypes, Names, DriverTypes
<1>2. /\ UNCHANGED eventVars => EventTypes'
      /\ UNCHANGED worldVars => /\ edges' \in 0 .. MaxEdges /\ SteadyTypes'
                               /\ held' \in [Buttons -> {Never} \cup 0 .. MaxAge + Lag]
                               /\ hold' \in [Buttons -> {Never} \cup 0 .. MaxAge + Lag]
      /\ edges \in 0 .. MaxEdges /\ SteadyTypes
  BY DEF eventVars, EventTypes, worldVars, TypeInv, TypeOK, SteadyTypes
<1>4. CASE QueuePoll \/ PollStarts \/ PollEnds \/ RemovePolled
  <2>1. UNCHANGED eventVars /\ UNCHANGED worldVars /\ UNCHANGED <<age, count>>
    BY <1>4 DEF QueuePoll, PollStarts, PollEnds, RemovePolled
  <2>2. cur' \in 1 .. NButtons + 1
    BY <1>4 DEF QueuePoll, PollStarts, PollEnds, RemovePolled
  <2>3. timer' \in [Buttons -> {Idle} \cup 0 .. Delay]
    <3>1. timer' = [timer EXCEPT ![1] = Delay] \/ timer' = [timer EXCEPT ![1] = Idle]
      BY <1>4, Zenon DEF QueuePoll, PollStarts, PollEnds, RemovePolled
    <3>2. QED
      BY <3>1, TimerSet
  <2>4. QED
    BY <1>1, <1>2, <2>1, <2>2, <2>3
<1>5. CASE ScheduleFirst \/ RequestIrq \/ DisableIrq \/ CancelWork
  <2>1. UNCHANGED eventVars /\ UNCHANGED worldVars /\ UNCHANGED <<age, count>>
    BY <1>5 DEF ScheduleFirst, RequestIrq, DisableIrq, CancelWork
  <2>2. cur' \in 1 .. NButtons + 1
    BY <1>5 DEF ScheduleFirst, RequestIrq, DisableIrq, CancelWork, NextButton
  <2>3. cur \in Buttons
    BY <1>5 DEF DriverInv, DriverTypes, PolledPhases, ScheduleFirst, RequestIrq, DisableIrq, CancelWork
  <2>4. timer' \in [Buttons -> {Idle} \cup 0 .. Delay]
    <3>1. \/ timer' = [timer EXCEPT ![cur] = Delay] \/ timer' = [timer EXCEPT ![cur] = Idle]
          \/ timer' = timer
      BY <1>5, Zenon DEF ScheduleFirst, RequestIrq, DisableIrq, CancelWork
    <3>2. QED
      BY <2>3, <3>1, TimerSet
  <2>5. QED
    BY <1>1, <1>2, <2>1, <2>2, <2>4
<1>6. CASE PollButton
  <2>1. SteadyTypes'
    <3>1. cur \in Buttons
      BY <1>6 DEF PollButton
    <3>2. ASSUME NEW m \in Nat PROVE Least(m + 1, Threshold + 1) \in Nat
      BY DEF Least
    <3>3. [level |-> line[cur],
           n |-> IF steady[cur].level = line[cur]
                 THEN Least(steady[cur].n + 1, Threshold + 1) ELSE 1]
            \in [level : {Released, Pressed}, n : Nat]
      BY <3>1, <3>2
    <3>4. QED
      BY <1>6, <3>1, <3>3 DEF PollButton, Sampled, SteadyTypes
  <2>2. UNCHANGED <<timer, edges>> /\ cur' = cur + 1 /\ cur \in Buttons /\ Handle(cur)
    BY <1>6 DEF PollButton
  <2>3. cur' \in 1 .. NButtons + 1
    BY <2>2
  <2>4. /\ EventTypes' /\ count' \in [Buttons -> 0 .. Threshold] /\ age' \in [Buttons -> Times]
        /\ held' \in [Buttons -> {Never} \cup 0 .. MaxAge + Lag]
        /\ hold' \in [Buttons -> {Never} \cup 0 .. MaxAge + Lag]
    BY <2>2, HandleTypes
  <2>5. QED
    BY <1>1, <1>2, <2>1, <2>2, <2>3, <2>4
<1>7. ASSUME NEW b \in Buttons, IrqWork(b) PROVE TypeInv'
  <2>1. UNCHANGED <<cur, steady, edges>> /\ timer' = [timer EXCEPT ![b] = Idle] /\ Handle(b)
    BY <1>7 DEF IrqWork
  <2>2. /\ EventTypes' /\ count' \in [Buttons -> 0 .. Threshold] /\ age' \in [Buttons -> Times]
        /\ held' \in [Buttons -> {Never} \cup 0 .. MaxAge + Lag]
        /\ hold' \in [Buttons -> {Never} \cup 0 .. MaxAge + Lag]
    BY <2>1, HandleTypes
  <2>3. SteadyTypes'
    BY <2>1 DEF SteadyTypes
  <2>4. QED
    BY <1>1, <1>2, TimerSet, <2>1, <2>2, <2>3
<1>8. CASE Tick
  <2>1. /\ timer' = [b \in Buttons |-> IF timer[b] > 0 THEN timer[b] - 1 ELSE timer[b]]
        /\ age' = [b \in Buttons |-> IF age[b] = Never THEN Never ELSE Least(age[b] + 1, MaxAge)]
        /\ held' = [b \in Buttons |-> IF held[b] = Never THEN Never
                                      ELSE Least(held[b] + 1, MaxAge + Lag)]
        /\ UNCHANGED eventVars /\ UNCHANGED <<count, cur, edges, hold>>
    BY <1>8 DEF Tick
  <2>2. timer' \in [Buttons -> {Idle} \cup 0 .. Delay]
    BY <2>1, SMTT(60) DEF Idle
  <2>3. age' \in [Buttons -> Times]
    BY <2>1, SMTT(60) DEF Times, Never, Least
  <2>4. held' \in [Buttons -> {Never} \cup 0 .. MaxAge + Lag]
    BY <2>1, SMTT(60) DEF Never, Least
  <2>5. SteadyTypes'
    <3>1. CASE Polled
      BY <1>2, <1>8, <3>1 DEF Tick, SteadyTypes
    <3>2. CASE ~Polled
      <4>1. steady' = [b \in Buttons |-> [steady[b] EXCEPT !.n = Least(@ + 1, Delay)]]
        BY <1>8, <3>2 DEF Tick
      <4>2. ASSUME NEW m \in Nat PROVE Least(m + 1, Delay) \in Nat
        BY DEF Least
      <4>3. QED
        BY <4>1, <4>2, ZenonT(40) DEF SteadyTypes
    <3>3. QED
      BY <3>1, <3>2
  <2>6. QED
    BY <1>1, <1>2, <2>1, <2>2, <2>3, <2>4, <2>5
<1>9. ASSUME NEW b \in Buttons, Edge(b) PROVE TypeInv'
  <2>1. UNCHANGED eventVars /\ UNCHANGED <<count, age, cur>> /\ edges' \in 0 .. MaxEdges
    <3>1. edges < MaxEdges /\ edges' = edges + 1
      BY <1>9 DEF Edge
    <3>2. edges' \in 0 .. MaxEdges
      BY <1>2, <3>1
    <3>3. UNCHANGED eventVars /\ UNCHANGED <<count, age, cur>>
      BY <1>9 DEF Edge
    <3>4. QED
      BY <3>2, <3>3
  <2>2. timer' \in [Buttons -> {Idle} \cup 0 .. Delay]
    <3>1. timer' = [timer EXCEPT ![b] = Delay] \/ timer' = timer
      BY <1>9, Zenon DEF Edge
    <3>2. QED
      BY <3>1, TimerSet
  <2>3. held' \in [Buttons -> {Never} \cup 0 .. MaxAge + Lag]
    <3>1. held' = [held EXCEPT ![b] = IF @ = Never THEN 0 ELSE @]
      BY <1>9 DEF Edge
    <3>2. QED
      BY <3>1
  <2>4. SteadyTypes'
    <3>1. steady' = IF Polled THEN steady ELSE [steady EXCEPT ![b].n = 0]
      BY <1>9 DEF Edge
    <3>2. QED
      BY <1>2, <3>1 DEF SteadyTypes
  <2>5. hold' \in [Buttons -> {Never} \cup 0 .. MaxAge + Lag]
    <3>1. hold' = [hold EXCEPT ![b] = IF line[b] = Pressed THEN held[b] ELSE 0]
      BY <1>9 DEF Edge
    <3>2. QED
      BY <3>1
  <2>6. QED
    BY <1>1, <1>2, <2>1, <2>2, <2>3, <2>4, <2>5
<1>10. ASSUME NEW i \in DOMAIN events, Worker(i) PROVE TypeInv'
  <2>1. Work(i) /\ UNCHANGED <<age, count, timer, cur>> /\ UNCHANGED worldVars
    BY <1>10 DEF Worker, driverVars
  <2>2. EventTypes'
    BY <2>1, WorkReplaces
  <2>3. QED
    BY <1>1, <1>2, <2>1, <2>2
<1>11. CASE UNCHANGED vars
  <2>1. UNCHANGED eventVars /\ UNCHANGED worldVars /\ UNCHANGED <<age, count, timer, cur>>
    BY <1>11 DEF vars, driverVars
  <2>2. QED
    BY <1>1, <1>2, <2>1
<1>12. QED
  BY <1>4, <1>5, <1>6, <1>7, <1>8, <1>9, <1>10, <1>11 DEF Next, Front, Driver, Remove

LEMMA InitTypes == Init => TypeInv
<1> SUFFICES ASSUME Init PROVE TypeInv
  OBVIOUS
<1>1. EventTypes
  BY InitSerial DEF Init
<1>2. DriverTypes
  BY InitDriver DEF DriverInv
<1>3. SteadyTypes
  BY DEF Init, SteadyTypes
<1>4. phase \in {"queue", "poll", "schedule", "request", "bound", "disable", "cancel", "gone"}
  BY <1>2 DEF DriverTypes, PolledPhases, IrqPhases
<1>5. /\ count \in [Buttons -> 0 .. Threshold] /\ age \in [Buttons -> Times]
      /\ timer \in [Buttons -> {Idle} \cup 0 .. Delay]
      /\ held \in [Buttons -> {Never} \cup 0 .. MaxAge + Lag]
      /\ hold \in [Buttons -> {Never} \cup 0 .. MaxAge + Lag]
      /\ cur \in 1 .. NButtons + 1 /\ edges \in 0 .. MaxEdges
  BY MoreConstantTypes DEF Init, Times
<1>6. QED
  BY <1>1, <1>2, <1>3, <1>4, <1>5 DEF TypeInv, TypeOK, EventTypes, Names, DriverTypes

LEMMA TypesHold == Spec => []TypeInv
<1>1. Init => TypeInv
  BY InitTypes
<1>2. DriverInv /\ TypeInv /\ [Next]_vars => TypeInv'
  BY NextTypes
<1>3. QED
  BY <1>1, <1>2, DriverHolds, PTL DEF Spec

\* No counter, countdown or index of the driver leaves its range: a sample that
\* differs is counted up to the threshold and no further, and the work is never
\* further away than the delay.
THEOREM RangesKept == Spec => []TypeOK
<1>1. TypeInv => TypeOK
  BY DEF TypeInv
<1>2. QED
  BY <1>1, TypesHold, PTL
-----------------------------------------------------------------------------
\* Event i is the last one of button b.
IsLast(b, i) ==
    /\ i \in DOMAIN events /\ events[i].button = b
    /\ \A j \in DOMAIN events : events[j].button = b => j <= i

\* The driver's state is the action of the last event, or no event was due.
FollowsEvents(b) ==
    \/ /\ \A i \in DOMAIN events : events[i].button # b
       /\ lastState[b] = Unknown \/ (b \notin Switches /\ lastState[b] = Released)
    \/ \E i \in DOMAIN events : IsLast(b, i) /\ events[i].action = lastState[b]

NeighboursDiffer(b) ==
    \A j, k \in DOMAIN events :
        /\ events[j].button = b /\ events[k].button = b /\ j < k
        /\ \A m \in DOMAIN events : j < m /\ m < k => events[m].button # b
        => events[j].action # events[k].action

FirstIsPress(b) ==
    \A k \in DOMAIN events :
        /\ events[k].button = b /\ b \notin Switches
        /\ \A m \in DOMAIN events : m < k => events[m].button # b
        => events[k].action = Pressed

AlternateInv == \A b \in Buttons : FollowsEvents(b) /\ NeighboursDiffer(b) /\ FirstIsPress(b)

\* Button b is sampled.
Samples(b) ==
    /\ Handle(b)
    /\ \/ Polled /\ b = cur /\ PollButton
       \/ ~Polled /\ IrqWork(b)

\* A step samples one button, moves one event on, or touches neither an event nor
\* a state.
LEMMA StepKinds ==
    ASSUME DriverInv, [Next]_vars
    PROVE  \/ \E b \in Buttons : Samples(b)
           \/ \E i \in DOMAIN events : Work(i) /\ UNCHANGED <<driverVars, worldVars>>
           \/ UNCHANGED <<events, buf, seqnum, sent, lastState>>
<1>1. CASE PollButton
  <2>1. Polled /\ cur \in Buttons /\ Handle(cur)
    BY <1>1 DEF PollButton, DriverInv, DriverTypes, IrqPhases
  <2>2. QED
    BY <1>1, <2>1 DEF Samples
<1>2. ASSUME NEW b \in Buttons, IrqWork(b) PROVE Samples(b)
  BY <1>2 DEF IrqWork, Samples
<1>3. CASE QueuePoll \/ PollStarts \/ PollEnds \/ ScheduleFirst \/ RequestIrq
           \/ CancelWork \/ RemovePolled \/ DisableIrq
  BY <1>3 DEF QueuePoll, PollStarts, PollEnds, ScheduleFirst, RequestIrq, CancelWork,
              RemovePolled, DisableIrq, eventVars
<1>4. CASE Tick \/ \E b \in Buttons : Edge(b)
  BY <1>4 DEF Tick, Edge, eventVars
<1>5. CASE UNCHANGED vars
  BY <1>5 DEF vars, eventVars, driverVars
<1>6. ASSUME NEW i \in DOMAIN events, Worker(i)
      PROVE  \E j \in DOMAIN events : Work(j) /\ UNCHANGED <<driverVars, worldVars>>
  BY <1>6 DEF Worker
<1>7. QED
  BY <1>1, <1>2, <1>3, <1>4, <1>5, <1>6 DEF Next, Front, Driver, Remove

\* An event with these three, and nothing else, is added.
Makes(b, x, y) ==
    \E e \in Event : events' = Append(events, e) /\ e.button = b /\ e.action = x /\ e.seen = y

LEMMA CreateMakes ==
    ASSUME EventTypes, NEW b \in Buttons, NEW x \in {Released, Pressed}, NEW y \in Nat,
           Create(b, x, y)
    PROVE  Makes(b, x, y)
<1>1. PICK e \in Event : /\ events' = Append(events, e)
                        /\ e.button = b /\ e.action = x /\ e.seen = y
                        /\ e.msg = <<>> /\ e.seq = 0 /\ e.st \in {"queued", "lost"}
  BY CreateAppends
<1> QED
  BY <1>1, Zenon DEF Makes

\* An event is created for a level that differs from the state, and not for a
\* key that is found released first.
LEMMA FiresCreates ==
    ASSUME TypeInv, NEW b \in Buttons, Handle(b), Fires(b)
    PROVE  /\ \E e \in Event : /\ events' = Append(events, e)
                              /\ e.button = b /\ e.action = line[b] /\ e.seen = Seen(b)
           /\ DOMAIN events = 1 .. Len(events) /\ Len(events) \in Nat
           /\ DOMAIN events' = 1 .. Len(events) + 1 /\ Len(events') = Len(events) + 1
           /\ \A j \in DOMAIN events : events'[j] = events[j]
           /\ events'[Len(events')].button = b
           /\ events'[Len(events')].action = line[b]
           /\ events'[Len(events')].seen = Seen(b)
           /\ lastState' = [lastState EXCEPT ![b] = line[b]]
           /\ lastState[b] # line[b]
           /\ lastState[b] = Unknown /\ b \notin Switches => line[b] = Pressed
<1> DEFINE a == line[b]
           t == Seen(b)
<1>1. EventTypes
  BY TypeInvParts
<1>2. a \in {Released, Pressed} /\ t \in Nat /\ Create(b, a, t)
  BY TypeInvParts, SeenType DEF Handle
<1>3. \E e \in Event : events' = Append(events, e) /\ e.button = b /\ e.action = a /\ e.seen = t
  <2>1. PICK x \in {Released, Pressed}, y \in Nat : x = a /\ y = t
    BY <1>2, Zenon
  <2>2. Create(b, x, y)
    BY <1>2, <2>1, Zenon
  <2>3. Makes(b, x, y)
    BY <1>1, <2>2, CreateMakes
  <2>4. QED
    BY <2>1, <2>3, Zenon DEF Makes
<1>4. lastState' = [lastState EXCEPT ![b] = line[b]]
  BY DEF Handle
<1>5. lastState[b] # line[b] /\ ~Quiet(b)
  BY DEF Fires, Changed
<1>6. lastState[b] = Unknown /\ b \notin Switches => line[b] = Pressed
  BY <1>2, <1>5 DEF Quiet
<1>7. QED
  BY <1>1, <1>3, <1>4, <1>5, <1>6 DEF EventTypes

LEMMA NextAlternate == DriverInv /\ TypeInv /\ AlternateInv /\ [Next]_vars => AlternateInv'
<1> SUFFICES ASSUME DriverInv, TypeInv, AlternateInv, [Next]_vars PROVE AlternateInv'
  OBVIOUS
<1> DEFINE Kept(b) == FollowsEvents(b) /\ NeighboursDiffer(b) /\ FirstIsPress(b)
<1>1. /\ events \in Seq(Event)
      /\ \A j \in DOMAIN events : events[j] \in Event /\ events[j].action \in {Released, Pressed}
      /\ lastState \in [Buttons -> {Unknown, Released, Pressed}]
  <2>1. EventTypes /\ lastState \in [Buttons -> {Unknown, Released, Pressed}]
    BY TypeInvParts
  <2>2. \A j \in DOMAIN events : events[j] \in Event
    BY <2>1 DEF EventTypes
  <2>3. \A j \in DOMAIN events : events[j].action \in {Released, Pressed}
    BY <2>2 DEF Event
  <2>4. QED
    BY <2>1, <2>2, <2>3 DEF EventTypes
<1>2. ASSUME NEW b \in Buttons, Handle(b) PROVE AlternateInv'
  <2>1. CASE Fires(b)
    <3>2. PICK n : n = Len(events) + 1
      OBVIOUS
    <3>1. /\ DOMAIN events = 1 .. Len(events) /\ Len(events) \in Nat
          /\ DOMAIN events' = 1 .. n /\ Len(events') = n
          /\ \A j \in DOMAIN events : events'[j] = events[j]
          /\ events'[n].button = b /\ events'[n].action = line[b]
          /\ lastState' = [lastState EXCEPT ![b] = line[b]]
          /\ lastState[b] # line[b]
          /\ lastState[b] = Unknown /\ b \notin Switches => line[b] = Pressed
      BY <1>2, <2>1, <3>2, FiresCreates
    <3>3. ASSUME NEW o \in Buttons, o # b PROVE Kept(o)'
      <4>1. lastState'[o] = lastState[o]
        BY <1>1, <3>1, <3>3
      <4>2. FollowsEvents(o)'
        BY <3>1, <3>2, <3>3, <4>1, SMTT(60) DEF AlternateInv, FollowsEvents, IsLast
      <4>3. NeighboursDiffer(o)'
        BY <3>1, <3>2, <3>3, SMTT(60) DEF AlternateInv, NeighboursDiffer
      <4>4. FirstIsPress(o)'
        BY <3>1, <3>2, <3>3 DEF AlternateInv, FirstIsPress
      <4>5. QED
        BY <4>2, <4>3, <4>4
    <3>4. FollowsEvents(b)'
      <4>1. IsLast(b, n)' /\ n \in DOMAIN events'
        BY <3>1, <3>2 DEF IsLast
      <4>2. lastState'[b] = line[b]
        BY <1>1, <3>1
      <4>3. QED
        BY <3>1, <4>1, <4>2 DEF FollowsEvents
    <3>5. NeighboursDiffer(b)'
      <4>1. ASSUME NEW j \in DOMAIN events, events[j].button = b,
                   \A m \in DOMAIN events : j < m => events[m].button # b
            PROVE  events[j].action # line[b]
        <5>1. PICK i \in DOMAIN events : IsLast(b, i) /\ events[i].action = lastState[b]
          BY <4>1 DEF AlternateInv, FollowsEvents
        <5>2. i = j
          BY <3>1, <3>2, <4>1, <5>1 DEF IsLast
        <5>3. QED
          BY <3>1, <5>1, <5>2
      <4>2. QED
        BY <3>1, <3>2, <4>1, SMTT(60) DEF AlternateInv, NeighboursDiffer
    <3>6. FirstIsPress(b)'
      <4>1. ASSUME b \notin Switches, \A m \in DOMAIN events : events[m].button # b
            PROVE  line[b] = Pressed
        <5>1. lastState[b] = Unknown \/ lastState[b] = Released
          BY <3>1, <3>2, <4>1 DEF AlternateInv, FollowsEvents, IsLast
        <5>2. line[b] \in {Released, Pressed}
          BY TypeInvParts
        <5>3. QED
          BY <3>1, <4>1, <5>1, <5>2
      <4>2. QED
        BY <3>1, <3>2, <4>1, SMTT(60) DEF AlternateInv, FirstIsPress
    <3>7. QED
      BY <3>3, <3>4, <3>5, <3>6 DEF AlternateInv
  <2>2. CASE ~Fires(b)
    <3>1. events' = events
      BY <1>2, <2>2 DEF Handle, eventVars
    <3>2. lastState' = [lastState EXCEPT ![b] = IF Quiet(b) THEN line[b] ELSE @]
      BY <1>2, <2>2 DEF Handle
    <3>3. ASSUME Quiet(b) PROVE FollowsEvents(b)'
      <4>1. \A i \in DOMAIN events : events[i].button # b
        BY <1>1, <3>3 DEF Quiet, AlternateInv, FollowsEvents, Unknown, Released, Pressed
      <4>2. lastState'[b] = Released /\ b \notin Switches
        BY <1>1, <3>2, <3>3 DEF Quiet
      <4>3. QED
        BY <3>1, <4>1, <4>2 DEF FollowsEvents
    <3>4. ASSUME NEW o \in Buttons, o # b \/ ~Quiet(b) PROVE FollowsEvents(o)'
      <4>1. lastState'[o] = lastState[o]
        BY <1>1, <3>2, <3>4
      <4>2. QED
        BY <3>1, <4>1 DEF AlternateInv, FollowsEvents, IsLast
    <3>5. QED
      BY <3>1, <3>3, <3>4 DEF AlternateInv, NeighboursDiffer, FirstIsPress
  <2>3. QED
    BY <2>1, <2>2
<1>3. ASSUME NEW i \in DOMAIN events, Work(i), UNCHANGED lastState PROVE AlternateInv'
  <2>1. PICK e \in Event : events' = [events EXCEPT ![i] = e] /\ SameEvent(e, events[i])
    BY <1>3, TypeInvParts, WorkReplaces
  <2>2. /\ DOMAIN events' = DOMAIN events
        /\ \A j \in DOMAIN events : /\ events'[j].button = events[j].button
                                  /\ events'[j].action = events[j].action
    BY <1>1, <2>1 DEF SameEvent
  <2>3. DOMAIN events = 1 .. Len(events) /\ Len(events) \in Nat
    BY <1>1
  <2>4. ASSUME NEW b \in Buttons PROVE FollowsEvents(b)'
    BY <1>3, <2>2 DEF AlternateInv, FollowsEvents, IsLast
  <2>5. ASSUME NEW b \in Buttons PROVE NeighboursDiffer(b)' /\ FirstIsPress(b)'
    <3>1. NeighboursDiffer(b) /\ FirstIsPress(b)
      BY DEF AlternateInv
    <3>2. NeighboursDiffer(b)'
      <4>1. ASSUME NEW j \in DOMAIN events, NEW k \in DOMAIN events, j < k,
                   events[j].button = b, events[k].button = b,
                   \A m \in DOMAIN events : j < m /\ m < k => events'[m].button # b
            PROVE  events[j].action # events[k].action
        <5>1. \A m \in DOMAIN events : j < m /\ m < k => events[m].button # b
          BY <2>2, <4>1
        <5>2. QED
          BY <3>1, <4>1, <5>1 DEF NeighboursDiffer
      <4>2. QED
        BY <2>2, <4>1 DEF NeighboursDiffer
    <3>3. FirstIsPress(b)'
      BY <2>2, <3>1, Zenon DEF FirstIsPress
    <3>4. QED
      BY <3>2, <3>3
  <2>6. QED
    BY <2>4, <2>5 DEF AlternateInv
<1>4. CASE UNCHANGED <<events, lastState>>
  BY <1>4, SMTT(60) DEF AlternateInv, FollowsEvents, IsLast, NeighboursDiffer, FirstIsPress
<1>5. QED
  BY <1>2, <1>3, <1>4, StepKinds DEF driverVars, Samples

LEMMA AlternateHolds == Spec => []AlternateInv
<1>1. Init => AlternateInv
  <2>1. ASSUME Init PROVE AlternateInv
    BY <2>1 DEF Init, EventInit, AlternateInv, FollowsEvents, NeighboursDiffer, FirstIsPress
  <2>2. QED
    BY <2>1
<1>2. DriverInv /\ TypeInv /\ AlternateInv /\ [Next]_vars => AlternateInv'
  BY NextAlternate
<1>3. QED
  BY <1>1, <1>2, DriverHolds, TypesHold, PTL DEF Spec

LEMMA LastIsLast ==
    ASSUME TypeInv, NEW b \in Buttons, NEW i \in DOMAIN events, IsLast(b, i)
    PROVE  LastEvent(b) = i /\ i # 0
<1> DEFINE Of == {j \in DOMAIN events : events[j].button = b}
<1>1. i \in Of /\ (\A j \in Of : j <= i) /\ i \in Nat \ {0} /\ Of \subseteq Nat
  <2>1. events \in Seq(Event)
    BY TypeInvParts DEF EventTypes
  <2>2. DOMAIN events \subseteq Nat \ {0}
    BY <2>1
  <2>3. Of \subseteq Nat /\ i \in Nat \ {0}
    BY <2>2
  <2>4. i \in Of /\ (\A j \in Of : j <= i)
    BY DEF IsLast
  <2>5. QED
    BY <2>3, <2>4
<1>2. \A k \in Of : (\A j \in Of : j <= k) => k = i
  BY <1>1
<1>3. (CHOOSE k \in Of : \A j \in Of : j <= k) = i
  <2> HIDE DEF Of
  <2>1. QED
    BY <1>1, <1>2
<1>4. QED
  BY <1>1, <1>3 DEF LastEvent

\* Whatever is lost and however the lines bounce, the events of a button are
\* pressed and released by turns, those of a key beginning with pressed, and
\* last_state is what the last of them says: gpio_keys_handle_button.
THEOREM EventsAlternate == Spec => []Alternate
<1>1. ASSUME TypeInv, AlternateInv PROVE Alternate
  <2>1. ASSUME NEW b \in Buttons
        PROVE  /\ LastEvent(b) = 0 =>
                      lastState[b] = Unknown \/ (b \notin Switches /\ lastState[b] = Released)
               /\ LastEvent(b) # 0 => events[LastEvent(b)].action = lastState[b]
    <3>1. CASE \A i \in DOMAIN events : events[i].button # b
      <4>1. {i \in DOMAIN events : events[i].button = b} = {}
        BY <3>1
      <4>2. LastEvent(b) = 0
        BY <4>1 DEF LastEvent
      <4>3. QED
        BY <1>1, <3>1, <4>2 DEF AlternateInv, FollowsEvents, IsLast
    <3>2. CASE \E i \in DOMAIN events : IsLast(b, i) /\ events[i].action = lastState[b]
      BY <1>1, <3>2, LastIsLast
    <3>3. QED
      BY <1>1, <3>1, <3>2 DEF AlternateInv, FollowsEvents
  <2>2. DOMAIN events = 1 .. Len(events) /\ Len(events) \in Nat
    BY <1>1, TypeInvParts DEF EventTypes
  <2>3. ASSUME NEW b \in Buttons, NEW j \in DOMAIN events, NEW k \in DOMAIN events,
               events[j].button = b, events[k].button = b, j < k,
               \A m \in j + 1 .. k - 1 : events[m].button # b
        PROVE  events[j].action # events[k].action
    <3>1. \A m \in DOMAIN events : j < m /\ m < k => m \in j + 1 .. k - 1
      BY <2>2
    <3>2. QED
      BY <1>1, <2>3, <3>1 DEF AlternateInv, NeighboursDiffer
  <2>4. ASSUME NEW b \in Buttons, NEW k \in DOMAIN events,
               events[k].button = b, b \notin Switches,
               \A m \in 1 .. k - 1 : events[m].button # b
        PROVE  events[k].action = Pressed
    <3>1. \A m \in DOMAIN events : m < k => m \in 1 .. k - 1
      BY <2>2
    <3>2. QED
      BY <1>1, <2>4, <3>1 DEF AlternateInv, FirstIsPress
  <2>5. QED
    BY <2>1, <2>3, <2>4 DEF Alternate
<1>2. TypeInv /\ AlternateInv => Alternate
  BY <1>1
<1>3. QED
  BY <1>2, TypesHold, AlternateHolds, PTL
-----------------------------------------------------------------------------
\* The samples that the counter of a polled button stands for differ from its
\* state, and are the last ones in a row.
PolledCounts ==
    Polled => \A b \in Buttons :
        count[b] > 0 /\ (lastState[b] # Unknown \/ b \notin Switches)
        => /\ steady[b].n >= count[b]
           /\ steady[b].level # lastState[b]
           /\ lastState[b] = Unknown => steady[b].level = Pressed

\* The countdown and the time since the last edge make up the delay.
IrqCountdown ==
    ~Polled => \A b \in Buttons :
        timer[b] # Idle /\ ~missed[b] => timer[b] + steady[b].n >= Delay

DebounceInv == PolledCounts /\ IrqCountdown

\* What a poll of button b makes of its counter and of the samples in a row.
LEMMA PollCounts ==
    ASSUME TypeInv, PolledCounts, Polled, NEW b \in Buttons, Handle(b), Sampled(b)
    PROVE  /\ PolledCounts'
           /\ Fires(b) /\ (lastState[b] # Unknown \/ b \notin Switches)
              => steady'[b].n >= Threshold + 1
<1> DEFINE s == [level |-> line[b],
                 n |-> IF steady[b].level = line[b]
                       THEN Least(steady[b].n + 1, Threshold + 1) ELSE 1]
<1>1. /\ line[b] \in {Released, Pressed} /\ count[b] \in 0 .. Threshold
      /\ lastState[b] \in {Unknown, Released, Pressed}
      /\ steady[b].level \in {Released, Pressed} /\ steady[b].n \in Nat
      /\ lastState \in [Buttons -> {Unknown, Released, Pressed}]
      /\ count \in [Buttons -> 0 .. Threshold]
      /\ steady \in [Buttons -> [level : {Released, Pressed}, n : Nat]]
  BY TypeInvParts
<1>2. steady' = [steady EXCEPT ![b] = s]
  BY DEF Sampled
<1>3. steady'[b] = s /\ \A o \in Buttons \ {b} : steady'[o] = steady[o]
  <2> HIDE DEF s
  <2>1. QED
    BY <1>1, <1>2
<1>4. s.level = line[b] /\ s.n = IF steady[b].level = line[b]
                               THEN Least(steady[b].n + 1, Threshold + 1) ELSE 1
  OBVIOUS
<1> HIDE DEF s
<1>5. /\ count' = [count EXCEPT ![b] = IF Changed(b) /\ ~Fires(b) THEN @ + 1 ELSE 0]
      /\ lastState' = [lastState EXCEPT ![b] = IF Quiet(b) \/ Fires(b) THEN line[b] ELSE @]
  BY DEF Handle
<1>6. /\ count'[b] = IF Changed(b) /\ ~Fires(b) THEN count[b] + 1 ELSE 0
      /\ lastState'[b] = IF Quiet(b) \/ Fires(b) THEN line[b] ELSE lastState[b]
      /\ \A o \in Buttons \ {b} : count'[o] = count[o] /\ lastState'[o] = lastState[o]
  BY <1>1, <1>5
<1>7. Changed(b) /\ lastState[b] = Unknown /\ b \notin Switches => line[b] = Pressed
  BY <1>1 DEF Changed, Quiet
<1>8. ASSUME Changed(b), lastState[b] # Unknown \/ b \notin Switches
      PROVE  s.n >= IF count[b] < Threshold THEN count[b] + 1 ELSE Threshold + 1
  <2>1. CASE count[b] = 0
    BY <1>1, <1>4, <2>1 DEF Least
  <2>2. CASE count[b] > 0
    <3>1. steady[b].n >= count[b] /\ steady[b].level = line[b]
      BY <1>1, <1>7, <1>8, <2>2 DEF PolledCounts, Changed, Unknown, Released, Pressed
    <3>2. QED
      BY <1>1, <1>4, <3>1 DEF Least
  <2>3. QED
    BY <1>1, <2>1, <2>2
<1>9. ASSUME count'[b] > 0, lastState'[b] # Unknown \/ b \notin Switches
      PROVE  /\ steady'[b].n >= count'[b]
             /\ steady'[b].level # lastState'[b]
             /\ lastState'[b] = Unknown => steady'[b].level = Pressed
  <2>1. Changed(b) /\ ~Fires(b) /\ count'[b] = count[b] + 1
    BY <1>6, <1>9
  <2>2. ~Quiet(b) /\ lastState'[b] = lastState[b] /\ line[b] # lastState[b] /\ count[b] < Threshold
    BY <1>1, <1>6, <2>1 DEF Changed, Fires
  <2>3. QED
    BY <1>1, <1>3, <1>4, <1>7, <1>8, <1>9, <2>1, <2>2
<1>10. PolledCounts'
  BY <1>3, <1>6, <1>9 DEF PolledCounts
<1>11. ASSUME Fires(b), lastState[b] # Unknown \/ b \notin Switches
       PROVE  steady'[b].n >= Threshold + 1
  <2>1. Changed(b) /\ count[b] >= Threshold
    BY <1>11 DEF Fires
  <2>2. QED
    BY <1>1, <1>3, <1>8, <1>11, <2>1
<1>12. QED
  BY <1>10, <1>11

LEMMA NextDebounce == DriverInv /\ TypeInv /\ DebounceInv /\ [Next]_vars => DebounceInv'
<1> SUFFICES ASSUME DriverInv, TypeInv, DebounceInv, [Next]_vars PROVE DebounceInv'
  OBVIOUS
<1>1. /\ timer \in [Buttons -> {Idle} \cup 0 .. Delay] /\ missed \in [Buttons -> BOOLEAN]
      /\ steady \in [Buttons -> [level : {Released, Pressed}, n : Nat]]
      /\ \A b \in Buttons : steady[b].n \in Nat
  BY TypeInvParts
<1>2. ASSUME UNCHANGED <<count, lastState, steady>> PROVE PolledCounts'
  BY <1>2 DEF DebounceInv, PolledCounts
<1>3. ASSUME UNCHANGED <<timer, steady, missed>> PROVE IrqCountdown'
  BY <1>3 DEF DebounceInv, IrqCountdown
<1>4. CASE PollButton
  <2>1. Polled /\ cur \in Buttons /\ Handle(cur) /\ Sampled(cur)
    BY <1>4 DEF PollButton, DriverInv, DriverTypes, IrqPhases
  <2>2. QED
    BY <2>1, PollCounts DEF DebounceInv, IrqCountdown
<1>5. CASE QueuePoll \/ PollStarts \/ PollEnds \/ RemovePolled
  <2>1. Polled
    BY <1>5 DEF QueuePoll, PollStarts, PollEnds, RemovePolled, DriverInv, DriverTypes, IrqPhases
  <2>2. UNCHANGED <<count, lastState, steady>>
    BY <1>5 DEF QueuePoll, PollStarts, PollEnds, RemovePolled, worldVars
  <2>3. QED
    BY <1>2, <2>1, <2>2 DEF DebounceInv, IrqCountdown
<1>6. CASE ScheduleFirst \/ CancelWork
  <2>1. UNCHANGED <<count, lastState, steady, missed>>
    BY <1>6 DEF ScheduleFirst, CancelWork, worldVars
  <2>2. \/ timer' = [timer EXCEPT ![cur] = Delay] \/ timer' = [timer EXCEPT ![cur] = Idle]
        \/ timer' = timer
    BY <1>6, Zenon DEF ScheduleFirst, CancelWork
  <2>3. cur \in Buttons
    BY <1>6 DEF ScheduleFirst, CancelWork, DriverInv, DriverTypes, PolledPhases
  <2>4. \A b \in Buttons : timer'[b] = timer[b] \/ timer'[b] = Delay \/ timer'[b] = Idle
    BY <1>1, <2>2, <2>3
  <2>5. IrqCountdown'
    BY <1>1, <2>1, <2>4 DEF DebounceInv, IrqCountdown
  <2>6. QED
    BY <1>2, <2>1, <2>5 DEF DebounceInv
<1>7. CASE RequestIrq \/ DisableIrq
  <2>1. UNCHANGED <<count, lastState, steady, missed, timer>>
    BY <1>7 DEF RequestIrq, DisableIrq, worldVars
  <2>2. QED
    BY <1>2, <1>3, <2>1 DEF DebounceInv
<1>8. ASSUME NEW b \in Buttons, IrqWork(b) PROVE DebounceInv'
  <2>1. /\ ~Polled /\ timer' = [timer EXCEPT ![b] = Idle] /\ UNCHANGED steady
        /\ missed' = [missed EXCEPT ![b] = FALSE]
    BY <1>8 DEF IrqWork, Handle
  <2>2. QED
    BY <1>1, <2>1 DEF DebounceInv, IrqCountdown, PolledCounts
<1>9. CASE Tick
  <2>1. /\ timer' = [b \in Buttons |-> IF timer[b] > 0 THEN timer[b] - 1 ELSE timer[b]]
        /\ UNCHANGED <<count, lastState, missed>>
    BY <1>9 DEF Tick
  <2>2. CASE Polled
    <3>1. UNCHANGED steady
      BY <1>9, <2>2 DEF Tick
    <3>2. QED
      BY <1>2, <2>1, <2>2, <3>1 DEF DebounceInv, IrqCountdown
  <2>3. CASE ~Polled
    <3>1. steady' = [b \in Buttons |-> [steady[b] EXCEPT !.n = Least(@ + 1, Delay)]]
      BY <1>9, <2>3 DEF Tick
    <3>2. ASSUME NEW b \in Buttons, timer'[b] # Idle, ~missed'[b]
          PROVE  timer'[b] + steady'[b].n >= Delay
      <4>1. steady'[b].n = Least(steady[b].n + 1, Delay)
        BY <1>1, <3>1
      <4>2. timer'[b] = IF timer[b] > 0 THEN timer[b] - 1 ELSE timer[b]
        BY <2>1
      <4>3. timer[b] # Idle /\ timer[b] + steady[b].n >= Delay
        BY <1>1, <2>1, <2>3, <3>2, <4>2 DEF DebounceInv, IrqCountdown, Idle
      <4>4. timer[b] \in 0 .. Delay /\ steady[b].n \in Nat
        BY <1>1, <4>3
      <4>5. QED
        BY <4>1, <4>2, <4>3, <4>4, SMTT(60) DEF Least
    <3>3. QED
      BY <2>3, <3>2 DEF DebounceInv, IrqCountdown, PolledCounts
  <2>4. QED
    BY <2>2, <2>3
<1>10. ASSUME NEW b \in Buttons, Edge(b) PROVE DebounceInv'
  <2>1. /\ UNCHANGED <<count, lastState>>
        /\ steady' = IF Polled THEN steady ELSE [steady EXCEPT ![b].n = 0]
    BY <1>10 DEF Edge
  <2>2. CASE Polled
    BY <1>2, <2>1, <2>2 DEF DebounceInv, IrqCountdown
  <2>3. CASE ~Polled
    <3>1. \A o \in Buttons : IF o = b THEN steady'[o].n = 0 ELSE steady'[o] = steady[o]
      BY <1>1, <2>1, <2>3
    <3>2. \/ timer' = [timer EXCEPT ![b] = Delay] /\ missed' = missed
          \/ missed' = [missed EXCEPT ![b] = ~Polled] /\ timer' = timer
      BY <1>10, Zenon DEF Edge
    <3>3. missed'[b] = FALSE => timer'[b] = Delay
      BY <1>1, <2>3, <3>2
    <3>4. \A o \in Buttons \ {b} : timer'[o] = timer[o] /\ missed'[o] = missed[o]
      BY <1>1, <3>2
    <3>5. missed'[b] \in BOOLEAN
      BY <1>1, <2>3, <3>2
    <3>6. QED
      BY <2>3, <3>1, <3>3, <3>4, <3>5 DEF DebounceInv, IrqCountdown, PolledCounts
  <2>4. QED
    BY <2>2, <2>3
<1>11. ASSUME NEW i \in DOMAIN events, Worker(i) PROVE DebounceInv'
  <2>1. UNCHANGED <<count, lastState, steady, missed, timer>>
    BY <1>11 DEF Worker, driverVars, worldVars
  <2>2. QED
    BY <1>2, <1>3, <2>1 DEF DebounceInv
<1>12. CASE UNCHANGED vars
  <2>1. UNCHANGED <<count, lastState, steady, missed, timer>>
    BY <1>12 DEF vars, driverVars, worldVars
  <2>2. QED
    BY <1>2, <1>3, <2>1 DEF DebounceInv
<1>13. QED
  BY <1>4, <1>5, <1>6, <1>7, <1>8, <1>9, <1>10, <1>11, <1>12 DEF Next, Front, Driver, Remove

\* The events grow by the sample of a button that is due an event, and no other way.
LEMMA EventGrows ==
    ASSUME DriverInv, TypeInv, [Next]_vars, Len(events') > Len(events)
    PROVE  \E b \in Buttons : Samples(b) /\ Fires(b)
<1>1. events \in Seq(Event) /\ Len(events) \in Nat
  BY TypeInvParts DEF EventTypes
<1>2. events' # events
  BY <1>1
<1>3. ASSUME NEW i \in DOMAIN events, Work(i) PROVE FALSE
  <2>1. PICK e \in Event : events' = [events EXCEPT ![i] = e]
    BY <1>3, TypeInvParts, WorkReplaces
  <2>2. QED
    BY <1>1, <2>1
<1>4. PICK b \in Buttons : Samples(b)
  BY <1>2, <1>3, StepKinds
<1>5. Fires(b)
  BY <1>2, <1>4 DEF Samples, Handle, eventVars
<1>6. QED
  BY <1>4, <1>5

LEMMA DebounceHolds == Spec => []DebounceInv
<1>1. Init => DebounceInv
  BY DEF Init, DebounceInv, PolledCounts, IrqCountdown
<1>2. DriverInv /\ TypeInv /\ DebounceInv /\ [Next]_vars => DebounceInv'
  BY NextDebounce
<1>3. QED
  BY <1>1, <1>2, DriverHolds, TypesHold, PTL DEF Spec

\* Once the state of a button is known, an event is only created for a level that
\* lasted for Threshold samples before this one (polled), or for the debounce time
\* since the last edge (with an interrupt that saw the edges).
THEOREM EventsAreDebounced == Spec => Debounced
<1> DEFINE Steady(b) ==
      /\ Len(events') > Len(events) /\ events'[Len(events')].button = b
      /\ lastState[b] # Unknown \/ (Polled /\ b \notin Switches)
      /\ ~missed[b]
      => /\ events'[Len(events')].action = line[b]
         /\ steady'[b].n >= IF Polled THEN Threshold + 1 ELSE Delay
<1>1. ASSUME DriverInv, TypeInv, DebounceInv, [Next]_vars, NEW b \in Buttons PROVE Steady(b)
  <2> SUFFICES ASSUME Len(events') > Len(events), events'[Len(events')].button = b,
                      lastState[b] # Unknown \/ (Polled /\ b \notin Switches), ~missed[b]
               PROVE  /\ events'[Len(events')].action = line[b]
                      /\ steady'[b].n >= IF Polled THEN Threshold + 1 ELSE Delay
    OBVIOUS
  <2>1. PICK o \in Buttons : Samples(o) /\ Fires(o)
    BY <1>1, EventGrows
  <2>2. o = b /\ events'[Len(events')].action = line[b]
    BY <1>1, <2>1, FiresCreates DEF Samples
  <2>3. CASE Polled
    BY <1>1, <2>1, <2>2, <2>3, PollCounts DEF Samples, PollButton, DebounceInv
  <2>4. CASE ~Polled
    <3>1. timer[b] = 0 /\ UNCHANGED steady
      BY <2>1, <2>2, <2>4 DEF Samples, IrqWork
    <3>2. timer[b] + steady[b].n >= Delay /\ steady[b].n \in Nat
      BY <1>1, <2>4, <3>1, TypeInvParts, SMTT(60) DEF DebounceInv, IrqCountdown, Idle
    <3>3. QED
      BY <2>2, <2>4, <3>1, <3>2
  <2>5. QED
    BY <2>3, <2>4
<1>2. DriverInv /\ TypeInv /\ DebounceInv /\ [Next]_vars => [\A b \in Buttons : Steady(b)]_vars
  BY <1>1
<1>3. QED
  BY <1>2, DriverHolds, TypesHold, DebounceHolds, PTL DEF Spec, Debounced
-----------------------------------------------------------------------------
\* A button that probe has not reached.
Unprobed(b) == irq[b] = "none" /\ timer[b] = Idle /\ lastState[b] = Unknown

ProbeOrder ==
    phase \in {"schedule", "request"} =>
        \A b \in Buttons : b > cur \/ (b = cur /\ phase = "schedule") => Unprobed(b)

\* Polled: ticks until button b is sampled again and another interval has passed.
UntilPoll(b) == IF phase = "bound" THEN timer[1] ELSE IF b < cur THEN Delay ELSE 0

\* The samples that differ from lastState are of a press.
ToBePressed(b) == lastState[b] = Released \/ (lastState[b] = Unknown /\ b \notin Switches)

\* The samples counted so far and the wait for the next lie within the press.
PolledHold ==
    Polled =>
        /\ phase = "queue" => \A b \in Buttons : count[b] = 0
        /\ phase = "bound" => timer[1] # Idle
        /\ phase \in {"bound", "poll"} => \A b \in Buttons :
              ToBePressed(b) /\ count[b] > 0
              => held[b] # Never /\ held[b] + UntilPoll(b) >= count[b] * Delay

\* The countdown began within the press.
IrqHold ==
    ~Polled => \A b \in Buttons :
        lastState[b] # Unknown /\ timer[b] # Idle
        => held[b] # Never /\ held[b] + timer[b] >= Delay

EventsOf(b) == {i \in DOMAIN events : events[i].button = b}

\* The press began before it was reported, by the debounce time if it was debounced,
\* which only the first sample with interrupts is not.
PressHold ==
    \A b \in Buttons :
        /\ line[b] = Pressed => held[b] # Never
        /\ b \notin Switches /\ lastState[b] = Pressed =>
              /\ held[b] # Never /\ age[b] # Never
              /\ \/ held[b] >= age[b] + Lag
                 \/ /\ ~Polled /\ held[b] >= age[b]
                    /\ \E k \in DOMAIN events : EventsOf(b) = {k}

\* Since the button was let go no more time went by than the samples counted and
\* the wait for the next one, or the countdown that the last edge started, took.
ReleaseHold ==
    Prompt =>
        /\ Polled /\ phase = "queue" => \A b \in Buttons : lastState[b] = Unknown
        /\ \A b \in Buttons \ Switches : lastState[b] = Pressed /\ line[b] = Released =>
              /\ Polled /\ phase \in {"bound", "poll"} =>
                    held[b] + UntilPoll(b) <= hold[b] + count[b] * Delay + Delay
              /\ ~Polled /\ ~missed[b] /\ timer[b] # Idle =>
                    held[b] + timer[b] <= hold[b] + Delay

HoldInv == ProbeOrder /\ PolledHold /\ IrqHold /\ PressHold /\ ReleaseHold

LEMMA Products ==
    ASSUME NEW c \in 0 .. Threshold
    PROVE  /\ c * Delay \in Nat /\ c * Delay <= Threshold * Delay
           /\ (c + 1) * Delay = c * Delay + Delay
           /\ Threshold * Delay \in Nat
<1>1. PICK d \in Nat : Threshold = c + d
  <2>1. Threshold - c \in Nat /\ Threshold = c + (Threshold - c)
    OBVIOUS
  <2>2. QED
    BY <2>1
<1>2. (c + d) * Delay = c * Delay + d * Delay
  OBVIOUS
<1>3. c * Delay \in Nat /\ d * Delay \in Nat
  OBVIOUS
<1>4. QED
  BY <1>1, <1>2, <1>3

\* A sample of b leaves the state of every other button alone.
LEMMA HandleOthers ==
    ASSUME TypeInv, NEW b \in Buttons, Handle(b)
    PROVE  /\ \A o \in Buttons \ {b} : /\ lastState'[o] = lastState[o] /\ count'[o] = count[o]
                                      /\ age'[o] = age[o] /\ held'[o] = held[o]
                                      /\ hold'[o] = hold[o] /\ missed'[o] = missed[o]
           /\ lastState'[b] = IF Quiet(b) \/ Fires(b) THEN line[b] ELSE lastState[b]
           /\ count'[b] = IF Changed(b) /\ ~Fires(b) THEN count[b] + 1 ELSE 0
           /\ age'[b] = IF Fires(b) THEN 0 ELSE age[b]
           /\ held'[b] = IF line[b] = Released /\ lastState'[b] = Released THEN Never ELSE held[b]
           /\ held'[b] # Never => hold'[b] = hold[b]
<1>1. /\ lastState' = [lastState EXCEPT ![b] = IF Quiet(b) \/ Fires(b) THEN line[b] ELSE @]
      /\ count' = [count EXCEPT ![b] = IF Changed(b) /\ ~Fires(b) THEN @ + 1 ELSE 0]
      /\ age' = [age EXCEPT ![b] = IF Fires(b) THEN 0 ELSE @]
  BY DEF Handle
<1>2. held' = [held EXCEPT ![b] = IF line[b] = Released /\ lastState'[b] = Released
                                 THEN Never ELSE @]
      /\ hold' = [hold EXCEPT ![b] = IF held'[b] = Never THEN 0 ELSE @]
      /\ missed' = [missed EXCEPT ![b] = FALSE]
  BY DEF Handle
<1>3. QED
  BY <1>1, <1>2, TypeInvParts

LEMMA NextProbeOrder == DriverInv /\ TypeInv /\ ProbeOrder /\ [Next]_vars => ProbeOrder'
<1> SUFFICES ASSUME DriverInv, TypeInv, ProbeOrder, [Next]_vars PROVE ProbeOrder'
  OBVIOUS
<1>1. /\ timer \in [Buttons -> {Idle} \cup 0 .. Delay] /\ cur \in Nat
      /\ irq \in [Buttons -> {"none", "on", "off"}]
  BY TypeInvParts DEF DriverInv, DriverTypes
<1>2. CASE phase' \notin {"schedule", "request"}
  BY <1>2 DEF ProbeOrder
<1>3. CASE ScheduleFirst
  <2>1. cur \in Buttons /\ phase = "schedule" /\ UNCHANGED <<irq, lastState>>
    BY <1>3 DEF ScheduleFirst, DriverInv, DriverTypes, PolledPhases
  <2>2. CASE timer' = [timer EXCEPT ![cur] = Delay] /\ phase' = "request" /\ UNCHANGED cur
    BY <1>1, <2>1, <2>2 DEF ProbeOrder, Unprobed
  <2>3. CASE NextButton /\ UNCHANGED timer
    BY <1>1, <2>1, <2>3 DEF ProbeOrder, Unprobed, NextButton
  <2>4. QED
    BY <1>3, <2>2, <2>3 DEF ScheduleFirst
<1>4. CASE RequestIrq
  <2>1. cur \in Buttons /\ phase = "request" /\ UNCHANGED <<timer, lastState>> /\ NextButton
    BY <1>4 DEF RequestIrq, DriverInv, DriverTypes, PolledPhases
  <2>2. \A b \in Buttons \ {cur} : irq'[b] = irq[b]
    BY <1>1, <1>4 DEF RequestIrq
  <2>3. QED
    BY <1>1, <2>1, <2>2 DEF ProbeOrder, Unprobed, NextButton
<1>5. ASSUME NEW b \in Buttons, IrqWork(b) PROVE ProbeOrder'
  <2>1. /\ timer[b] = 0 /\ UNCHANGED <<irq, phase, cur>>
        /\ timer' = [timer EXCEPT ![b] = Idle]
    BY <1>5 DEF IrqWork
  <2>2. \A o \in Buttons \ {b} : lastState'[o] = lastState[o] /\ timer'[o] = timer[o]
    BY <1>1, <1>5, <2>1, HandleOthers DEF IrqWork
  <2>3. ~Unprobed(b)
    BY <2>1 DEF Unprobed, Idle
  <2>4. QED
    BY <2>1, <2>2, <2>3 DEF ProbeOrder, Unprobed
<1>6. CASE Tick
  <2>1. /\ timer' = [b \in Buttons |-> IF timer[b] > 0 THEN timer[b] - 1 ELSE timer[b]]
        /\ UNCHANGED <<irq, phase, cur, lastState>>
    BY <1>6 DEF Tick
  <2>2. QED
    BY <1>1, <2>1 DEF ProbeOrder, Unprobed, Idle
<1>7. ASSUME NEW b \in Buttons, Edge(b) PROVE ProbeOrder'
  <2>1. /\ UNCHANGED <<irq, phase, cur, lastState>>
        /\ irq[b] # "on" => UNCHANGED timer
        /\ \A o \in Buttons \ {b} : timer'[o] = timer[o]
    BY <1>1, <1>7 DEF Edge
  <2>2. QED
    BY <2>1 DEF ProbeOrder, Unprobed
<1>8. ASSUME NEW i \in DOMAIN events, Worker(i) PROVE ProbeOrder'
  BY <1>8 DEF Worker, driverVars, ProbeOrder, Unprobed
<1>9. CASE UNCHANGED vars
  BY <1>9 DEF vars, driverVars, ProbeOrder, Unprobed
<1>10. CASE QueuePoll \/ PollStarts \/ PollButton \/ PollEnds \/ CancelWork
            \/ RemovePolled \/ DisableIrq
  BY <1>2, <1>10 DEF QueuePoll, PollStarts, PollButton, PollEnds, CancelWork,
                     RemovePolled, DisableIrq
<1>11. QED
  BY <1>3, <1>4, <1>5, <1>6, <1>7, <1>8, <1>9, <1>10 DEF Next, Front, Driver, Remove

LEMMA NextIrqHold == DriverInv /\ TypeInv /\ ProbeOrder /\ IrqHold /\ [Next]_vars => IrqHold'
<1> SUFFICES ASSUME DriverInv, TypeInv, ProbeOrder, IrqHold, [Next]_vars, ~Polled PROVE IrqHold'
  BY DEF IrqHold
<1>1. /\ timer \in [Buttons -> {Idle} \cup 0 .. Delay]
      /\ held \in [Buttons -> {Never} \cup 0 .. MaxAge + Lag]
      /\ Lag = Delay /\ MaxAge \in Nat
      /\ \A b \in Buttons : lastState[b] # Unknown /\ timer[b] # Idle
                          => held[b] # Never /\ held[b] + timer[b] >= Delay
  BY TypeInvParts, MoreConstantTypes DEF Lag, IrqHold
<1>2. ASSUME NEW b \in Buttons, \A o \in Buttons \ {b} : UNCHANGED <<lastState[o], timer[o], held[o]>>,
             lastState'[b] # Unknown /\ timer'[b] # Idle
             => held'[b] # Never /\ held'[b] + timer'[b] >= Delay
      PROVE  IrqHold'
  BY <1>1, <1>2 DEF IrqHold
<1>3. CASE UNCHANGED <<lastState, timer, held>>
  BY <1>3 DEF IrqHold
<1>4. CASE ScheduleFirst \/ CancelWork
  <2>1. cur \in Buttons /\ UNCHANGED <<lastState, held>>
    BY <1>4 DEF ScheduleFirst, CancelWork, DriverInv, DriverTypes, worldVars
  <2>2. CASE UNCHANGED timer
    BY <1>3, <2>1, <2>2
  <2>3. CASE CancelWork
    <3>1. timer' = [timer EXCEPT ![cur] = Idle]
      BY <2>3 DEF CancelWork
    <3>2. QED
      BY <1>1, <1>2, <2>1, <3>1
  <2>4. CASE ScheduleFirst /\ timer' = [timer EXCEPT ![cur] = Delay]
    <3>1. lastState[cur] = Unknown
      BY <2>1, <2>4 DEF ScheduleFirst, ProbeOrder, Unprobed
    <3>2. QED
      BY <1>1, <1>2, <2>1, <2>4, <3>1
  <2>5. QED
    BY <1>4, <2>2, <2>3, <2>4 DEF ScheduleFirst
<1>5. CASE RequestIrq \/ DisableIrq
  BY <1>3, <1>5 DEF RequestIrq, DisableIrq, worldVars
<1>6. ASSUME NEW b \in Buttons, IrqWork(b) PROVE IrqHold'
  <2>1. timer' = [timer EXCEPT ![b] = Idle]
    BY <1>6 DEF IrqWork
  <2>2. \A o \in Buttons \ {b} : UNCHANGED <<lastState[o], held[o]>>
    BY <1>6, HandleOthers DEF IrqWork
  <2>3. QED
    BY <1>1, <1>2, <2>1, <2>2
<1>7. CASE Tick
  <2>1. /\ timer' = [b \in Buttons |-> IF timer[b] > 0 THEN timer[b] - 1 ELSE timer[b]]
        /\ held' = [b \in Buttons |-> IF held[b] = Never THEN Never
                                      ELSE Least(held[b] + 1, MaxAge + Lag)]
        /\ UNCHANGED lastState
    BY <1>7 DEF Tick
  <2>2. ASSUME NEW b \in Buttons, lastState'[b] # Unknown, timer'[b] # Idle
        PROVE  held'[b] # Never /\ held'[b] + timer'[b] >= Delay
    <3>1. timer[b] \in 0 .. Delay
      BY <1>1, <2>1, <2>2 DEF Idle
    <3>2. held[b] \in 0 .. MaxAge + Delay /\ held[b] + timer[b] >= Delay
      BY <1>1, <2>1, <2>2, <3>1 DEF Idle
    <3>3. QED
      BY <1>1, <2>1, <3>1, <3>2 DEF Least, Never
  <2>3. QED
    BY <2>2 DEF IrqHold
<1>8. ASSUME NEW b \in Buttons, Edge(b) PROVE IrqHold'
  <2>1. /\ held' = [held EXCEPT ![b] = IF @ = Never THEN 0 ELSE @] /\ UNCHANGED lastState
        /\ timer' = [timer EXCEPT ![b] = Delay] \/ timer' = timer
    BY <1>8, Zenon DEF Edge
  <2>2. \A o \in Buttons \ {b} : UNCHANGED <<lastState[o], timer[o], held[o]>>
    BY <1>1, <2>1
  <2>3. /\ held'[b] # Never /\ held'[b] >= 0 /\ (held[b] # Never => held'[b] = held[b])
        /\ timer'[b] = Delay \/ timer'[b] = timer[b]
    BY <1>1, <2>1 DEF Never
  <2>4. QED
    BY <1>1, <1>2, <2>1, <2>2, <2>3
<1>9. ASSUME NEW i \in DOMAIN events, Worker(i) PROVE IrqHold'
  BY <1>3, <1>9 DEF Worker, driverVars, worldVars
<1>10. CASE UNCHANGED vars
  BY <1>3, <1>10 DEF vars, driverVars, worldVars
<1>11. CASE QueuePoll \/ PollStarts \/ PollButton \/ PollEnds \/ RemovePolled
  BY <1>11 DEF QueuePoll, PollStarts, PollButton, PollEnds, RemovePolled,
               DriverInv, DriverTypes, IrqPhases
<1>12. QED
  BY <1>4, <1>5, <1>6, <1>7, <1>8, <1>9, <1>10, <1>11 DEF Next, Front, Driver, Remove

LEMMA NextPolledHold ==
    DriverInv /\ TypeInv /\ PolledHold /\ PressHold /\ [Next]_vars => PolledHold'
<1> SUFFICES ASSUME DriverInv, TypeInv, PolledHold, PressHold, [Next]_vars, Polled
             PROVE  PolledHold'
  BY DEF PolledHold
<1> USE DEF ToBePressed
<1> DEFINE Within(b) == ToBePressed(b) /\ count[b] > 0
                        => held[b] # Never /\ held[b] + UntilPoll(b) >= count[b] * Delay
<1>1. /\ timer \in [Buttons -> {Idle} \cup 0 .. Delay] /\ timer[1] \in {Idle} \cup 0 .. Delay
      /\ held \in [Buttons -> {Never} \cup 0 .. MaxAge + Lag]
      /\ count \in [Buttons -> 0 .. Threshold]
      /\ line \in [Buttons -> {Released, Pressed}]
      /\ Lag = Threshold * Delay /\ Lag \in Nat /\ MaxAge \in Nat
      /\ cur \in 1 .. NButtons + 1 /\ phase \in PolledPhases
  BY TypeInvParts, MoreConstantTypes DEF Lag, DriverInv, DriverTypes
<1>2. /\ phase = "queue" => \A b \in Buttons : count[b] = 0
      /\ phase = "bound" => timer[1] # Idle
      /\ phase \in {"bound", "poll"} => \A b \in Buttons : Within(b)
  BY DEF PolledHold
<1>3. ASSUME phase' = phase, UNCHANGED <<count, lastState, held, timer, cur>> PROVE PolledHold'
  BY <1>3 DEF PolledHold, UntilPoll
<1>4. CASE QueuePoll
  <2>1. phase' = "bound" /\ timer' = [timer EXCEPT ![1] = Delay] /\ UNCHANGED count
    BY <1>4 DEF QueuePoll
  <2>2. \A b \in Buttons : count'[b] = 0
    BY <1>2, <1>4, <2>1 DEF QueuePoll
  <2>3. timer'[1] # Idle
    BY <1>1, <2>1 DEF Idle
  <2>4. QED
    BY <2>1, <2>2, <2>3 DEF PolledHold
<1>5. CASE PollStarts
  <2>1. /\ phase = "bound" /\ timer[1] = 0 /\ phase' = "poll" /\ cur' = 1
        /\ UNCHANGED <<count, lastState, held>>
    BY <1>5 DEF PollStarts, worldVars
  <2>2. ASSUME NEW b \in Buttons PROVE Within(b)'
    <3>1. UntilPoll(b) = 0 /\ UntilPoll(b)' = 0
      BY <2>1 DEF UntilPoll
    <3>2. QED
      BY <1>2, <2>1, <3>1
  <2>3. QED
    BY <2>1, <2>2 DEF PolledHold
<1>6. CASE PollEnds
  <2>1. /\ phase = "poll" /\ cur \notin Buttons /\ phase' = "bound"
        /\ timer' = [timer EXCEPT ![1] = Delay] /\ UNCHANGED <<count, lastState, held>>
    BY <1>6 DEF PollEnds, worldVars
  <2>2. timer'[1] = Delay
    BY <1>1, <2>1
  <2>3. ASSUME NEW b \in Buttons PROVE Within(b)'
    <3>1. UntilPoll(b) = Delay /\ UntilPoll(b)' = Delay
      BY <1>1, <2>1, <2>2 DEF UntilPoll
    <3>2. QED
      BY <1>2, <2>1, <3>1
  <2>4. QED
    BY <2>1, <2>2, <2>3 DEF PolledHold, Idle
<1>7. CASE PollButton
  <2>1. /\ phase = "poll" /\ phase' = "poll" /\ cur \in Buttons /\ cur' = cur + 1
        /\ Handle(cur) /\ UNCHANGED timer
    BY <1>7 DEF PollButton
  <2>2. /\ \A o \in Buttons \ {cur} : /\ lastState'[o] = lastState[o] /\ count'[o] = count[o]
                                     /\ held'[o] = held[o]
        /\ lastState'[cur] = IF Quiet(cur) \/ Fires(cur) THEN line[cur] ELSE lastState[cur]
        /\ count'[cur] = IF Changed(cur) /\ ~Fires(cur) THEN count[cur] + 1 ELSE 0
        /\ held'[cur] = IF line[cur] = Released /\ lastState'[cur] = Released
                       THEN Never ELSE held[cur]
    BY <2>1, HandleOthers
  <2>3. ASSUME NEW b \in Buttons, b # cur PROVE Within(b)'
    <3>1. UntilPoll(b)' = UntilPoll(b)
      BY <1>1, <2>1, <2>3 DEF UntilPoll
    <3>2. QED
      BY <1>2, <2>1, <2>2, <2>3, <3>1
  <2>4. ASSUME NEW b \in Buttons, b = cur, ToBePressed(b)', count'[b] > 0
        PROVE  held'[b] # Never /\ held'[b] + UntilPoll(b)' >= count'[b] * Delay
    <3>1. /\ Changed(b) /\ ~Fires(b) /\ count'[b] = count[b] + 1
      BY <2>1, <2>2, <2>4
    <3>2. ToBePressed(b) /\ line[b] = Pressed
      BY <1>1, <2>1, <2>2, <2>4, <3>1 DEF Changed, Quiet
    <3>3. held[b] # Never /\ held'[b] = held[b] /\ held[b] \in Nat
      BY <1>1, <2>1, <2>2, <2>4, <3>2 DEF PressHold, Released, Pressed
    <3>4. count[b] \in 0 .. Threshold /\ count[b] < Threshold
      BY <1>1, <2>4, <3>1 DEF Fires
    <3>5. held[b] >= count[b] * Delay
      <4>1. CASE count[b] = 0
        BY <3>3, <4>1
      <4>2. CASE count[b] > 0
        <5>1. UntilPoll(b) = 0
          BY <1>1, <2>1, <2>4 DEF UntilPoll
        <5>2. QED
          BY <1>2, <2>1, <3>2, <3>3, <4>2, <5>1
      <4>3. QED
        BY <3>4, <4>1, <4>2
    <3>6. UntilPoll(b)' = Delay
      BY <1>1, <2>1, <2>4 DEF UntilPoll
    <3>7. count'[b] * Delay = count[b] * Delay + Delay /\ count[b] * Delay \in Nat
      BY <3>1, <3>4, Products
    <3>8. QED
      BY <3>3, <3>5, <3>6, <3>7
  <2>5. QED
    BY <2>1, <2>3, <2>4 DEF PolledHold
<1>8. CASE RemovePolled
  BY <1>8 DEF RemovePolled, PolledHold
<1>9. CASE Tick
  <2>1. /\ timer' = [b \in Buttons |-> IF timer[b] > 0 THEN timer[b] - 1 ELSE timer[b]]
        /\ held' = [b \in Buttons |-> IF held[b] = Never THEN Never
                                      ELSE Least(held[b] + 1, MaxAge + Lag)]
        /\ UNCHANGED <<lastState, count, cur, phase>>
    BY <1>9 DEF Tick
  <2>2. timer'[1] = IF timer[1] > 0 THEN timer[1] - 1 ELSE timer[1]
    BY <2>1
  <2>3. ASSUME phase \in {"bound", "poll"}, NEW b \in Buttons PROVE Within(b)'
    <3>1. SUFFICES ASSUME ToBePressed(b), count[b] > 0
                   PROVE  held'[b] # Never /\ held'[b] + UntilPoll(b)' >= count[b] * Delay
      BY <2>1
    <3>2. held[b] \in 0 .. MaxAge + Lag /\ held[b] + UntilPoll(b) >= count[b] * Delay
      BY <1>1, <1>2, <2>3, <3>1
    <3>3. held'[b] = Least(held[b] + 1, MaxAge + Lag) /\ held'[b] # Never
      BY <2>1, <3>2, <1>1 DEF Never, Least
    <3>4. count[b] * Delay \in Nat /\ count[b] * Delay <= Lag
      BY <1>1, Products
    <3>5. \/ UntilPoll(b) \in Nat /\ UntilPoll(b)' = UntilPoll(b)
          \/ UntilPoll(b) \in Nat \ {0} /\ UntilPoll(b)' = UntilPoll(b) - 1
      BY <1>1, <1>2, <2>1, <2>2, <2>3 DEF UntilPoll, Idle
    <3>6. PICK h \in 0 .. MaxAge + Lag, p \in Nat, u \in Nat :
              h = held[b] /\ p = count[b] * Delay /\ u = UntilPoll(b)
      BY <3>2, <3>4, <3>5
    <3>7. h + u >= p /\ p <= Lag /\ held'[b] = Least(h + 1, MaxAge + Lag)
      BY <3>2, <3>3, <3>4, <3>6
    <3>8. UntilPoll(b)' = u \/ (u # 0 /\ UntilPoll(b)' = u - 1)
      BY <3>5, <3>6
    <3>9. Least(h + 1, MaxAge + Lag) + UntilPoll(b)' >= p
      <4>1. PICK lag \in Nat, most \in Nat, v \in Int :
                lag = Lag /\ most = MaxAge /\ v = UntilPoll(b)'
        <5>1. Lag \in Nat /\ MaxAge \in Nat
          BY <1>1
        <5>2. UntilPoll(b)' \in Int
          BY <3>6, <3>8
        <5>3. QED
          BY <5>1, <5>2, Zenon
      <4>2. /\ h \in Int /\ p \in Nat /\ u \in Nat /\ h + u >= p /\ p <= lag
            /\ v = u \/ (u # 0 /\ v = u - 1)
        BY <3>6, <3>7, <3>8, <4>1
      <4>3. (IF h + 1 < most + lag THEN h + 1 ELSE most + lag) + v >= p
        BY <4>1, <4>2
      <4>4. QED
        BY <4>1, <4>3 DEF Least
    <3>10. QED
      BY <3>3, <3>6, <3>7, <3>9, Zenon
  <2>4. phase = "bound" => timer'[1] # Idle
    BY <1>1, <1>2, <2>2 DEF Idle
  <2>5. QED
    BY <1>2, <2>1, <2>3, <2>4 DEF PolledHold
<1>10. ASSUME NEW b \in Buttons, Edge(b) PROVE PolledHold'
  <2>1. held' = [held EXCEPT ![b] = IF @ = Never THEN 0 ELSE @]
        /\ UNCHANGED <<lastState, count, cur, phase, irq>>
    BY <1>10 DEF Edge
  <2>2. irq[b] # "on"
    BY DEF DriverInv, RemovalInv
  <2>3. UNCHANGED timer
    BY <1>10, <2>2 DEF Edge
  <2>4. \A o \in Buttons : held[o] # Never => held'[o] = held[o]
    BY <1>1, <2>1
  <2>5. \A o \in Buttons : UntilPoll(o)' = UntilPoll(o)
    BY <2>1, <2>3 DEF UntilPoll
  <2>6. QED
    BY <1>2, <2>1, <2>3, <2>4, <2>5 DEF PolledHold
<1>11. ASSUME NEW i \in DOMAIN events, Worker(i) PROVE PolledHold'
  BY <1>3, <1>11 DEF Worker, driverVars, worldVars
<1>12. CASE UNCHANGED vars
  BY <1>3, <1>12 DEF vars, driverVars, worldVars
<1>13. ASSUME NEW b \in Buttons, IrqWork(b) PROVE FALSE
  BY <1>13 DEF IrqWork
<1>14. CASE ScheduleFirst \/ RequestIrq \/ DisableIrq \/ CancelWork
  BY <1>1, <1>14 DEF ScheduleFirst, RequestIrq, DisableIrq, CancelWork, PolledPhases
<1>15. QED
  BY <1>4, <1>5, <1>6, <1>7, <1>8, <1>9, <1>10, <1>11, <1>12, <1>13, <1>14
  DEF Next, Front, Driver, Remove

\* A press that is reported and debounced has lasted for the debounce time.
LEMMA PressLasted ==
    ASSUME DriverInv, TypeInv, PolledHold, IrqHold, PressHold, NEW b \in Buttons,
           Samples(b), Fires(b), line[b] = Pressed,
           lastState[b] = Released \/ (Polled /\ ToBePressed(b))
    PROVE  held[b] >= Lag
<1>1. /\ held[b] \in Nat /\ count[b] \in 0 .. Threshold
      /\ timer[b] \in {Idle} \cup 0 .. Delay
  BY TypeInvParts, MoreConstantTypes DEF PressHold
<1>2. CASE ~Polled
  <2>1. timer[b] = 0 /\ Lag = Delay
    BY <1>2 DEF Samples, IrqWork, Lag
  <2>2. held[b] + timer[b] >= Delay
    BY <1>2, <2>1 DEF IrqHold, Unknown, Released, Idle
  <2>3. QED
    BY <1>1, <2>1, <2>2
<1>3. CASE Polled
  <2>1. phase = "poll" /\ b = cur
    BY <1>3 DEF Samples, PollButton
  <2>2. count[b] = Threshold /\ Lag = Threshold * Delay
    BY <1>1, <1>3 DEF Fires, Lag
  <2>3. CASE Threshold = 0
    <3>1. Lag = 0
      BY <2>2, <2>3
    <3>2. QED
      BY <1>1, <3>1
  <2>4. CASE Threshold > 0
    <3>1. UntilPoll(b) = 0
      BY <2>1 DEF UntilPoll
    <3>2. held[b] + UntilPoll(b) >= count[b] * Delay
      BY <1>3, <2>1, <2>2, <2>4 DEF PolledHold, ToBePressed
    <3>3. QED
      BY <1>1, <2>2, <3>1, <3>2
  <2>5. QED
    BY <2>3, <2>4
<1>4. QED
  BY <1>2, <1>3

LEMMA NextPressHold ==
    DriverInv /\ TypeInv /\ AlternateInv /\ HoldInv /\ [Next]_vars => PressHold'
<1> SUFFICES ASSUME DriverInv, TypeInv, AlternateInv, HoldInv, [Next]_vars PROVE PressHold'
  OBVIOUS
<1>1. /\ held \in [Buttons -> {Never} \cup 0 .. MaxAge + Lag]
      /\ age \in [Buttons -> Times]
      /\ line \in [Buttons -> {Released, Pressed}]
      /\ lastState \in [Buttons -> {Unknown, Released, Pressed}]
      /\ Lag \in Nat /\ MaxAge \in Nat
      /\ events \in Seq(Event)
  BY TypeInvParts, MoreConstantTypes DEF EventTypes
<1>2. PressHold /\ PolledHold /\ IrqHold /\ ProbeOrder
  BY DEF HoldInv
<1>3. ASSUME UNCHANGED <<events, line, lastState, held, age>> PROVE PressHold'
  BY <1>2, <1>3 DEF PressHold, EventsOf
<1>4. ASSUME NEW b \in Buttons, Samples(b) PROVE PressHold'
  <2>1. Handle(b) /\ UNCHANGED line
    BY <1>4 DEF Samples, PollButton, IrqWork
  <2>2. /\ \A o \in Buttons \ {b} : /\ lastState'[o] = lastState[o]
                                   /\ age'[o] = age[o] /\ held'[o] = held[o]
        /\ lastState'[b] = IF Quiet(b) \/ Fires(b) THEN line[b] ELSE lastState[b]
        /\ age'[b] = IF Fires(b) THEN 0 ELSE age[b]
        /\ held'[b] = IF line[b] = Released /\ lastState'[b] = Released THEN Never ELSE held[b]
    BY <2>1, HandleOthers
  <2>3. line[b] = Pressed => held'[b] # Never
    BY <1>2, <2>2 DEF PressHold, Released, Pressed
  <2>4. CASE Fires(b)
    <3>1. PICK n : n = Len(events) + 1
      OBVIOUS
    <3>2. /\ DOMAIN events = 1 .. Len(events) /\ Len(events) \in Nat
          /\ DOMAIN events' = 1 .. n /\ Len(events') = n
          /\ \A j \in DOMAIN events : events'[j] = events[j]
          /\ events'[n].button = b
          /\ lastState[b] # line[b]
      BY <2>1, <2>4, <3>1, FiresCreates
    <3>3. ASSUME NEW o \in Buttons, o # b PROVE EventsOf(o)' = EventsOf(o)
      BY <3>1, <3>2, <3>3 DEF EventsOf
    <3>4. ASSUME NEW o \in Buttons, o # b, NEW k \in DOMAIN events, EventsOf(o) = {k}
          PROVE  k \in DOMAIN events' /\ EventsOf(o)' = {k}
      BY <3>1, <3>2, <3>3, <3>4
    <3>5. ASSUME b \notin Switches, lastState'[b] = Pressed
          PROVE  /\ held'[b] # Never /\ age'[b] # Never
                 /\ \/ held'[b] >= age'[b] + Lag
                    \/ /\ ~Polled /\ held'[b] >= age'[b]
                       /\ \E k \in DOMAIN events' : EventsOf(b)' = {k}
      <4>1. line[b] = Pressed /\ age'[b] = 0 /\ held'[b] = held[b] /\ held'[b] # Never
        BY <2>2, <2>3, <2>4, <3>5 DEF Released, Pressed
      <4>2. held[b] \in Nat
        BY <1>1, <4>1
      <4>3. CASE lastState[b] = Released \/ Polled
        <5>1. held[b] >= Lag
          <6>1. lastState[b] = Released \/ (Polled /\ ToBePressed(b))
            BY <1>1, <3>2, <3>5, <4>1, <4>3 DEF ToBePressed
          <6>2. QED
            BY <1>2, <1>4, <2>4, <4>1, <6>1, PressLasted
        <5>2. QED
          BY <1>1, <4>1, <4>2, <5>1 DEF Never
      <4>4. CASE lastState[b] = Unknown /\ ~Polled
        <5>1. \A i \in DOMAIN events : events[i].button # b
          <6>1. \A i \in DOMAIN events : events[i].action # Unknown
            <7>1. \A i \in DOMAIN events : events[i] \in Event
              BY <1>1
            <7>2. QED
              BY <7>1 DEF Event, Unknown, Released, Pressed
          <6>2. QED
            BY <4>4, <6>1 DEF AlternateInv, FollowsEvents
        <5>2. EventsOf(b)' = {n} /\ n \in DOMAIN events'
          BY <3>1, <3>2, <5>1 DEF EventsOf
        <5>3. QED
          BY <4>1, <4>2, <4>4, <5>2 DEF Never
      <4>5. QED
        BY <1>1, <3>2, <4>1, <4>3, <4>4
    <3>6. QED
      BY <1>2, <2>1, <2>2, <2>3, <3>4, <3>5 DEF PressHold
  <2>5. CASE ~Fires(b)
    <3>1. events' = events
      BY <2>1, <2>5 DEF Handle, eventVars
    <3>2. \A o \in Buttons : EventsOf(o)' = EventsOf(o)
      BY <3>1 DEF EventsOf
    <3>3. lastState'[b] = Pressed => lastState[b] = Pressed /\ held'[b] = held[b]
      BY <2>2, <2>5 DEF Quiet, Released, Pressed
    <3>4. QED
      BY <1>2, <2>1, <2>2, <2>3, <2>5, <3>1, <3>2, <3>3 DEF PressHold
  <2>6. QED
    BY <2>4, <2>5
<1>5. CASE Tick
  <2>1. /\ age' = [b \in Buttons |-> IF age[b] = Never THEN Never ELSE Least(age[b] + 1, MaxAge)]
        /\ held' = [b \in Buttons |-> IF held[b] = Never THEN Never
                                      ELSE Least(held[b] + 1, MaxAge + Lag)]
        /\ UNCHANGED <<events, line, lastState>>
    BY <1>5 DEF Tick, eventVars
  <2>2. \A o \in Buttons : EventsOf(o)' = EventsOf(o)
    BY <2>1 DEF EventsOf
  <2>3. ASSUME NEW b \in Buttons
        PROVE  /\ held[b] # Never => held'[b] # Never
               /\ age[b] # Never => age'[b] # Never
               /\ held[b] # Never /\ age[b] # Never
                  => /\ held[b] >= age[b] + Lag => held'[b] >= age'[b] + Lag
                     /\ held[b] >= age[b] => held'[b] >= age'[b]
    BY <1>1, <2>1, SMTT(60) DEF Times, Never, Least
  <2>4. QED
    BY <1>2, <2>1, <2>2, <2>3 DEF PressHold
<1>6. ASSUME NEW b \in Buttons, Edge(b) PROVE PressHold'
  <2>1. /\ held' = [held EXCEPT ![b] = IF @ = Never THEN 0 ELSE @]
        /\ line' = [line EXCEPT ![b] = 1 - @]
        /\ UNCHANGED <<events, age, lastState>>
    BY <1>6 DEF Edge, eventVars
  <2>2. \A o \in Buttons : EventsOf(o)' = EventsOf(o)
    BY <2>1 DEF EventsOf
  <2>3. /\ \A o \in Buttons : held[o] # Never => held'[o] = held[o]
        /\ held'[b] # Never
        /\ \A o \in Buttons \ {b} : line'[o] = line[o]
    BY <1>1, <2>1 DEF Never
  <2>4. QED
    BY <1>2, <2>1, <2>2, <2>3 DEF PressHold
<1>7. ASSUME NEW i \in DOMAIN events, Work(i), UNCHANGED <<driverVars, worldVars>>
      PROVE  PressHold'
  <2>1. PICK e \in Event : events' = [events EXCEPT ![i] = e] /\ SameEvent(e, events[i])
    BY <1>7, TypeInvParts, WorkReplaces
  <2>2. /\ DOMAIN events' = DOMAIN events
        /\ \A j \in DOMAIN events : events'[j].button = events[j].button
    BY <1>1, <2>1 DEF SameEvent
  <2>3. \A o \in Buttons : EventsOf(o)' = EventsOf(o)
    BY <2>2 DEF EventsOf
  <2>4. QED
    BY <1>2, <1>7, <2>2, <2>3 DEF PressHold, driverVars, worldVars
<1>8. CASE QueuePoll \/ PollStarts \/ PollEnds \/ ScheduleFirst \/ RequestIrq
           \/ CancelWork \/ RemovePolled \/ DisableIrq
  BY <1>3, <1>8 DEF QueuePoll, PollStarts, PollEnds, ScheduleFirst, RequestIrq, CancelWork,
                    RemovePolled, DisableIrq, eventVars, worldVars
<1>9. CASE UNCHANGED vars
  BY <1>3, <1>9 DEF vars, eventVars, driverVars, worldVars
<1>10. CASE PollButton
  <2>1. Polled /\ cur \in Buttons /\ Samples(cur)
    BY <1>10 DEF Samples, PollButton, DriverInv, DriverTypes, IrqPhases
  <2>2. QED
    BY <1>4, <2>1
<1>11. ASSUME NEW b \in Buttons, IrqWork(b) PROVE PressHold'
  BY <1>4, <1>11 DEF Samples, IrqWork
<1>12. QED
  BY <1>5, <1>6, <1>7, <1>8, <1>9, <1>10, <1>11 DEF Next, Front, Driver, Remove, Worker

\* What a step may change of the button that ReleaseHold looks at.
ReleaseVars == <<lastState, line, held, hold, count, timer, missed>>

LEMMA NextReleaseHold ==
    DriverInv /\ TypeInv /\ HoldInv /\ [Next]_vars => ReleaseHold'
<1> SUFFICES ASSUME DriverInv, TypeInv, HoldInv, [Next]_vars, Prompt PROVE ReleaseHold'
  BY DEF ReleaseHold
<1> DEFINE Bound(b) ==
      lastState[b] = Pressed /\ line[b] = Released =>
          /\ Polled /\ phase \in {"bound", "poll"} =>
                held[b] + UntilPoll(b) <= hold[b] + count[b] * Delay + Delay
          /\ ~Polled /\ ~missed[b] /\ timer[b] # Idle =>
                held[b] + timer[b] <= hold[b] + Delay
<1>1. /\ timer \in [Buttons -> {Idle} \cup 0 .. Delay] /\ timer[1] \in {Idle} \cup 0 .. Delay
      /\ held \in [Buttons -> {Never} \cup 0 .. MaxAge + Lag]
      /\ hold \in [Buttons -> {Never} \cup 0 .. MaxAge + Lag]
      /\ count \in [Buttons -> 0 .. Threshold]
      /\ line \in [Buttons -> {Released, Pressed}]
      /\ lastState \in [Buttons -> {Unknown, Released, Pressed}]
      /\ missed \in [Buttons -> BOOLEAN]
      /\ cur \in 1 .. NButtons + 1
      /\ Lag \in Nat /\ MaxAge \in Nat
  BY TypeInvParts, MoreConstantTypes
<1>2. /\ Polled /\ phase = "queue" => \A b \in Buttons : lastState[b] = Unknown
      /\ \A b \in Buttons \ Switches : Bound(b)
      /\ Polled /\ phase = "bound" => timer[1] # Idle
      /\ \A b \in Buttons : line[b] = Pressed => held[b] # Never
      /\ \A b \in Buttons \ Switches : lastState[b] = Pressed => held[b] # Never
  BY DEF HoldInv, ReleaseHold, PolledHold, PressHold
<1>3. ASSUME Polled /\ phase' = "queue" => phase = "queue" /\ UNCHANGED lastState,
             \A b \in Buttons \ Switches : Bound(b)'
      PROVE  ReleaseHold'
  BY <1>2, <1>3 DEF ReleaseHold
<1>4. ASSUME phase' = phase, UNCHANGED ReleaseVars, UNCHANGED cur PROVE ReleaseHold'
  <2>1. \A b \in Buttons \ Switches : Bound(b)'
    BY <1>2, <1>4 DEF ReleaseVars, UntilPoll
  <2>2. QED
    BY <1>3, <1>4, <2>1 DEF ReleaseVars
<1>5. CASE QueuePoll
  <2>1. phase = "queue" /\ phase' = "bound" /\ UNCHANGED <<lastState, line, held, hold>> /\ Polled
    BY <1>5 DEF QueuePoll, worldVars, DriverInv, DriverTypes, IrqPhases
  <2>2. QED
    BY <1>2, <1>3, <2>1 DEF Unknown, Pressed
<1>6. CASE PollStarts
  <2>1. /\ phase = "bound" /\ timer[1] = 0 /\ phase' = "poll" /\ cur' = 1 /\ Polled
        /\ UNCHANGED <<lastState, line, held, hold, count>>
    BY <1>6 DEF PollStarts, worldVars
  <2>2. \A b \in Buttons : UntilPoll(b) = 0 /\ UntilPoll(b)' = 0
    BY <2>1 DEF UntilPoll
  <2>3. QED
    BY <1>2, <1>3, <2>1, <2>2
<1>7. CASE PollEnds
  <2>1. /\ phase = "poll" /\ cur \notin Buttons /\ phase' = "bound" /\ Polled
        /\ timer' = [timer EXCEPT ![1] = Delay]
        /\ UNCHANGED <<lastState, line, held, hold, count>>
    BY <1>7 DEF PollEnds, worldVars, DriverInv, DriverTypes, IrqPhases
  <2>2. timer'[1] = Delay
    BY <1>1, <2>1
  <2>3. \A b \in Buttons : UntilPoll(b) = Delay /\ UntilPoll(b)' = Delay
    BY <1>1, <2>1, <2>2 DEF UntilPoll
  <2>4. QED
    BY <1>2, <1>3, <2>1, <2>3
<1>8. CASE PollButton
  <2>1. /\ phase = "poll" /\ phase' = "poll" /\ cur \in Buttons /\ cur' = cur + 1 /\ Polled
        /\ Handle(cur) /\ UNCHANGED <<timer, line>>
    BY <1>8 DEF PollButton, DriverInv, DriverTypes, IrqPhases
  <2>2. /\ \A o \in Buttons \ {cur} : /\ lastState'[o] = lastState[o] /\ count'[o] = count[o]
                                     /\ held'[o] = held[o] /\ hold'[o] = hold[o]
        /\ lastState'[cur] = IF Quiet(cur) \/ Fires(cur) THEN line[cur] ELSE lastState[cur]
        /\ count'[cur] = IF Changed(cur) /\ ~Fires(cur) THEN count[cur] + 1 ELSE 0
        /\ held'[cur] = IF line[cur] = Released /\ lastState'[cur] = Released
                       THEN Never ELSE held[cur]
        /\ held'[cur] # Never => hold'[cur] = hold[cur]
    BY <2>1, HandleOthers
  <2>3. ASSUME NEW b \in Buttons \ Switches, b # cur PROVE Bound(b)'
    <3>1. UntilPoll(b)' = UntilPoll(b)
      BY <1>1, <2>1, <2>3 DEF UntilPoll
    <3>2. QED
      BY <1>2, <2>1, <2>2, <2>3, <3>1
  <2>4. ASSUME NEW b \in Buttons \ Switches, b = cur, lastState'[b] = Pressed, line[b] = Released
        PROVE  held'[b] + UntilPoll(b)' <= hold'[b] + count'[b] * Delay + Delay
    <3>1. lastState[b] = Pressed /\ ~Fires(b) /\ ~Quiet(b)
      BY <2>2, <2>4 DEF Released, Pressed
    <3>2. Changed(b) /\ count'[b] = count[b] + 1
      BY <2>2, <2>4, <3>1 DEF Changed, Released, Pressed
    <3>3. held'[b] = held[b] /\ hold'[b] = hold[b]
      BY <1>2, <2>2, <2>4, <3>1 DEF Released, Pressed
    <3>4. UntilPoll(b) = 0 /\ UntilPoll(b)' = Delay
      BY <1>1, <2>1, <2>4 DEF UntilPoll
    <3>5. held[b] <= hold[b] + count[b] * Delay + Delay
      BY <1>1, <1>2, <2>1, <2>4, <3>1, <3>4
    <3>6. count'[b] * Delay = count[b] * Delay + Delay /\ count[b] * Delay \in Nat
      BY <1>1, <3>2, Products
    <3>7. held[b] \in Int /\ hold[b] \in Int
      BY <1>1 DEF Never
    <3>8. QED
      BY <3>3, <3>4, <3>5, <3>6, <3>7
  <2>5. QED
    BY <1>3, <2>1, <2>3, <2>4
<1>9. CASE RemovePolled
  <2>1. Polled /\ phase' = "gone"
    BY <1>9 DEF RemovePolled
  <2>2. QED
    BY <1>3, <2>1
<1>10. CASE ScheduleFirst \/ CancelWork
  <2>1. ~Polled /\ cur \in Buttons /\ UNCHANGED <<lastState, line, held, hold, missed>>
    BY <1>10 DEF ScheduleFirst, CancelWork, DriverInv, DriverTypes, PolledPhases, worldVars
  <2>2. ASSUME NEW b \in Buttons \ Switches PROVE Bound(b)'
    <3>1. CASE timer'[b] = timer[b]
      BY <1>2, <2>1, <3>1
    <3>2. CASE timer'[b] = Idle
      BY <2>1, <3>2
    <3>3. CASE lastState[b] = Unknown
      BY <2>1, <3>3 DEF Unknown, Pressed
    <3>4. \/ timer' = timer \/ timer' = [timer EXCEPT ![cur] = Idle]
          \/ phase = "schedule" /\ timer' = [timer EXCEPT ![cur] = Delay]
      BY <1>10, Zenon DEF ScheduleFirst, CancelWork
    <3>5. phase = "schedule" => lastState[cur] = Unknown
      BY <2>1 DEF HoldInv, ProbeOrder, Unprobed
    <3>6. QED
      BY <1>1, <2>1, <3>1, <3>2, <3>3, <3>4, <3>5
  <2>3. QED
    BY <1>3, <2>1, <2>2
<1>11. CASE RequestIrq \/ DisableIrq
  <2>1. ~Polled /\ UNCHANGED ReleaseVars
    BY <1>11 DEF RequestIrq, DisableIrq, worldVars, ReleaseVars, DriverInv, DriverTypes, PolledPhases
  <2>2. \A b \in Buttons \ Switches : Bound(b)'
    BY <1>2, <2>1 DEF ReleaseVars
  <2>3. QED
    BY <1>3, <2>1, <2>2
<1>12. ASSUME NEW b \in Buttons, IrqWork(b) PROVE ReleaseHold'
  <2>1. ~Polled /\ timer' = [timer EXCEPT ![b] = Idle] /\ UNCHANGED line /\ Handle(b)
    BY <1>12 DEF IrqWork
  <2>2. \A o \in Buttons \ {b} : /\ lastState'[o] = lastState[o] /\ timer'[o] = timer[o]
                                /\ held'[o] = held[o] /\ hold'[o] = hold[o]
                                /\ missed'[o] = missed[o]
    BY <1>1, <2>1, HandleOthers
  <2>3. ASSUME NEW o \in Buttons \ Switches, o # b PROVE Bound(o)'
    BY <1>2, <2>1, <2>2, <2>3
  <2>4. timer'[b] = Idle
    BY <1>1, <2>1
  <2>5. QED
    BY <1>3, <2>1, <2>3, <2>4
<1>13. CASE Tick
  <2>1. /\ timer' = [b \in Buttons |-> IF timer[b] > 0 THEN timer[b] - 1 ELSE timer[b]]
        /\ held' = [b \in Buttons |-> IF held[b] = Never THEN Never
                                      ELSE Least(held[b] + 1, MaxAge + Lag)]
        /\ phase # "poll" /\ \A b \in Buttons : timer[b] # 0
        /\ UNCHANGED <<lastState, count, cur, phase, line, hold, missed>>
    BY <1>13 DEF Tick
  <2>2. ASSUME NEW b \in Buttons \ Switches, lastState[b] = Pressed, line[b] = Released
        PROVE  Bound(b)'
    <3>1. held'[b] <= held[b] + 1 /\ held'[b] \in Int /\ held[b] \in Int
      BY <1>1, <1>2, <2>1, <2>2 DEF Least, Never
    <3>2. CASE Polled /\ phase = "bound"
      <4>1. 1 \in Buttons /\ timer[1] # 0
        BY <2>1 DEF Buttons
      <4>2. UntilPoll(b)' = UntilPoll(b) - 1 /\ UntilPoll(b) \in Int
        BY <1>1, <1>2, <2>1, <3>2, <4>1 DEF UntilPoll, Idle
      <4>3. held[b] + UntilPoll(b) <= hold[b] + count[b] * Delay + Delay
        BY <1>2, <2>2, <3>2
      <4>4. count[b] * Delay \in Nat /\ hold[b] \in Int
        BY <1>1, Products DEF Never
      <4>5. held'[b] + UntilPoll(b)' <= hold[b] + count[b] * Delay + Delay
        <5>1. PICK p \in Nat, u \in Int, v \in Int :
                  p = count[b] * Delay /\ u = UntilPoll(b) /\ v = UntilPoll(b)'
          BY <4>2, <4>4
        <5>2. v = u - 1 /\ held[b] + u <= hold[b] + p + Delay
          BY <4>2, <4>3, <5>1
        <5>3. held'[b] + v <= hold[b] + p + Delay
          BY <3>1, <4>4, <5>1, <5>2, SMTT(60)
        <5>4. QED
          BY <5>1, <5>3
      <4>6. QED
        BY <2>1, <3>2, <4>5
    <3>3. CASE ~Polled /\ ~missed[b] /\ timer'[b] # Idle
      <4>1. timer[b] # Idle /\ timer'[b] = timer[b] - 1 /\ timer[b] \in Int
        BY <1>1, <2>1, <3>3 DEF Idle
      <4>2. held[b] + timer[b] <= hold[b] + Delay
        BY <1>2, <2>2, <3>3, <4>1
      <4>3. hold[b] \in Int
        BY <1>1 DEF Never
      <4>4. held'[b] + timer'[b] <= hold[b] + Delay
        BY <3>1, <4>1, <4>2, <4>3, SMTT(60)
      <4>5. QED
        BY <2>1, <3>3, <4>4
    <3>4. QED
      BY <2>1, <3>2, <3>3
  <2>3. QED
    BY <1>3, <2>1, <2>2
<1>14. ASSUME NEW b \in Buttons, Edge(b) PROVE ReleaseHold'
  <2>1. /\ held' = [held EXCEPT ![b] = IF @ = Never THEN 0 ELSE @]
        /\ hold' = [hold EXCEPT ![b] = IF line[b] = Pressed THEN held[b] ELSE 0]
        /\ line' = [line EXCEPT ![b] = 1 - @]
        /\ UNCHANGED <<lastState, count, cur, phase>>
        /\ \/ irq[b] = "on" /\ timer' = [timer EXCEPT ![b] = Delay]
           \/ irq[b] # "on" /\ missed' = [missed EXCEPT ![b] = ~Polled] /\ UNCHANGED timer
        /\ missed' = [missed EXCEPT ![b] = ~Polled] \/ missed' = missed
    BY <1>14, Zenon DEF Edge
  <2>2. ASSUME NEW o \in Buttons \ Switches, o # b PROVE Bound(o)'
    <3>1. Polled => timer' = timer
      BY <2>1 DEF DriverInv, RemovalInv
    <3>2. Polled => UntilPoll(o)' = UntilPoll(o)
      BY <2>1, <3>1 DEF UntilPoll
    <3>3. /\ held'[o] = held[o] /\ hold'[o] = hold[o] /\ line'[o] = line[o]
          /\ timer'[o] = timer[o] /\ missed'[o] = missed[o]
      BY <1>1, <2>1, <2>2
    <3>4. QED
      BY <1>2, <2>1, <2>2, <3>2, <3>3
  <2>3. ASSUME b \notin Switches, lastState[b] = Pressed, line'[b] = Released PROVE Bound(b)'
    <3>1. line[b] = Pressed
      BY <1>1, <2>1, <2>3 DEF Released, Pressed
    <3>2. held'[b] = held[b] /\ hold'[b] = held[b] /\ held[b] \in Nat
      BY <1>1, <1>2, <2>1, <3>1 DEF Never
    <3>3. CASE Polled /\ phase \in {"bound", "poll"}
      <4>1. timer' = timer
        BY <2>1, <3>3 DEF DriverInv, RemovalInv
      <4>2. UntilPoll(b)' \in 0 .. Delay
        BY <1>1, <1>2, <2>1, <3>3, <4>1 DEF UntilPoll, Idle
      <4>3. count[b] * Delay \in Nat
        BY <1>1, Products
      <4>4. held'[b] + UntilPoll(b)' <= hold'[b] + count[b] * Delay + Delay
        BY <3>2, <4>2, <4>3
      <4>5. QED
        BY <2>1, <3>3, <4>4
    <3>4. CASE ~Polled /\ ~missed'[b]
      <4>1. irq[b] = "on" /\ timer'[b] = Delay
        BY <1>1, <2>1, <3>4
      <4>2. QED
        BY <3>2, <3>4, <4>1
    <3>5. QED
      BY <2>1, <3>3, <3>4
  <2>4. QED
    BY <1>3, <2>1, <2>2, <2>3
<1>15. ASSUME NEW i \in DOMAIN events, Worker(i) PROVE ReleaseHold'
  BY <1>4, <1>15 DEF Worker, driverVars, worldVars, ReleaseVars
<1>16. CASE UNCHANGED vars
  BY <1>4, <1>16 DEF vars, driverVars, worldVars, ReleaseVars
<1>17. QED
  BY <1>5, <1>6, <1>7, <1>8, <1>9, <1>10, <1>11, <1>12, <1>13, <1>14, <1>15, <1>16
  DEF Next, Front, Driver, Remove

\* A release is reported no later than the debounce time, and a poll interval, after
\* the button was let go.
LEMMA ReleaseNoticed ==
    ASSUME TypeInv, ReleaseHold, Prompt, NEW b \in Buttons \ Switches, ~missed[b],
           Samples(b), Fires(b), lastState[b] = Pressed
    PROVE  held[b] <= hold[b] + Lag + (IF Polled THEN Delay ELSE 0)
<1>1. /\ held[b] \in Int /\ hold[b] \in Int /\ count[b] \in 0 .. Threshold
      /\ line[b] = Released
  BY TypeInvParts DEF Never, Fires, Changed
<1>2. CASE ~Polled
  <2>1. timer[b] = 0 /\ Lag = Delay
    BY <1>2 DEF Samples, IrqWork, Lag
  <2>2. held[b] + timer[b] <= hold[b] + Delay
    BY <1>1, <1>2, <2>1 DEF ReleaseHold, Idle
  <2>3. QED
    BY <1>1, <1>2, <2>1, <2>2
<1>3. CASE Polled
  <2>1. phase = "poll" /\ b = cur
    BY <1>3 DEF Samples, PollButton
  <2>2. count[b] = Threshold /\ Lag = Threshold * Delay /\ Lag \in Nat
    BY <1>1, <1>3, MoreConstantTypes DEF Fires, Lag
  <2>3. UntilPoll(b) = 0
    BY <2>1 DEF UntilPoll
  <2>4. held[b] + UntilPoll(b) <= hold[b] + count[b] * Delay + Delay
    BY <1>1, <1>3, <2>1 DEF ReleaseHold
  <2>5. QED
    BY <1>1, <1>3, <2>2, <2>3, <2>4
<1>4. QED
  BY <1>2, <1>3

LEMMA HoldHolds == Spec => []HoldInv
<1>1. ASSUME Init PROVE HoldInv
  <2>1. /\ timer = [b \in Buttons |-> Idle] /\ irq = [b \in Buttons |-> "none"]
        /\ lastState = [b \in Buttons |-> Unknown] /\ count = [b \in Buttons |-> 0]
        /\ phase \in {"queue", "schedule"} /\ (phase = "schedule" => ~Polled)
        /\ held = [b \in Buttons |-> IF line[b] = Pressed THEN 0 ELSE Never]
    BY <1>1 DEF Init
  <2>2. ProbeOrder /\ PolledHold /\ IrqHold
    BY <2>1 DEF ProbeOrder, Unprobed, PolledHold, IrqHold
  <2>3. PressHold
    BY <2>1 DEF PressHold, Unknown, Pressed, Never
  <2>4. ReleaseHold
    BY <2>1 DEF ReleaseHold, Unknown, Pressed
  <2>5. QED
    BY <2>2, <2>3, <2>4 DEF HoldInv
<1>2. DriverInv /\ TypeInv /\ AlternateInv /\ HoldInv /\ [Next]_vars => HoldInv'
  BY NextProbeOrder, NextPolledHold, NextIrqHold, NextPressHold, NextReleaseHold DEF HoldInv
<1>3. Init => HoldInv
  BY <1>1
<1>4. QED
  BY <1>2, <1>3, DriverHolds, TypesHold, AlternateHolds, PTL DEF Spec

\* SEEN of a release, on which user space decides between a reboot and a reset to
\* factory defaults, is at most the time the key was held, from the first edge of
\* the press to the last of the release, and an interval more if the key is polled,
\* or the debounce time more if the press was reported by the first sample with
\* interrupts: the countdown of the press is part of the hold, and seen starts when
\* that is over; the countdown of the release is as long.
THEOREM SeenIsWithinHold == Spec => SeenWithinHold
<1> DEFINE First(b) == Cardinality({i \in DOMAIN events : events[i].button = b}) = 1
           Bounded(b) ==
      LET ev    == events'[Len(events')]
          first == Cardinality({i \in DOMAIN events : events[i].button = b}) = 1
      IN  /\ Prompt /\ ~missed[b]
          /\ Len(events') > Len(events) /\ ev.button = b /\ ev.action = Released
          => ev.seen * HZ <= hold[b] + (IF Polled \/ first THEN Delay ELSE 0)
<1>1. ASSUME DriverInv, TypeInv, HoldInv, [Next]_vars, NEW b \in Buttons \ Switches
      PROVE  Bounded(b)
  <2> DEFINE ev == events'[Len(events')]
  <2> SUFFICES ASSUME Prompt, ~missed[b],
                      Len(events') > Len(events), ev.button = b, ev.action = Released
               PROVE  ev.seen * HZ <= hold[b] + (IF Polled \/ First(b) THEN Delay ELSE 0)
    OBVIOUS
  <2>1. PICK o \in Buttons : Samples(o) /\ Fires(o)
    BY <1>1, EventGrows
  <2>2. /\ o = b /\ ev.action = line[b] /\ ev.seen = Seen(b)
        /\ lastState[b] # line[b]
        /\ lastState[b] = Unknown /\ b \notin Switches => line[b] = Pressed
    BY <1>1, <2>1, FiresCreates DEF Samples
  <2>3. lastState[b] = Pressed
    BY <1>1, <2>2, TypeInvParts, SMTT(60) DEF Released, Pressed
  <2>4. /\ held[b] # Never /\ age[b] # Never
        /\ \/ held[b] >= age[b] + Lag
           \/ ~Polled /\ held[b] >= age[b] /\ First(b)
    <3>1. ASSUME NEW k \in DOMAIN events, EventsOf(b) = {k} PROVE First(b)
      <4>1. Cardinality(EventsOf(b)) = 1
        BY <3>1, FS_Singleton
      <4>2. QED
        BY <4>1 DEF EventsOf
    <3>2. QED
      BY <1>1, <2>3, <3>1 DEF HoldInv, PressHold
  <2>5. held[b] <= hold[b] + Lag + (IF Polled THEN Delay ELSE 0)
    BY <1>1, <2>1, <2>2, <2>3, ReleaseNoticed DEF HoldInv
  <2>6. /\ held[b] \in Nat /\ age[b] \in Nat /\ Lag \in Nat /\ HZ \in Nat /\ hold[b] \in Int
        /\ Delay \in Nat /\ (~Polled => Lag = Delay)
    BY <1>1, <2>4, TypeInvParts, MoreConstantTypes, SMTT(60) DEF Times, Never, Lag
  <2>7. Seen(b) \in Nat /\ Seen(b) * HZ <= age[b]
    BY <1>1, <2>4, TypeInvParts, SeenType
  <2>8. Seen(b) * HZ \in Nat
    BY <2>6, <2>7
  <2>9. PICK x \in Nat : x = Seen(b) * HZ
    BY <2>8
  <2>10. x <= age[b] /\ ev.seen * HZ = x
    BY <2>2, <2>7, <2>9
  <2> HIDE DEF First, ev
  <2>11. x <= hold[b] + (IF Polled \/ First(b) THEN Delay ELSE 0)
    BY <2>4, <2>5, <2>6, <2>9, <2>10, SMTT(60)
  <2>12. QED
    BY <2>10, <2>11
<1>2. DriverInv /\ TypeInv /\ HoldInv /\ [Next]_vars
      => [\A b \in Buttons \ Switches : Bounded(b)]_vars
  BY <1>1
<1>3. QED
  BY <1>2, DriverHolds, TypesHold, HoldHolds, PTL DEF Spec, SeenWithinHold
-----------------------------------------------------------------------------
LEMMA NextSerial ==
    ASSUME SerialDelivery
    PROVE  DriverInv /\ TypeInv /\ SerialInv /\ [Next]_vars => SerialInv'
<1> SUFFICES ASSUME DriverInv, TypeInv, SerialInv, [Next]_vars PROVE SerialInv'
  OBVIOUS
<1>1. EventTypes
  BY TypeInvParts
<1>2. CASE UNCHANGED <<events, buf, seqnum, sent>>
  BY <1>2 DEF SerialInv, OneRunning, OwnMessages, Numbers
<1>3. ASSUME NEW b \in Buttons, Handle(b), Fires(b) PROVE SerialInv'
  <2> DEFINE a == line[b]
             t == Seen(b)
  <2>1. a \in {Released, Pressed} /\ t \in Nat /\ Create(b, a, t)
    BY <1>3, TypeInvParts, SeenType DEF Handle
  <2> HIDE DEF a, t
  <2>2. QED
    BY <1>1, <2>1, CreateSerial
<1>4. ASSUME NEW b \in Buttons, Samples(b) PROVE SerialInv'
  BY <1>2, <1>3, <1>4 DEF Samples, Handle, eventVars
<1>5. ASSUME NEW i \in DOMAIN events, Work(i) PROVE SerialInv'
  BY <1>1, <1>5, WorkSerial
<1>6. QED
  BY <1>2, <1>4, <1>5, StepKinds

LEMMA SerialHolds == ASSUME SerialDelivery PROVE Spec => []SerialInv
<1>1. Init => SerialInv
  BY InitSerial DEF Init
<1>2. DriverInv /\ TypeInv /\ SerialInv /\ [Next]_vars => SerialInv'
  BY NextSerial
<1>3. QED
  BY <1>1, <1>2, DriverHolds, TypesHold, PTL DEF Spec

\* While the events are delivered one at a time, on one CPU that no woken worker
\* shares, each message has all variables of its own event, with their values:
\* bh_event_add_var's static buffer is never overwritten between the formatting
\* and the copying.
THEOREM SerialMessagesIntact == ASSUME SerialDelivery PROVE Spec => []Intact
<1>1. ASSUME TypeInv, SerialInv PROVE Intact
  <2>1. ASSUME NEW i \in DOMAIN events, events[i].st = "sent"
        PROVE  events[i].msg = [n \in DOMAIN Fields(events[i].button) |->
                  LET f == Fields(events[i].button)[n] IN <<f, Value(events[i], f)>>]
    <3> DEFINE F == Fields(events[i].button)
    <3>1. events[i] \in Event
      BY <1>1, TypeInvParts, SMTT(60) DEF EventTypes
    <3>2. /\ Len(events[i].msg) = Len(F)
          /\ \A n \in 1 .. Len(F) : events[i].msg[n] = Entry(events[i], n)
      BY <1>1, <2>1 DEF SerialInv, OwnMessages, OwnMessage
    <3>3. events[i].msg \in Seq(Names \X Nat) /\ F \in Seq(Names)
      BY <3>1, FieldsValue DEF Event, Names
    <3>4. DOMAIN events[i].msg = DOMAIN F /\ DOMAIN F = 1 .. Len(F)
      BY <3>2, <3>3
    <3>5. events[i].msg = [n \in DOMAIN F |-> events[i].msg[n]]
      <4>1. PICK m \in Seq(Names \X Nat) : m = events[i].msg
        BY <3>3
      <4>2. m = [n \in DOMAIN m |-> m[n]]
        BY <4>1
      <4>3. QED
        BY <3>4, <4>1, <4>2, Zenon
    <3>6. \A n \in DOMAIN F : events[i].msg[n] = <<F[n], Value(events[i], F[n])>>
      BY <3>2, <3>4 DEF Entry
    <3>7. QED
      BY <3>5, <3>6, Zenon
  <2>2. QED
    BY <2>1 DEF Intact
<1>2. TypeInv /\ SerialInv => Intact
  BY <1>1
<1>3. QED
  BY <1>2, TypesHold, SerialHolds, PTL

\* And the messages arrive in the order of their sequence numbers, but for those
\* that slept in broadcast_uevent: a number out of order tells user space of such a
\* one, and of nothing else.
THEOREM SerialMessagesInSequence == ASSUME SerialDelivery PROVE Spec => []InSequence
<1>1. SerialInv => InSequence
  BY DEF SerialInv, Numbers, InSequence
<1>2. QED
  BY <1>1, SerialHolds, PTL
=============================================================================
