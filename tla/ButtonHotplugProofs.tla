------------------------ MODULE ButtonHotplugProofs ------------------------
(***************************************************************************)
(* What holds of the driver for any number of buttons, delays, thresholds  *)
(* and faults: it removes itself cleanly, and while an interrupt is on it  *)
(* knows the level of the line.  Neither depends on how events reach user  *)
(* space, so the steps of the workers are of no concern.                   *)
(***************************************************************************)
EXTENDS ButtonHotplug, TLAPS

LEMMA ConstantTypes ==
    /\ Polled \in BOOLEAN
    /\ Threshold \in Nat /\ Delay \in Nat
    /\ ~Polled => Threshold = 0
    /\ NButtons \in Nat \ {0}
    /\ Buttons = 1 .. NButtons /\ 1 \in Buttons
BY EventAssumption, DriverAssumption DEF Buttons

\* Setting one entry of a function keeps its type.
LEMMA ExceptType ==
    ASSUME NEW S, NEW T, NEW f \in [S -> T], NEW x, NEW v \in T
    PROVE  [f EXCEPT ![x] = v] \in [S -> T]
OBVIOUS

LEMMA NegationType == ASSUME NEW p PROVE (~p) \in BOOLEAN
BY SMT

USE ConstantTypes

PolledPhases == {"queue", "bound", "poll", "gone"}
IrqPhases    == {"schedule", "request", "bound", "disable", "cancel", "gone"}

\* The part of the state the argument is about, with the phases of each mode.
DriverTypes ==
    /\ line \in [Buttons -> {Released, Pressed}]
    /\ lastState \in [Buttons -> {Unknown, Released, Pressed}]
    /\ count \in [Buttons -> Nat]
    /\ irq \in [Buttons -> {"none", "on", "off"}]
    /\ timer \in [Buttons -> Int]
    /\ missed \in [Buttons -> BOOLEAN]
    /\ cur \in Nat
    /\ IF Polled THEN phase \in PolledPhases ELSE phase \in IrqPhases /\ cur \in Buttons

\* A button that can queue no work: no interrupt, and nothing under way.
Silent(b) == irq[b] # "on" /\ timer[b] = Idle

\* Removal silences one button after the other, its interrupt before its work;
\* a polled device has no interrupt and the work of all its buttons in timer[1].
RemovalInv ==
    /\ Polled => \A b \in Buttons : irq[b] = "none" /\ (b # 1 => timer[b] = Idle)
    /\ phase \in {"disable", "cancel"} => \A b \in Buttons : b < cur => Silent(b)
    /\ phase = "cancel" => irq[cur] # "on"
    /\ phase = "gone" => \A b \in Buttons : Silent(b)

\* From the first sample's schedule on, and until its interrupt is disabled, a
\* button without work under way has been sampled since its line last changed,
\* or has missed an edge.
SampledInv ==
    \A b \in Buttons :
        /\ irq[b] = "on" \/ (phase = "request" /\ b = cur)
        /\ timer[b] = Idle /\ ~missed[b]
        => lastState[b] = line[b]

DriverInv == DriverTypes /\ RemovalInv /\ SampledInv
-----------------------------------------------------------------------------
LEMMA InitDriver == Init => DriverInv
<1>1. SUFFICES ASSUME Init PROVE DriverInv
  OBVIOUS
<1>2. 1 \in Buttons
  BY DEF Buttons
<1>3. DriverTypes
  BY <1>1, <1>2 DEF Init, DriverTypes, PolledPhases, IrqPhases, Unknown, Idle, Released, Pressed
<1>4. RemovalInv /\ SampledInv
  BY <1>1 DEF Init, RemovalInv, SampledInv
<1>5. QED
  BY <1>3, <1>4 DEF DriverInv

\* With interrupts a sample settles the state: the threshold is 0.
LEMMA HandleSettles ==
    ASSUME DriverTypes, NEW b \in Buttons, Handle(b)
    PROVE  /\ lastState' \in [Buttons -> {Unknown, Released, Pressed}]
           /\ count' \in [Buttons -> Nat]
           /\ missed' \in [Buttons -> BOOLEAN]
           /\ \A o \in Buttons \ {b} : lastState'[o] = lastState[o] /\ missed'[o] = missed[o]
           /\ ~Polled => lastState'[b] = line[b]
<1>1. lastState' = [lastState EXCEPT ![b] = IF Quiet(b) \/ Fires(b) THEN line[b] ELSE @]
  BY DEF Handle
<1>2. count' = [count EXCEPT ![b] = IF Changed(b) /\ ~Fires(b) THEN @ + 1 ELSE 0]
  BY DEF Handle
<1>3. missed' = [missed EXCEPT ![b] = FALSE]
  BY DEF Handle
<1>4. lastState' \in [Buttons -> {Unknown, Released, Pressed}]
  BY <1>1 DEF DriverTypes
<1>5. count' \in [Buttons -> Nat]
  BY <1>2 DEF DriverTypes
<1>6. missed' \in [Buttons -> BOOLEAN]
  BY <1>3 DEF DriverTypes
<1>7. \A o \in Buttons \ {b} : lastState'[o] = lastState[o] /\ missed'[o] = missed[o]
  BY <1>1, <1>3 DEF DriverTypes
<1>8. ASSUME ~Polled PROVE lastState'[b] = line[b]
  <2>1. count[b] >= Threshold
    BY <1>8 DEF DriverTypes
  <2>2. Changed(b) => Fires(b)
    BY <2>1 DEF Fires
  <2>3. ~Changed(b) => lastState[b] = line[b] \/ Quiet(b)
    BY DEF Changed
  <2>4. QED
    BY <1>1, <2>2, <2>3 DEF DriverTypes
<1>9. QED
  BY <1>4, <1>5, <1>6, <1>7, <1>8
-----------------------------------------------------------------------------
\* A step keeps the types and the phases of the mode.
LEMMA FrontTypes == DriverTypes /\ [Front]_vars => DriverTypes'
<1> SUFFICES ASSUME DriverTypes, [Front]_vars PROVE DriverTypes'
  OBVIOUS
<1> USE DEF Unknown, Idle, Released, Pressed
<1>1. CASE QueuePoll
  BY <1>1 DEF QueuePoll, worldVars, DriverTypes, PolledPhases, IrqPhases
<1>2. CASE PollStarts
  BY <1>2 DEF PollStarts, worldVars, DriverTypes, PolledPhases, IrqPhases
<1>3. CASE PollButton
  <2>1. Polled
    BY <1>3 DEF PollButton, DriverTypes, IrqPhases
  <2>2. cur \in Buttons /\ Handle(cur)
    BY <1>3 DEF PollButton
  <2>3. lastState' \in [Buttons -> {Unknown, Released, Pressed}]
        /\ count' \in [Buttons -> Nat] /\ missed' \in [Buttons -> BOOLEAN]
    BY <2>2, HandleSettles
  <2>4. QED
    BY <1>3, <2>1, <2>3 DEF PollButton, DriverTypes
<1>4. CASE PollEnds
  BY <1>4 DEF PollEnds, worldVars, DriverTypes, PolledPhases, IrqPhases
<1>5. CASE ScheduleFirst
  BY <1>5, SMTT(60) DEF ScheduleFirst, NextButton, worldVars, DriverTypes, PolledPhases, IrqPhases, Buttons
<1>6. CASE RequestIrq
  BY <1>6, SMTT(60) DEF RequestIrq, NextButton, worldVars, DriverTypes, PolledPhases, IrqPhases, Buttons
<1>7. CASE CancelWork
  BY <1>7, SMTT(60) DEF CancelWork, worldVars, DriverTypes, PolledPhases, IrqPhases, Buttons
<1>8. ASSUME NEW b \in Buttons, IrqWork(b) PROVE DriverTypes'
  <2>1. lastState' \in [Buttons -> {Unknown, Released, Pressed}]
        /\ count' \in [Buttons -> Nat] /\ missed' \in [Buttons -> BOOLEAN]
    BY <1>8, HandleSettles DEF IrqWork
  <2>2. QED
    BY <1>8, <2>1 DEF IrqWork, DriverTypes
<1>9. CASE RemovePolled
  BY <1>9 DEF RemovePolled, worldVars, DriverTypes, PolledPhases, IrqPhases
<1>10. CASE DisableIrq
  BY <1>10 DEF DisableIrq, worldVars, DriverTypes, PolledPhases, IrqPhases, Buttons
<1>11. CASE Tick
  BY <1>11 DEF Tick, DriverTypes
<1>12. ASSUME NEW b \in Buttons, Edge(b) PROVE DriverTypes'
  <2>1. line' \in [Buttons -> {Released, Pressed}]
    <3>1. line' = [line EXCEPT ![b] = 1 - line[b]]
      BY <1>12, Zenon DEF Edge
    <3>2. 1 - line[b] \in {Released, Pressed}
      <4>1. line[b] = 0 \/ line[b] = 1
        BY Zenon DEF DriverTypes
      <4>2. QED
        BY <4>1
    <3>3. QED
      BY <3>1, <3>2 DEF DriverTypes
  <2>2. timer' \in [Buttons -> Int] /\ missed' \in [Buttons -> BOOLEAN]
    <3>1. \/ timer' = [timer EXCEPT ![b] = Delay] /\ missed' = missed
          \/ missed' = [missed EXCEPT ![b] = ~Polled] /\ timer' = timer
      BY <1>12, Zenon DEF Edge
    <3>2. (~Polled) \in BOOLEAN
      BY NegationType, Zenon
    <3>3. [missed EXCEPT ![b] = ~Polled] \in [Buttons -> BOOLEAN]
      BY <3>2, ExceptType, Zenon DEF DriverTypes
    <3>4. [timer EXCEPT ![b] = Delay] \in [Buttons -> Int]
      BY DEF DriverTypes
    <3>5. timer \in [Buttons -> Int] /\ missed \in [Buttons -> BOOLEAN]
      BY Zenon DEF DriverTypes
    <3>6. QED
      BY <3>1, <3>3, <3>4, <3>5, Zenon
  <2>3. QED
    BY <1>12, <2>1, <2>2 DEF Edge, DriverTypes
<1>13. CASE UNCHANGED vars
  BY <1>13 DEF vars, driverVars, worldVars, DriverTypes
<1>14. QED
  BY <1>1, <1>2, <1>3, <1>4, <1>5, <1>6, <1>7, <1>8, <1>9, <1>10, <1>11, <1>12, <1>13
  DEF Front, Driver, Remove

LEMMA FrontRemoval == DriverTypes /\ RemovalInv /\ [Front]_vars => RemovalInv'
<1> SUFFICES ASSUME DriverTypes, RemovalInv, [Front]_vars PROVE RemovalInv'
  OBVIOUS
<1> USE DEF RemovalInv, Silent, DriverTypes, PolledPhases, IrqPhases, Buttons, Idle
<1>1. CASE QueuePoll
  BY <1>1 DEF QueuePoll
<1>2. CASE PollStarts
  BY <1>2 DEF PollStarts
<1>3. CASE PollButton
  BY <1>3 DEF PollButton
<1>4. CASE PollEnds
  BY <1>4 DEF PollEnds
<1>5. CASE ScheduleFirst
  BY <1>5 DEF ScheduleFirst, NextButton
<1>6. CASE RequestIrq
  BY <1>6 DEF RequestIrq, NextButton
<1>7. CASE CancelWork
  BY <1>7, SMTT(60) DEF CancelWork
<1>8. ASSUME NEW b \in Buttons, IrqWork(b) PROVE RemovalInv'
  BY <1>8 DEF IrqWork
<1>9. CASE RemovePolled
  BY <1>9 DEF RemovePolled
<1>10. CASE DisableIrq
  BY <1>10 DEF DisableIrq
<1>11. CASE Tick
  BY <1>11 DEF Tick
<1>12. ASSUME NEW b \in Buttons, Edge(b) PROVE RemovalInv'
  BY <1>12 DEF Edge
<1>13. CASE UNCHANGED vars
  BY <1>13 DEF vars, driverVars
<1>14. QED
  BY <1>1, <1>2, <1>3, <1>4, <1>5, <1>6, <1>7, <1>8, <1>9, <1>10, <1>11, <1>12, <1>13
  DEF Front, Driver, Remove

LEMMA FrontSampled == DriverTypes /\ RemovalInv /\ SampledInv /\ [Front]_vars => SampledInv'
<1> SUFFICES ASSUME DriverTypes, RemovalInv, SampledInv, [Front]_vars PROVE SampledInv'
  OBVIOUS
<1>1. CASE Polled
  <2>1. DriverTypes' /\ RemovalInv'
    BY FrontTypes, FrontRemoval
  <2>2. QED
    BY <1>1, <2>1 DEF SampledInv, DriverTypes, RemovalInv, PolledPhases
<1>2. ASSUME ~Polled PROVE SampledInv'
  <2> USE <1>2
  <2>1. CASE QueuePoll \/ PollStarts \/ PollButton \/ PollEnds \/ RemovePolled
    BY <2>1 DEF QueuePoll, PollStarts, PollButton, PollEnds, RemovePolled, DriverTypes, IrqPhases
  <2>2. CASE ScheduleFirst
    BY <2>2, SMTT(60) DEF ScheduleFirst, NextButton, worldVars, SampledInv, DriverTypes, Idle
  <2>3. CASE RequestIrq
    BY <2>3 DEF RequestIrq, NextButton, worldVars, SampledInv, DriverTypes
  <2>4. CASE CancelWork
    BY <2>4 DEF CancelWork, worldVars, SampledInv, RemovalInv, DriverTypes
  <2>5. ASSUME NEW b \in Buttons, IrqWork(b) PROVE SampledInv'
    <3>1. /\ \A o \in Buttons \ {b} : lastState'[o] = lastState[o] /\ missed'[o] = missed[o]
          /\ lastState'[b] = line[b]
      BY <2>5, HandleSettles DEF IrqWork
    <3>2. QED
      BY <2>5, <3>1 DEF IrqWork, SampledInv, DriverTypes
  <2>6. CASE DisableIrq
    BY <2>6 DEF DisableIrq, worldVars, SampledInv, DriverTypes
  <2>7. CASE Tick
    BY <2>7 DEF Tick, SampledInv, DriverTypes, Idle
  <2>8. ASSUME NEW b \in Buttons, Edge(b) PROVE SampledInv'
    <3>1. CASE irq[b] = "on"
      BY <2>8, <3>1, SMTT(60) DEF Edge, SampledInv, DriverTypes, Idle
    <3>2. CASE irq[b] # "on"
      BY <2>8, <3>2 DEF Edge, SampledInv, DriverTypes
    <3>3. QED
      BY <3>1, <3>2
  <2>9. CASE UNCHANGED vars
    BY <2>9 DEF vars, driverVars, worldVars, SampledInv
  <2>10. QED
    BY <2>1, <2>2, <2>3, <2>4, <2>5, <2>6, <2>7, <2>8, <2>9 DEF Front, Driver, Remove
<1>3. QED
  BY <1>1, <1>2

\* Neither an event's delivery nor anything else disturbs the invariant.
LEMMA NextDriver == DriverInv /\ [Next]_vars => DriverInv'
<1> SUFFICES ASSUME DriverInv, [Next]_vars PROVE DriverInv'
  OBVIOUS
<1>1. CASE [Front]_vars
  BY <1>1, FrontTypes, FrontRemoval, FrontSampled DEF DriverInv
<1>2. ASSUME NEW i \in DOMAIN events, Worker(i) PROVE DriverInv'
  BY <1>2 DEF Worker, driverVars, worldVars, DriverInv, DriverTypes, RemovalInv, SampledInv, Silent
<1>3. QED
  BY <1>1, <1>2 DEF Next
-----------------------------------------------------------------------------
LEMMA DriverHolds == Spec => []DriverInv
<1>1. Init => DriverInv
  BY InitDriver
<1>2. DriverInv /\ [Next]_vars => DriverInv'
  BY NextDriver
<1>3. QED
  BY <1>1, <1>2, PTL DEF Spec

\* gpio_keys_remove and gpio_keys_polled_remove leave no work and no interrupt
\* behind, however many buttons there are and whatever happens on the way.
THEOREM RemovalIsClean == Spec => []QuietAfterRemove
<1>1. DriverInv => QuietAfterRemove
  BY DEF DriverInv, RemovalInv, QuietAfterRemove, Silent
<1>2. QED
  BY <1>1, DriverHolds, PTL

\* A button whose interrupt is on and that has no work under way was sampled at
\* the level its line has, unless an edge fell between the first sample and the
\* request of the interrupt.
THEOREM IrqKeepsUp == Spec => []Synced
<1>1. DriverInv => Synced
  BY DEF DriverInv, SampledInv, Synced
<1>2. QED
  BY <1>1, DriverHolds, PTL
=============================================================================
